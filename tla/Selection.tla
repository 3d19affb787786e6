----------------------------- MODULE Selection -----------------------------
(***************************************************************************)
(* The list comprehensions and stable sorts by a condition of the code,     *)
(* over sequences.  Only is SelectSeq for membership in a set, written as   *)
(* a recursive function: the proof system has no definition of SelectSeq.   *)
(***************************************************************************)
EXTENDS Naturals, Sequences, Functions

\* [x for x in seq if x in set]
Only(seq, set) ==
    LET kept[n \in 0 .. Len(seq)] ==
            IF n = 0 THEN <<>>
            ELSE IF seq[n] \in set THEN Append(kept[n - 1], seq[n]) ELSE kept[n - 1]
    IN  kept[Len(seq)]

\* sorted(seq, key=lambda x: x in late): a stable sort, those of the set go last.
Behind(seq, late) == Only(seq, Range(seq) \ late) \o Only(seq, late)
=============================================================================
