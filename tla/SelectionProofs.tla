-------------------------- MODULE SelectionProofs --------------------------
(***************************************************************************)
(* What Only and Behind return, for every sequence: facts that need an      *)
(* induction over its length.  The induction rests on the library's theorem *)
(* that < is well founded on Nat: a set of numbers without a least one is   *)
(* empty.  Sets stand for predicates, which the provers cannot instantiate. *)
(***************************************************************************)
EXTENDS Selection, SequenceTheorems, WellFoundedInduction, TLAPS

\* The order of the natural numbers is a well-founded relation.
LEMMA NatOrder == \E R : IsWellFoundedOn(R, Nat) /\ \A x, y \in Nat : x < y => <<x, y>> \in R
<1> DEFINE R == OpToRel(<, Nat)
<1>1. IsWellFoundedOn(R, Nat)
  BY NatLessThanWellFounded
<1>2. \A x, y \in Nat : x < y => <<x, y>> \in R
  BY DEF OpToRel
<1> HIDE DEF R
<1> QED BY <1>1, <1>2

\* Every set of natural numbers has a least one.
LEMMA LeastNumber == ASSUME NEW T, T \subseteq Nat, T # {} PROVE \E x \in T : \A y \in T : x <= y
<1>1. PICK R : IsWellFoundedOn(R, Nat) /\ \A x, y \in Nat : x < y => <<x, y>> \in R
  BY NatOrder
<1>2. PICK x \in T : \A y \in T : ~ (<<y, x>> \in R)
  <2>1. IsWellFoundedOn(R, Nat) /\ T \subseteq Nat /\ T # {}
    BY <1>1
  <2> QED BY <2>1, WFMin, ZenonT(60)
<1>3. \A y \in T : x <= y
  <2> TAKE y \in T
  <2>1. x \in Nat /\ y \in Nat
    OBVIOUS
  <2>2. ~ (y < x)
    BY <1>1, <1>2, <2>1
  <2> QED BY <2>1, <2>2
<1> QED BY <1>3

\* Induction over the natural numbers, for a set.
LEMMA Induction ==
    ASSUME NEW S, 0 \in S, \A n \in Nat : n \in S => n + 1 \in S
    PROVE  Nat \subseteq S
<1>1. SUFFICES ASSUME Nat \ S # {} PROVE FALSE
  OBVIOUS
<1>2. PICK x \in Nat \ S : \A y \in Nat \ S : x <= y
  BY <1>1, LeastNumber
<1> QED BY <1>2
-----------------------------------------------------------------------------
\* What the recursive function inside Only satisfies, up to m elements.
Keeps(seq, set, m, g) ==
    g = [n \in 0 .. m |-> IF n = 0 THEN <<>>
                          ELSE IF seq[n] \in set THEN Append(g[n - 1], seq[n]) ELSE g[n - 1]]

\* There is such a function, so that its definition says what it is.
LEMMA KeepsExists == ASSUME NEW seq, NEW set, NEW m \in Nat PROVE \E g : Keeps(seq, set, m, g)
<1> DEFINE S == {k \in Nat : \E g : Keeps(seq, set, k, g)}
<1>1. 0 \in S
  <2> DEFINE g == [n \in 0 .. 0 |-> <<>>]
  <2>1. Keeps(seq, set, 0, g)
    BY DEF Keeps
  <2> QED BY <2>1
<1>2. ASSUME NEW k \in Nat, k \in S PROVE k + 1 \in S
  <2>1. PICK g : Keeps(seq, set, k, g)
    BY <1>2
  <2> DEFINE Next(n) == IF n = 0 THEN <<>>
                        ELSE IF seq[n] \in set THEN Append(g[n - 1], seq[n]) ELSE g[n - 1]
             h == [n \in 0 .. k + 1 |-> Next(n)]
  <2>2. ASSUME NEW n \in 0 .. k PROVE h[n] = g[n]
    <3>1. n \in 0 .. k + 1
      OBVIOUS
    <3>2. h[n] = Next(n)
      BY <3>1, Zenon
    <3>3. g[n] = Next(n)
      BY <2>1, Zenon DEF Keeps
    <3> QED BY <3>2, <3>3, Zenon
  <2>3. \A n \in 0 .. k + 1 : n # 0 => n - 1 \in 0 .. k
    OBVIOUS
  <2>4. Keeps(seq, set, k + 1, h)
    BY <2>2, <2>3 DEF Keeps
  <2> QED BY <2>4
<1>3. Nat \subseteq S
  <2> HIDE DEF S
  <2> QED BY <1>1, <1>2, Induction
<1> QED BY <1>3

\* The recursion equation of Only.
LEMMA OnlyIsKept ==
    ASSUME NEW seq, NEW set, Len(seq) \in Nat
    PROVE  \E g : Keeps(seq, set, Len(seq), g) /\ Only(seq, set) = g[Len(seq)]
<1> DEFINE f == CHOOSE g : Keeps(seq, set, Len(seq), g)
<1>1. Keeps(seq, set, Len(seq), f)
  BY KeepsExists
<1>2. Only(seq, set) = f[Len(seq)]
  BY DEF Only, Keeps
<1> QED BY <1>1, <1>2

\* Appending adds one element.
LEMMA RangeOfAppend ==
    ASSUME NEW S, NEW t \in Seq(S), NEW x \in S
    PROVE  Append(t, x) \in Seq(S) /\ Range(Append(t, x)) = Range(t) \cup {x}
<1>1. DOMAIN Append(t, x) = DOMAIN t \cup {Len(t) + 1}
  OBVIOUS
<1>2. \A i \in DOMAIN t : Append(t, x)[i] = t[i]
  OBVIOUS
<1>3. Append(t, x)[Len(t) + 1] = x
  OBVIOUS
<1> QED BY <1>1, <1>2, <1>3 DEF Range

\* Only is a sequence of elements of seq, of exactly those that are in the set.
LEMMA OnlySelects ==
    ASSUME NEW S, NEW seq \in Seq(S), NEW set
    PROVE  Only(seq, set) \in Seq(S) /\ Range(Only(seq, set)) = Range(seq) \cap set
<1> DEFINE Seen(n) == {seq[i] : i \in 1 .. n}
           Good(s, n) == s \in Seq(S) /\ Range(s) = Seen(n) \cap set
<1>1. PICK g : Keeps(seq, set, Len(seq), g) /\ Only(seq, set) = g[Len(seq)]
  BY OnlyIsKept
<1> DEFINE T == {n \in Nat : n <= Len(seq) => Good(g[n], n)}
<1>2. Len(seq) \in Nat
  OBVIOUS
<1>3. \A k \in 0 .. Len(seq) :
         g[k] = IF k = 0 THEN <<>> ELSE IF seq[k] \in set THEN Append(g[k - 1], seq[k]) ELSE g[k - 1]
  BY <1>1, Zenon DEF Keeps
<1>4. 0 \in T
  <2>1. g[0] = <<>>
    BY <1>2, <1>3
  <2>2. Good(<<>>, 0)
    BY DEF Range
  <2> HIDE DEF Good
  <2> QED BY <2>1, <2>2
<1>5. ASSUME NEW n \in Nat, n \in T PROVE n + 1 \in T
  <2>1. SUFFICES ASSUME n + 1 <= Len(seq) PROVE Good(g[n + 1], n + 1)
    <3> HIDE DEF Good
    <3> QED OBVIOUS
  <2>2. Good(g[n], n)
    <3>1. n <= Len(seq)
      BY <2>1, <1>2
    <3> HIDE DEF Good
    <3> QED BY <3>1, <1>5
  <2>3. g[n + 1] = IF seq[n + 1] \in set THEN Append(g[n], seq[n + 1]) ELSE g[n]
    <3>1. n + 1 \in 0 .. Len(seq) /\ n + 1 # 0 /\ n + 1 - 1 = n
      BY <2>1, <1>2
    <3> QED BY <1>3, <3>1
  <2>4. seq[n + 1] \in S
    BY <2>1
  <2>5. Seen(n + 1) = Seen(n) \cup {seq[n + 1]}
    <3>1. 1 .. n + 1 = (1 .. n) \cup {n + 1}
      OBVIOUS
    <3>2. {seq[i] : i \in (1 .. n) \cup {n + 1}} = {seq[i] : i \in 1 .. n} \cup {seq[n + 1]}
      OBVIOUS
    <3> QED BY <3>1, <3>2
  <2> HIDE DEF Seen
  <2>6. CASE seq[n + 1] \in set
    <3>1. g[n + 1] = Append(g[n], seq[n + 1])
      BY <2>3, <2>6
    <3>2. g[n + 1] \in Seq(S) /\ Range(g[n + 1]) = Range(g[n]) \cup {seq[n + 1]}
      BY <3>1, <2>2, <2>4, RangeOfAppend
    <3> QED BY <3>2, <2>2, <2>5, <2>6
  <2>7. CASE seq[n + 1] \notin set
    BY <2>2, <2>3, <2>5, <2>7
  <2> QED BY <2>6, <2>7
<1>6. Good(g[Len(seq)], Len(seq))
  <2>1. Nat \subseteq T
    <3> HIDE DEF T
    <3> QED BY <1>4, <1>5, Induction
  <2> HIDE DEF Good
  <2> QED BY <2>1, <1>2
<1>7. Seen(Len(seq)) = Range(seq)
  BY DEF Range
<1> QED BY <1>1, <1>6, <1>7

\* Where every element is in the set, none is left out.
LEMMA OnlyKeepsAll ==
    ASSUME NEW S, NEW seq \in Seq(S), NEW set, S \subseteq set
    PROVE  Len(Only(seq, set)) = Len(seq)
<1> DEFINE Good(s, n) == s \in Seq(S) /\ Len(s) = n
<1>1. PICK g : Keeps(seq, set, Len(seq), g) /\ Only(seq, set) = g[Len(seq)]
  BY OnlyIsKept
<1> DEFINE T == {n \in Nat : n <= Len(seq) => Good(g[n], n)}
<1>2. Len(seq) \in Nat /\ \A i \in 1 .. Len(seq) : seq[i] \in S /\ seq[i] \in set
  OBVIOUS
<1>3. \A k \in 0 .. Len(seq) :
         g[k] = IF k = 0 THEN <<>> ELSE IF seq[k] \in set THEN Append(g[k - 1], seq[k]) ELSE g[k - 1]
  BY <1>1, Zenon DEF Keeps
<1>4. 0 \in T
  <2>1. g[0] = <<>>
    BY <1>2, <1>3
  <2>2. Good(<<>>, 0)
    OBVIOUS
  <2> HIDE DEF Good
  <2> QED BY <2>1, <2>2
<1>5. ASSUME NEW n \in Nat, n \in T PROVE n + 1 \in T
  <2>1. SUFFICES ASSUME n + 1 <= Len(seq) PROVE Good(g[n + 1], n + 1)
    <3> HIDE DEF Good
    <3> QED OBVIOUS
  <2>2. Good(g[n], n)
    <3>1. n <= Len(seq)
      BY <2>1, <1>2
    <3> HIDE DEF Good
    <3> QED BY <3>1, <1>5
  <2>3. g[n + 1] = Append(g[n], seq[n + 1]) /\ seq[n + 1] \in S
    <3>1. n + 1 \in 0 .. Len(seq) /\ n + 1 # 0 /\ n + 1 - 1 = n /\ n + 1 \in 1 .. Len(seq)
      BY <2>1, <1>2
    <3>2. g[n + 1] = IF seq[n + 1] \in set THEN Append(g[n], seq[n + 1]) ELSE g[n]
      BY <1>3, <3>1
    <3>3. seq[n + 1] \in S /\ seq[n + 1] \in set
      BY <1>2, <3>1
    <3> QED BY <3>2, <3>3
  <2>4. Append(g[n], seq[n + 1]) \in Seq(S) /\ Len(Append(g[n], seq[n + 1])) = n + 1
    BY <2>2, <2>3, AppendProperties
  <2> QED BY <2>3, <2>4
<1>6. Nat \subseteq T
  <2> HIDE DEF T
  <2> QED BY <1>4, <1>5, Induction
<1> QED BY <1>1, <1>2, <1>6

\* Two sequences behind each other have the elements of both.
LEMMA RangeOfConcat ==
    ASSUME NEW S, NEW s \in Seq(S), NEW t \in Seq(S)
    PROVE  s \o t \in Seq(S) /\ Range(s \o t) = Range(s) \cup Range(t)
<1>1. s \o t \in Seq(S) /\ Len(s \o t) = Len(s) + Len(t)
  OBVIOUS
<1>2. \A i \in DOMAIN s : i \in DOMAIN (s \o t) /\ (s \o t)[i] = s[i]
  OBVIOUS
<1>3. \A i \in DOMAIN t : i + Len(s) \in DOMAIN (s \o t) /\ (s \o t)[i + Len(s)] = t[i]
  OBVIOUS
<1>4. \A i \in DOMAIN (s \o t) : i \in DOMAIN s \/ i - Len(s) \in DOMAIN t
  OBVIOUS
<1>5. ASSUME NEW i \in DOMAIN (s \o t) PROVE (s \o t)[i] \in Range(s) \cup Range(t)
  <2>1. CASE i \in DOMAIN s
    BY <1>2, <2>1 DEF Range
  <2>2. CASE i - Len(s) \in DOMAIN t
    <3>1. (i - Len(s)) + Len(s) = i
      OBVIOUS
    <3> QED BY <1>3, <2>2, <3>1 DEF Range
  <2> QED BY <1>4, <2>1, <2>2
<1>6. Range(s) \cup Range(t) \subseteq Range(s \o t)
  BY <1>2, <1>3 DEF Range
<1> QED BY <1>1, <1>5, <1>6 DEF Range

\* A stable sort loses nothing and makes nothing up.
THEOREM BehindReorders ==
    ASSUME NEW S, NEW seq \in Seq(S), NEW late
    PROVE  Behind(seq, late) \in Seq(S) /\ Range(Behind(seq, late)) = Range(seq)
<1> DEFINE s == Only(seq, Range(seq) \ late)
           t == Only(seq, late)
<1>1. s \in Seq(S) /\ Range(s) = Range(seq) \ late
  BY OnlySelects
<1>2. t \in Seq(S) /\ Range(t) = Range(seq) \cap late
  BY OnlySelects
<1>3. Behind(seq, late) = s \o t
  BY DEF Behind
<1> HIDE DEF s, t
<1>4. s \o t \in Seq(S) /\ Range(s \o t) = Range(s) \cup Range(t)
  BY <1>1, <1>2, RangeOfConcat
<1> QED BY <1>1, <1>2, <1>3, <1>4

\* A sequence is empty exactly when it has no element.
LEMMA EmptyRange == ASSUME NEW S, NEW seq \in Seq(S) PROVE Range(seq) = {} <=> seq = <<>>
<1>1. seq # <<>> => 1 \in DOMAIN seq
  OBVIOUS
<1> QED BY <1>1 DEF Range
=============================================================================
