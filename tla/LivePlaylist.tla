---------------------------- MODULE LivePlaylist ----------------------------
(* The live channels of the output playlist: their positions, their numbers,   *)
(* which of the numbers are locked, and the chain of sources behind each.      *)
(* Writers hold the playlist-order lock for their whole transaction            *)
(* (services/playlist_order.py), so every handler is one action.               *)
EXTENDS Naturals, Sequences, FiniteSets, SequencesExt

CONSTANTS MaxChannels,  \* bound: channel ids
          MaxOrder,     \* bound: positions
          MaxPriority,  \* bound: places in a chain
          Sources,      \* live sources
          Names,        \* channel names, up to case and surrounding blanks
          NameOf,       \* [Sources -> Names]: a source's name on its portal
          Asked,        \* the numbers requests ask for
          Locks         \* what requests say about the lock

ASSUME PlaylistBounds == {MaxChannels, MaxOrder, MaxPriority} \subseteq Nat
ASSUME RequestAssumption == Asked \subseteq Nat \ {0} /\ Locks \subseteq BOOLEAN
ASSUME NameAssumption == NameOf \in [Sources -> Names]

Ids == 1 .. MaxChannels
NoNumber == 0     \* NULL

VARIABLES
    channels,  \* live_playlist: a function from the ids in use
    chain,     \* live_playlist_sources: source, channel and priority
    on         \* LiveSource.enabled

vars == <<channels, chain, on>>

Channel == [order : 1 .. MaxOrder, number : Nat, lock : BOOLEAN, enabled : BOOLEAN, name : Names]
Link == [channel : Ids, source : Sources, priority : Nat \ {0}]

TypeOK ==
    /\ DOMAIN channels \subseteq Ids
    /\ \A c \in DOMAIN channels : channels[c] \in Channel
    /\ chain \subseteq [channel : DOMAIN channels, source : Sources, priority : Nat \ {0}]
    /\ on \subseteq Sources

Init == channels = <<>> /\ chain = {} /\ on = {}

-----------------------------------------------------------------------------
(* Order and number, as operators on a table t of channels.                    *)

Enabled(t) == {c \in DOMAIN t : t[c].enabled}
Unlocked(t) == {c \in Enabled(t) : ~t[c].lock}
Taken(t) == {t[c].number : c \in Enabled(t) \ Unlocked(t)} \ {NoNumber}

Before(t, a, b) == t[a].order < t[b].order \/ (t[a].order = t[b].order /\ a < b)
Ranked(t, S) == SetToSortSeq(S, LAMBDA a, b : Before(t, a, b))
Rank(t, S, c) == Cardinality({d \in S : Before(t, d, c)}) + 1

(* The k-th number no locked channel holds.                                    *)
Free(t, k) ==
    CHOOSE n \in 1 .. k + Cardinality(Taken(t)) :
        n \notin Taken(t) /\ Cardinality((1 .. n) \ Taken(t)) = k

(* renumber_live_numbers(): every enabled unlocked channel takes the free      *)
(* number of its rank.                                                         *)
Renumber(t) ==
    [c \in DOMAIN t |-> IF c \in Unlocked(t)
                        THEN [t[c] EXCEPT !.number = Free(t, Rank(t, Unlocked(t), c))]
                        ELSE t[c]]

(* repair_playlist_order(): ties and positions below 1 are spread out, the     *)
(* sequence stays.                                                             *)
Ordered(t) ==
    /\ \A c \in DOMAIN t : t[c].order > 0
    /\ \A a, b \in DOMAIN t : t[a].order = t[b].order => a = b
RepairFromZero(t) ==      \* mutant: an off-by-one in the positions
    IF Ordered(t) THEN t
    ELSE [c \in DOMAIN t |-> [t[c] EXCEPT !.order = Rank(t, DOMAIN t, c) - 1]]

Repair(t) ==
    IF Ordered(t) THEN t
    ELSE [c \in DOMAIN t |-> [t[c] EXCEPT !.order = Rank(t, DOMAIN t, c)]]
NextOrder(t) ==
    1 + Cardinality({n \in 1 .. MaxOrder : \E c \in DOMAIN t : n <= Repair(t)[c].order})

(* The channels of seq take, in that sequence, the positions S held together.  *)
Place(t, seq, S) ==
    LET held == Ranked(t, S) IN
    [c \in DOMAIN t |->
        IF c \in S THEN [t[c] EXCEPT !.order = t[held[CHOOSE k \in DOMAIN seq : seq[k] = c]].order]
        ELSE t[c]]

(* move_live_to_rank(): the channel becomes the k-th unlocked one, k being the *)
(* place of the wanted number, or of the next free one, among the free numbers.*)
Wanted(t, rank) == CHOOSE n \in rank .. rank + Cardinality(Taken(t)) :
    n \notin Taken(t) /\ \A m \in rank .. n - 1 : m \in Taken(t)

MoveToPlace(t0, c, rank) ==      \* mutant: takes the number for a place
    LET t == Repair(t0)
        others == Ranked(t, Enabled(t) \ {c})
    IN  IF c \notin Unlocked(t) THEN t
        ELSE Place(t, InsertAt(others, 1 + (IF rank > Len(others) THEN Len(others) ELSE rank - 1), c),
                   Enabled(t))

MoveToRank(t0, c, rank) ==
    LET t == Repair(t0)
        k == Cardinality((1 .. Wanted(t, rank)) \ Taken(t))
        others == Ranked(t, Enabled(t) \ {c})
        UnlockedBefore(s) == Cardinality({i \in 1 .. s : ~t[others[i]].lock})
        slots == {s \in 0 .. Len(others) : UnlockedBefore(s) = k - 1}
        slot == IF slots = {} THEN Len(others) ELSE CHOOSE s \in slots : \A x \in slots : s <= x
    IN  IF c \notin Unlocked(t) THEN t
        ELSE Place(t, InsertAt(others, slot + 1, c), Enabled(t))

(* _live_number_sync(): an asked number moves the channel, all are re-derived. *)
NumberSync(t, c, asked) ==
    Renumber(IF t[c].enabled /\ asked # NoNumber THEN MoveToRank(t, c, asked) ELSE t)

-----------------------------------------------------------------------------
(* live_create, live_update, live_delete, live_bulk, _set_order.               *)

NewChannel(t, name) ==
    [order |-> NextOrder(t), number |-> NoNumber, lock |-> FALSE, enabled |-> TRUE, name |-> name]
With(t, c, row) == [d \in DOMAIN t \cup {c} |-> IF d = c THEN row ELSE Repair(t)[d]]
Unused == Ids \ DOMAIN channels
Room == NextOrder(channels) <= MaxOrder

Locked(t, c, lock) == [t EXCEPT ![c].lock = lock]
Chained(c, seq) == {[channel |-> c, source |-> seq[i], priority |-> i] : i \in DOMAIN seq}
Chains == {s \in UNION {[1 .. n -> Sources] : n \in 0 .. Cardinality(Sources)} : IsInjective(s)}

Create(c, name, asked, lock, enabled, sources) ==
    /\ c \in Unused /\ Room
    /\ LET row == [NewChannel(channels, name) EXCEPT !.number = asked, !.enabled = enabled] IN
       channels' = Locked(NumberSync(With(channels, c, row), c, asked), c, lock)
    /\ chain' = chain \cup Chained(c, sources)
    /\ UNCHANGED on

(* live_update of the numbering fields: each may be missing from the payload,  *)
(* a number may also be sent as null.                                          *)
UpdatedFreely(t0, c, p) ==      \* mutant: a number sent for a locked channel is stored
    LET was == t0[c]
        t == [t0 EXCEPT ![c].number = IF "number" \in DOMAIN p THEN p.number ELSE @,
                        ![c].lock = IF "lock" \in DOMAIN p THEN p.lock ELSE @,
                        ![c].enabled = IF "enabled" \in DOMAIN p THEN p.enabled ELSE @]
        asked == IF "number" \in DOMAIN p THEN p.number ELSE NoNumber
    IN  NumberSync(t, c, asked)

Updated(t0, c, p) ==
    LET was == t0[c]
        t == [t0 EXCEPT ![c].number = IF "number" \in DOMAIN p THEN p.number ELSE @,
                        ![c].lock = IF "lock" \in DOMAIN p THEN p.lock ELSE @,
                        ![c].enabled = IF "enabled" \in DOMAIN p THEN p.enabled ELSE @,
                        ![c].name = IF "name" \in DOMAIN p THEN p.name ELSE @]
        asked == IF "number" \in DOMAIN p THEN p.number ELSE NoNumber
        kept == [t EXCEPT ![c].number = was.number]
        pinned == IF kept[c].number = NoNumber /\ kept[c].enabled
                  THEN Locked(Renumber(Locked(kept, c, FALSE)), c, TRUE) ELSE kept
        still == IF t[c].lock THEN pinned ELSE t
    IN  CASE was.lock /\ ~t[c].lock -> Renumber(t)
          [] ~was.lock /\ t[c].lock -> Locked(NumberSync(Locked(t, c, FALSE), c, asked), c, TRUE)
          [] OTHER -> IF "number" \in DOMAIN p \/ was.enabled # t[c].enabled
                      THEN NumberSync(still, c, asked) ELSE still

Update(c, p) ==
    /\ c \in DOMAIN channels
    /\ channels' = Updated(channels, c, p)
    /\ UNCHANGED <<chain, on>>

UpdateChain(c, sources) ==
    /\ c \in DOMAIN channels
    /\ channels' = Updated(channels, c, [source_ids |-> sources])
    /\ chain' = {l \in chain : l.channel # c} \cup Chained(c, sources)
    /\ UNCHANGED on

Without(t, S) == [c \in DOMAIN t \ S |-> t[c]]

Delete(S) ==
    /\ S # {} /\ S \subseteq DOMAIN channels
    /\ channels' = Renumber(Without(channels, S))
    /\ chain' = {l \in chain : l.channel \notin S}
    /\ UNCHANGED on

BulkEnable(S, enabled) ==
    /\ S # {} /\ S \subseteq DOMAIN channels
    /\ channels' = Renumber([c \in DOMAIN channels |->
                        IF c \in S THEN [channels[c] EXCEPT !.enabled = enabled] ELSE channels[c]])
    /\ UNCHANGED <<chain, on>>

ReorderOnly(seq) ==     \* mutant: the numbers are not derived again
    /\ ToSet(seq) \subseteq DOMAIN channels
    /\ channels' = Place(Repair(channels), seq, ToSet(seq))
    /\ UNCHANGED <<chain, on>>

Reorder(seq) ==
    /\ ToSet(seq) \subseteq DOMAIN channels
    /\ channels' = Renumber(Place(Repair(channels), seq, ToSet(seq)))
    /\ UNCHANGED <<chain, on>>

(* The older payload sets one position and repairs the ties it makes.          *)
SetOrder(c, order) ==
    /\ c \in DOMAIN channels
    /\ channels' = Renumber(Repair([channels EXCEPT ![c].order = order]))
    /\ UNCHANGED <<chain, on>>

-----------------------------------------------------------------------------
(* playlist_sync: sources find or make their channel.                          *)

Linked(s) == \E l \in chain : l.source = s
Owned(s) == {l.channel : l \in {m \in chain : m.source = s /\ m.priority = 1}}
Named(name) == {c \in DOMAIN channels : channels[c].name = name}
LinkCount(links, c) == Cardinality({l \in links : l.channel = c})   \* mutant of Highest
Highest(links, c) ==
    LET P == {l.priority : l \in {m \in links : m.channel = c}} IN
    IF P = {} THEN 0 ELSE CHOOSE p \in P : \A q \in P : q <= p
Append1(links, c, s) ==
    links \cup {[channel |-> c, source |-> s, priority |-> Highest(links, c) + 1]}
Oldest(S) == CHOOSE c \in S : \A d \in S : c <= d

NewPlacement(links, s, name) ==
    \E c \in Unused :
        /\ Room
        /\ channels' = Renumber(With(channels, c, NewChannel(channels, name)))
        /\ chain' = links \cup {[channel |-> c, source |-> s, priority |-> 1]}

(* sources.toggle and _sync_live: a source switched on for the first time      *)
(* joins the channel of its name as a fallback, or gets one of its own.        *)
EnableSource(s, match) ==
    /\ on' = on \cup {s}
    /\ IF Linked(s) THEN UNCHANGED <<channels, chain>>
       ELSE IF match /\ Named(NameOf[s]) # {}
       THEN /\ Highest(chain, Oldest(Named(NameOf[s]))) < MaxPriority
            /\ chain' = Append1(chain, Oldest(Named(NameOf[s])), s) /\ UNCHANGED channels
       ELSE NewPlacement(chain, s, NameOf[s])

DisableSource(s) == on' = on \ {s} /\ UNCHANGED <<channels, chain>>

(* delete_portal: the links of the portal's sources S go to the sources of the *)
(* replacement T that have their names, or with the sources.  A channel that   *)
(* would hold a source twice fails the transaction.  Channels stay as they are.*)
Successors(s, T) == {t \in T : NameOf[t] = NameOf[s]}
Repointed(S, T) ==
    {IF l.source \in S THEN [l EXCEPT !.source = CHOOSE t \in Successors(l.source, T) : TRUE] ELSE l :
        l \in {m \in chain : m.source \in S => Successors(m.source, T) # {}}}
SourceOnce(links) == \A l, m \in links : l.channel = m.channel /\ l.source = m.source => l = m

DeletePortal(S, T) ==
    /\ S # {} /\ S \cap T = {} /\ SourceOnce(Repointed(S, T))
    /\ chain' = Repointed(S, T) /\ on' = on \ S
    /\ UNCHANGED channels

AddSource(s) ==      \* _add_live
    /\ Owned(s) = {}
    /\ NewPlacement(chain, s, NameOf[s])
    /\ UNCHANGED on

(* _detach_live_source(): channels this leaves without a source are deleted.   *)
Detached(s, keep) == {l \in chain : l.source # s \/ l.channel = keep}
Emptied(s, keep) ==
    {c \in DOMAIN channels : /\ \E l \in chain : l.channel = c /\ l.source = s /\ c # keep
                             /\ ~ \E l \in Detached(s, keep) : l.channel = c}

(* assign_live_custom_name(): a name in use makes the source a fallback there. *)
AssignExisting(s, c) ==
    IF \E l \in chain : l.channel = c /\ l.source = s
    THEN UNCHANGED <<channels, chain>>
    ELSE /\ Highest(chain, c) < MaxPriority
         /\ channels' = Without(channels, Emptied(s, c))
         /\ chain' = Append1(Detached(s, c), c, s)

(* A new name renames the channel the source owns; two of them are an error.   *)
AssignNew(s, name) ==
    IF Owned(s) # {}
    THEN /\ Cardinality(Owned(s)) = 1
         /\ channels' = [channels EXCEPT ![CHOOSE c \in Owned(s) : TRUE].name = name]
         /\ UNCHANGED chain
    ELSE \E c \in Unused :
         /\ Room
         /\ LET t == Without(channels, Emptied(s, NoNumber)) IN
            channels' = Renumber(With(t, c, NewChannel(t, name)))
         /\ chain' = Detached(s, NoNumber) \cup {[channel |-> c, source |-> s, priority |-> 1]}

AssignName(s, name) ==
    /\ s \in on
    /\ IF Named(name) # {} THEN \E c \in Named(name) : AssignExisting(s, c)
       ELSE AssignNew(s, name)
    /\ UNCHANGED on

-----------------------------------------------------------------------------
Payloads ==
    [number : Asked \cup {NoNumber}] \cup [lock : Locks] \cup [enabled : BOOLEAN]
    \cup [name : Names] \cup [number : Asked, lock : Locks]
    \cup [number : Asked, lock : Locks, enabled : BOOLEAN]

Sequencing(S) == {s \in [1 .. Cardinality(S) -> S] : IsInjective(s)}

Next ==
    \/ \E c \in Ids, name \in Names, asked \in Asked \cup {NoNumber}, lock \in Locks,
          enabled \in BOOLEAN, sources \in Chains : Create(c, name, asked, lock, enabled, sources)
    \/ \E c \in Ids, p \in Payloads : Update(c, p)
    \/ \E c \in Ids, sources \in Chains : UpdateChain(c, sources)
    \/ \E S \in SUBSET Ids : Delete(S) \/ (\E b \in BOOLEAN : BulkEnable(S, b))
    \/ \E S \in SUBSET Ids : \E seq \in Sequencing(S) : Reorder(seq)
    \/ \E c \in Ids, order \in 0 .. MaxOrder : SetOrder(c, order)
    \/ \E s \in Sources : \/ \E match \in BOOLEAN : EnableSource(s, match)
                          \/ DisableSource(s) \/ AddSource(s)
                          \/ \E name \in Names : AssignName(s, name)
    \/ \E S, T \in SUBSET Sources : DeletePortal(S, T)

Spec == Init /\ [][Next]_vars

-----------------------------------------------------------------------------
(* Number and position tell the same story: going down the final playlist the  *)
(* unlocked numbers increase and none is a number a locked channel holds.      *)
NumbersInOrder ==
    \A c \in Unlocked(channels) :
        /\ channels[c].number \notin Taken(channels) \cup {NoNumber}
        /\ \A d \in Unlocked(channels) :
              Before(channels, c, d) => channels[c].number < channels[d].number

(* No writer changes the number of a channel that is locked before and after.  *)
LockedKeepNumber ==
    [][\A c \in DOMAIN channels \cap DOMAIN channels' :
          channels[c].lock /\ channels'[c].lock /\ channels[c].number # NoNumber
          => channels'[c].number = channels[c].number]_vars

(* A channel sent to a number lands on it, or on the closest free number above *)
(* it, or on the last position when the number is beyond the list.             *)
MoveLandsWhereAsked ==
    \A c \in Unlocked(channels), rank \in Ids :
        LET moved == Renumber(MoveToRank(channels, c, rank))
            last == Free(channels, Cardinality(Unlocked(channels)))
            wanted == Wanted(channels, rank)
        IN  moved[c].number = IF wanted <= last THEN wanted ELSE last

(* The sources of a channel always have an order: no two share a priority, and *)
(* no writer but the one that fails on it adds a source a second time.         *)
ChainsOrdered ==
    /\ SourceOnce(chain)
    /\ \A l, m \in chain : l.channel = m.channel /\ l.priority = m.priority => l = m

(* renumber_live_numbers: "the list always shows distinct numbers".            *)
DistinctNumbers ==
    \A c, d \in Enabled(channels) :
        channels[c].number = channels[d].number /\ channels[c].number # NoNumber => c = d
=============================================================================
