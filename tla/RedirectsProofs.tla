-------------------------- MODULE RedirectsProofs --------------------------
(***************************************************************************)
(* Redirected plays, for any routes, portals, MACs and strategy: a walk      *)
(* comes by every candidate before it gives up, gives up with the answer its *)
(* outcomes call for, and strikes a source once.                             *)
(***************************************************************************)
EXTENDS Redirects, SelectionProofs, FiniteSetTheorems

Memories == [success : [Routes -> Candidates \cup {Nothing}],
             strikes : [Sources -> 0 .. MaxStrikes],
             hot     : SUBSET Sources,
             failed  : SUBSET (Routes \X Candidates),
             links   : [Routes \X Macs \X (Users \cup {Anon}) -> Urls \cup {Nothing}],
             verdict : [Candidates -> BOOLEAN \cup {Nothing}],
             handed  : [Routes -> Candidates \cup {Nothing}],
             blamed  : [Sources -> SUBSET (Requests \X Nat)]]

\* A step of a chain has a MAC to try.
Steps == [src : Sources, macs : Seq(Macs) \ {<<>>}]

Walks == [at : Places, pass : 1 .. Attempts, chain : Seq(Steps), step : Nat, cands : Seq(Macs),
          mac : Macs \cup {Nothing}, url : Urls \cup {Nothing}, patience : Nat,
          deadStored : SUBSET Candidates, struck : SUBSET Sources, allBusy : BOOLEAN,
          answer : Urls \cup {Nothing}, outcomes : SUBSET {"busy", "dead"},
          avoid : Candidates \cup {Nothing}, tried : SUBSET Candidates,
          zaps : Nat]

\* A candidate is under way, or the next one of the step is looked for.
Trying == {"replay", "stored", "session", "ask", "fresh"}
Stepping == Trying \cup {"pick"}

\* The walk stands in its chain, at a MAC while it tries one.
Placed(w) ==
    /\ w \in Walks /\ w.step <= Len(w.chain)
    /\ w.at \in Stepping => w.step # 0
    /\ w.at \in Trying => w.mac # Nothing
    /\ w.at = "replay" => w.url # Nothing

\* The walk has come by every MAC of step i of its chain, or its source was refused.
Walked(w, i) ==
    \/ w.chain[i].src \in w.struck
    \/ \A m \in Range(w.chain[i].macs) : <<w.chain[i].src, m>> \in w.tried

\* Everything before the step is walked, and of the step everything but its candidates.
Progress(w) ==
    /\ w.at \in Stepping \cup {"step"} => \A i \in 1 .. w.step - 1 : Walked(w, i)
    /\ w.at = "step" /\ w.step # 0 => Walked(w, w.step)
    /\ w.at \in Stepping =>
          \A m \in Range(w.chain[w.step].macs) :
              m \in Range(w.cands) \/ <<w.chain[w.step].src, m>> \in w.tried
    /\ w.at = "done" /\ w.answer = Nothing => \A i \in DOMAIN w.chain : Walked(w, i)

\* What the answer will be is what the candidates came to.
Reckoned(w) ==
    /\ w.outcomes # {} => w.chain # <<>>
    /\ w.struck # {} => w.outcomes # {}
    /\ w.at \notin Trying \cup {"done"} /\ w.tried # {} => w.outcomes # {}
    /\ w.at # "done" => (w.allBusy <=> "dead" \notin w.outcomes)
    /\ w.at = "done" /\ w.answer = Nothing => (w.allBusy <=> w.outcomes = {"busy"})

WalkOK(w) == Placed(w) /\ Progress(w) /\ Reckoned(w)

\* No more strikes than walks that failed,
Accounted ==
    \A s \in Sources : /\ IsFiniteSet(memory.blamed[s])
                       /\ memory.strikes[s] <= Cardinality(memory.blamed[s])

\* and a walk that is blamed is over, or has struck the source.
Recalled ==
    \A s \in Sources, q \in Requests, z \in Nat :
        <<q, z>> \in memory.blamed[s] =>
            z <= walk[q].zaps /\ (z = walk[q].zaps => s \in walk[q].struck)

RouteInv ==
    /\ OccupancyTypeOK /\ memory \in Memories
    /\ usable \subseteq Macs /\ cooling \subseteq Macs /\ registered \subseteq Plays
    /\ release \in [mac : Macs \cup {Nothing}, todo : SUBSET Plays]
    /\ DOMAIN walk = Requests /\ \A r \in Requests : WalkOK(walk[r])
    /\ Accounted /\ Recalled

-----------------------------------------------------------------------------
(* Chains and candidates: what the orders of the memory keep. *)

\* The MACs of a source that may be tried are MACs.
LEMMA PickMacsTyped ==
    ASSUME RedirectAssumption, usable \subseteq Macs, NEW src \in Sources
    PROVE  PickMacs(src) \in Seq(Macs)
<1> DEFINE macs == Only(MacsOf[PortalOf[src]], usable)
<1>1. MacsOf[PortalOf[src]] \in Seq(Macs)
  BY DEF RedirectAssumption
<1>2. macs \in Seq(Macs)
  BY <1>1, OnlySelects
<1>3. PickMacs(src) = IF MacsFirst \/ macs = <<>> THEN macs ELSE <<Head(macs)>>
  BY DEF PickMacs
<1> HIDE DEF macs
<1>4. macs # <<>> => Head(macs) \in Macs
  BY <1>2
<1>5. macs # <<>> => <<Head(macs)>> \in Seq(Macs)
  BY <1>4
<1> QED BY <1>2, <1>3, <1>5

\* A chain has steps with a MAC to try only (the "if not picked: continue").
LEMMA ChainTyped ==
    ASSUME RedirectAssumption, usable \subseteq Macs, NEW route \in Routes
    PROVE  BuildChain(route) \in Seq(Steps)
<1> DEFINE rows == RowsOf[route]
           Taken(i) == /\ PickMacs(rows[i]) # <<>>
                       /\ MacsFirst \/ \A j \in 1 .. i - 1 : PortalOf[rows[j]] # PortalOf[rows[i]]
           all == [i \in DOMAIN rows |-> i]
           some == {i \in DOMAIN rows : Taken(i)}
           taken == Only(all, some)
<1>1. rows \in Seq(Sources)
  BY DEF RedirectAssumption
<1>2. all \in Seq(DOMAIN rows)
  <2>1. DOMAIN rows = 1 .. Len(rows) /\ Len(rows) \in Nat
    BY <1>1
  <2> HIDE DEF rows
  <2> QED BY <2>1
<1>3. taken \in Seq(DOMAIN rows) /\ Range(taken) \subseteq some
  <2> HIDE DEF rows, all, some
  <2> QED BY <1>2, OnlySelects
<1>4. BuildChain(route) = [k \in DOMAIN taken |-> Step(rows[taken[k]], PickMacs(rows[taken[k]]))]
  BY DEF BuildChain
<1>5. ASSUME NEW k \in DOMAIN taken
      PROVE  Step(rows[taken[k]], PickMacs(rows[taken[k]])) \in Steps
  <2>1. taken[k] \in some
    BY <1>3 DEF Range
  <2>2. taken[k] \in DOMAIN rows /\ PickMacs(rows[taken[k]]) # <<>>
    BY <2>1
  <2> HIDE DEF taken
  <2>3. rows[taken[k]] \in Sources
    BY <1>1, <2>2
  <2>4. PickMacs(rows[taken[k]]) \in Seq(Macs)
    BY <2>3, PickMacsTyped
  <2> QED BY <2>2, <2>3, <2>4 DEF Step, Steps
<1>6. DOMAIN taken = 1 .. Len(taken) /\ Len(taken) \in Nat
  BY <1>3
<1> HIDE DEF taken, rows
<1> QED BY <1>4, <1>5, <1>6

\* Affinity and demotion reorder the MACs of a step.
LEMMA MacsReordered ==
    ASSUME NEW mem, NEW route, NEW src, NEW macs \in Seq(Macs)
    PROVE  /\ OrderedMacs(mem, route, src, macs) \in Seq(Macs)
           /\ Range(OrderedMacs(mem, route, src, macs)) = Range(macs)
           /\ DemoteMacs(mem, route, src, macs) \in Seq(Macs)
           /\ Range(DemoteMacs(mem, route, src, macs)) = Range(macs)
  BY BehindReorders DEF OrderedMacs, DemoteMacs

\* So do the free ones first: every MAC has one of three ranks.
LEMMA FreeReordered ==
    ASSUME NEW macs \in Seq(Macs), NEW user
    PROVE  OrderByFree(macs, user) \in Seq(Macs) /\ Range(OrderByFree(macs, user)) = Range(macs)
<1> DEFINE Rank(m) == CASE macLocks[m] = {} /\ lease[m] = Free -> IF m \in cooling THEN 1 ELSE 0
                        [] macLocks[m] = {} /\ lease[m] = user /\ user # Anon -> 1
                        [] OTHER -> 2
           rank == [m \in Macs |-> Rank(m)]
           Of(k) == {m \in Macs : rank[m] = k}
           a == Only(macs, Of(0))
           b == Only(macs, Of(1))
           c == Only(macs, Of(2))
<1>1. OrderByFree(macs, user) = a \o b \o c
  BY DEF OrderByFree
<1>2. /\ a \in Seq(Macs) /\ Range(a) = Range(macs) \cap Of(0)
      /\ b \in Seq(Macs) /\ Range(b) = Range(macs) \cap Of(1)
      /\ c \in Seq(Macs) /\ Range(c) = Range(macs) \cap Of(2)
  <2> HIDE DEF Of
  <2> QED BY OnlySelects
<1>3. ASSUME NEW m \in Macs PROVE m \in Of(0) \cup Of(1) \cup Of(2)
  <2>1. Rank(m) \in {0, 1, 2}
    OBVIOUS
  <2>2. rank[m] = Rank(m)
    OBVIOUS
  <2> HIDE DEF Rank, rank
  <2> QED BY <2>1, <2>2
<1>4. Range(macs) \subseteq Macs
  BY DEF Range
<1> HIDE DEF a, b, c, Of
<1>5. a \o b \in Seq(Macs) /\ Range(a \o b) = Range(a) \cup Range(b)
  BY <1>2, RangeOfConcat
<1>6. (a \o b) \o c \in Seq(Macs) /\ Range((a \o b) \o c) = Range(a \o b) \cup Range(c)
  <2> DEFINE ab == a \o b
  <2>1. ab \in Seq(Macs)
    BY <1>5
  <2> HIDE DEF ab
  <2>2. ab \o c \in Seq(Macs) /\ Range(ab \o c) = Range(ab) \cup Range(c)
    BY <1>2, <2>1, RangeOfConcat
  <2> QED BY <2>2 DEF ab
<1> QED BY <1>1, <1>2, <1>3, <1>4, <1>5, <1>6

\* The MACs of a step are tried in some order, all of them.
LEMMA StepMacsTyped ==
    ASSUME NEW r \in Requests, NEW step \in Steps
    PROVE  StepMacs(r, step) \in Seq(Macs) /\ Range(StepMacs(r, step)) = Range(step.macs)
<1> DEFINE known == OrderedMacs(memory, RouteAsked[r], step.src, step.macs)
           demoted == DemoteMacs(memory, RouteAsked[r], step.src, known)
<1>1. step.macs \in Seq(Macs)
  BY DEF Steps
<1>2. known \in Seq(Macs) /\ Range(known) = Range(step.macs)
  BY <1>1, MacsReordered
<1>3. demoted \in Seq(Macs) /\ Range(demoted) = Range(known)
  <2> HIDE DEF known
  <2> QED BY <1>2, MacsReordered
<1>4. StepMacs(r, step) = IF PreferFree THEN OrderByFree(demoted, Who[r]) ELSE demoted
  BY DEF StepMacs
<1> HIDE DEF demoted, known
<1>5. OrderByFree(demoted, Who[r]) \in Seq(Macs) /\ Range(OrderByFree(demoted, Who[r])) = Range(demoted)
  BY <1>3, FreeReordered
<1> QED BY <1>2, <1>3, <1>4, <1>5

\* A reordered sequence is as empty as it was.
LEMMA BehindEmpty ==
    ASSUME NEW S, NEW seq \in Seq(S), NEW late
    PROVE  Behind(seq, late) = <<>> <=> seq = <<>>
<1>1. Behind(seq, late) \in Seq(S) /\ Range(Behind(seq, late)) = Range(seq)
  BY BehindReorders
<1> QED BY <1>1, EmptyRange

\* The breaker leaves out steps, but never all of them.
LEMMA OrderedChainTyped ==
    ASSUME NEW mem, NEW route, NEW chain \in Seq(Steps)
    PROVE  /\ OrderedChain(mem, route, chain) \in Seq(Steps)
           /\ chain # <<>> => OrderedChain(mem, route, chain) # <<>>
<1> DEFINE healthy == Only(chain, {step \in Range(chain) : ~Tripped(mem, step.src)})
           kept == IF healthy # <<>> \/ chain = <<>> THEN healthy ELSE <<Head(chain)>>
           late == {step \in Range(kept) : step.src # mem.success[route][1]}
<1>1. healthy \in Seq(Steps)
  BY OnlySelects
<1>2. chain # <<>> => <<Head(chain)>> \in Seq(Steps) /\ <<Head(chain)>> # <<>>
  <2>1. chain # <<>> => Head(chain) \in Steps
    OBVIOUS
  <2> QED BY <2>1
<1>3. OrderedChain(mem, route, chain) = IF mem.success[route] = Nothing THEN kept ELSE Behind(kept, late)
  BY DEF OrderedChain
<1>4. kept \in Seq(Steps) /\ (chain # <<>> => kept # <<>>)
  <2> HIDE DEF healthy
  <2> QED BY <1>1, <1>2
<1> HIDE DEF kept, late
<1>5. Behind(kept, late) \in Seq(Steps) /\ (Behind(kept, late) = <<>> <=> kept = <<>>)
  BY <1>4, BehindReorders, BehindEmpty
<1> QED BY <1>3, <1>4, <1>5

\* Failed candidates go last, in their step and of the chain; none is lost.
LEMMA DemoteFailedTyped ==
    ASSUME NEW mem, NEW route, NEW chain \in Seq(Steps)
    PROVE  /\ DemoteFailed(mem, route, chain) \in Seq(Steps)
           /\ DemoteFailed(mem, route, chain) = <<>> <=> chain = <<>>
<1> DEFINE Demoted(i) == Step(chain[i].src, DemoteMacs(mem, route, chain[i].src, chain[i].macs))
           steps == [i \in DOMAIN chain |-> Demoted(i)]
           late == {step \in Range(steps) :
                      /\ step.macs # <<>>
                      /\ \A m \in Range(step.macs) : <<route, <<step.src, m>>>> \in mem.failed}
<1>1. ASSUME NEW i \in DOMAIN chain PROVE Demoted(i) \in Steps
  <2>1. chain[i] \in Steps
    OBVIOUS
  <2>2. chain[i].src \in Sources /\ chain[i].macs \in Seq(Macs) /\ chain[i].macs # <<>>
    BY <2>1 DEF Steps
  <2> DEFINE macs == chain[i].macs
             demoted == DemoteMacs(mem, route, chain[i].src, macs)
  <2>3. demoted \in Seq(Macs) /\ Range(demoted) = Range(macs)
    <3>1. macs \in Seq(Macs)
      BY <2>2
    <3> HIDE DEF macs
    <3> QED BY <3>1, MacsReordered
  <2>4. demoted # <<>>
    <3>1. macs \in Seq(Macs) /\ macs # <<>>
      BY <2>2
    <3> HIDE DEF demoted, macs
    <3> QED BY <2>3, <3>1, EmptyRange
  <2> HIDE DEF demoted
  <2>5. [src |-> chain[i].src, macs |-> demoted] \in Steps
    BY <2>2, <2>3, <2>4 DEF Steps
  <2>6. Demoted(i) = [src |-> chain[i].src, macs |-> demoted]
    BY DEF Step, demoted
  <2> QED BY <2>5, <2>6
<1>2. steps \in Seq(Steps) /\ (steps = <<>> <=> chain = <<>>)
  <2>1. DOMAIN chain = 1 .. Len(chain) /\ Len(chain) \in Nat
    OBVIOUS
  <2> HIDE DEF Demoted
  <2>2. steps \in Seq(Steps) /\ Len(steps) = Len(chain)
    BY <1>1, <2>1
  <2> QED BY <2>2
<1>3. DemoteFailed(mem, route, chain) = Behind(steps, late)
  BY DEF DemoteFailed
<1> HIDE DEF steps, late
<1> QED BY <1>2, <1>3, BehindReorders, BehindEmpty

\* The candidate of the last redirect goes last.
LEMMA DemoteHandedTyped ==
    ASSUME NEW mem, NEW route, NEW chain \in Seq(Steps)
    PROVE  DemoteHanded(mem, route, chain) \in Seq(Steps)
<1> DEFINE last == mem.handed[route]
           late == {step \in Range(chain) : step.src = last[1]}
           behind == Behind(chain, late)
           New(i) == IF behind[i].src # last[1] THEN behind[i]
                     ELSE Step(behind[i].src, Behind(behind[i].macs, {last[2]}))
<1>1. behind \in Seq(Steps)
  <2> HIDE DEF late
  <2> QED BY BehindReorders
<1>2. DemoteHanded(mem, route, chain) = IF last = Nothing THEN chain ELSE [i \in DOMAIN behind |-> New(i)]
  BY DEF DemoteHanded
<1> HIDE DEF behind, last
<1>3. ASSUME NEW i \in DOMAIN behind PROVE New(i) \in Steps
  <2>1. behind[i] \in Steps
    BY <1>1
  <2> DEFINE macs == behind[i].macs
             sorted == Behind(macs, {last[2]})
  <2>2. behind[i].src \in Sources /\ macs \in Seq(Macs) /\ macs # <<>>
    BY <2>1 DEF Steps
  <2> HIDE DEF macs
  <2>3. sorted \in Seq(Macs) /\ sorted # <<>>
    BY <2>2, BehindReorders, BehindEmpty
  <2> HIDE DEF sorted
  <2>4. [src |-> behind[i].src, macs |-> sorted] \in Steps
    BY <2>2, <2>3 DEF Steps
  <2>5. Step(behind[i].src, Behind(behind[i].macs, {last[2]})) = [src |-> behind[i].src, macs |-> sorted]
    BY DEF Step, sorted, macs
  <2> QED BY <2>1, <2>4, <2>5
<1>4. [i \in DOMAIN behind |-> New(i)] \in Seq(Steps)
  <2>1. DOMAIN behind = 1 .. Len(behind) /\ Len(behind) \in Nat
    BY <1>1
  <2> HIDE DEF New
  <2> QED BY <1>3, <2>1
<1> QED BY <1>2, <1>4

\* A route that has a MAC to try is always tried.
LEMMA RouteTried ==
    ASSUME RedirectAssumption, usable \subseteq Macs
    PROVE  NeverSilenced
  BY ChainTyped, OrderedChainTyped DEF NeverSilenced
-----------------------------------------------------------------------------
(* What is noted in the memory. *)

\* The strikes of a source, and the walks they came of, stay or are cleared together.
StruckAs(mem, new, s) == new.strikes[s] = mem.strikes[s] /\ new.blamed[s] = mem.blamed[s]
Cleared(new, s) == new.strikes[s] = 0 /\ new.blamed[s] = {}

\* The notes keep the memory's type, and none but Failed strikes a source.
Noted(mem, new) == new \in Memories /\ \A s \in Sources : StruckAs(mem, new, s) \/ Cleared(new, s)

\* A note of another table keeps the strikes.
LEMMA StrikesKept ==
    ASSUME NEW mem \in Memories, NEW new \in Memories, new.strikes = mem.strikes, new.blamed = mem.blamed
    PROVE  Noted(mem, new)
  BY DEF Noted, StruckAs

\* Notes one after the other.
LEMMA NotedThen ==
    ASSUME NEW a \in Memories, NEW b, NEW c, Noted(a, b), Noted(b, c)
    PROVE  Noted(a, c)
  BY DEF Noted, StruckAs, Cleared

\* A failed candidate.
LEMMA NoteFailureKeeps ==
    ASSUME NEW mem \in Memories, NEW route \in Routes, NEW c \in Candidates
    PROVE  Noted(mem, NoteFailure(mem, route, c))
<1>1. /\ NoteFailure(mem, route, c) \in Memories /\ NoteFailure(mem, route, c).strikes = mem.strikes
      /\ NoteFailure(mem, route, c).blamed = mem.blamed
  BY DEF Memories, NoteFailure
<1> QED BY <1>1, StrikesKept

\* A verdict on a stored link.
LEMMA NoteVerdictKeeps ==
    ASSUME NEW mem \in Memories, NEW c \in Candidates, NEW ok \in BOOLEAN
    PROVE  Noted(mem, NoteVerdict(mem, c, ok))
<1>1. /\ NoteVerdict(mem, c, ok) \in Memories /\ NoteVerdict(mem, c, ok).strikes = mem.strikes
      /\ NoteVerdict(mem, c, ok).blamed = mem.blamed
  BY DEF Memories, NoteVerdict
<1> QED BY <1>1, StrikesKept

\* What the last redirect pointed at.
LEMMA NoteHandedKeeps ==
    ASSUME NEW mem \in Memories, NEW route \in Routes, NEW c \in Candidates
    PROVE  Noted(mem, NoteHanded(mem, route, c))
<1>1. /\ NoteHanded(mem, route, c) \in Memories /\ NoteHanded(mem, route, c).strikes = mem.strikes
      /\ NoteHanded(mem, route, c).blamed = mem.blamed
  BY DEF Memories, NoteHanded
<1> QED BY <1>1, StrikesKept

\* Old failures of a route forgotten.
LEMMA ClearFailuresKeeps ==
    ASSUME NEW mem \in Memories, NEW route
    PROVE  Noted(mem, ClearFailures(mem, route))
<1>1. /\ ClearFailures(mem, route) \in Memories /\ ClearFailures(mem, route).strikes = mem.strikes
      /\ ClearFailures(mem, route).blamed = mem.blamed
  BY DEF Memories, ClearFailures
<1> QED BY <1>1, StrikesKept

\* A link remembered or dropped.
LEMMA NoteLinkKeeps ==
    ASSUME NEW mem \in Memories, NEW route, NEW m, NEW user, NEW url \in Urls \cup {Nothing}
    PROVE  Noted(mem, NoteLink(mem, route, m, user, url))
<1>1. /\ NoteLink(mem, route, m, user, url) \in Memories /\ NoteLink(mem, route, m, user, url).strikes = mem.strikes
      /\ NoteLink(mem, route, m, user, url).blamed = mem.blamed
  BY DEF Memories, NoteLink
<1> QED BY <1>1, StrikesKept

\* A success closes the breaker of its source.
LEMMA SuccessKeeps ==
    ASSUME BreakerAssumption, NEW mem \in Memories, NEW route \in Routes, NEW c \in Candidates
    PROVE  Noted(mem, Succeeded(mem, route, c))
<1>1. mem.strikes \in [Sources -> 0 .. MaxStrikes]
  BY DEF Memories
<1>2. 0 \in 0 .. MaxStrikes
  BY DEF BreakerAssumption
<1>3. [mem.strikes EXCEPT ![c[1]] = 0] \in [Sources -> 0 .. MaxStrikes]
  BY <1>1, <1>2
<1>4. Succeeded(mem, route, c) \in Memories
  BY <1>3 DEF Memories, Succeeded
<1>5. /\ Succeeded(mem, route, c).strikes = [mem.strikes EXCEPT ![c[1]] = 0]
      /\ Succeeded(mem, route, c).blamed = [mem.blamed EXCEPT ![c[1]] = {}]
  BY DEF Succeeded, Memories
<1>6. mem.blamed \in [Sources -> SUBSET (Requests \X Nat)]
  BY DEF Memories
<1>7. ASSUME NEW s \in Sources
      PROVE  StruckAs(mem, Succeeded(mem, route, c), s) \/ Cleared(Succeeded(mem, route, c), s)
  BY <1>1, <1>5, <1>6 DEF StruckAs, Cleared
<1> QED BY <1>4, <1>7 DEF Noted

\* A failure strikes its own source only, and once.
LEMMA FailureKeeps ==
    ASSUME BreakerAssumption, NEW mem \in Memories, NEW f \in Sources
    PROVE  /\ Failed(mem, f) \in Memories /\ Failed(mem, f).blamed = mem.blamed
           /\ Failed(mem, f).strikes[f] \in {mem.strikes[f], mem.strikes[f] + 1}
           /\ \A s \in Sources : s # f => Failed(mem, f).strikes[s] = mem.strikes[s]
<1> DEFINE more == IF mem.strikes[f] < MaxStrikes THEN mem.strikes[f] + 1 ELSE mem.strikes[f]
<1>1. mem.strikes \in [Sources -> 0 .. MaxStrikes] /\ MaxStrikes \in Nat
  BY DEF Memories, BreakerAssumption
<1>2. more \in 0 .. MaxStrikes
  BY <1>1
<1>3. Failed(mem, f) = [mem EXCEPT !.strikes[f] = more, !.hot = @ \cup {f}]
  BY DEF Failed
<1> HIDE DEF more
<1>4. [mem.strikes EXCEPT ![f] = more] \in [Sources -> 0 .. MaxStrikes]
  BY <1>1, <1>2
<1>5. Failed(mem, f) \in Memories
  <2> DEFINE strikes == [mem.strikes EXCEPT ![f] = more]
             hot == mem.hot \cup {f}
  <2>1. strikes \in [Sources -> 0 .. MaxStrikes] /\ hot \in SUBSET Sources
    BY <1>4 DEF Memories
  <2>2. Failed(mem, f) = [mem EXCEPT !.strikes = strikes, !.hot = hot]
    BY <1>3
  <2> HIDE DEF strikes, hot
  <2> QED BY <2>1, <2>2 DEF Memories
<1>6. Failed(mem, f).strikes = [mem.strikes EXCEPT ![f] = more] /\ Failed(mem, f).blamed = mem.blamed
  BY <1>3 DEF Memories
<1>7. more \in {mem.strikes[f], mem.strikes[f] + 1}
  BY DEF more
<1> QED BY <1>1, <1>5, <1>6, <1>7

\* A walk is blamed for a source.
LEMMA BlamedKeeps ==
    ASSUME NEW mem \in Memories, NEW f \in Sources, NEW by \in Requests \X Nat
    PROVE  /\ Blamed(mem, f, by) \in Memories /\ Blamed(mem, f, by).strikes = mem.strikes
           /\ Blamed(mem, f, by).blamed[f] = mem.blamed[f] \cup {by}
           /\ \A s \in Sources : s # f => Blamed(mem, f, by).blamed[s] = mem.blamed[s]
<1> DEFINE blamed == [mem.blamed EXCEPT ![f] = @ \cup {by}]
<1>1. mem.blamed \in [Sources -> SUBSET (Requests \X Nat)]
  BY DEF Memories
<1>2. blamed \in [Sources -> SUBSET (Requests \X Nat)]
  BY <1>1
<1>3. blamed[f] = mem.blamed[f] \cup {by} /\ \A s \in Sources : s # f => blamed[s] = mem.blamed[s]
  BY <1>1
<1>4. Blamed(mem, f, by) = [mem EXCEPT !.blamed = blamed]
  BY DEF Blamed
<1> HIDE DEF blamed
<1> QED BY <1>2, <1>3, <1>4 DEF Memories

-----------------------------------------------------------------------------
(* One request's walk. *)

\* Of a source that was struck in a walk before: the walk by is blamed for one of after,
\* which is struck once more only if it is not one of before.
StruckBy(mem, new, s, by, before, after) ==
    /\ s \in after /\ new.blamed[s] = mem.blamed[s] \cup {by}
    /\ \/ new.strikes[s] = mem.strikes[s]
       \/ s \notin before /\ new.strikes[s] = mem.strikes[s] + 1

Strikes(mem, new, by, before, after) ==
    \A s \in Sources : \/ StruckAs(mem, new, s) \/ Cleared(new, s)
                       \/ StruckBy(mem, new, s, by, before, after)

\* What a step of request r leaves: its walk is in order, it is the first step of a new
\* walk or strikes for the one under way, and it leases one MAC at most.
Advances(r) ==
    /\ DOMAIN walk' = Requests /\ \A q \in Requests : q # r => walk'[q] = walk[q]
    /\ WalkOK(walk'[r])
    /\ memory' \in Memories
    /\ \/ walk'[r].zaps = walk[r].zaps + 1 /\ memory' = memory
       \/ /\ walk'[r].zaps = walk[r].zaps /\ walk[r].struck \subseteq walk'[r].struck
          /\ Strikes(memory, memory', <<r, walk[r].zaps>>, walk[r].struck, walk'[r].struck)
    /\ UNCHANGED <<usable, cooling, registered, release, macLocks>>
    /\ \/ lease' = lease
       \/ \E m \in Macs : lease' = [lease EXCEPT ![m] = Who[r]]

\* The hypotheses of a step.
Going(r) ==
    /\ RedirectAssumption /\ BreakerAssumption /\ r \in Requests
    /\ DOMAIN walk = Requests /\ WalkOK(walk[r])
    /\ memory \in Memories /\ usable \subseteq Macs

\* A memory whose strikes did not grow.
LEMMA Unstruck ==
    ASSUME NEW mem, NEW new, Noted(mem, new), NEW by, NEW before, NEW after
    PROVE  new \in Memories /\ Strikes(mem, new, by, before, after)
  BY DEF Noted, Strikes

\* A step that moves the walk only.
LEMMA WalkOnly ==
    ASSUME NEW r, Going(r), NEW v, WalkOK(v),
           \/ v.zaps = walk[r].zaps /\ v.struck = walk[r].struck
           \/ v.zaps = walk[r].zaps + 1 /\ memory' = memory,
           walk' = [walk EXCEPT ![r] = v],
           UNCHANGED <<usable, cooling, registered, release, occupancyVars>>,
           Noted(memory, memory')
    PROVE  Advances(r)
<1>1. DOMAIN walk = Requests /\ r \in Requests /\ memory \in Memories
  BY DEF Going
<1>2. walk'[r] = v /\ DOMAIN walk' = Requests /\ \A q \in Requests : q # r => walk'[q] = walk[q]
  BY <1>1
<1>3. memory' \in Memories
      /\ Strikes(memory, memory', <<r, walk[r].zaps>>, walk[r].struck, walk'[r].struck)
  BY Unstruck
<1> QED BY <1>2, <1>3 DEF Advances, occupancyVars

\* What has been walked stays walked.
LEMMA StaysWalked ==
    ASSUME NEW w, NEW v, v.chain = w.chain, w.struck \subseteq v.struck, w.tried \subseteq v.tried,
           NEW i, Walked(w, i)
    PROVE  Walked(v, i)
  BY DEF Walked

\* An unchanged memory notes nothing.
LEMMA NothingNoted == ASSUME memory \in Memories, UNCHANGED memory PROVE Noted(memory, memory')
  BY DEF Noted, StruckAs

\* Where every walk begins.
LEMMA IdleTyped == ASSUME 1 \in 1 .. Attempts PROVE Idle \in Walks
<1>1. "idle" \in Places /\ <<>> \in Seq(Macs) /\ <<>> \in Seq(Steps)
  BY DEF Places
<1> QED BY <1>1 DEF Idle, Walks

\* A chain is built and a walk begins.
LEMMA OpenAdvances == ASSUME NEW r, Going(r), Open(r) PROVE Advances(r)
<1> DEFINE route == RouteAsked[r]
           built == BuildChain(route)
           ordered == OrderedChain(memory, route, built)
           chain == DemoteHanded(memory, route, ordered)
           avoid == memory.handed[route]
           zaps == walk[r].zaps + 1
           v == [Idle EXCEPT !.at = "pass", !.chain = chain, !.avoid = avoid, !.zaps = zaps]
<1>1. route \in Routes /\ r \in Requests
  BY DEF Going, RedirectAssumption
<1>2. built \in Seq(Steps)
  <2> HIDE DEF route
  <2> QED BY <1>1, ChainTyped DEF Going
<1>3. ordered \in Seq(Steps)
  <2> HIDE DEF built, route
  <2> QED BY <1>2, OrderedChainTyped
<1>4. chain \in Seq(Steps)
  <2> HIDE DEF ordered, route
  <2> QED BY <1>3, DemoteHandedTyped
<1>5. walk' = [walk EXCEPT ![r] = v]
  BY DEF Open
<1>6. avoid \in Candidates \cup {Nothing}
  <2> HIDE DEF route
  <2> QED BY <1>1 DEF Going, Memories
<1>7. zaps \in Nat /\ zaps = walk[r].zaps + 1
  BY DEF Going, WalkOK, Placed, Walks
<1>8. 1 \in 1 .. Attempts
  BY DEF Going, RedirectAssumption
<1> HIDE DEF chain, route, avoid, zaps
<1>9. v \in Walks
  <2>1. Idle \in Walks
    BY <1>8, IdleTyped
  <2> QED BY <1>4, <1>6, <1>7, <2>1 DEF Walks, Places
<1>10. /\ v.at = "pass" /\ v.step = 0 /\ v.outcomes = {} /\ v.struck = {} /\ v.tried = {}
       /\ v.allBusy = TRUE /\ v.chain = chain /\ v.zaps = zaps
  <2>1. Idle \in Walks
    BY <1>8, IdleTyped
  <2>2. /\ Idle.step = 0 /\ Idle.outcomes = {} /\ Idle.struck = {} /\ Idle.tried = {}
        /\ Idle.allBusy = TRUE
    BY DEF Idle
  <2> QED BY <2>1, <2>2 DEF Walks
<1> HIDE DEF v
<1>11. WalkOK(v)
  <2>1. v.step <= Len(v.chain)
    BY <1>4, <1>10
  <2> QED BY <1>9, <1>10, <2>1 DEF WalkOK, Placed, Progress, Reckoned, Stepping, Trying
<1>12. UNCHANGED <<usable, cooling, registered, release, memory, occupancyVars>>
  BY DEF Open
<1>13. Noted(memory, memory')
  BY <1>12, NothingNoted DEF Going
<1> QED BY <1>5, <1>7, <1>10, <1>11, <1>12, <1>13, WalkOnly

\* A pass begins at the head of the chain, in an order that may have changed.
LEMMA PassAdvances == ASSUME NEW r, Going(r), Pass(r) PROVE Advances(r)
<1> DEFINE w == walk[r]
           chain == DemoteFailed(memory, RouteAsked[r], w.chain)
           v == [w EXCEPT !.at = "step", !.step = 0, !.chain = chain]
<1>1. w \in Walks /\ w.at = "pass" /\ WalkOK(w)
  BY DEF Going, WalkOK, Placed, Pass
<1>2. walk' = [walk EXCEPT ![r] = v]
  BY DEF Pass
<1> HIDE DEF w
<1>3. chain \in Seq(Steps) /\ (chain = <<>> <=> w.chain = <<>>)
  <2>1. w.chain \in Seq(Steps)
    BY <1>1 DEF Walks
  <2> QED BY <2>1, DemoteFailedTyped
<1> HIDE DEF chain
<1>4. v \in Walks
  BY <1>1, <1>3 DEF Walks, Places
<1>5. /\ v.at = "step" /\ v.step = 0 /\ v.chain = chain /\ v.outcomes = w.outcomes /\ v.struck = w.struck
      /\ v.tried = w.tried /\ v.allBusy = w.allBusy /\ v.zaps = w.zaps
  BY <1>1 DEF Walks
<1> HIDE DEF v
<1>6. WalkOK(v)
  <2>1. v.step <= Len(v.chain)
    BY <1>3, <1>5
  <2>2. Placed(v)
    BY <1>4, <1>5, <2>1 DEF Placed, Stepping, Trying
  <2>3. Progress(v)
    <3>1. 1 .. v.step - 1 = {}
      BY <1>5
    <3> QED BY <1>5, <3>1 DEF Progress, Stepping, Trying
  <2>4. Reckoned(v)
    BY <1>1, <1>3, <1>5 DEF WalkOK, Reckoned, Trying
  <2> QED BY <2>2, <2>3, <2>4 DEF WalkOK
<1>7. UNCHANGED <<usable, cooling, registered, release, memory, occupancyVars>>
  BY DEF Pass
<1>8. Noted(memory, memory')
  BY <1>7, NothingNoted DEF Going
<1> QED BY <1>2, <1>5, <1>6, <1>7, <1>8, WalkOnly DEF w

\* The next step of the chain: what was walked stays behind it.
LEMMA NextStepAdvances == ASSUME NEW r, Going(r), NextStep(r) PROVE Advances(r)
<1> DEFINE w == walk[r]
           k == w.step + 1
           cands == StepMacs(r, w.chain[k])
           v == [w EXCEPT !.at = "pick", !.step = k, !.cands = cands]
<1>1. w \in Walks /\ w.at = "step" /\ w.step < Len(w.chain) /\ WalkOK(w)
  BY DEF Going, WalkOK, Placed, NextStep
<1>2. walk' = [walk EXCEPT ![r] = v]
  BY DEF NextStep
<1>3. r \in Requests
  BY DEF Going
<1> HIDE DEF w
<1>4. w.chain \in Seq(Steps) /\ w.step \in Nat
  BY <1>1 DEF Walks
<1>5. k \in 1 .. Len(w.chain) /\ k - 1 = w.step /\ k \in Nat /\ k # 0
  BY <1>1, <1>4
<1> HIDE DEF k
<1>6. cands \in Seq(Macs) /\ Range(cands) = Range(w.chain[k].macs)
  <2>1. w.chain[k] \in Steps
    BY <1>4, <1>5
  <2> QED BY <1>3, <2>1, StepMacsTyped
<1> HIDE DEF cands
<1>7. v \in Walks
  BY <1>1, <1>5, <1>6 DEF Walks, Places
<1>8. /\ v.at = "pick" /\ v.step = k /\ v.cands = cands /\ v.chain = w.chain /\ v.outcomes = w.outcomes
      /\ v.struck = w.struck /\ v.tried = w.tried /\ v.allBusy = w.allBusy /\ v.zaps = w.zaps
  BY <1>1 DEF Walks
<1> HIDE DEF v
<1>9. Placed(v)
  <2>1. v.step <= Len(v.chain)
    BY <1>4, <1>5, <1>8
  <2> QED BY <1>5, <1>7, <1>8, <2>1 DEF Placed, Trying
<1>10. Progress(v)
  <2>1. ASSUME NEW i \in 1 .. k - 1 PROVE Walked(v, i)
    <3>1. i \in 1 .. w.step - 1 \/ (i = w.step /\ w.step # 0)
      BY <1>4, <1>5
    <3>2. Walked(w, i)
      BY <1>1, <3>1 DEF WalkOK, Progress
    <3> QED BY <1>8, <3>2, StaysWalked
  <2> QED BY <1>6, <1>8, <2>1 DEF Progress
<1>11. Reckoned(v)
  BY <1>1, <1>8 DEF WalkOK, Reckoned, Trying
<1>12. UNCHANGED <<usable, cooling, registered, release, memory, occupancyVars>>
  BY DEF NextStep
<1>13. Noted(memory, memory')
  BY <1>12, NothingNoted DEF Going
<1>14. WalkOK(v)
  BY <1>9, <1>10, <1>11 DEF WalkOK
<1> QED BY <1>2, <1>8, <1>12, <1>13, <1>14, WalkOnly DEF w

\* A chain that has a step has come to something when it is walked.
LEMMA WalkedComesTo ==
    ASSUME NEW w, WalkOK(w), w.chain # <<>>, w.at \notin Trying \cup {"done"},
           \A i \in DOMAIN w.chain : Walked(w, i)
    PROVE  w.outcomes # {}
<1>1. w \in Walks
  BY DEF WalkOK, Placed
<1>2. w.chain \in Seq(Steps)
  BY <1>1 DEF Walks
<1>3. 1 \in DOMAIN w.chain /\ w.chain[1] \in Steps
  BY <1>2
<1>4. w.chain[1].macs \in Seq(Macs) /\ w.chain[1].macs # <<>>
  BY <1>3 DEF Steps
<1>5. Range(w.chain[1].macs) # {}
  BY <1>4, EmptyRange
<1>6. w.struck # {} \/ w.tried # {}
  BY <1>3, <1>5 DEF Walked
<1> QED BY <1>6 DEF WalkOK, Reckoned

\* The chain is walked: another pass, or the answer.
LEMMA WalkedAllAdvances == ASSUME NEW r, Going(r), WalkedAll(r) PROVE Advances(r)
<1> DEFINE w == walk[r]
           again == [w EXCEPT !.at = "pass", !.pass = @ + 1]
           busy == w.allBusy /\ w.chain # <<>>
           over == [w EXCEPT !.at = "done", !.allBusy = busy]
<1>1. w \in Walks /\ w.at = "step" /\ w.step = Len(w.chain) /\ WalkOK(w)
  BY DEF Going, WalkOK, Placed, WalkedAll
<1>2. IF w.pass < Attempts /\ w.chain # <<>> THEN walk' = [walk EXCEPT ![r] = again]
      ELSE walk' = [walk EXCEPT ![r] = over]
  BY DEF WalkedAll
<1>3. UNCHANGED <<usable, cooling, registered, release, memory, occupancyVars>>
  BY DEF WalkedAll
<1>4. Noted(memory, memory')
  BY <1>3, NothingNoted DEF Going
<1>5. Attempts \in Nat
  BY DEF Going, RedirectAssumption
<1> HIDE DEF w
<1>6. ASSUME w.pass < Attempts PROVE WalkOK(again) /\ again.zaps = w.zaps /\ again.struck = w.struck
  <2> DEFINE p == w.pass + 1
  <2>1. p \in 1 .. Attempts
    BY <1>1, <1>5, <1>6 DEF Walks
  <2>2. again = [w EXCEPT !.at = "pass", !.pass = p]
    BY <1>1
  <2> HIDE DEF p, again
  <2>3. again \in Walks
    BY <1>1, <2>1, <2>2 DEF Walks, Places
  <2>4. /\ again.at = "pass" /\ again.step = w.step /\ again.chain = w.chain /\ again.outcomes = w.outcomes
        /\ again.struck = w.struck /\ again.tried = w.tried /\ again.allBusy = w.allBusy
        /\ again.zaps = w.zaps
    BY <1>1, <2>2 DEF Walks
  <2>5. Placed(again)
    BY <1>1, <2>3, <2>4 DEF WalkOK, Placed, Trying, Stepping
  <2>6. Progress(again) /\ Reckoned(again)
    BY <1>1, <2>4 DEF WalkOK, Progress, Reckoned, Trying, Stepping
  <2> QED BY <2>4, <2>5, <2>6 DEF WalkOK
<1>7. WalkOK(over) /\ over.zaps = w.zaps /\ over.struck = w.struck
  <2>1. busy \in BOOLEAN
    BY <1>1 DEF Walks
  <2>2. busy <=> w.allBusy = TRUE /\ w.chain # <<>>
    BY <1>1 DEF Walks
  <2> HIDE DEF busy
  <2>3. over \in Walks
    BY <1>1, <2>1 DEF Walks, Places
  <2>4. /\ over.at = "done" /\ over.step = w.step /\ over.chain = w.chain /\ over.outcomes = w.outcomes
        /\ over.struck = w.struck /\ over.tried = w.tried /\ over.allBusy = busy
        /\ over.zaps = w.zaps /\ over.answer = w.answer
    BY <1>1 DEF Walks
  <2> HIDE DEF over
  <2>5. Placed(over)
    BY <1>1, <2>3, <2>4 DEF WalkOK, Placed, Trying, Stepping
  <2>6. ASSUME NEW i \in DOMAIN w.chain PROVE Walked(w, i)
    <3>1. w.chain \in Seq(Steps)
      BY <1>1 DEF Walks
    <3>2. i \in 1 .. w.step - 1 \/ (i = w.step /\ w.step # 0)
      BY <1>1, <3>1
    <3> QED BY <1>1, <3>2 DEF WalkOK, Progress
  <2>7. Progress(over)
    <3>1. \A i \in DOMAIN over.chain : Walked(over, i)
      BY <2>4, <2>6, StaysWalked
    <3> QED BY <2>4, <3>1 DEF Progress, Stepping, Trying
  <2>8. Reckoned(over)
    <3>1. w.chain # <<>> => w.outcomes # {}
      BY <1>1, <2>6, WalkedComesTo DEF Trying
    <3>2. w.outcomes \subseteq {"busy", "dead"} /\ (w.outcomes # {} => w.chain # <<>>)
      BY <1>1 DEF Walks, WalkOK, Reckoned
    <3>3. w.allBusy = TRUE <=> "dead" \notin w.outcomes
      BY <1>1 DEF Walks, WalkOK, Reckoned
    <3>4. busy <=> w.outcomes = {"busy"}
      BY <2>2, <3>1, <3>2, <3>3
    <3>5. /\ w.outcomes # {} => w.chain # <<>>
          /\ w.struck # {} => w.outcomes # {}
      BY <1>1 DEF WalkOK, Reckoned
    <3> QED BY <2>4, <3>4, <3>5 DEF Reckoned
  <2> QED BY <2>4, <2>5, <2>7, <2>8 DEF WalkOK
<1> HIDE DEF again, over
<1>8. CASE w.pass < Attempts /\ w.chain # <<>>
  BY <1>2, <1>3, <1>4, <1>6, <1>8, WalkOnly DEF w
<1>9. CASE ~ (w.pass < Attempts /\ w.chain # <<>>)
  BY <1>2, <1>3, <1>4, <1>7, <1>9, WalkOnly DEF w
<1> QED BY <1>8, <1>9

\* A walk that stays at its step, with every candidate it has not come by before it.
LEMMA StaysAtStep ==
    ASSUME NEW w, WalkOK(w), w.at \in Stepping,
           NEW v, v.at \in Stepping, v.step = w.step, v.chain = w.chain,
           w.struck \subseteq v.struck, w.tried \subseteq v.tried,
           \A m \in Range(w.cands) : m \in Range(v.cands) \/ <<w.chain[w.step].src, m>> \in v.tried
    PROVE  Progress(v)
<1>1. \A i \in 1 .. v.step - 1 : Walked(v, i)
  BY StaysWalked DEF WalkOK, Progress
<1>2. \A m \in Range(v.chain[v.step].macs) :
         m \in Range(v.cands) \/ <<v.chain[v.step].src, m>> \in v.tried
  BY DEF WalkOK, Progress
<1> QED BY <1>1, <1>2 DEF Progress, Stepping, Trying

\* The candidate at hand is one.
LEMMA HereIsCandidate ==
    ASSUME NEW r, Going(r), walk[r].at \in Trying
    PROVE  /\ Here(r) \in Candidates /\ Here(r)[1] \in Sources /\ walk[r].mac \in Macs
           /\ Here(r) = <<walk[r].chain[walk[r].step].src, walk[r].mac>>
           /\ RouteAsked[r] \in Routes /\ Who[r] \in Users \cup {Anon}
<1> DEFINE w == walk[r]
<1>1. w \in Walks /\ w.step <= Len(w.chain) /\ w.step # 0 /\ w.mac # Nothing
  BY DEF Going, WalkOK, Placed, Stepping
<1>2. RouteAsked[r] \in Routes /\ Who[r] \in Users \cup {Anon}
  BY DEF Going, RedirectAssumption
<1>3. Here(r) = <<w.chain[w.step].src, w.mac>>
  BY DEF Here
<1> HIDE DEF w
<1>4. w.chain \in Seq(Steps) /\ w.step \in Nat /\ w.mac \in Macs
  BY <1>1 DEF Walks
<1>5. w.step \in DOMAIN w.chain
  BY <1>1, <1>4
<1>6. w.chain[w.step] \in Steps
  BY <1>4, <1>5
<1>7. w.chain[w.step].src \in Sources
  BY <1>6 DEF Steps
<1>8. Here(r) \in Candidates /\ Here(r)[1] \in Sources
  BY <1>3, <1>4, <1>7 DEF Candidates
<1> QED BY <1>2, <1>3, <1>4, <1>8 DEF w

\* The next MAC of the step is taken from its candidates.
LEMMA PickAdvances == ASSUME NEW r, Going(r), Pick(r) PROVE Advances(r)
<1> DEFINE w == walk[r]
           m == Head(w.cands)
           src == w.chain[w.step].src
           c == <<src, m>>
           rest == Tail(w.cands)
           tried == w.tried \cup {c}
           cached == memory.links[<<RouteAsked[r], m, Who[r]>>]
           v == [w EXCEPT !.cands = rest, !.mac = m, !.tried = tried]
           none == [w EXCEPT !.at = "step"]
           busy == [v EXCEPT !.outcomes = @ \cup {"busy"}]
           replay == [v EXCEPT !.at = "replay", !.url = cached]
           place == IF PlaysStored(r, c) THEN "stored" ELSE "session"
           plan == [v EXCEPT !.at = place]
<1>1. w \in Walks /\ w.at = "pick" /\ WalkOK(w) /\ w.step # 0 /\ w.step <= Len(w.chain)
  BY DEF Going, WalkOK, Placed, Pick, Stepping
<1>2. /\ w.cands = <<>> => walk' = [walk EXCEPT ![r] = none]
      /\ w.cands # <<>> => \/ walk' = [walk EXCEPT ![r] = busy]
                           \/ cached # Nothing /\ walk' = [walk EXCEPT ![r] = replay]
                           \/ walk' = [walk EXCEPT ![r] = plan]
  BY DEF Pick, Goto
<1>3. UNCHANGED <<usable, cooling, registered, release, memory, occupancyVars>>
  BY DEF Pick
<1>4. Noted(memory, memory')
  BY <1>3, NothingNoted DEF Going
<1>5. RouteAsked[r] \in Routes /\ Who[r] \in Users \cup {Anon} /\ memory \in Memories
  BY DEF Going, RedirectAssumption
<1> DEFINE Done(x) == walk' = [walk EXCEPT ![r] = x]
<1>6. ASSUME NEW x, Done(x), WalkOK(x), x.zaps = w.zaps, x.struck = w.struck PROVE Advances(r)
  BY <1>3, <1>4, <1>6, WalkOnly
<1> HIDE DEF w, Done
<1>7. /\ w.chain \in Seq(Steps) /\ w.step \in DOMAIN w.chain /\ w.cands \in Seq(Macs)
      /\ src \in Sources /\ w.tried \in SUBSET Candidates
  <2>1. w.chain \in Seq(Steps) /\ w.step \in Nat /\ w.cands \in Seq(Macs) /\ w.tried \in SUBSET Candidates
    BY <1>1 DEF Walks
  <2>2. w.step \in DOMAIN w.chain
    BY <1>1, <2>1
  <2>3. w.chain[w.step] \in Steps
    BY <2>1, <2>2
  <2> QED BY <2>1, <2>2, <2>3 DEF Steps
<1>8. CASE w.cands = <<>>
  <2>1. none \in Walks
    BY <1>1 DEF Walks, Places
  <2>2. /\ none.at = "step" /\ none.step = w.step /\ none.chain = w.chain /\ none.outcomes = w.outcomes
        /\ none.struck = w.struck /\ none.tried = w.tried /\ none.allBusy = w.allBusy
        /\ none.zaps = w.zaps
    BY <1>1 DEF Walks
  <2>3. Done(none)
    BY <1>2, <1>8 DEF Done
  <2> HIDE DEF none
  <2>4. Placed(none)
    BY <1>1, <2>1, <2>2 DEF WalkOK, Placed, Trying, Stepping
  <2>5. Range(w.cands) = {}
    BY <1>8 DEF Range
  <2>6. Progress(none)
    <3>1. \A i \in 1 .. w.step - 1 : Walked(none, i)
      BY <1>1, <2>2, StaysWalked DEF WalkOK, Progress, Stepping
    <3>2. Walked(none, w.step)
      BY <1>1, <2>2, <2>5 DEF WalkOK, Progress, Walked, Stepping
    <3> QED BY <2>2, <3>1, <3>2 DEF Progress, Stepping, Trying
  <2>7. Reckoned(none)
    BY <1>1, <2>2 DEF WalkOK, Reckoned, Trying
  <2> QED BY <1>6, <2>2, <2>3, <2>4, <2>6, <2>7 DEF WalkOK
<1>9. CASE w.cands # <<>>
  <2>1. m \in Macs /\ rest \in Seq(Macs) /\ \A x \in Range(w.cands) : x = m \/ x \in Range(rest)
    <3> DEFINE cs == w.cands
    <3>1. cs \in Seq(Macs) /\ cs # <<>>
      BY <1>7, <1>9
    <3> HIDE DEF cs
    <3>2. Head(cs) \in Macs /\ Tail(cs) \in Seq(Macs)
      BY <3>1
    <3>3. ASSUME NEW i \in DOMAIN cs, i # 1 PROVE i - 1 \in DOMAIN Tail(cs) /\ Tail(cs)[i - 1] = cs[i]
      BY <3>1, <3>3
    <3>4. cs[1] = Head(cs)
      BY <3>1
    <3>5. \A x \in Range(cs) : x = Head(cs) \/ x \in Range(Tail(cs))
      BY <3>3, <3>4 DEF Range
    <3> QED BY <3>2, <3>5 DEF cs
  <2>2. cached \in Urls \cup {Nothing}
    <3> DEFINE key == <<RouteAsked[r], m, Who[r]>>
    <3>1. key \in Routes \X Macs \X (Users \cup {Anon})
      BY <1>5, <2>1
    <3>2. memory.links \in [Routes \X Macs \X (Users \cup {Anon}) -> Urls \cup {Nothing}]
      BY <1>5 DEF Memories
    <3> HIDE DEF key
    <3>3. memory.links[key] \in Urls \cup {Nothing}
      BY <3>1, <3>2
    <3> QED BY <3>3 DEF key
  <2>3. c \in Candidates /\ tried \in SUBSET Candidates
    BY <1>7, <2>1 DEF Candidates
  <2>4. m # Nothing
    BY <2>1 DEF Going, RedirectAssumption
  <2>5. place \in {"stored", "session"}
    OBVIOUS
  <2>6. w.tried \subseteq tried /\ c \in tried
    OBVIOUS
  <2> HIDE DEF cached, rest, m, place, tried
  <2>7. v \in Walks
    BY <1>1, <2>1, <2>3 DEF Walks
  <2>8. /\ v.at = "pick" /\ v.step = w.step /\ v.chain = w.chain /\ v.outcomes = w.outcomes
        /\ v.struck = w.struck /\ v.tried = tried /\ v.allBusy = w.allBusy /\ v.zaps = w.zaps
        /\ v.cands = rest /\ v.mac = m
    BY <1>1 DEF Walks
  <2> HIDE DEF v
  <2>9. ASSUME NEW x, x \in Walks, x.at \in Stepping, x.step = v.step, x.chain = v.chain, x.mac = m,
               x.cands = rest, x.struck = v.struck, x.tried = tried, x.at = "replay" => x.url # Nothing
        PROVE  Placed(x) /\ Progress(x)
    <3>1. Placed(x)
      BY <1>1, <2>4, <2>8, <2>9 DEF Placed
    <3>2. \A y \in Range(w.cands) : y \in Range(x.cands) \/ <<w.chain[w.step].src, y>> \in x.tried
      BY <2>1, <2>6, <2>9
    <3>3. Progress(x)
      BY <1>1, <2>6, <2>8, <2>9, <3>2, StaysAtStep DEF Stepping
    <3> QED BY <3>1, <3>3
  <2>10. WalkOK(busy) /\ busy.zaps = w.zaps /\ busy.struck = w.struck
    <3>1. busy \in Walks
      BY <2>7 DEF Walks
    <3>2. /\ busy.at = "pick" /\ busy.step = v.step /\ busy.chain = v.chain /\ busy.mac = m
          /\ busy.cands = rest /\ busy.struck = v.struck /\ busy.tried = tried
          /\ busy.outcomes = v.outcomes \cup {"busy"} /\ busy.allBusy = v.allBusy
          /\ busy.zaps = v.zaps
      BY <2>7, <2>8 DEF Walks
    <3> HIDE DEF busy
    <3>3. Placed(busy) /\ Progress(busy)
      BY <2>9, <3>1, <3>2 DEF Stepping
    <3>4. v.chain # <<>>
      BY <1>7, <2>8
    <3>5. Reckoned(busy)
      BY <1>1, <2>8, <3>2, <3>4 DEF WalkOK, Reckoned, Trying
    <3> QED BY <2>8, <3>2, <3>3, <3>5 DEF WalkOK
  <2>11. ASSUME cached # Nothing PROVE WalkOK(replay) /\ replay.zaps = w.zaps /\ replay.struck = w.struck
    <3>1. replay \in Walks
      BY <2>2, <2>7 DEF Walks, Places
    <3>2. /\ replay.at = "replay" /\ replay.step = v.step /\ replay.chain = v.chain /\ replay.mac = m
          /\ replay.cands = rest /\ replay.struck = v.struck /\ replay.tried = tried
          /\ replay.outcomes = v.outcomes /\ replay.allBusy = v.allBusy /\ replay.url = cached
          /\ replay.zaps = v.zaps
      BY <2>7, <2>8 DEF Walks
    <3> HIDE DEF replay
    <3>3. Placed(replay) /\ Progress(replay)
      BY <2>9, <2>11, <3>1, <3>2 DEF Stepping, Trying
    <3>4. Reckoned(replay)
      BY <1>1, <2>8, <3>2 DEF WalkOK, Reckoned, Trying
    <3> QED BY <2>8, <3>2, <3>3, <3>4 DEF WalkOK
  <2>12. WalkOK(plan) /\ plan.zaps = w.zaps /\ plan.struck = w.struck
    <3>1. plan \in Walks
      BY <2>5, <2>7 DEF Walks, Places
    <3>2. /\ plan.at = place /\ plan.step = v.step /\ plan.chain = v.chain /\ plan.mac = m
          /\ plan.cands = rest /\ plan.struck = v.struck /\ plan.tried = tried
          /\ plan.outcomes = v.outcomes /\ plan.allBusy = v.allBusy
          /\ plan.zaps = v.zaps
      BY <2>7, <2>8 DEF Walks
    <3> HIDE DEF plan
    <3>3. Placed(plan) /\ Progress(plan)
      BY <2>5, <2>9, <3>1, <3>2 DEF Stepping, Trying
    <3>4. Reckoned(plan)
      BY <1>1, <2>5, <2>8, <3>2 DEF WalkOK, Reckoned, Trying
    <3> QED BY <2>8, <3>2, <3>3, <3>4 DEF WalkOK
  <2> HIDE DEF busy, replay, plan
  <2>13. Done(busy) \/ (cached # Nothing /\ Done(replay)) \/ Done(plan)
    BY <1>2, <1>9 DEF Done
  <2> QED BY <1>6, <2>10, <2>11, <2>12, <2>13
<1> QED BY <1>8, <1>9

\* A candidate that is left, or tried another way, has come to something: what it came
\* to is reckoned, and a step is left behind only with its source refused.
LEMMA CandidateComesTo ==
    ASSUME NEW w, WalkOK(w), w.at \in Trying,
           NEW v \in Walks, v.at \in Stepping \cup {"step"}, v.at # "replay",
           v.step = w.step, v.chain = w.chain, v.cands = w.cands, v.tried = w.tried, v.mac = w.mac,
           w.struck \subseteq v.struck, v.at = "step" => w.chain[w.step].src \in v.struck,
           \/ v.outcomes = w.outcomes \cup {"dead"} /\ v.allBusy = FALSE
           \/ v.outcomes = w.outcomes \cup {"busy"} /\ v.allBusy = w.allBusy /\ v.struck = w.struck
           \/ v.outcomes = w.outcomes /\ v.allBusy = w.allBusy /\ v.struck = w.struck /\ v.at \in Trying
    PROVE  WalkOK(v)
<1>1. w \in Walks /\ w.step # 0 /\ w.step <= Len(w.chain) /\ w.mac # Nothing
  BY DEF WalkOK, Placed, Stepping
<1>2. Placed(v)
  BY <1>1 DEF Placed
<1>3. w.chain # <<>>
  <2>1. w.chain \in Seq(Steps) /\ w.step \in Nat
    BY <1>1 DEF Walks
  <2> QED BY <1>1, <2>1
<1>4. Progress(v)
  <2>1. CASE v.at \in Stepping
    <3>1. w.at \in Stepping
      BY DEF Stepping
    <3> QED BY <2>1, <3>1, StaysAtStep
  <2>2. CASE v.at = "step"
    <3>1. \A i \in 1 .. w.step - 1 : Walked(v, i)
      BY StaysWalked DEF WalkOK, Progress, Stepping
    <3>2. Walked(v, w.step)
      BY <2>2 DEF Walked
    <3> QED BY <2>2, <3>1, <3>2 DEF Progress, Stepping, Trying
  <2> QED BY <2>1, <2>2
<1>5. Reckoned(v)
  <2>1. w.struck # {} => w.outcomes # {}
    BY DEF WalkOK, Reckoned
  <2>2. w.allBusy <=> "dead" \notin w.outcomes
    BY DEF WalkOK, Reckoned, Trying
  <2>3. v.at # "done"
    BY DEF Stepping, Trying
  <2>4. w.outcomes # {} => v.outcomes # {}
    OBVIOUS
  <2>5. v.struck # {} => v.outcomes # {}
    BY <2>1
  <2>6. v.at \notin Trying \cup {"done"} => v.outcomes # {}
    OBVIOUS
  <2>7. v.allBusy <=> "dead" \notin v.outcomes
    BY <2>2
  <2> QED BY <1>3, <2>3, <2>5, <2>6, <2>7 DEF Reckoned
<1> QED BY <1>2, <1>4, <1>5 DEF WalkOK

\* A candidate under way goes on being tried.
LEMMA SessionAdvances == ASSUME NEW r, Going(r), Session(r) \/ Linked(r) PROVE Advances(r)
<1> DEFINE w == walk[r]
           patience == IF HasAlternative(r) THEN 0 ELSE Backoff
           asks == [w EXCEPT !.at = "ask", !.patience = patience]
           fresh == [w EXCEPT !.at = "fresh"]
<1>1. w \in Walks /\ w.at \in {"session", "ask"} /\ w.at \in Trying /\ WalkOK(w)
  BY DEF Going, WalkOK, Placed, Session, Linked, Trying
<1>2. walk' = [walk EXCEPT ![r] = asks] \/ walk' = [walk EXCEPT ![r] = fresh]
  BY DEF Session, Linked, Goto
<1>3. UNCHANGED <<usable, cooling, registered, release, memory, occupancyVars>>
  BY DEF Session, Linked
<1>4. Noted(memory, memory')
  BY <1>3, NothingNoted DEF Going
<1>5. patience \in Nat
  BY DEF Going, RedirectAssumption
<1> HIDE DEF w, patience
<1>6. asks \in Walks /\ fresh \in Walks
  BY <1>1, <1>5 DEF Walks, Places
<1>7. /\ asks.at = "ask" /\ asks.step = w.step /\ asks.chain = w.chain /\ asks.cands = w.cands
      /\ asks.tried = w.tried /\ asks.mac = w.mac /\ asks.struck = w.struck
      /\ asks.outcomes = w.outcomes /\ asks.allBusy = w.allBusy /\ asks.zaps = w.zaps
  BY <1>1 DEF Walks
<1>8. /\ fresh.at = "fresh" /\ fresh.step = w.step /\ fresh.chain = w.chain /\ fresh.cands = w.cands
      /\ fresh.tried = w.tried /\ fresh.mac = w.mac /\ fresh.struck = w.struck
      /\ fresh.outcomes = w.outcomes /\ fresh.allBusy = w.allBusy /\ fresh.zaps = w.zaps
  BY <1>1 DEF Walks
<1> HIDE DEF asks, fresh
<1>9. WalkOK(asks)
  BY <1>1, <1>6, <1>7, CandidateComesTo DEF Stepping, Trying
<1>10. WalkOK(fresh)
  BY <1>1, <1>6, <1>8, CandidateComesTo DEF Stepping, Trying
<1> QED BY <1>2, <1>3, <1>4, <1>7, <1>8, <1>9, <1>10, WalkOnly DEF w

\* The panel's slot is busy: patience, or the next candidate.
LEMMA SlotBusyAdvances == ASSUME NEW r, Going(r), SlotBusy(r) PROVE Advances(r)
<1> DEFINE w == walk[r]
           less == w.patience - 1
           waits == [w EXCEPT !.patience = less]
           out == [w EXCEPT !.at = "pick", !.outcomes = @ \cup {"busy"}, !.patience = 0]
<1>1. w \in Walks /\ w.at \in {"session", "ask"} /\ w.at \in Trying /\ WalkOK(w)
  BY DEF Going, WalkOK, Placed, SlotBusy, Trying
<1>2. \/ w.patience > 0 /\ walk' = [walk EXCEPT ![r] = waits] /\ UNCHANGED memory
      \/ memory' = NoteFailure(memory, RouteAsked[r], Here(r)) /\ walk' = [walk EXCEPT ![r] = out]
  BY DEF SlotBusy
<1>3. UNCHANGED <<usable, cooling, registered, release, occupancyVars>>
  BY DEF SlotBusy
<1>4. Noted(memory, memory) /\ Noted(memory, NoteFailure(memory, RouteAsked[r], Here(r)))
  <2>1. Here(r) \in Candidates /\ RouteAsked[r] \in Routes /\ memory \in Memories
    BY <1>1, HereIsCandidate DEF Going
  <2> QED BY <2>1, StrikesKept, NoteFailureKeeps
<1> HIDE DEF w
<1>5. ASSUME w.patience > 0 PROVE WalkOK(waits) /\ waits.zaps = w.zaps /\ waits.struck = w.struck
  <2>1. less \in Nat
    BY <1>1, <1>5 DEF Walks
  <2> HIDE DEF less
  <2>2. waits \in Walks
    BY <1>1, <2>1 DEF Walks
  <2>3. /\ waits.at = w.at /\ waits.step = w.step /\ waits.chain = w.chain /\ waits.cands = w.cands
        /\ waits.tried = w.tried /\ waits.mac = w.mac /\ waits.struck = w.struck
        /\ waits.outcomes = w.outcomes /\ waits.allBusy = w.allBusy /\ waits.zaps = w.zaps
    BY <1>1 DEF Walks
  <2> HIDE DEF waits
  <2> QED BY <1>1, <2>2, <2>3, CandidateComesTo DEF Stepping
<1>6. WalkOK(out) /\ out.zaps = w.zaps /\ out.struck = w.struck
  <2>1. out \in Walks
    BY <1>1 DEF Walks, Places
  <2>2. /\ out.at = "pick" /\ out.step = w.step /\ out.chain = w.chain /\ out.cands = w.cands
        /\ out.tried = w.tried /\ out.mac = w.mac /\ out.struck = w.struck
        /\ out.outcomes = w.outcomes \cup {"busy"} /\ out.allBusy = w.allBusy /\ out.zaps = w.zaps
    BY <1>1 DEF Walks
  <2> HIDE DEF out
  <2> QED BY <1>1, <2>1, <2>2, CandidateComesTo DEF Stepping
<1> HIDE DEF waits, out
<1> QED BY <1>2, <1>3, <1>4, <1>5, <1>6, WalkOnly DEF w

\* A dead candidate is noted, and the walk goes on.
LEMMA StoredDeadAdvances == ASSUME NEW r, Going(r), StoredDead(r) PROVE Advances(r)
<1> DEFINE w == walk[r]
           v == [w EXCEPT !.at = "session", !.deadStored = @ \cup {Here(r)},
                          !.allBusy = FALSE, !.outcomes = @ \cup {"dead"}]
           judged == NoteVerdict(memory, Here(r), FALSE)
<1>1. w \in Walks /\ w.at = "stored" /\ w.at \in Trying /\ WalkOK(w)
  BY DEF Going, WalkOK, Placed, StoredDead, Trying
<1>2. Here(r) \in Candidates /\ RouteAsked[r] \in Routes /\ memory \in Memories
  BY <1>1, HereIsCandidate DEF Going
<1>3. walk' = [walk EXCEPT ![r] = v] /\ memory' = NoteFailure(judged, RouteAsked[r], Here(r))
      /\ UNCHANGED <<usable, cooling, registered, release, occupancyVars>>
  BY DEF StoredDead
<1>4. Noted(memory, memory')
  <2>1. Noted(memory, judged)
    BY <1>2, NoteVerdictKeeps
  <2> HIDE DEF judged
  <2>2. judged \in Memories
    BY <2>1 DEF Noted
  <2>3. Noted(judged, memory')
    BY <1>2, <1>3, <2>2, NoteFailureKeeps
  <2> QED BY <1>2, <2>1, <2>3, NotedThen
<1> DEFINE here == Here(r)
<1> HIDE DEF w, here
<1>5. v \in Walks
  <2>1. v = [w EXCEPT !.at = "session", !.deadStored = @ \cup {here},
                      !.allBusy = FALSE, !.outcomes = @ \cup {"dead"}]
    BY DEF here
  <2>2. here \in Candidates
    BY <1>2 DEF here
  <2> HIDE DEF v
  <2> QED BY <1>1, <2>1, <2>2 DEF Walks, Places
<1>6. /\ v.at = "session" /\ v.step = w.step /\ v.chain = w.chain /\ v.cands = w.cands
      /\ v.tried = w.tried /\ v.mac = w.mac /\ v.struck = w.struck
      /\ v.outcomes = w.outcomes \cup {"dead"} /\ v.allBusy = FALSE /\ v.zaps = w.zaps
  BY <1>1 DEF Walks
<1> HIDE DEF v
<1>7. WalkOK(v)
  BY <1>1, <1>5, <1>6, CandidateComesTo DEF Stepping, Trying
<1> QED BY <1>3, <1>4, <1>6, <1>7, WalkOnly DEF w

\* The walk of a candidate that is out, whatever was struck for it.
LEMMA OutAdvances ==
    ASSUME NEW r, Going(r), walk[r].at \in Trying,
           NEW place \in {"pick", "step"}, NEW mem \in Memories, NEW struck \in SUBSET Sources,
           walk[r].struck \subseteq struck, place = "step" => Here(r)[1] \in struck,
           Strikes(memory, mem, <<r, walk[r].zaps>>, walk[r].struck, struck),
           OutAt(r, place, mem, struck)
    PROVE  Advances(r)
<1> DEFINE w == walk[r]
           v == [w EXCEPT !.at = place, !.allBusy = FALSE, !.outcomes = @ \cup {"dead"},
                          !.struck = struck, !.patience = 0]
<1>1. w \in Walks /\ w.at \in Trying /\ WalkOK(w) /\ DOMAIN walk = Requests /\ r \in Requests
  BY DEF Going, WalkOK, Placed
<1>2. /\ Here(r) \in Candidates /\ RouteAsked[r] \in Routes
      /\ Here(r) = <<w.chain[w.step].src, w.mac>>
  BY <1>1, HereIsCandidate
<1>3. /\ walk' = [walk EXCEPT ![r] = v] /\ memory' = NoteFailure(mem, RouteAsked[r], Here(r))
      /\ UNCHANGED <<usable, cooling, registered, release, occupancyVars>>
  BY DEF OutAt
<1> HIDE DEF w
<1>4. v \in Walks
  BY <1>1 DEF Walks, Places
<1>5. /\ v.at = place /\ v.step = w.step /\ v.chain = w.chain /\ v.cands = w.cands
      /\ v.tried = w.tried /\ v.mac = w.mac /\ v.struck = struck
      /\ v.outcomes = w.outcomes \cup {"dead"} /\ v.allBusy = FALSE /\ v.zaps = w.zaps
  BY <1>1 DEF Walks
<1> HIDE DEF v
<1>6. WalkOK(v)
  <2>1. v.at = "step" => w.chain[w.step].src \in v.struck
    BY <1>2, <1>5
  <2>2. w.struck \subseteq v.struck
    BY <1>5 DEF w
  <2> QED BY <1>1, <1>4, <1>5, <2>1, <2>2, CandidateComesTo DEF Stepping, Trying
<1>7. walk'[r] = v /\ DOMAIN walk' = Requests /\ \A q \in Requests : q # r => walk'[q] = walk[q]
  BY <1>1, <1>3
<1>8. memory' \in Memories /\ memory'.strikes = mem.strikes /\ memory'.blamed = mem.blamed
  BY <1>2, <1>3 DEF NoteFailure, Memories
<1>9. Strikes(memory, memory', <<r, walk[r].zaps>>, walk[r].struck, walk'[r].struck)
  BY <1>5, <1>7, <1>8 DEF Strikes, StruckAs, Cleared, StruckBy
<1>10. walk'[r].zaps = walk[r].zaps /\ walk[r].struck \subseteq walk'[r].struck
  BY <1>5, <1>7 DEF w
<1> QED BY <1>3, <1>6, <1>7, <1>8, <1>9, <1>10 DEF Advances, occupancyVars

\* A refused MAC, and a link the panel gave that is dead, strike nothing.
LEMMA MacRefusedAdvances == ASSUME NEW r, Going(r), MacRefused(r) \/ FreshDead(r) PROVE Advances(r)
<1> DEFINE dropped == NoteLink(memory, RouteAsked[r], walk[r].mac, Who[r], Nothing)
<1>1. walk[r].at \in Trying /\ memory \in Memories
  BY DEF Going, MacRefused, FreshDead, Trying
<1>2. walk[r].struck \in SUBSET Sources
  BY DEF Going, WalkOK, Placed, Walks
<1>3. Noted(memory, memory) /\ Noted(memory, dropped)
  BY <1>1, StrikesKept, NoteLinkKeeps
<1> HIDE DEF dropped
<1>4. \/ OutAt(r, "pick", memory, walk[r].struck)
      \/ OutAt(r, "pick", dropped, walk[r].struck)
  BY DEF MacRefused, FreshDead, dropped
<1>5. dropped \in Memories
      /\ Strikes(memory, dropped, <<r, walk[r].zaps>>, walk[r].struck, walk[r].struck)
  BY <1>3, Unstruck
<1>6. Strikes(memory, memory, <<r, walk[r].zaps>>, walk[r].struck, walk[r].struck)
  BY <1>3, Unstruck
<1>7. CASE OutAt(r, "pick", memory, walk[r].struck)
  BY <1>1, <1>2, <1>6, <1>7, OutAdvances
<1>8. CASE OutAt(r, "pick", dropped, walk[r].struck)
  BY <1>1, <1>2, <1>5, <1>8, OutAdvances
<1> QED BY <1>4, <1>7, <1>8

\* A source is struck when the walk has not struck it yet.
LEMMA SourceFailedAdvances == ASSUME NEW r, Going(r), SourceFailed(r) PROVE Advances(r)
<1> DEFINE f == Here(r)[1]
           by == <<r, walk[r].zaps>>
           hit == IF f \in walk[r].struck THEN memory ELSE Failed(memory, f)
           mem == Blamed(hit, f, by)
           struck == walk[r].struck \cup {f}
<1>1. walk[r].at \in Trying /\ memory \in Memories /\ BreakerAssumption
  BY DEF Going, SourceFailed, Trying
<1>2. walk[r].struck \in SUBSET Sources /\ by \in Requests \X Nat
  BY DEF Going, WalkOK, Placed, Walks
<1>3. f \in Sources
  BY <1>1, HereIsCandidate
<1>4. PICK place \in {"step", "pick"} : OutAt(r, place, mem, struck)
  BY DEF SourceFailed
<1> DEFINE h == Here(r)
<1>5. h[1] = f
  OBVIOUS
<1> HIDE DEF f
<1>6. mem \in Memories /\ Strikes(memory, mem, by, walk[r].struck, struck)
  <2>1. /\ hit \in Memories /\ hit.blamed = memory.blamed
        /\ \/ hit.strikes[f] = memory.strikes[f]
           \/ f \notin walk[r].struck /\ hit.strikes[f] = memory.strikes[f] + 1
        /\ \A s \in Sources : s # f => hit.strikes[s] = memory.strikes[s]
    BY <1>1, <1>3, FailureKeeps
  <2> HIDE DEF hit, by
  <2>2. /\ mem \in Memories /\ mem.strikes = hit.strikes
        /\ mem.blamed[f] = hit.blamed[f] \cup {by}
        /\ \A s \in Sources : s # f => mem.blamed[s] = hit.blamed[s]
    BY <1>2, <1>3, <2>1, BlamedKeeps
  <2> HIDE DEF mem
  <2>3. f \in struck
    OBVIOUS
  <2> HIDE DEF struck
  <2>4. ASSUME NEW s \in Sources
        PROVE  StruckAs(memory, mem, s) \/ StruckBy(memory, mem, s, by, walk[r].struck, struck)
    BY <2>1, <2>2, <2>3 DEF StruckAs, StruckBy
  <2> QED BY <2>2, <2>4 DEF Strikes
<1>7. struck \in SUBSET Sources /\ walk[r].struck \subseteq struck /\ Here(r)[1] \in struck
  BY <1>2, <1>3, <1>5
<1> HIDE DEF mem, struck
<1> QED BY <1>1, <1>4, <1>6, <1>7, OutAdvances

\* A link is handed out: the walk is over, and its MAC is leased.
LEMMA HandOutAdvances ==
    ASSUME NEW r, Going(r), walk[r].at \in Trying,
           NEW url \in Urls \cup {Nothing}, url # Nothing,
           NEW mem, Noted(memory, mem), HandOut(r, url, mem)
    PROVE  Advances(r)
<1> DEFINE w == walk[r]
           m == w.mac
           v == [w EXCEPT !.at = "done", !.answer = url]
<1>1. w \in Walks /\ WalkOK(w) /\ DOMAIN walk = Requests /\ r \in Requests /\ memory \in Memories
      /\ BreakerAssumption
  BY DEF Going, WalkOK, Placed
<1>2. Here(r) \in Candidates /\ RouteAsked[r] \in Routes /\ m \in Macs
  BY HereIsCandidate
<1>3. /\ walk' = [walk EXCEPT ![r] = v] /\ memory' = Succeeded(mem, RouteAsked[r], Here(r))
      /\ lease' = [lease EXCEPT ![m] = Who[r]]
      /\ UNCHANGED <<usable, cooling, registered, release, macLocks>>
  BY DEF HandOut
<1>4. Noted(memory, memory')
  <2>1. mem \in Memories
    BY DEF Noted
  <2>2. Noted(mem, memory')
    BY <1>1, <1>2, <1>3, <2>1, SuccessKeeps
  <2> QED BY <1>1, <2>2, NotedThen
<1> HIDE DEF w, m
<1>5. v \in Walks
  BY <1>1, <1>2 DEF Walks, Places
<1>6. /\ v.at = "done" /\ v.step = w.step /\ v.chain = w.chain /\ v.struck = w.struck
      /\ v.outcomes = w.outcomes /\ v.answer = url /\ v.zaps = w.zaps
  BY <1>1 DEF Walks
<1> HIDE DEF v
<1>7. WalkOK(v)
  <2>1. Placed(v)
    BY <1>1, <1>5, <1>6 DEF WalkOK, Placed, Stepping, Trying
  <2>2. Progress(v)
    BY <1>6 DEF Progress, Stepping, Trying
  <2>3. Reckoned(v)
    BY <1>1, <1>6 DEF WalkOK, Reckoned
  <2> QED BY <2>1, <2>2, <2>3 DEF WalkOK
<1>8. walk'[r] = v /\ DOMAIN walk' = Requests /\ \A q \in Requests : q # r => walk'[q] = walk[q]
  BY <1>1, <1>3
<1>9. memory' \in Memories
      /\ Strikes(memory, memory', <<r, walk[r].zaps>>, walk[r].struck, walk'[r].struck)
  BY <1>4, Unstruck
<1>10. walk'[r].zaps = walk[r].zaps /\ walk[r].struck \subseteq walk'[r].struck
  BY <1>6, <1>8 DEF w
<1> QED BY <1>2, <1>3, <1>7, <1>8, <1>9, <1>10 DEF Advances

\* So is a link that was probed for this walk.
LEMMA HandOutNewAdvances ==
    ASSUME NEW r, Going(r), walk[r].at \in Trying,
           NEW url \in Urls \cup {Nothing}, url # Nothing,
           NEW mem, Noted(memory, mem), HandOutNew(r, url, mem)
    PROVE  Advances(r)
<1> DEFINE route == RouteAsked[r]
           a == NoteHanded(mem, route, Here(r))
           b == NoteLink(a, route, walk[r].mac, Who[r], url)
           c == ClearFailures(b, route)
<1>1. memory \in Memories /\ mem \in Memories
  BY DEF Going, Noted
<1>2. Here(r) \in Candidates /\ route \in Routes
  BY HereIsCandidate
<1>3. HandOut(r, url, c)
  BY DEF HandOutNew
<1>4. Noted(mem, a)
  BY <1>1, <1>2, NoteHandedKeeps
<1> HIDE DEF a
<1>5. a \in Memories
  BY <1>4 DEF Noted
<1>6. Noted(a, b)
  BY <1>5, NoteLinkKeeps
<1> HIDE DEF b
<1>7. b \in Memories
  BY <1>6 DEF Noted
<1>8. Noted(b, c)
  BY <1>7, ClearFailuresKeeps
<1> HIDE DEF c
<1>9. Noted(memory, a)
  BY <1>1, <1>4, NotedThen
<1>10. Noted(memory, b)
  BY <1>1, <1>6, <1>9, NotedThen
<1>11. Noted(memory, c)
  BY <1>1, <1>8, <1>10, NotedThen
<1> QED BY <1>3, <1>11, HandOutAdvances

\* A stored link, or one the panel gave, answers its probe.
LEMMA AliveAdvances == ASSUME NEW r, Going(r), StoredAlive(r) \/ FreshAlive(r) PROVE Advances(r)
<1> DEFINE Url(stored) == [src |-> Here(r)[1], mac |-> Here(r)[2], stored |-> stored]
           proved == NoteVerdict(memory, Here(r), TRUE)
<1>1. walk[r].at \in Trying /\ memory \in Memories
  BY DEF Going, StoredAlive, FreshAlive, Trying
<1>2. Here(r) \in Candidates
  BY <1>1, HereIsCandidate
<1>3. ASSUME NEW stored \in BOOLEAN
      PROVE  Url(stored) \in Urls \cup {Nothing} /\ Url(stored) # Nothing
  <2>1. Here(r)[1] \in Sources /\ Here(r)[2] \in Macs
    BY <1>2 DEF Candidates
  <2>2. Url(stored) \in Urls
    BY <2>1 DEF Urls
  <2>3. Nothing \notin Urls
    BY DEF Going, RedirectAssumption
  <2> QED BY <2>2, <2>3
<1>4. Noted(memory, memory) /\ Noted(memory, proved)
  BY <1>1, <1>2, StrikesKept, NoteVerdictKeeps
<1>5. \/ HandOutNew(r, Url(TRUE), proved) \/ HandOutNew(r, Url(TRUE), memory)
      \/ HandOutNew(r, Url(FALSE), memory)
  BY DEF StoredAlive, FreshAlive
<1>6. Url(TRUE) \in Urls \cup {Nothing} /\ Url(TRUE) # Nothing
      /\ Url(FALSE) \in Urls \cup {Nothing} /\ Url(FALSE) # Nothing
  BY <1>3
<1> DEFINE stored == Url(TRUE)
           fresh == Url(FALSE)
<1>7. \/ HandOutNew(r, stored, proved) \/ HandOutNew(r, stored, memory)
      \/ HandOutNew(r, fresh, memory)
  BY <1>5
<1>8. stored \in Urls \cup {Nothing} /\ stored # Nothing
      /\ fresh \in Urls \cup {Nothing} /\ fresh # Nothing
  BY <1>6
<1> HIDE DEF stored, fresh, proved
<1>9. CASE HandOutNew(r, stored, proved)
  BY <1>1, <1>4, <1>8, <1>9, HandOutNewAdvances
<1>10. CASE HandOutNew(r, stored, memory)
  BY <1>1, <1>4, <1>8, <1>10, HandOutNewAdvances
<1>11. CASE HandOutNew(r, fresh, memory)
  BY <1>1, <1>4, <1>8, <1>11, HandOutNewAdvances
<1> QED BY <1>7, <1>9, <1>10, <1>11

\* A replayed link is handed out again, or forgotten and the candidate tried anew.
LEMMA ReplayAdvances == ASSUME NEW r, Going(r), Replay(r) PROVE Advances(r)
<1> DEFINE w == walk[r]
           key == <<RouteAsked[r], w.mac, Who[r]>>
           dropped == [memory EXCEPT !.links[key] = Nothing]
           place == IF PlaysStored(r, Here(r)) THEN "stored" ELSE "session"
           busy == [w EXCEPT !.at = "pick", !.outcomes = @ \cup {"busy"}]
           plan == [w EXCEPT !.at = place]
<1>1. w \in Walks /\ WalkOK(w) /\ w.at = "replay" /\ w.at \in Trying /\ w.url # Nothing
      /\ memory \in Memories
  BY DEF Going, WalkOK, Placed, Replay, Trying
<1>2. \/ HandOut(r, w.url, memory)
      \/ /\ memory' = dropped
         /\ walk' = [walk EXCEPT ![r] = busy] \/ walk' = [walk EXCEPT ![r] = plan]
         /\ UNCHANGED <<usable, cooling, registered, release, occupancyVars>>
  BY DEF Replay
<1>3. CASE HandOut(r, w.url, memory)
  <2>1. w.url \in Urls \cup {Nothing}
    BY <1>1 DEF Walks
  <2>2. Noted(memory, memory)
    BY <1>1, StrikesKept
  <2> QED BY <1>1, <1>3, <2>1, <2>2, HandOutAdvances
<1>4. CASE ~ HandOut(r, w.url, memory)
  <2>1. Noted(memory, memory')
    <3>1. dropped = NoteLink(memory, RouteAsked[r], w.mac, Who[r], Nothing)
      BY DEF NoteLink
    <3>2. memory' = NoteLink(memory, RouteAsked[r], w.mac, Who[r], Nothing)
      BY <1>2, <1>4, <3>1
    <3> QED BY <1>1, <3>2, NoteLinkKeeps
  <2>2. /\ walk' = [walk EXCEPT ![r] = busy] \/ walk' = [walk EXCEPT ![r] = plan]
        /\ UNCHANGED <<usable, cooling, registered, release, occupancyVars>>
    BY <1>2, <1>4
  <2>3. place \in {"stored", "session"}
    OBVIOUS
  <2> HIDE DEF w, place
  <2>4. busy \in Walks /\ plan \in Walks
    BY <1>1, <2>3 DEF Walks, Places
  <2>5. /\ busy.at = "pick" /\ busy.step = w.step /\ busy.chain = w.chain /\ busy.cands = w.cands
        /\ busy.tried = w.tried /\ busy.mac = w.mac /\ busy.struck = w.struck
        /\ busy.outcomes = w.outcomes \cup {"busy"} /\ busy.allBusy = w.allBusy /\ busy.zaps = w.zaps
    BY <1>1 DEF Walks
  <2>6. /\ plan.at = place /\ plan.step = w.step /\ plan.chain = w.chain /\ plan.cands = w.cands
        /\ plan.tried = w.tried /\ plan.mac = w.mac /\ plan.struck = w.struck
        /\ plan.outcomes = w.outcomes /\ plan.allBusy = w.allBusy /\ plan.zaps = w.zaps
    BY <1>1 DEF Walks
  <2> HIDE DEF busy, plan
  <2>7. WalkOK(busy)
    BY <1>1, <2>4, <2>5, CandidateComesTo DEF Stepping
  <2>8. WalkOK(plan)
    BY <1>1, <2>3, <2>4, <2>6, CandidateComesTo DEF Stepping, Trying
  <2> QED BY <2>1, <2>2, <2>5, <2>6, <2>7, <2>8, WalkOnly DEF w
<1> QED BY <1>3, <1>4

\* Whatever a walk does next.
LEMMA WalkAdvances == ASSUME NEW r, Going(r), WalkStep(r) PROVE Advances(r)
  BY OpenAdvances, PassAdvances, NextStepAdvances, WalkedAllAdvances, PickAdvances, ReplayAdvances,
     AliveAdvances, StoredDeadAdvances, SessionAdvances, SlotBusyAdvances, MacRefusedAdvances,
     SourceFailedAdvances DEF WalkStep

-----------------------------------------------------------------------------
(* The others on the ledger. *)

\* What a step of a pipe, of the operator, or of the time that passes, leaves: the walks
\* as they are and no strike more.
Aside ==
    /\ UNCHANGED <<walk, usable>> /\ Noted(memory, memory')
    /\ OccupancyTypeOK'
    /\ cooling' \subseteq Macs /\ registered' \subseteq Plays
    /\ release' \in [mac : Macs \cup {Nothing}, todo : SUBSET Plays]

\* A pipe that starts, serves or ends, and a MAC that has cooled down, leave the leases.
LEMMA PipesAside ==
    ASSUME RouteInv, \/ \E p \in Plays : \/ PipeServes(p) \/ PipeEnds(p) \/ ReleaseKills(p)
                                         \/ \E m \in Macs : PipeStarts(p, m)
                     \/ \E m \in Macs : CooledDown(m) \/ ReleaseStarts(m)
                     \/ UNCHANGED redirectVars
    PROVE  Aside
<1>1. /\ macLocks \in [Macs -> SUBSET Plays] /\ lease \in [Macs -> Users \cup {Anon, Free}]
      /\ memory \in Memories /\ cooling \subseteq Macs /\ registered \subseteq Plays
      /\ release \in [mac : Macs \cup {Nothing}, todo : SUBSET Plays]
  BY DEF RouteInv, OccupancyTypeOK
<1>2. UNCHANGED <<walk, usable, memory, lease>>
  BY DEF PipeServes, PipeEnds, ReleaseKills, PipeStarts, CooledDown, ReleaseStarts, WalksUnchanged,
         occupancyVars, redirectVars
<1>3. Noted(memory, memory')
  BY <1>1, <1>2, NothingNoted
<1> DEFINE Typed == /\ macLocks' \in [Macs -> SUBSET Plays]
                    /\ cooling' \subseteq Macs /\ registered' \subseteq Plays
                    /\ release' \in [mac : Macs \cup {Nothing}, todo : SUBSET Plays]
<1>5. ASSUME NEW p \in Plays, PipeGone(p)
      PROVE  /\ macLocks' \in [Macs -> SUBSET Plays]
             /\ cooling' \subseteq Macs /\ registered' \subseteq Plays
  BY <1>1, <1>5 DEF PipeGone, DropLocksOf, HeldBy
<1>6. ASSUME NEW p \in Plays, PipeServes(p) PROVE Typed
  BY <1>1, <1>6 DEF PipeServes, occupancyVars
<1>7. ASSUME NEW p \in Plays, PipeEnds(p) PROVE Typed
  BY <1>1, <1>5, <1>7 DEF PipeEnds
<1>8. ASSUME NEW p \in Plays, ReleaseKills(p) PROVE Typed
  <2>1. release' = [release EXCEPT !.todo = @ \ {p}]
    BY <1>8 DEF ReleaseKills
  <2>2. release' \in [mac : Macs \cup {Nothing}, todo : SUBSET Plays]
    BY <1>1, <2>1
  <2>3. PipeGone(p) \/ UNCHANGED <<macLocks, cooling, registered>>
    BY <1>8 DEF ReleaseKills
  <2> QED BY <1>1, <1>5, <2>2, <2>3
<1>9. ASSUME NEW p \in Plays, NEW m \in Macs, PipeStarts(p, m) PROVE Typed
  BY <1>1, <1>9 DEF PipeStarts, LockMac
<1>10. ASSUME NEW m \in Macs, CooledDown(m) PROVE Typed
  BY <1>1, <1>10 DEF CooledDown, occupancyVars
<1>11. ASSUME NEW m \in Macs, ReleaseStarts(m) PROVE Typed
  BY <1>1, <1>11 DEF ReleaseStarts, occupancyVars
<1>12. ASSUME UNCHANGED redirectVars PROVE Typed
  BY <1>1, <1>12 DEF redirectVars, occupancyVars
<1>13. Typed
  BY <1>6, <1>7, <1>8, <1>9, <1>10, <1>11, <1>12
<1> QED BY <1>1, <1>2, <1>3, <1>13 DEF Aside, OccupancyTypeOK

\* A lease that ends takes the links of its MAC along; the operator's release ends one.
LEMMA LeasesAside ==
    ASSUME RedirectAssumption, RouteInv, (\E m \in Macs : LeaseEnds(m)) \/ ReleaseEnds
    PROVE  Aside
<1>1. /\ macLocks \in [Macs -> SUBSET Plays] /\ lease \in [Macs -> Users \cup {Anon, Free}]
      /\ memory \in Memories /\ cooling \subseteq Macs /\ registered \subseteq Plays
      /\ release \in [mac : Macs \cup {Nothing}, todo : SUBSET Plays]
  BY DEF RouteInv, OccupancyTypeOK
<1>2. ASSUME NEW m \in Macs, LeaseEnds(m) PROVE Aside
  <2> DEFINE links == [k \in DOMAIN memory.links |-> IF k[2] = m THEN Nothing ELSE memory.links[k]]
  <2>1. /\ lease' = [lease EXCEPT ![m] = Free]
        /\ memory' = [memory EXCEPT !.links = links]
        /\ UNCHANGED <<walk, usable, macLocks, cooling, registered, release>>
    BY <1>2 DEF LeaseEnds
  <2>2. links \in [Routes \X Macs \X (Users \cup {Anon}) -> Urls \cup {Nothing}]
    BY <1>1 DEF Memories
  <2> HIDE DEF links
  <2>3. memory' \in Memories /\ memory'.strikes = memory.strikes /\ memory'.blamed = memory.blamed
    BY <1>1, <2>1, <2>2 DEF Memories
  <2>4. Noted(memory, memory')
    BY <1>1, <2>3, StrikesKept
  <2>5. lease' \in [Macs -> Users \cup {Anon, Free}]
    BY <1>1, <2>1
  <2> QED BY <1>1, <2>1, <2>4, <2>5 DEF Aside, OccupancyTypeOK
<1>3. ASSUME ReleaseEnds PROVE Aside
  <2> DEFINE m == release.mac
  <2>1. /\ macLocks' = [macLocks EXCEPT ![m] = {}] /\ lease' = [lease EXCEPT ![m] = Free]
        /\ release' = [mac |-> Nothing, todo |-> {}]
        /\ UNCHANGED <<walk, usable, memory, cooling, registered>>
    BY <1>3 DEF ReleaseEnds, ReleaseMac, NoRelease, WalksUnchanged
  <2> HIDE DEF m
  <2>2. Noted(memory, memory')
    BY <1>1, <2>1, NothingNoted
  <2>3. /\ macLocks' \in [Macs -> SUBSET Plays] /\ lease' \in [Macs -> Users \cup {Anon, Free}]
        /\ release' \in [mac : Macs \cup {Nothing}, todo : SUBSET Plays]
    BY <1>1, <2>1
  <2> QED BY <1>1, <2>1, <2>2, <2>3 DEF Aside, OccupancyTypeOK
<1> QED BY <1>2, <1>3

\* What lapses is forgotten.
LEMMA LapseAside ==
    ASSUME BreakerAssumption, RouteInv, NEW table, Lapse(table),
           UNCHANGED <<walk, usable, cooling, registered, release, occupancyVars>>
    PROVE  Aside
<1>1. memory \in Memories /\ 0 \in 0 .. MaxStrikes
  BY DEF RouteInv, BreakerAssumption
<1>2. Noted(memory, memory')
  <2>1. ASSUME NEW route \in Routes, memory' = [memory EXCEPT !.success[route] = Nothing]
        PROVE  Noted(memory, memory')
    <3>1. memory' \in Memories /\ memory'.strikes = memory.strikes /\ memory'.blamed = memory.blamed
      BY <1>1, <2>1 DEF Memories
    <3> QED BY <1>1, <3>1, StrikesKept
  <2>2. ASSUME NEW route \in Routes, memory' = [memory EXCEPT !.handed[route] = Nothing]
        PROVE  Noted(memory, memory')
    <3>1. memory' \in Memories /\ memory'.strikes = memory.strikes /\ memory'.blamed = memory.blamed
      BY <1>1, <2>2 DEF Memories
    <3> QED BY <1>1, <3>1, StrikesKept
  <2>3. ASSUME NEW s, memory' = [memory EXCEPT !.hot = @ \ {s}] PROVE Noted(memory, memory')
    <3>1. memory' \in Memories /\ memory'.strikes = memory.strikes /\ memory'.blamed = memory.blamed
      BY <1>1, <2>3 DEF Memories
    <3> QED BY <1>1, <3>1, StrikesKept
  <2>4. ASSUME NEW s \in Sources, memory' = [memory EXCEPT !.strikes[s] = 0, !.blamed[s] = {}]
        PROVE  Noted(memory, memory')
    <3>1. /\ memory.strikes \in [Sources -> 0 .. MaxStrikes]
          /\ memory.blamed \in [Sources -> SUBSET (Requests \X Nat)]
      BY <1>1 DEF Memories
    <3>2. /\ memory' \in Memories /\ memory'.strikes = [memory.strikes EXCEPT ![s] = 0]
          /\ memory'.blamed = [memory.blamed EXCEPT ![s] = {}]
      BY <1>1, <2>4, <3>1 DEF Memories
    <3>3. \A t \in Sources : StruckAs(memory, memory', t) \/ Cleared(memory', t)
      BY <3>1, <3>2 DEF StruckAs, Cleared
    <3> QED BY <3>2, <3>3 DEF Noted
  <2>5. ASSUME NEW f, memory' = [memory EXCEPT !.failed = @ \ {f}] PROVE Noted(memory, memory')
    <3>1. memory' \in Memories /\ memory'.strikes = memory.strikes /\ memory'.blamed = memory.blamed
      BY <1>1, <2>5 DEF Memories
    <3> QED BY <1>1, <3>1, StrikesKept
  <2>6. ASSUME NEW k, memory' = [memory EXCEPT !.links[k] = Nothing] PROVE Noted(memory, memory')
    <3>1. memory' \in Memories /\ memory'.strikes = memory.strikes /\ memory'.blamed = memory.blamed
      BY <1>1, <2>6 DEF Memories
    <3> QED BY <1>1, <3>1, StrikesKept
  <2>7. ASSUME NEW k, memory' = [memory EXCEPT !.verdict[k] = Nothing] PROVE Noted(memory, memory')
    <3>1. memory' \in Memories /\ memory'.strikes = memory.strikes /\ memory'.blamed = memory.blamed
      BY <1>1, <2>7 DEF Memories
    <3> QED BY <1>1, <3>1, StrikesKept
  <2>8. CASE table \in {"success", "handed"}
    <3>1. PICK route \in Routes : memory' = [memory EXCEPT ![table][route] = Nothing]
      BY <2>8 DEF Lapse
    <3> QED BY <2>1, <2>2, <2>8, <3>1
  <2>9. CASE table = "hot"
    BY <2>3, <2>9 DEF Lapse
  <2>10. CASE table = "strikes"
    BY <2>4, <2>10 DEF Lapse
  <2>11. CASE table = "failed"
    BY <2>5, <2>11 DEF Lapse
  <2>12. CASE table \in {"links", "verdict"}
    <3>1. PICK k \in DOMAIN memory[table] : memory' = [memory EXCEPT ![table][k] = Nothing]
      BY <2>12 DEF Lapse
    <3> QED BY <2>6, <2>7, <2>12, <3>1
  <2> QED BY <2>8, <2>9, <2>10, <2>11, <2>12 DEF Lapse
<1> QED BY <1>2 DEF Aside, RouteInv, OccupancyTypeOK, occupancyVars

\* Whatever happens beside the walks.
LEMMA EnvironmentAside ==
    ASSUME RedirectAssumption, BreakerAssumption, RouteInv, Environment \/ UNCHANGED redirectVars
    PROVE  Aside
  BY PipesAside, LeasesAside, LapseAside DEF Environment
-----------------------------------------------------------------------------
(* The invariant, and what it says. *)

\* It holds when nobody has asked for anything.
LEMMA RouteInit == ASSUME RedirectAssumption, BreakerAssumption, Init PROVE RouteInv
<1>1. 1 \in 1 .. Attempts
  BY DEF RedirectAssumption
<1>2. WalkOK(Idle)
  <2>1. Idle \in Walks
    BY <1>1, IdleTyped
  <2>2. /\ Idle.at = "idle" /\ Idle.step = 0 /\ Idle.chain = <<>> /\ Idle.outcomes = {}
        /\ Idle.struck = {} /\ Idle.tried = {} /\ Idle.allBusy = TRUE
    BY DEF Idle
  <2> QED BY <2>1, <2>2 DEF WalkOK, Placed, Progress, Reckoned, Stepping, Trying
<1>3. DOMAIN walk = Requests /\ \A r \in Requests : WalkOK(walk[r])
  <2>1. walk = [r \in Requests |-> Idle]
    BY DEF Init
  <2> QED BY <1>2, <2>1
<1>4. memory \in Memories
  <2>1. 0 \in 0 .. MaxStrikes
    BY DEF BreakerAssumption
  <2> QED BY <2>1 DEF Init, MemoryInit, Memories
<1>5. OccupancyTypeOK /\ Accounted /\ Recalled
  <2>1. OccupancyTypeOK
    BY DEF Init, OccupancyInit, OccupancyTypeOK
  <2>2. \A s \in Sources : memory.blamed[s] = {} /\ memory.strikes[s] = 0
    BY DEF Init, MemoryInit
  <2>3. IsFiniteSet({}) /\ Cardinality({}) = 0
    BY FS_EmptySet
  <2> QED BY <2>1, <2>2, <2>3 DEF Accounted, Recalled
<1>6. /\ usable \subseteq Macs /\ cooling \subseteq Macs /\ registered \subseteq Plays
      /\ release \in [mac : Macs \cup {Nothing}, todo : SUBSET Plays]
  BY DEF Init, NoRelease
<1> QED BY <1>3, <1>4, <1>5, <1>6 DEF RouteInv

\* A strike is reckoned against a walk that was not blamed before.
LEMMA StrikesAccounted ==
    ASSUME RouteInv, NEW r \in Requests, memory' \in Memories, NEW after,
           Strikes(memory, memory', <<r, walk[r].zaps>>, walk[r].struck, after)
    PROVE  Accounted'
<1> DEFINE by == <<r, walk[r].zaps>>
<1>1. ASSUME NEW s \in Sources
      PROVE  IsFiniteSet(memory'.blamed[s]) /\ memory'.strikes[s] <= Cardinality(memory'.blamed[s])
  <2> DEFINE B == memory.blamed[s]
             n == memory.strikes[s]
  <2>1. IsFiniteSet(B) /\ n <= Cardinality(B)
    BY DEF RouteInv, Accounted
  <2>2. n \in Nat /\ Cardinality(B) \in Nat
    <3>1. memory.strikes \in [Sources -> 0 .. MaxStrikes]
      BY DEF RouteInv, Memories
    <3>2. n \in Nat
      BY <3>1
    <3> QED BY <2>1, <3>2, FS_CardinalityType
  <2>3. CASE StruckAs(memory, memory', s)
    BY <2>1, <2>3 DEF StruckAs
  <2>4. CASE Cleared(memory', s)
    BY <2>4, FS_EmptySet DEF Cleared
  <2>5. CASE StruckBy(memory, memory', s, by, walk[r].struck, after)
    <3>1. s \notin walk[r].struck => by \notin B
      <4>1. walk[r].zaps \in Nat
        BY DEF RouteInv, WalkOK, Placed, Walks
      <4> QED BY <4>1 DEF RouteInv, Recalled
    <3>2. /\ IsFiniteSet(B \cup {by})
          /\ Cardinality(B \cup {by}) = IF by \in B THEN Cardinality(B) ELSE Cardinality(B) + 1
      <4> HIDE DEF by, B
      <4> QED BY <2>1, FS_AddElement
    <3>3. /\ memory'.blamed[s] = B \cup {by}
          /\ memory'.strikes[s] = n \/ (s \notin walk[r].struck /\ memory'.strikes[s] = n + 1)
      BY <2>5 DEF StruckBy
    <3> HIDE DEF by, B, n
    <3> QED BY <2>1, <2>2, <3>1, <3>2, <3>3
  <2> QED BY <2>3, <2>4, <2>5 DEF Strikes
<1> QED BY <1>1 DEF Accounted

\* Whoever is blamed has struck the source in this walk, and another walk is later.
LEMMA StrikesRecalled ==
    ASSUME RouteInv, NEW r \in Requests, Advances(r)
    PROVE  Recalled'
<1>1. SUFFICES ASSUME NEW s \in Sources, NEW q \in Requests, NEW z \in Nat, <<q, z>> \in memory'.blamed[s]
               PROVE  z <= walk'[q].zaps /\ (z = walk'[q].zaps => s \in walk'[q].struck)
  BY DEF Recalled
<1>2. <<q, z>> \in memory.blamed[s] => z <= walk[q].zaps /\ (z = walk[q].zaps => s \in walk[q].struck)
  BY DEF RouteInv, Recalled
<1>3. walk[q].zaps \in Nat
  BY DEF RouteInv, WalkOK, Placed, Walks
<1>4. CASE walk'[r].zaps = walk[r].zaps + 1 /\ memory' = memory
  BY <1>1, <1>2, <1>3, <1>4 DEF Advances
<1>5. CASE ~ (walk'[r].zaps = walk[r].zaps + 1 /\ memory' = memory)
  <2>1. /\ walk'[r].zaps = walk[r].zaps /\ walk[r].struck \subseteq walk'[r].struck
        /\ Strikes(memory, memory', <<r, walk[r].zaps>>, walk[r].struck, walk'[r].struck)
    BY <1>5 DEF Advances
  <2>2. walk'[q].zaps = walk[q].zaps /\ walk[q].struck \subseteq walk'[q].struck
    BY <2>1 DEF Advances
  <2>3. CASE <<q, z>> \in memory.blamed[s]
    BY <1>2, <2>2, <2>3
  <2>4. CASE <<q, z>> \notin memory.blamed[s]
    <3>1. StruckBy(memory, memory', s, <<r, walk[r].zaps>>, walk[r].struck, walk'[r].struck)
      BY <1>1, <2>1, <2>4 DEF Strikes, StruckAs, Cleared
    <3>2. q = r /\ z = walk[r].zaps /\ s \in walk'[r].struck
      BY <1>1, <2>4, <3>1 DEF StruckBy
    <3> QED BY <1>3, <2>2, <3>2
  <2> QED BY <2>3, <2>4
<1> QED BY <1>4, <1>5

\* A walk that goes on keeps it.
LEMMA AdvanceKeeps ==
    ASSUME RedirectAssumption, RouteInv, NEW r \in Requests, Advances(r)
    PROVE  RouteInv'
<1>1. Who[r] \in Users \cup {Anon}
  BY DEF RedirectAssumption
<1>2. macLocks \in [Macs -> SUBSET Plays] /\ lease \in [Macs -> Users \cup {Anon, Free}]
  BY DEF RouteInv, OccupancyTypeOK
<1>3. OccupancyTypeOK'
  BY <1>1, <1>2 DEF Advances, OccupancyTypeOK
<1>4. \A q \in Requests : WalkOK(walk'[q])
  BY DEF RouteInv, Advances
<1>5. Accounted'
  <2>1. CASE memory' = memory
    BY <2>1 DEF RouteInv, Accounted
  <2>2. CASE Strikes(memory, memory', <<r, walk[r].zaps>>, walk[r].struck, walk'[r].struck)
    BY <2>2, StrikesAccounted DEF Advances
  <2> QED BY <2>1, <2>2 DEF Advances
<1>6. Recalled'
  BY StrikesRecalled
<1> QED BY <1>3, <1>4, <1>5, <1>6 DEF RouteInv, Advances

\* And so does what happens beside the walks.
LEMMA AsideKeeps == ASSUME RouteInv, Aside PROVE RouteInv'
<1>1. \A s \in Sources : StruckAs(memory, memory', s) \/ Cleared(memory', s)
  BY DEF Aside, Noted
<1>2. Accounted'
  <2>1. ASSUME NEW s \in Sources
        PROVE  IsFiniteSet(memory'.blamed[s]) /\ memory'.strikes[s] <= Cardinality(memory'.blamed[s])
    <3>1. CASE StruckAs(memory, memory', s)
      BY <3>1 DEF RouteInv, Accounted, StruckAs
    <3>2. CASE Cleared(memory', s)
      BY <3>2, FS_EmptySet DEF Cleared
    <3> QED BY <1>1, <3>1, <3>2
  <2> QED BY <2>1 DEF Accounted
<1>3. Recalled'
  BY <1>1 DEF RouteInv, Recalled, Aside, StruckAs, Cleared
<1> QED BY <1>2, <1>3 DEF RouteInv, Aside, Noted

\* The walk of a request that moves advances.
LEMMA StepAdvances ==
    ASSUME RedirectAssumption, BreakerAssumption, RouteInv, NEW r \in Requests, WalkStep(r)
    PROVE  Advances(r)
<1>1. Going(r)
  BY DEF RouteInv, Going
<1> QED BY <1>1, WalkAdvances

\* Every step keeps the invariant.
LEMMA RouteStep ==
    ASSUME RedirectAssumption, BreakerAssumption, RouteInv, [Next]_redirectVars
    PROVE  RouteInv'
<1>1. ASSUME NEW r \in Requests, WalkStep(r) PROVE RouteInv'
  BY <1>1, StepAdvances, AdvanceKeeps
<1>2. ASSUME Environment \/ UNCHANGED redirectVars PROVE RouteInv'
  BY <1>2, EnvironmentAside, AsideKeeps
<1> QED BY <1>1, <1>2 DEF Next

\* RouteInv holds of every state of the specification.
LEMMA RouteInvariant == RedirectAssumption /\ BreakerAssumption => (Spec => []RouteInv)
<1> SUFFICES ASSUME RedirectAssumption, BreakerAssumption PROVE Spec => []RouteInv
  OBVIOUS
<1>1. Init => RouteInv
  BY RouteInit
<1>2. RouteInv /\ [Next]_redirectVars => RouteInv'
  BY RouteStep
<1> QED BY <1>1, <1>2, PTL DEF Spec

\* The invariant carries the types,
LEMMA RouteInvTypes == ASSUME RouteInv PROVE TypeOK
<1>1. MemoryTypeOK
  BY DEF RouteInv, Memories, MemoryTypeOK
<1>2. /\ OccupancyTypeOK /\ usable \subseteq Macs /\ cooling \subseteq Macs /\ registered \subseteq Plays
      /\ release.mac \in Macs \cup {Nothing} /\ release.todo \subseteq Plays
  BY DEF RouteInv
<1>3. ASSUME NEW r \in Requests
      PROVE  /\ walk[r].at \in Places /\ walk[r].pass \in 1 .. Attempts
             /\ walk[r].step \in 0 .. Len(walk[r].chain) /\ walk[r].mac \in Macs \cup {Nothing}
             /\ {walk[r].url, walk[r].answer} \subseteq Urls \cup {Nothing} /\ walk[r].struck \subseteq Sources
             /\ walk[r].deadStored \cup walk[r].tried \subseteq Candidates
  <2> DEFINE w == walk[r]
  <2>1. w \in Walks /\ w.step <= Len(w.chain)
    BY DEF RouteInv, WalkOK, Placed
  <2> HIDE DEF w
  <2>2. w.chain \in Seq(Steps) /\ w.step \in Nat
    BY <2>1 DEF Walks
  <2>3. w.step \in 0 .. Len(w.chain)
    BY <2>1, <2>2
  <2>4. /\ w.at \in Places /\ w.pass \in 1 .. Attempts /\ w.mac \in Macs \cup {Nothing}
        /\ {w.url, w.answer} \subseteq Urls \cup {Nothing} /\ w.struck \subseteq Sources
        /\ w.deadStored \cup w.tried \subseteq Candidates
    BY <2>1 DEF Walks
  <2> QED BY <2>3, <2>4 DEF w
<1> QED BY <1>1, <1>2, <1>3 DEF TypeOK

\* the answer a walk ends with, and that it left nothing untried.
LEMMA RouteInvAnswers ==
    ASSUME RedirectAssumption, RouteInv
    PROVE  BusyIsBusy /\ NothingLeftUntried /\ NeverSilenced
<1>1. BusyIsBusy
  BY DEF RouteInv, WalkOK, Reckoned, BusyIsBusy
<1>2. NothingLeftUntried
  BY DEF RouteInv, WalkOK, Progress, Walked, NothingLeftUntried
<1>3. NeverSilenced
  BY RouteTried DEF RouteInv
<1> QED BY <1>1, <1>2, <1>3

\* Memory, walks and ledger keep their types.
THEOREM RouteTypeCorrect == RedirectAssumption /\ BreakerAssumption => (Spec => []TypeOK)
<1>1. RouteInv => TypeOK
  BY RouteInvTypes
<1> QED BY <1>1, RouteInvariant, PTL

\* The answer without a link is 503 exactly when nothing was worse than busy, however
\* the passes, strikes and demotions of other walks came between.
THEOREM BusyAlwaysBusy == RedirectAssumption /\ BreakerAssumption => (Spec => []BusyIsBusy)
<1> SUFFICES ASSUME RedirectAssumption, BreakerAssumption PROVE Spec => []BusyIsBusy
  OBVIOUS
<1>1. RouteInv => BusyIsBusy
  BY RouteInvAnswers
<1> QED BY <1>1, RouteInvariant, PTL

\* A route with a MAC to try is never silenced, and a walk that gives up has come by every
\* candidate of its chain but those of a source the panel refused.
THEOREM EveryRouteAlwaysTried == RedirectAssumption /\ BreakerAssumption => (Spec => []EveryRouteTried)
<1> SUFFICES ASSUME RedirectAssumption, BreakerAssumption PROVE Spec => []EveryRouteTried
  OBVIOUS
<1>1. RouteInv => EveryRouteTried
  BY RouteInvAnswers DEF EveryRouteTried
<1> QED BY <1>1, RouteInvariant, PTL

\* One bad zap never opens a breaker: however many MACs and passes of a walk fail at a
\* source, and whatever other walks strike or clear between, each of its strikes is of
\* another walk.
THEOREM OneStrikeEachWalk ==
    RedirectAssumption /\ BreakerAssumption => (Spec => []OneStrikePerWalk)
<1> SUFFICES ASSUME RedirectAssumption, BreakerAssumption PROVE Spec => []OneStrikePerWalk
  OBVIOUS
<1>1. RouteInv => OneStrikePerWalk
  BY DEF RouteInv, Accounted, OneStrikePerWalk
<1> QED BY <1>1, RouteInvariant, PTL
=============================================================================
