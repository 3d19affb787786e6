----------------------------- MODULE PanelProofs ----------------------------
(***************************************************************************)
(* What the panels' answers come to, for any MACs, sweeps, tests and plays:*)
(* only an account answer ever takes a MAC out of the chains, what a play has*)
(* taught stays right, and two comparisons of the same answers agree.      *)
(***************************************************************************)
EXTENDS MacHealth, PlayedLinks, MacCompare, SelectionProofs, FiniteSetTheorems
-----------------------------------------------------------------------------
(* The rows of a portal's MACs (MacHealth) *)

\* The locals of a sweep or a test.
Checks == [at : {"idle", "next", "asking", "commit"}, todo : Seq(Macs), busy : SUBSET Macs,
           old : [Macs -> Rows], new : [Macs -> Rows], touched : SUBSET Macs, runs : Nat]

\* What would be written: no MAC is disowned that the panel has not disowned.
Truthful(rows) == \A m \in Macs : rows[m].status \in Disowned => rows[m].status \in said[m]

HealthInv ==
    /\ OccupancyTypeOK
    /\ row \in [Macs -> Rows] /\ login \in Macs \cup {NoMac}
    /\ said \in [Macs -> SUBSET Disowned]
    /\ check \in [Checkers -> Checks]
    /\ \A c \in Checkers : check[c].at = "asking" => check[c].todo # <<>>
    /\ Truthful(row) /\ \A c \in Checkers : Truthful(check[c].new)
-----------------------------------------------------------------------------
\* A row that is judged, or that an error was noted on, is a row; an error disowns nothing.
LEMMA JudgedTyped ==
    ASSUME NEW r \in Rows
    PROVE  /\ \A verdict \in Verdicts :
                 /\ Judged(r, verdict) \in Rows
                 /\ Judged(r, verdict).status \in Disowned => Judged(r, verdict).status = verdict
           /\ \A error :
                 /\ FailedAs(r, StatusForError(error)) \in Rows
                 /\ FailedAs(r, StatusForError(error)).status \notin Disowned
<1>1. ASSUME NEW verdict \in Verdicts
      PROVE  /\ Judged(r, verdict) \in Rows
             /\ Judged(r, verdict).status \in Disowned => Judged(r, verdict).status = verdict
  <2> DEFINE status == StatusOf(verdict)
             online == verdict = "active"
  <2>1. status \in Statuses /\ online \in BOOLEAN /\ (status \in Disowned => status = verdict)
    BY DEF StatusOf, Verdicts, Statuses, Disowned
  <2>2. Judged(r, verdict) = [r EXCEPT !.status = status, !.online = online]
    BY DEF Judged
  <2> HIDE DEF status, online
  <2> QED BY <2>1, <2>2 DEF Rows
<1>2. ASSUME NEW error
      PROVE  /\ FailedAs(r, StatusForError(error)) \in Rows
             /\ FailedAs(r, StatusForError(error)).status \notin Disowned
  <2> DEFINE status == StatusForError(error)
  <2>1. status \in Statuses /\ status \notin Disowned
    BY DEF StatusForError, Statuses, Disowned
  <2>2. FailedAs(r, StatusForError(error)) = [r EXCEPT !.status = status, !.online = FALSE]
    BY DEF FailedAs
  <2> HIDE DEF status
  <2> QED BY <2>1, <2>2 DEF Rows
<1> QED BY <1>1, <1>2

\* What a check leaves when it moves alone: its own record, with rows that are true.
Alone(c, new) ==
    /\ check' = [check EXCEPT ![c] = new]
    /\ new \in Checks /\ (new.at = "asking" => new.todo # <<>>) /\ Truthful(new.new)
    /\ UNCHANGED <<row, said, login, occupancyVars>>

\* A check that moves alone keeps the invariant.
LEMMA AloneKeeps ==
    ASSUME HealthInv, NEW c \in Checkers, NEW new, Alone(c, new)
    PROVE  HealthInv'
<1>1. check \in [Checkers -> Checks] /\ check' = [check EXCEPT ![c] = new] /\ new \in Checks
  BY DEF HealthInv, Alone
<1>2. check'[c] = new /\ \A d \in Checkers : d # c => check'[d] = check[d]
  BY <1>1
<1>3. check' \in [Checkers -> Checks]
  BY <1>1
<1> QED BY <1>2, <1>3 DEF HealthInv, Alone, Truthful, OccupancyTypeOK, occupancyVars

\* The session begins with the rows as they are.
LEMMA BeginKeeps == ASSUME HealthAssumption, HealthInv, NEW c \in Checkers, BeginCheck(c) PROVE HealthInv'
<1> DEFINE todo == Only(Order, There)
           runs == check[c].runs + 1
<1>1. PICK busy \in SUBSET Macs :
         check' = [check EXCEPT ![c] = [at |-> "next", todo |-> todo, busy |-> busy,
                                         old |-> row, new |-> row, touched |-> {}, runs |-> runs]]
  <2>1. BusyMacIds \subseteq Macs /\ {} \subseteq Macs
    BY DEF BusyMacIds
  <2> QED BY <2>1 DEF BeginCheck
<1>2. todo \in Seq(Macs)
  BY OnlySelects DEF HealthAssumption
<1>3. runs \in Nat /\ row \in [Macs -> Rows] /\ Truthful(row)
  BY DEF HealthInv, Checks
<1> HIDE DEF todo, runs
<1> DEFINE new == [at |-> "next", todo |-> todo, busy |-> busy,
                   old |-> row, new |-> row, touched |-> {}, runs |-> runs]
<1>4. new \in Checks /\ new.at = "next" /\ new.new = row
  BY <1>2, <1>3 DEF Checks
<1>5. check' = [check EXCEPT ![c] = new] /\ UNCHANGED <<row, said, login, occupancyVars>>
  BY <1>1 DEF BeginCheck
<1> HIDE DEF new
<1>6. Alone(c, new)
  BY <1>3, <1>4, <1>5 DEF Alone
<1> QED BY <1>6, AloneKeeps

\* The rows of a check stay true when one of them is called offline, left out, or asked for.
LEMMA LoopKeeps ==
    ASSUME HealthInv, NEW c \in Checkers, Unresolved(c) \/ Skip(c) \/ Ask(c) PROVE HealthInv'
<1> DEFINE k == check[c]
           rest == Tail(k.todo)
           listed == {k.todo[i] : i \in DOMAIN k.todo}
           offline == [m \in Macs |-> IF m \notin listed THEN k.new[m]
                                      ELSE [k.new[m] EXCEPT !.status = "offline", !.online = FALSE]]
           more == k.touched \cup {Head(k.todo)}
           over == [k EXCEPT !.at = "commit", !.touched = listed, !.todo = <<>>, !.new = offline]
           left == [k EXCEPT !.todo = rest]
           asks == [k EXCEPT !.at = "asking", !.touched = more]
<1>1. k \in Checks /\ Truthful(k.new) /\ c \in DOMAIN check
  BY DEF HealthInv
<1>2. \/ check' = [check EXCEPT ![c] = over]
      \/ check' = [check EXCEPT ![c] = left] /\ k.at = "next" /\ k.todo # <<>>
      \/ check' = [check EXCEPT ![c] = asks] /\ k.todo # <<>>
  <2>1. ASSUME Unresolved(c) PROVE check' = [check EXCEPT ![c] = over]
    BY <1>1, <2>1 DEF Unresolved
  <2>2. ASSUME Skip(c)
        PROVE  check' = [check EXCEPT ![c] = left] /\ k.at = "next" /\ k.todo # <<>>
    BY <1>1, <2>2 DEF Skip
  <2>3. ASSUME Ask(c) PROVE check' = [check EXCEPT ![c] = asks] /\ k.todo # <<>>
    BY <1>1, <2>3 DEF Ask
  <2> QED BY <2>1, <2>2, <2>3
<1>3. UNCHANGED <<row, said, login, occupancyVars>>
  BY DEF Unresolved, Skip, Ask
<1> HIDE DEF k
<1>4. k.todo \in Seq(Macs) /\ k.new \in [Macs -> Rows] /\ k.touched \in SUBSET Macs
  BY <1>1 DEF Checks
<1>5. listed \in SUBSET Macs
  BY <1>4
<1>6. offline \in [Macs -> Rows] /\ \A m \in Macs : offline[m].status \in Disowned => offline[m] = k.new[m]
  <2>1. ASSUME NEW m \in Macs
        PROVE  LET r == [k.new[m] EXCEPT !.status = "offline", !.online = FALSE] IN
               r \in Rows /\ r.status \notin Disowned
    <3>1. k.new[m] \in Rows
      BY <1>4
    <3> QED BY <3>1 DEF Rows, Statuses, Disowned
  <2> HIDE DEF listed
  <2> QED BY <1>4, <2>1
<1> HIDE DEF listed, offline
<1>7. Truthful(offline)
  BY <1>1, <1>6 DEF Truthful
<1>8. over \in Checks /\ over.at = "commit" /\ over.new = offline
  <2>1. <<>> \in Seq(Macs)
    OBVIOUS
  <2> QED BY <1>1, <1>5, <1>6, <2>1 DEF Checks
<1>9. ASSUME k.todo # <<>> PROVE rest \in Seq(Macs) /\ more \in SUBSET Macs
  BY <1>4, <1>9
<1> HIDE DEF rest, more
<1>10. ASSUME k.todo # <<>>, k.at = "next" PROVE left \in Checks /\ left.at = "next" /\ left.new = k.new
  BY <1>1, <1>9, <1>10 DEF Checks
<1>11. ASSUME k.todo # <<>>
       PROVE  asks \in Checks /\ asks.at = "asking" /\ asks.new = k.new /\ asks.todo = k.todo
  BY <1>1, <1>9, <1>11 DEF Checks
<1> HIDE DEF over, left, asks
<1>12. Alone(c, over) \/ Alone(c, left) \/ Alone(c, asks)
  BY <1>1, <1>2, <1>3, <1>7, <1>8, <1>10, <1>11 DEF Alone
<1> QED BY <1>12, AloneKeeps

\* The record of a check whose answer was noted.
LEMMA NotedTyped ==
    ASSUME HealthInv, NEW c \in Checkers, check[c].at = "asking", NEW r \in Rows, Noted(c, r)
    PROVE  /\ Head(check[c].todo) \in Macs /\ check' \in [Checkers -> Checks]
           /\ check'[c].at = "next" /\ \A d \in Checkers : d # c => check'[d] = check[d]
           /\ check'[c].new = [check[c].new EXCEPT ![Head(check[c].todo)] = r]
<1> DEFINE k == check[c]
           m == Head(k.todo)
           rest == Tail(k.todo)
           rows == [k.new EXCEPT ![m] = r]
           new == [k EXCEPT !.at = "next", !.todo = rest, !.new = rows]
<1>1. k \in Checks /\ k.todo # <<>> /\ check \in [Checkers -> Checks]
  BY DEF HealthInv
<1>2. check' = [check EXCEPT ![c] = new]
  BY <1>1 DEF Noted
<1> HIDE DEF k
<1>3. k.todo \in Seq(Macs) /\ k.new \in [Macs -> Rows]
  BY <1>1 DEF Checks
<1>4. m \in Macs /\ rest \in Seq(Macs)
  BY <1>1, <1>3
<1> HIDE DEF m, rest
<1>5. rows \in [Macs -> Rows]
  BY <1>3, <1>4
<1> HIDE DEF rows
<1>6. new \in Checks /\ new.at = "next" /\ new.new = rows
  BY <1>1, <1>4, <1>5 DEF Checks
<1> HIDE DEF new
<1>7. check'[c] = new /\ check' \in [Checkers -> Checks] /\ \A d \in Checkers : d # c => check'[d] = check[d]
  BY <1>1, <1>2, <1>6
<1> QED BY <1>4, <1>6, <1>7 DEF k, m, rows

\* What the panel has said it has said: nothing that was true becomes false.
LEMMA SaidTyped ==
    ASSUME said \in [Macs -> SUBSET Disowned], NEW m \in Macs, NEW verdict, Said(m, verdict)
    PROVE  /\ said' \in [Macs -> SUBSET Disowned] /\ \A n \in Macs : said[n] \subseteq said'[n]
           /\ verdict \in Disowned => verdict \in said'[m]
  BY DEF Said

\* An account answer is noted together with what it says.
LEMMA AnsweredKeeps == ASSUME HealthInv, NEW c \in Checkers, CheckAnswered(c) PROVE HealthInv'
<1> DEFINE m == Head(check[c].todo)
           old == check[c].new[m]
<1>1. PICK verdict \in Verdicts : Noted(c, Judged(old, verdict)) /\ Said(m, verdict)
  BY DEF CheckAnswered
<1>2. check[c].at = "asking" /\ UNCHANGED <<row, login, occupancyVars>>
  BY DEF CheckAnswered
<1>3. m \in Macs /\ old \in Rows
  <2>1. check[c].todo \in Seq(Macs) /\ check[c].todo # <<>> /\ check[c].new \in [Macs -> Rows]
    BY <1>2 DEF HealthInv, Checks
  <2>2. m \in Macs
    BY <2>1
  <2> QED BY <2>1, <2>2
<1> DEFINE r == Judged(old, verdict)
<1>4. r \in Rows /\ (r.status \in Disowned => r.status = verdict)
  <2> HIDE DEF old
  <2> QED BY <1>3, JudgedTyped
<1>5. Noted(c, r)
  BY <1>1
<1> HIDE DEF r
<1>6. /\ check' \in [Checkers -> Checks] /\ check'[c].at = "next"
      /\ \A d \in Checkers : d # c => check'[d] = check[d]
      /\ check'[c].new = [check[c].new EXCEPT ![m] = r]
  BY <1>2, <1>4, <1>5, NotedTyped
<1>7. /\ said' \in [Macs -> SUBSET Disowned] /\ \A n \in Macs : said[n] \subseteq said'[n]
      /\ verdict \in Disowned => verdict \in said'[m]
  BY <1>1, <1>3, SaidTyped DEF HealthInv
<1> HIDE DEF m
<1>8. ASSUME NEW d \in Checkers PROVE Truthful(check[d].new)'
  <2>1. CASE d = c
    <3>1. check[c].new \in [Macs -> Rows]
      BY DEF HealthInv, Checks
    <3>2. ASSUME NEW n \in Macs, check'[c].new[n].status \in Disowned
          PROVE  check'[c].new[n].status \in said'[n]
      <4>1. CASE n = m
        BY <1>3, <1>4, <1>6, <1>7, <3>1, <3>2, <4>1
      <4>2. CASE n # m
        <5>1. check'[c].new[n] = check[c].new[n]
          BY <1>6, <3>1, <4>2
        <5> QED BY <1>7, <3>2, <5>1 DEF HealthInv, Truthful
      <4> QED BY <4>1, <4>2
    <3> QED BY <2>1, <3>2 DEF Truthful
  <2>2. CASE d # c
    BY <1>6, <1>7, <2>2 DEF HealthInv, Truthful
  <2> QED BY <2>1, <2>2
<1>9. Truthful(row)'
  BY <1>2, <1>7 DEF HealthInv, Truthful
<1>10. OccupancyTypeOK' /\ row' \in [Macs -> Rows] /\ login' \in Macs \cup {NoMac}
  BY <1>2 DEF HealthInv, OccupancyTypeOK, occupancyVars
<1>11. \A d \in Checkers : check'[d].at = "asking" => check'[d].todo # <<>>
  BY <1>6 DEF HealthInv
<1> QED BY <1>6, <1>7, <1>8, <1>9, <1>10, <1>11 DEF HealthInv

\* An error is noted, and disowns nothing; a test that breaks stores nothing.
LEMMA FailedKeeps == ASSUME HealthInv, NEW c \in Checkers, CheckFailed(c) PROVE HealthInv'
<1> DEFINE m == Head(check[c].todo)
           old == check[c].new[m]
<1>1. check[c].at = "asking" /\ UNCHANGED <<row, said, login, occupancyVars>>
  BY DEF CheckFailed
<1>2. old \in Rows /\ m \in Macs
  <2>1. check[c].todo \in Seq(Macs) /\ check[c].todo # <<>> /\ check[c].new \in [Macs -> Rows]
    BY <1>1 DEF HealthInv, Checks
  <2>2. m \in Macs
    BY <2>1
  <2> QED BY <2>1, <2>2
<1>3. PICK r \in Rows : Noted(c, r) /\ (r.status \in Disowned => r = old)
  <2>1. \/ \E error : Noted(c, FailedAs(old, StatusForError(error)))
        \/ Noted(c, old)
    BY DEF CheckFailed
  <2>2. ASSUME NEW error, Noted(c, FailedAs(old, StatusForError(error)))
        PROVE  \E r \in Rows : Noted(c, r) /\ (r.status \in Disowned => r = old)
    <3> DEFINE r == FailedAs(old, StatusForError(error))
    <3>1. r \in Rows /\ r.status \notin Disowned
      <4> HIDE DEF old
      <4> QED BY <1>2, JudgedTyped
    <3>2. Noted(c, r)
      BY <2>2
    <3> HIDE DEF r, old
    <3> QED BY <3>1, <3>2
  <2> HIDE DEF old
  <2> QED BY <1>2, <2>1, <2>2
<1>4. /\ check' \in [Checkers -> Checks] /\ check'[c].at = "next"
      /\ \A d \in Checkers : d # c => check'[d] = check[d]
      /\ check'[c].new = [check[c].new EXCEPT ![m] = r]
  BY <1>1, <1>3, NotedTyped
<1>5. Truthful(check'[c].new)
  <2> DEFINE rows == check[c].new
  <2>1. rows \in [Macs -> Rows] /\ Truthful(rows)
    BY DEF HealthInv, Checks
  <2>2. old = rows[m] /\ check'[c].new = [rows EXCEPT ![m] = r]
    BY <1>4
  <2> HIDE DEF rows, m, old
  <2> QED BY <1>2, <1>3, <2>1, <2>2 DEF Truthful
<1>6. \A d \in Checkers : Truthful(check'[d].new) /\ (check'[d].at = "asking" => check'[d].todo # <<>>)
  BY <1>4, <1>5 DEF HealthInv
<1> QED BY <1>1, <1>4, <1>6 DEF HealthInv, Truthful, OccupancyTypeOK, occupancyVars

\* No MAC is disowned in rows nobody has read.
LEMMA IdleTyped == \A runs \in Nat : NoCheck(runs) \in Checks /\ Truthful(NoCheck(runs).new)
<1> SUFFICES ASSUME NEW runs \in Nat PROVE NoCheck(runs) \in Checks /\ Truthful(NoCheck(runs).new)
  OBVIOUS
<1>1. NotRead \in [Macs -> Rows] /\ \A m \in Macs : NotRead[m].status \notin Disowned
  BY DEF NotRead, Rows, Statuses, Disowned
<1>2. <<>> \in Seq(Macs)
  OBVIOUS
<1> QED BY <1>1, <1>2 DEF NoCheck, Checks, Truthful

\* A column is written as the session had it, or left as it is: either was true.
LEMMA EndsKeep == ASSUME HealthInv, NEW c \in Checkers, Breaks(c) \/ Commit(c) PROVE HealthInv'
<1> DEFINE runs == check[c].runs
<1>1. runs \in Nat /\ check \in [Checkers -> Checks] /\ check[c] \in Checks
  BY DEF HealthInv, Checks
<1>2. check' = [check EXCEPT ![c] = NoCheck(runs)] /\ UNCHANGED <<said, login, occupancyVars>>
  BY <1>1 DEF Breaks, Commit
<1> HIDE DEF runs
<1>3. check'[c] = NoCheck(runs) /\ \A d \in Checkers : d # c => check'[d] = check[d]
  BY <1>1, <1>2
<1>4. check' \in [Checkers -> Checks] /\ \A d \in Checkers : Truthful(check'[d].new)
  BY <1>1, <1>2, <1>3, IdleTyped DEF HealthInv
<1>5. \A d \in Checkers : check'[d].at = "asking" => check'[d].todo # <<>>
  BY <1>3 DEF HealthInv, NoCheck
<1>6. ASSUME NEW m \in Macs
      PROVE  /\ Updated(c, m) \in Rows
             /\ Updated(c, m).status \in Disowned => Updated(c, m).status \in said[m]
  <2> DEFINE old == check[c].old[m]
             new == check[c].new[m]
             status == IF new.status = old.status THEN row[m].status ELSE new.status
             online == IF new.online = old.online THEN row[m].online ELSE new.online
  <2>1. old \in Rows /\ new \in Rows /\ row[m] \in Rows
    BY <1>1 DEF Checks, HealthInv
  <2>2. Updated(c, m) = [row[m] EXCEPT !.status = status, !.online = online]
    BY DEF Updated
  <2>3. status \in Statuses /\ (status \in Disowned => status \in said[m])
    BY <2>1 DEF Rows, HealthInv, Truthful
  <2>4. online \in BOOLEAN
    BY <2>1 DEF Rows
  <2> HIDE DEF status, online
  <2> QED BY <2>1, <2>2, <2>3, <2>4 DEF Rows
<1>7. row' = row \/ row' = [m \in Macs |-> Updated(c, m)]
  BY DEF Breaks, Commit
<1>8. row' \in [Macs -> Rows] /\ Truthful(row')
  BY <1>6, <1>7 DEF HealthInv, Truthful
<1> QED BY <1>2, <1>4, <1>5, <1>8 DEF HealthInv, Truthful, OccupancyTypeOK, occupancyVars

\* The login of a fetch job writes what it was told, over whatever is stored.
LEMMA LoginKeeps ==
    ASSUME HealthAssumption, HealthInv, LoginPicks \/ LoginAnswered \/ LoginFails PROVE HealthInv'
<1>1. CASE LoginPicks \/ LoginFails
  <2> DEFINE listed == Only(Order, There)
             usable == Only(listed, {m \in Macs : Usable(m)})
  <2>1. listed \in Seq(Macs)
    BY OnlySelects DEF HealthAssumption
  <2>2. usable \in Seq(Macs)
    <3> HIDE DEF listed
    <3> QED BY <2>1, OnlySelects
  <2>3. \/ login' = NoMac
        \/ listed # <<>> /\ login' = IF usable # <<>> THEN Head(usable) ELSE Head(listed)
    BY <1>1 DEF LoginPicks, LoginFails
  <2> HIDE DEF listed, usable
  <2>4. login' \in Macs \cup {NoMac}
    BY <2>1, <2>2, <2>3
  <2>5. UNCHANGED <<row, said, check, occupancyVars>>
    BY <1>1 DEF LoginPicks, LoginFails
  <2> QED BY <2>4, <2>5 DEF HealthInv, Truthful, OccupancyTypeOK, occupancyVars
<1>2. CASE LoginAnswered
  <2>1. PICK verdict \in Verdicts :
           /\ Said(login, verdict)
           /\ row' = IF login \notin There THEN row ELSE [row EXCEPT ![login] = Judged(@, verdict)]
    BY <1>2 DEF LoginAnswered
  <2>2. login \in Macs /\ login' = NoMac /\ UNCHANGED <<check, occupancyVars>>
    BY <1>2 DEF LoginAnswered, HealthInv
  <2>3. /\ said' \in [Macs -> SUBSET Disowned] /\ \A n \in Macs : said[n] \subseteq said'[n]
        /\ verdict \in Disowned => verdict \in said'[login]
    BY <2>1, <2>2, SaidTyped DEF HealthInv
  <2> DEFINE r == Judged(row[login], verdict)
  <2>4. r \in Rows /\ (r.status \in Disowned => r.status = verdict)
    <3>1. row[login] \in Rows
      BY <2>2 DEF HealthInv
    <3> QED BY <3>1, JudgedTyped
  <2>5. row' = row \/ row' = [row EXCEPT ![login] = r]
    BY <2>1
  <2> HIDE DEF r
  <2>6. row' \in [Macs -> Rows] /\ Truthful(row)'
    BY <2>2, <2>3, <2>4, <2>5 DEF HealthInv, Truthful
  <2>7. \A c \in Checkers : Truthful(check[c].new)'
    BY <2>2, <2>3 DEF HealthInv, Truthful
  <2> QED BY <2>2, <2>3, <2>6, <2>7 DEF HealthInv, OccupancyTypeOK, occupancyVars
<1> QED BY <1>1, <1>2

\* The editor of MACs, and plays, write no status.
LEMMA OthersKeep ==
    ASSUME HealthInv, \/ \E m \in Macs : AddMac(m) \/ RemoveMac(m) \/ \E p \in Plays : PlayStarts(p, m)
                      \/ \E p \in Plays : PlayEnds(p)
                      \/ UNCHANGED healthVars
    PROVE  HealthInv'
<1>1. /\ macLocks \in [Macs -> SUBSET Plays] /\ lease \in [Macs -> Users \cup {Anon, Free}]
      /\ row \in [Macs -> Rows] /\ Truthful(row)
  BY DEF HealthInv, OccupancyTypeOK
<1>2. UNCHANGED <<said, check, login>>
  BY DEF AddMac, RemoveMac, PlayStarts, PlayEnds, healthVars
<1>3. row' \in [Macs -> Rows] /\ Truthful(row')
  <2>1. ASSUME NEW m \in Macs, NEW life \in {"there", "removed"}, row' = [row EXCEPT ![m].life = life]
        PROVE  row' \in [Macs -> Rows] /\ \A n \in Macs : row'[n].status = row[n].status
    <3> DEFINE new == [row[m] EXCEPT !.life = life]
    <3>1. row[m] \in Rows
      BY <1>1
    <3>2. new \in Rows /\ new.status = row[m].status
      BY <3>1 DEF Rows
    <3>3. row' = [row EXCEPT ![m] = new]
      BY <2>1
    <3> HIDE DEF new
    <3> QED BY <1>1, <3>2, <3>3
  <2>2. \/ row' = row
        \/ \E m \in Macs, life \in {"there", "removed"} : row' = [row EXCEPT ![m].life = life]
    BY DEF AddMac, RemoveMac, PlayStarts, PlayEnds, healthVars
  <2>3. row' \in [Macs -> Rows] /\ \A n \in Macs : row'[n].status = row[n].status
    BY <1>1, <2>1, <2>2
  <2> QED BY <1>1, <2>3 DEF Truthful
<1>4. OccupancyTypeOK'
  BY <1>1 DEF AddMac, RemoveMac, PlayStarts, PlayEnds, healthVars, LockMac, DropLocksOf,
              OccupancyTypeOK, occupancyVars
<1> QED BY <1>2, <1>3, <1>4 DEF HealthInv, Truthful

\* Every step keeps the invariant,
LEMMA HealthStep == ASSUME HealthAssumption, HealthInv, [HealthNext]_healthVars PROVE HealthInv'
  BY BeginKeeps, LoopKeeps, AnsweredKeeps, FailedKeeps, EndsKeep, LoginKeeps, OthersKeep
     DEF HealthNext, CheckStep

\* and it holds before anything was asked.
LEMMA HealthStart == ASSUME HealthInit PROVE HealthInv
<1>1. check = [c \in Checkers |-> NoCheck(0)] /\ login = NoMac /\ said = [m \in Macs |-> {}]
  BY DEF HealthInit
<1>2. row \in [Macs -> {[life |-> life, status |-> "unknown", online |-> FALSE] :
                           life \in {"unborn", "there"}}]
  BY DEF HealthInit
<1>3. row \in [Macs -> Rows] /\ Truthful(row)
  <2> DEFINE New(life) == [life |-> life, status |-> "unknown", online |-> FALSE]
             fresh == {New(life) : life \in {"unborn", "there"}}
  <2>1. \A life \in {"unborn", "there"} : New(life) \in Rows /\ New(life).status \notin Disowned
    BY DEF Rows, Statuses, Disowned
  <2>2. \A r \in fresh : r \in Rows /\ r.status \notin Disowned
    <3> HIDE DEF New
    <3> QED BY <2>1
  <2>3. row \in [Macs -> fresh]
    BY <1>2
  <2> HIDE DEF fresh
  <2> QED BY <2>2, <2>3 DEF Truthful
<1>4. check \in [Checkers -> Checks] /\ \A c \in Checkers : Truthful(check[c].new)
  BY <1>1, IdleTyped
<1>5. \A c \in Checkers : check[c].at = "asking" => check[c].todo # <<>>
  BY <1>1 DEF NoCheck
<1>6. OccupancyTypeOK
  BY DEF HealthInit, OccupancyInit, OccupancyTypeOK
<1> QED BY <1>1, <1>3, <1>4, <1>5, <1>6 DEF HealthInv

\* HealthInv holds of every state of the specification.
LEMMA HealthInvariant == HealthAssumption => (HealthSpec => []HealthInv)
<1> SUFFICES ASSUME HealthAssumption PROVE HealthSpec => []HealthInv
  OBVIOUS
<1>1. HealthInit => HealthInv
  BY HealthStart
<1>2. HealthInv /\ [HealthNext]_healthVars => HealthInv'
  BY HealthStep
<1> QED BY <1>1, <1>2, PTL DEF HealthSpec

\* Rows and sessions keep their types.
THEOREM HealthTypeCorrect == HealthAssumption => (HealthSpec => []HealthTypeOK)
<1>1. ASSUME HealthInv PROVE HealthTypeOK
  <2>1. ASSUME NEW c \in Checkers
        PROVE  /\ {check[c].old, check[c].new} \subseteq [Macs -> Rows]
               /\ check[c].touched \cup check[c].busy \subseteq Macs
    <3>1. check[c] \in Checks
      BY <1>1 DEF HealthInv
    <3> QED BY <3>1 DEF Checks
  <2> QED BY <1>1, <2>1 DEF HealthInv, HealthTypeOK
<1> QED BY <1>1, HealthInvariant, PTL

\* However sweeps, tests and logins overlap, and in whatever order they commit, a MAC
\* is out of the chains only when the panel has disowned it.
THEOREM DisownedOnlyByPanel == HealthAssumption => (HealthSpec => []DisownedByPanel)
<1>1. HealthInv => DisownedByPanel
  BY DEF HealthInv, Truthful, DisownedByPanel
<1> QED BY <1>1, HealthInvariant, PTL
-----------------------------------------------------------------------------
(* What a play teaches of a stored link (PlayedLinks) *)

Verdict == {"alive", "dead"}
Zaps == [at : {"idle", "ask", "probe"}, mac : LinkMacs \cup {Never}, url : LinkUrls \cup {Never}, asked : BOOLEAN]

\* A probe that was not minted for is of the stored URL, for the MAC the walk has come to.
LessonInv ==
    /\ zap \in Zaps /\ proved \in [Verdict -> SUBSET LinkUrls]
    /\ cache \in [LinkUrls -> Verdict \cup {Never}] /\ learned \in [LinkMacs -> BOOLEAN \cup {Never}]
    /\ zap.at = "probe" => zap.url \in LinkUrls /\ (~zap.asked => zap.url = StoredToken)
    /\ zap.at = "ask" => zap.asked
    /\ mediaCmd = [f \in Films |-> mediaCmd[f]]
    /\ LessonsHold

LEMMA LessonInitInv == LessonInit => LessonInv
<1> SUFFICES ASSUME LessonInit PROVE LessonInv OBVIOUS
<1>1. zap \in Zaps /\ zap.at = "idle" BY DEF LessonInit, LinkInit, NoZap, Zaps
<1>2. /\ proved \in [Verdict -> SUBSET LinkUrls] /\ cache \in [LinkUrls -> Verdict \cup {Never}]
      /\ learned \in [LinkMacs -> BOOLEAN \cup {Never}]
    BY DEF LessonInit, LinkInit, Verdict
<1>3. \A u \in LinkUrls : cache[u] = Never BY DEF LessonInit, LinkInit
<1>4. \A m \in LinkMacs : learned[m] = Never BY DEF LessonInit, LinkInit
<1>5. DeadIsOwn BY <1>3, <1>4, VerdictAssumption DEF DeadIsOwn
<1>6. \A f \in Films : mediaCmd[f] = NoCmd /\ Cmd(f, "catalogue") \in Cmds
    BY DEF LessonInit, FormInit, Cmd, Cmds, Forms
<1>7. mediaCmd = [f \in Films |-> mediaCmd[f]] BY DEF LessonInit, FormInit
<1>8. CatalogueNotRemembered BY <1>6, CmdAssumption DEF CatalogueNotRemembered
<1> QED BY <1>1, <1>2, <1>5, <1>7, <1>8 DEF LessonInv, LessonsHold

\* The verdict a stored link is given is that of its own URL.
LEMMA JudgedKeeps ==
    ASSUME LessonInv, zap.at = "probe", NEW verdict \in Verdict, JudgedLink(verdict),
           proved' \in [Verdict -> SUBSET LinkUrls], proved["dead"] \subseteq proved'["dead"],
           verdict = "dead" /\ ~zap.asked => StoredToken \in proved'["dead"]
    PROVE  /\ zap' \in Zaps /\ zap'.at # "probe" /\ (zap'.at = "ask" => zap'.asked)
           /\ learned' \in [LinkMacs -> BOOLEAN \cup {Never}]
           /\ \A m \in LinkMacs : learned'[m] = FALSE => StoredToken \in proved'["dead"]
<1>1. NoZap \in Zaps /\ NoZap.at = "idle" BY DEF NoZap, Zaps
<1>2. \A m \in LinkMacs : learned[m] = FALSE => StoredToken \in proved'["dead"]
    BY DEF LessonInv, LessonsHold, DeadIsOwn
<1>3. CASE zap.asked BY <1>1, <1>2, <1>3 DEF JudgedLink, LessonInv
<1>4. CASE ~zap.asked
    <2>1. learned' = [learned EXCEPT ![zap.mac] = (verdict = "alive")] BY <1>4 DEF JudgedLink
    <2>2. learned' \in [LinkMacs -> BOOLEAN \cup {Never}] BY <2>1 DEF LessonInv
    <2>3. ASSUME NEW m \in LinkMacs, learned'[m] = FALSE PROVE StoredToken \in proved'["dead"]
        <3>1. CASE m = zap.mac
            <4>1. (verdict = "alive") = FALSE BY <2>1, <2>3, <3>1 DEF LessonInv
            <4> QED BY <4>1, <1>4 DEF Verdict
        <3>2. CASE m # zap.mac BY <1>2, <2>1, <2>3, <3>2 DEF LessonInv
        <3> QED BY <3>1, <3>2
    <2> DEFINE z == [zap EXCEPT !.at = "ask", !.url = Never, !.asked = TRUE]
    <2>4. z \in Zaps /\ z.at = "ask" /\ z.asked BY DEF LessonInv, Zaps
    <2>5. zap' = NoZap \/ zap' = z BY <1>4 DEF JudgedLink
    <2> QED BY <1>1, <2>2, <2>3, <2>4, <2>5
<1> QED BY <1>3, <1>4

LEMMA LinkStep == ASSUME LessonInv, LinkNext, UNCHANGED formVars PROVE LessonInv'
<1>1. (CatalogueNotRemembered /\ mediaCmd = [f \in Films |-> mediaCmd[f]])'
    BY DEF LessonInv, LessonsHold, CatalogueNotRemembered, formVars
<1>2. ASSUME NEW m \in LinkMacs, Plan(m) PROVE LessonInv'
    <2>1. zap' \in Zaps /\ (zap'.at = "probe" => zap'.url = StoredToken) /\ (zap'.at = "ask" => zap'.asked)
        BY <1>2 DEF Plan, Zaps, LinkUrls
    <2>2. UNCHANGED <<learned, cache, proved>> BY <1>2 DEF Plan
    <2> QED BY <1>1, <2>1, <2>2 DEF LessonInv, LessonsHold, DeadIsOwn, LinkUrls
<1>3. ASSUME Mint PROVE LessonInv'
    <2>1. UNCHANGED <<learned, cache, proved>> BY <1>3 DEF Mint
    <2>2. ASSUME zap' = NoZap PROVE LessonInv'
        BY <1>1, <2>1, <2>2 DEF LessonInv, LessonsHold, DeadIsOwn, NoZap, Zaps
    <2>3. ASSUME NEW t \in Tokens, zap' = [zap EXCEPT !.at = "probe", !.url = t] PROVE LessonInv'
        <3>1. zap.asked = TRUE \/ zap.asked = FALSE BY DEF LessonInv, Zaps
        <3>2. zap' \in Zaps /\ zap'.at = "probe" /\ zap'.url \in LinkUrls /\ zap'.asked = zap.asked
            BY <2>3 DEF LessonInv, Zaps, LinkUrls
        <3> QED BY <1>1, <1>3, <2>1, <3>1, <3>2 DEF LessonInv, LessonsHold, DeadIsOwn, Mint
    <2> QED BY <1>3, <2>2, <2>3 DEF Mint
<1>4. ASSUME ProbeSkipped PROVE LessonInv'
    <2>1. PICK verdict \in Known(zap.url, ~zap.asked) : JudgedLink(verdict) BY <1>4 DEF ProbeSkipped
    <2>2. zap.at = "probe" /\ UNCHANGED <<cache, proved>> BY <1>4 DEF ProbeSkipped
    <2>3. verdict \in Verdict BY <2>1, <2>2 DEF Known, LessonInv, Verdict
    <2>4. verdict = "dead" => cache[zap.url] = "dead" BY <2>1, <2>2 DEF Known
    <2>5. verdict = "dead" /\ ~zap.asked => StoredToken \in proved'["dead"]
        BY <2>2, <2>4 DEF LessonInv, LessonsHold, DeadIsOwn
    <2>6. proved' \in [Verdict -> SUBSET LinkUrls] /\ proved["dead"] \subseteq proved'["dead"]
        BY <2>2 DEF LessonInv
    <2>7. /\ zap' \in Zaps /\ zap'.at # "probe" /\ (zap'.at = "ask" => zap'.asked)
          /\ learned' \in [LinkMacs -> BOOLEAN \cup {Never}]
          /\ \A m \in LinkMacs : learned'[m] = FALSE => StoredToken \in proved'["dead"]
        BY <2>1, <2>2, <2>3, <2>5, <2>6, JudgedKeeps
    <2> QED BY <1>1, <2>2, <2>7 DEF LessonInv, LessonsHold, DeadIsOwn
<1>5. ASSUME Probed PROVE LessonInv'
    <2>1. PICK verdict \in Verdict : /\ JudgedLink(verdict) /\ cache' = RememberedUrl(zap.url, verdict)
                                     /\ proved' = [proved EXCEPT ![verdict] = @ \cup {zap.url}]
        BY <1>5 DEF Probed, Verdict
    <2>2. zap.at = "probe" /\ zap.url \in LinkUrls /\ (~zap.asked => zap.url = StoredToken)
        BY <1>5 DEF Probed, LessonInv
    <2>3. /\ proved' \in [Verdict -> SUBSET LinkUrls] /\ proved["dead"] \subseteq proved'["dead"]
          /\ verdict = "dead" => zap.url \in proved'["dead"]
        BY <2>1, <2>2 DEF LessonInv, Verdict
    <2>4. /\ zap' \in Zaps /\ zap'.at # "probe" /\ (zap'.at = "ask" => zap'.asked)
          /\ learned' \in [LinkMacs -> BOOLEAN \cup {Never}]
          /\ \A m \in LinkMacs : learned'[m] = FALSE => StoredToken \in proved'["dead"]
        BY <2>1, <2>2, <2>3, JudgedKeeps
    <2>5. cache' \in [LinkUrls -> Verdict \cup {Never}] BY <2>1 DEF RememberedUrl, LessonInv
    <2>6. ASSUME NEW u \in LinkUrls, cache'[u] = "dead" PROVE u \in proved'["dead"]
        <3>1. (u = zap.url /\ verdict = "dead") \/ cache[u] = "dead" BY <2>1, <2>6 DEF RememberedUrl
        <3> QED BY <2>3, <3>1 DEF LessonInv, LessonsHold, DeadIsOwn
    <2> QED BY <1>1, <2>3, <2>4, <2>5, <2>6 DEF LessonInv, LessonsHold, DeadIsOwn
<1>6. ASSUME Expire PROVE LessonInv'
    <2>1. UNCHANGED <<zap, proved>> BY <1>6 DEF Expire
    <2>2. /\ cache' \in [LinkUrls -> Verdict \cup {Never}] /\ learned' \in [LinkMacs -> BOOLEAN \cup {Never}]
          /\ \A u \in LinkUrls : cache'[u] \in {cache[u], Never}
          /\ \A m \in LinkMacs : learned'[m] \in {learned[m], Never}
        BY <1>6 DEF Expire, LessonInv
    <2> QED BY <1>1, <2>1, <2>2, VerdictAssumption DEF LessonInv, LessonsHold, DeadIsOwn
<1>7. ASSUME Refetch PROVE LessonInv'
    BY <1>1, <1>7 DEF Refetch, LessonInv, LessonsHold, DeadIsOwn
<1> QED BY <1>2, <1>3, <1>4, <1>5, <1>6, <1>7 DEF LinkNext

LEMMA FormStep == ASSUME LessonInv, FormNext, UNCHANGED linkVars PROVE LessonInv'
<1>1. /\ (zap \in Zaps /\ proved \in [Verdict -> SUBSET LinkUrls] /\ DeadIsOwn)'
      /\ (cache \in [LinkUrls -> Verdict \cup {Never}] /\ learned \in [LinkMacs -> BOOLEAN \cup {Never}])'
      /\ (zap.at = "probe" => zap.url \in LinkUrls /\ (~zap.asked => zap.url = StoredToken))'
      /\ (zap.at = "ask" => zap.asked)'
    BY DEF LessonInv, LessonsHold, DeadIsOwn, linkVars
<1>2. mediaCmd' = mediaCmd \/ \E t \in Players : Store(t)
    BY DEF FormNext, CreateLink, FormAnswered, FormRefused, GivesUp, Resolved, Reingest
<1>3. ASSUME NEW t \in Players, Store(t) PROVE (CatalogueNotRemembered /\ mediaCmd = [f \in Films |-> mediaCmd[f]])'
    <2> DEFINE p == play[t]
    <2>1. \A f \in Films : mediaCmd'[f] = mediaCmd[f] \/ mediaCmd'[f] = NewForm(p.how, f)
        BY <1>3 DEF Store, LessonInv
    <2>2. \A f \in Films : NoCmd # Cmd(f, "catalogue") BY CmdAssumption DEF Cmd, Cmds, Forms
    <2>3. mediaCmd' = [f \in Films |-> mediaCmd'[f]] BY <1>3 DEF Store, LessonInv
    <2> QED BY <2>1, <2>2, <2>3 DEF NewForm, CatalogueNotRemembered, LessonInv, LessonsHold
<1>4. (CatalogueNotRemembered /\ mediaCmd = [f \in Films |-> mediaCmd[f]])'
    BY <1>2, <1>3 DEF LessonInv, LessonsHold, CatalogueNotRemembered
<1> QED BY <1>1, <1>4 DEF LessonInv, LessonsHold

\* What plays have learned of the links they use stays true, for any MACs, tokens, films
\* and plays: a dead verdict is that of a probe of the very URL, and no row remembers the
\* catalogue's own form of a cmd.
THEOREM LessonsStay == LessonSpec => []LessonsHold
<1>1. ASSUME LessonInv, [LessonNext]_lessonVars PROVE LessonInv'
    <2>1. CASE UNCHANGED lessonVars
        BY <1>1, <2>1 DEF lessonVars, linkVars, formVars, LessonInv, LessonsHold, DeadIsOwn, CatalogueNotRemembered
    <2> QED BY <1>1, <2>1, LinkStep, FormStep DEF LessonNext
<1>2. LessonInv => LessonsHold BY DEF LessonInv
<1> QED BY <1>1, <1>2, LessonInitInv, PTL DEF LessonSpec
-----------------------------------------------------------------------------
(* Translations compared and saved (MacCompare) *)

Answers == [mac : PortalMacs, ok : BOOLEAN, errors : SUBSET Kinds, hid : SUBSET Kinds,
            lists : [Kinds -> SUBSET Genres]]
Reports == [at : {"idle", "answered", "counted", "stored", "done"}, n : Nat, blocks : Seq(Answers),
            rows : {report.rows}, identical : BOOLEAN, refused : BOOLEAN, packages : {report.packages},
            told : SUBSET (PortalMacs \X Kinds), hidden : SUBSET (PortalMacs \X Kinds)]

\* What the panel gave is in the report as it was given, and a row of the report names
\* ids and cmds that the panel has.
CompareTyped ==
    /\ report \in Reports
    /\ offers \in [PortalMacs -> [Kinds -> SUBSET Genres]]
    /\ lineup \in [PortalMacs -> SUBSET Channels]
    /\ there \subseteq PortalMacs
GivenWhole ==
    \A i \in DOMAIN report.blocks, k \in Kinds :
        report.blocks[i].ok /\ k \notin report.blocks[i].errors \cup report.blocks[i].hid
            => report.blocks[i].lists[k] = Given(report.blocks[i].mac, k)
NothingInvented ==
    \A i \in DOMAIN report.blocks, k \in Kinds :
        \/ report.blocks[i].lists[k] = {}
        \/ \E j \in Kinds : report.blocks[i].lists[k] = offers[report.blocks[i].mac][j]
ListedRow(r) ==
    /\ DOMAIN r.cmds \subseteq DOMAIN r.ids
    /\ \A m \in DOMAIN r.cmds : r.ids[m] \in Ids /\ r.cmds[m] \in LiveCmds
RowsAreListed == IsFiniteSet(report.rows) /\ \A r \in report.rows : ListedRow(r)

CompareInv == CompareTyped /\ GivenWhole /\ NothingInvented /\ RowsAreListed /\ PackagesAgree

USE CompareAssumption DEF CompareAssumption

LEMMA GivenStays ==
    ASSUME UNCHANGED offers
    PROVE  \A m, k : Given(m, k)' = Given(m, k)
BY DEF Given

LEMMA CompareStarts == CompareInit => CompareInv
<1> SUFFICES ASSUME CompareInit PROVE CompareInv
  OBVIOUS
<1>1. report \in Reports
  BY DEF CompareInit, NoReport, Reports
<1>2. GivenWhole /\ NothingInvented /\ RowsAreListed
  BY FS_EmptySet DEF CompareInit, NoReport, GivenWhole, NothingInvented, RowsAreListed
<1>3. PackagesAgree
  BY DEF CompareInit, NoReport, PackagesAgree, VerdictsAgree, CountsAreWhole
<1> QED BY <1>1, <1>2, <1>3 DEF CompareInv, CompareTyped, CompareInit

\* A list that neither failed nor was refused is the panel's own; a block of a MAC that
\* answered is made of such lists, and of empty ones.
GivenBy(m, b) ==
    /\ b \in Answers /\ b.mac = m
    /\ \A k \in Kinds \ (b.errors \cup b.hid) : b.lists[k] = Given(m, k)
    /\ \A k \in Kinds : b.lists[k] = {} \/ \E j \in Kinds : b.lists[k] = offers[m][j]

LEMMA BlockGiven ==
    ASSUME CompareTyped, NEW m \in PortalMacs, NEW vod \in Replies, NEW series \in Replies, NEW again \in Replies
    PROVE  GivenBy(m, Block(m, vod, series, again))
<1> DEFINE back == series = "refused" \/ (series = "told" /\ offers[m]["series"] = {})
           kindsOf(v, s) == (IF v THEN {"vod"} ELSE {}) \cup (IF s THEN {"series"} ELSE {})
           errors == kindsOf(vod = "broken", series = "broken" \/ (back /\ again = "broken"))
           hid == kindsOf(vod = "refused", series = "refused" \/ (back /\ again = "refused"))
           list(k) == CASE k = "live" -> offers[m]["live"]
                        [] k = "vod" -> VodGenres(m, vod)
                        [] OTHER -> IF back THEN VodGenres(m, again)
                                    ELSE IF series = "told" THEN offers[m]["series"] ELSE {}
           lists == [k \in Kinds |-> list(k)]
<1>1. Block(m, vod, series, again) = [mac |-> m, ok |-> TRUE, errors |-> errors, hid |-> hid, lists |-> lists]
  BY Zenon DEF Block
<1>2. offers[m] \in [Kinds -> SUBSET Genres] /\ "vod" \in Kinds /\ "live" \in Kinds /\ "series" \in Kinds
  BY DEF CompareTyped, Kinds
<1>3. \A k \in Kinds : list(k) \in SUBSET Genres
  BY <1>2 DEF VodGenres
<1>4. errors \in SUBSET Kinds /\ hid \in SUBSET Kinds
  BY <1>2
<1>5. ASSUME NEW k \in Kinds, k \notin errors, k \notin hid PROVE list(k) = Given(m, k)
  <2>1. CASE k = "live"
    BY <2>1 DEF Given
  <2>2. CASE k = "vod"
    BY <1>5, <2>2 DEF Given, VodGenres, Replies
  <2>3. CASE k = "series"
    <3>1. series = "told" /\ (back => again = "told")
      BY <1>5, <2>3 DEF Replies
    <3> QED BY <2>3, <3>1 DEF Given, VodGenres
  <2> QED BY <2>1, <2>2, <2>3 DEF Kinds
<1>7. \A k \in Kinds : list(k) = {} \/ \E j \in Kinds : list(k) = offers[m][j]
  BY <1>2 DEF VodGenres
<1> HIDE DEF list, errors, hid
<1>6. lists \in [Kinds -> SUBSET Genres] /\ \A k \in Kinds : lists[k] = list(k)
  BY <1>3
<1> HIDE DEF lists
<1> QED BY <1>1, <1>4, <1>5, <1>6, <1>7 DEF Answers, GivenBy

\* Of the MACs that are asked, each gives a block that holds its lists as the panel has them.
LEMMA CompareKeeps == CompareInv /\ Compare => CompareInv'
<1> SUFFICES ASSUME CompareInv, Compare PROVE CompareInv'
  OBVIOUS
<1>1. CompareTyped
  BY DEF CompareInv
<1>2. UNCHANGED <<offers, lineup, there, genre, counts, source, translation>>
  BY DEF Compare
<1>3. PICK usable \in SUBSET there : \E failed \in SUBSET usable :
       \E vod, series, again \in [usable \ failed -> Replies] :
          LET asked == Only(MacOrder, usable) IN
          report' = [NoReport EXCEPT !.at = "answered", !.n = report.n + 1, !.hidden = report.hidden,
                        !.blocks = [i \in DOMAIN asked |->
                           LET m == asked[i] IN
                           IF m \in failed THEN FailedBlock(m) ELSE Block(m, vod[m], series[m], again[m])]]
  BY DEF Compare
<1> DEFINE asked == Only(MacOrder, usable)
<1>4. asked \in Seq(PortalMacs) /\ Range(asked) \subseteq usable
  BY OnlySelects
<1> HIDE DEF asked
<1>5. PICK failed \in SUBSET usable : \E vod, series, again \in [usable \ failed -> Replies] :
          report' = [NoReport EXCEPT !.at = "answered", !.n = report.n + 1, !.hidden = report.hidden,
                        !.blocks = [i \in DOMAIN asked |->
                           IF asked[i] \in failed THEN FailedBlock(asked[i])
                           ELSE Block(asked[i], vod[asked[i]], series[asked[i]], again[asked[i]])]]
  BY <1>3 DEF asked
<1>15. PICK vod, series, again \in [usable \ failed -> Replies] :
          report' = [NoReport EXCEPT !.at = "answered", !.n = report.n + 1, !.hidden = report.hidden,
                        !.blocks = [i \in DOMAIN asked |->
                           IF asked[i] \in failed THEN FailedBlock(asked[i])
                           ELSE Block(asked[i], vod[asked[i]], series[asked[i]], again[asked[i]])]]
  BY <1>5
<1> DEFINE block(i) == IF asked[i] \in failed THEN FailedBlock(asked[i])
                       ELSE Block(asked[i], vod[asked[i]], series[asked[i]], again[asked[i]])
           blocks == [i \in DOMAIN asked |-> block(i)]
<1>6. \A i \in DOMAIN asked : asked[i] \in usable /\ asked[i] \in PortalMacs
  BY <1>4 DEF Range
<1>7. \A i \in DOMAIN asked :
         /\ block(i) \in Answers
         /\ \A k \in Kinds : block(i).ok /\ k \notin block(i).errors \cup block(i).hid
                                => block(i).lists[k] = Given(block(i).mac, k)
         /\ \A k \in Kinds : block(i).lists[k] = {} \/ \E j \in Kinds : block(i).lists[k] = offers[block(i).mac][j]
  <2> TAKE i \in DOMAIN asked
  <2>1. asked[i] \in usable /\ asked[i] \in PortalMacs
    BY <1>6
  <2>2. CASE asked[i] \in failed
    <3>1. /\ FailedBlock(asked[i]) \in Answers /\ ~FailedBlock(asked[i]).ok
          /\ \A k \in Kinds : FailedBlock(asked[i]).lists[k] = {}
      BY <2>1 DEF FailedBlock, Answers
    <3> QED BY <2>2, <3>1
  <2>3. CASE asked[i] \notin failed
    <3>1. vod[asked[i]] \in Replies /\ series[asked[i]] \in Replies /\ again[asked[i]] \in Replies
      BY <2>1, <2>3
    <3> DEFINE b == Block(asked[i], vod[asked[i]], series[asked[i]], again[asked[i]])
    <3>2. GivenBy(asked[i], b)
      BY <1>1, <2>1, <3>1, BlockGiven
    <3>3. block(i) = b
      BY <2>3
    <3> HIDE DEF b, block
    <3> QED BY <3>2, <3>3 DEF GivenBy
  <2> QED BY <2>2, <2>3
<1> HIDE DEF block
<1>8. blocks \in Seq(Answers) /\ DOMAIN blocks = DOMAIN asked
  BY <1>4, <1>7
<1>9. /\ report'.at = "answered" /\ report'.n = report.n + 1 /\ report'.blocks = blocks
      /\ report'.rows = {} /\ report'.identical = TRUE /\ report'.refused = FALSE /\ report'.hidden = report.hidden
      /\ report' = [at |-> "answered", n |-> report.n + 1, blocks |-> blocks, rows |-> {}, identical |-> TRUE,
                    refused |-> FALSE, packages |-> 0, told |-> {}, hidden |-> report.hidden]
  BY <1>15 DEF NoReport, block
<1>10. \A i \in DOMAIN asked : \A k \in Kinds :
          /\ blocks[i] = block(i)
          /\ block(i).ok /\ k \notin block(i).errors \cup block(i).hid => block(i).lists[k] = Given(block(i).mac, k)
          /\ block(i).lists[k] = {} \/ \E j \in Kinds : block(i).lists[k] = offers[block(i).mac][j]
  BY <1>7
<1> HIDE DEF blocks
<1>11. report' \in Reports'
  BY <1>8, <1>9, <1>1 DEF Reports, CompareTyped
<1>12. GivenWhole' /\ NothingInvented'
  BY <1>2, <1>8, <1>9, <1>10, GivenStays DEF GivenWhole, NothingInvented
<1>13. PackagesAgree'
  BY <1>2, <1>9 DEF PackagesAgree, VerdictsAgree, CountsAreWhole, CompareInv, Given
<1>14. RowsAreListed'
  BY <1>9, FS_EmptySet DEF RowsAreListed
<1> QED BY <1>1, <1>2, <1>11, <1>12, <1>13, <1>14 DEF CompareInv, CompareTyped

\* A stored count is that of a list that was given whole.
LEMMA CountsKeep == CompareInv /\ PersistCounts => CompareInv'
<1> SUFFICES ASSUME CompareInv, PersistCounts PROVE CompareInv'
  OBVIOUS
<1>1. report \in Reports /\ CompareTyped
  BY DEF CompareInv, CompareTyped
<1>2. UNCHANGED <<offers, lineup, there, genre, source, translation>>
  BY DEF PersistCounts
<1> DEFINE hidden == {p \in PortalMacs \X Kinds :
                         IF Counted(p[1], p[2]) = {} THEN p \in report.hidden
                         ELSE \E b \in Counted(p[1], p[2]) : p[2] \in b.hid}
<1>3. report' = [report EXCEPT !.at = "counted", !.hidden = hidden]
  BY DEF PersistCounts
<1>8. \A m \in PortalMacs, k \in Kinds :
         <<m, k>> \in hidden <=> IF Counted(m, k) = {} THEN <<m, k>> \in report.hidden
                                ELSE \E b \in Counted(m, k) : k \in b.hid
  OBVIOUS
<1>9. hidden \in SUBSET (PortalMacs \X Kinds)
  OBVIOUS
<1> HIDE DEF hidden
<1>4. report' \in Reports' /\ report'.blocks = report.blocks /\ report'.rows = report.rows
      /\ report'.at = "counted" /\ report'.hidden = hidden
  BY <1>1, <1>3, <1>9 DEF Reports
<1>5. GivenWhole' /\ NothingInvented' /\ RowsAreListed'
  BY <1>2, <1>4, GivenStays DEF GivenWhole, NothingInvented, RowsAreListed, CompareInv
<1>6. \A m \in PortalMacs, k \in Kinds :
         <<m, k>> \in hidden \/ counts'[m][k] \in {Unknown, Cardinality(Given(m, k))}
  <2> SUFFICES ASSUME NEW m \in PortalMacs, NEW k \in Kinds, <<m, k>> \notin hidden
               PROVE  counts'[m][k] \in {Unknown, Cardinality(Given(m, k))}
    OBVIOUS
  <2> DEFINE c == CHOOSE b \in Counted(m, k) : TRUE
  <2>1. counts'[m][k] = IF Counted(m, k) = {} THEN counts[m][k] ELSE Cardinality(c.lists[k])
    BY DEF PersistCounts
  <2>2. CASE Counted(m, k) # {}
    <3>1. c \in Counted(m, k)
      BY <2>2
    <3> HIDE DEF c
    <3>2. PICK i \in DOMAIN report.blocks : c = report.blocks[i]
      BY <3>1 DEF Counted, Blocks
    <3>3. c.mac = m /\ c.ok /\ k \notin c.errors /\ k \notin c.hid
      BY <1>8, <2>2, <3>1 DEF Counted, CountWritten
    <3>4. c.lists[k] = Given(m, k)
      BY <3>2, <3>3 DEF GivenWhole, CompareInv
    <3> QED BY <2>1, <2>2, <3>4
  <2>3. CASE Counted(m, k) = {}
    <3>1. counts'[m][k] = counts[m][k] /\ <<m, k>> \notin report.hidden
      BY <1>8, <2>1, <2>3
    <3> QED BY <3>1 DEF CompareInv, PackagesAgree, CountsAreWhole
  <2> QED BY <2>2, <2>3
<1>7. PackagesAgree'
  BY <1>2, <1>4, <1>6 DEF PackagesAgree, VerdictsAgree, CountsAreWhole, Given
<1> QED BY <1>1, <1>2, <1>4, <1>5, <1>7 DEF CompareInv, CompareTyped

\* The other steps of a compare leave what was answered and counted alone.
LEMMA StoredKeeps == CompareInv /\ (PersistGenres \/ PersistFails) => CompareInv'
<1> SUFFICES ASSUME CompareInv, PersistGenres \/ PersistFails PROVE CompareInv'
  OBVIOUS
<1>1. report \in Reports /\ CompareTyped
  BY DEF CompareInv, CompareTyped
<1>2. UNCHANGED <<offers, lineup, there, counts>>
  BY DEF PersistGenres, PersistFails
<1>3. report' = [report EXCEPT !.at = "stored"]
  BY DEF PersistGenres, PersistFails
<1>4. report' \in Reports' /\ report'.blocks = report.blocks /\ report'.rows = report.rows
      /\ report'.at = "stored" /\ report'.hidden = report.hidden
  BY <1>1, <1>3 DEF Reports
<1>5. GivenWhole' /\ NothingInvented' /\ RowsAreListed'
  BY <1>2, <1>4, GivenStays DEF GivenWhole, NothingInvented, RowsAreListed, CompareInv
<1>6. PackagesAgree'
  BY <1>2, <1>4 DEF PackagesAgree, VerdictsAgree, CountsAreWhole, CompareInv, Given
<1> QED BY <1>1, <1>2, <1>4, <1>5, <1>6 DEF CompareInv, CompareTyped

LEMMA AtMostOne ==
    ASSUME NEW S, IsFiniteSet(S)
    PROVE  Cardinality(S) <= 1 <=> \A x, y \in S : x = y
<1>1. CASE S = {}
  BY <1>1, FS_EmptySet
<1>2. CASE S # {}
  <2>1. PICK x : x \in S
    BY <1>2
  <2>2. Cardinality(S) \in Nat /\ Cardinality(S) # 0
    BY <1>2, FS_CardinalityType, FS_EmptySet
  <2>3. ASSUME Cardinality(S) <= 1 PROVE \A y, z \in S : y = z
    <3>1. Cardinality(S) = 1
      BY <2>2, <2>3
    <3> QED BY <3>1, FS_Singleton
  <2>4. ASSUME \A y, z \in S : y = z PROVE Cardinality(S) <= 1
    <3>1. S = {x}
      BY <2>1, <2>4
    <3>2. Cardinality({x}) = 1
      BY FS_Singleton
    <3> QED BY <3>1, <3>2
  <2> QED BY <2>3, <2>4
<1> QED BY <1>1, <1>2

\* Lists whose keys are the same, as often, have the same keys; and lists of the same keys
\* that repeat none have them as often.
LEMMA SortedKeys ==
    ASSUME NEW v, NEW w, Sorted(v) = Sorted(w)
    PROVE  KeysOf(v) = KeysOf(w)
<1>1. DOMAIN Sorted(v) = KeysOf(v) /\ DOMAIN Sorted(w) = KeysOf(w)
  BY DEF Sorted
<1> QED BY <1>1

LEMMA SortedOnce ==
    ASSUME NEW v, NEW w, KeysOf(v) = KeysOf(w),
           \A e, f \in v : Key(e) = Key(f) => e = f, \A e, f \in w : Key(e) = Key(f) => e = f
    PROVE  Sorted(v) = Sorted(w)
<1>1. ASSUME NEW l \in {v, w}, NEW key \in KeysOf(l)
      PROVE  Cardinality({e \in l : Key(e) = key}) = 1
  <2>1. PICK e \in l : Key(e) = key
    BY <1>1 DEF KeysOf
  <2>2. {f \in l : Key(f) = key} = {e}
    BY <2>1
  <2> QED BY <2>2, FS_Singleton
<1>2. \A key \in KeysOf(v) :
         Cardinality({e \in v : Key(e) = key}) = 1 /\ Cardinality({e \in w : Key(e) = key}) = 1
  BY <1>1
<1> DEFINE keys == KeysOf(v)
           often(l) == [key \in keys |-> Cardinality({e \in l : Key(e) = key})]
<1>3. Sorted(v) = often(v) /\ Sorted(w) = often(w)
  BY DEF Sorted
<1>4. often(v) = [key \in keys |-> 1] /\ often(w) = [key \in keys |-> 1]
  BY <1>2
<1> QED BY <1>3, <1>4

\* Where every MAC answered everything, two signatures are equal exactly when the keys of
\* every kind are, as often; so one package is identical lists, and identical lists that
\* repeat no key are one package.
LEMMA OnePackage ==
    ASSUME report \in Reports, Incomplete = {}
    PROVE  /\ (\A p, q \in Packages : p = q) => \A k \in Kinds : KindIdentical(k)
           /\ (\A k \in Kinds : KindIdentical(k))
              /\ (\A b \in Blocks, k \in Kinds : \A e, f \in b.lists[k] : Key(e) = Key(f) => e = f)
              => \A p, q \in Packages : p = q
<1>1. \A b \in Blocks : b.ok /\ b.errors = {}
  BY DEF Incomplete
<1>2. \A k \in Kinds : OkFor(k) = Blocks
  BY <1>1 DEF OkFor
<1> DEFINE x(d) == [k \in Kinds |-> <<FALSE, Sorted(d.lists[k])>>]
<1>3. \A b \in Blocks : Signature(b) = x(b)
  <2> TAKE b \in Blocks
  <2>1. b.ok /\ b.errors = {}
    BY <1>1
  <2>2. \A k \in Kinds : (k \in b.errors) = FALSE
    BY <2>1
  <2>3. Signature(b) = [k \in Kinds |-> <<k \in b.errors, Sorted(b.lists[k])>>]
    BY <2>1 DEF Signature
  <2> QED BY <2>2, <2>3, Zenon
<1>4. \A b, c \in Blocks : x(b) = x(c) <=> \A k \in Kinds : Sorted(b.lists[k]) = Sorted(c.lists[k])
  <2> TAKE b, c \in Blocks
  <2>1. x(b) = x(c) => \A k \in Kinds : Sorted(b.lists[k]) = Sorted(c.lists[k])
    <3> SUFFICES ASSUME x(b) = x(c), NEW k \in Kinds PROVE Sorted(b.lists[k]) = Sorted(c.lists[k])
      OBVIOUS
    <3>1. x(b)[k] = <<FALSE, Sorted(b.lists[k])>> /\ x(c)[k] = <<FALSE, Sorted(c.lists[k])>>
      OBVIOUS
    <3> HIDE DEF x
    <3> QED BY <3>1
  <2>2. (\A k \in Kinds : Sorted(b.lists[k]) = Sorted(c.lists[k])) => x(b) = x(c)
    OBVIOUS
  <2> QED BY <2>1, <2>2
<1> HIDE DEF x
<1>5. (\A p, q \in Packages : p = q)
      <=> \A b, c \in Blocks : \A k \in Kinds : Sorted(b.lists[k]) = Sorted(c.lists[k])
  <2>1. (\A p, q \in Packages : p = q) <=> \A b, c \in Blocks : Signature(b) = Signature(c)
    BY DEF Packages
  <2>2. \A b, c \in Blocks : Signature(b) = Signature(c)
           <=> \A k \in Kinds : Sorted(b.lists[k]) = Sorted(c.lists[k])
    BY <1>3, <1>4
  <2> QED BY <2>1, <2>2
<1>6. (\A k \in Kinds : KindIdentical(k))
      <=> \A b, c \in Blocks : \A k \in Kinds : KeysOf(b.lists[k]) = KeysOf(c.lists[k])
  BY <1>2 DEF KindIdentical
<1>7. ASSUME NEW b \in Blocks, NEW c \in Blocks, NEW k \in Kinds, Sorted(b.lists[k]) = Sorted(c.lists[k])
      PROVE  KeysOf(b.lists[k]) = KeysOf(c.lists[k])
  BY <1>7, SortedKeys
<1>8. ASSUME NEW b \in Blocks, NEW c \in Blocks, NEW k \in Kinds,
             KeysOf(b.lists[k]) = KeysOf(c.lists[k]),
             \A e, f \in b.lists[k] : Key(e) = Key(f) => e = f, \A e, f \in c.lists[k] : Key(e) = Key(f) => e = f
      PROVE  Sorted(b.lists[k]) = Sorted(c.lists[k])
  BY <1>8, SortedOnce
<1> QED BY <1>5, <1>6, <1>7, <1>8

LEMMA ImageFinite ==
    ASSUME NEW S, IsFiniteSet(S), NEW f, DOMAIN f = S
    PROVE  IsFiniteSet({f[x] : x \in S})
<1> DEFINE T == {f[x] : x \in S}
           g == [x \in S |-> f[x]]
<1>1. g \in [S -> T] /\ \A t \in T : \E x \in S : g[x] = t
  OBVIOUS
<1>2. g \in Surjection(S, T)
  BY <1>1 DEF Surjection
<1> QED BY <1>2, FS_Surjection

LEMMA PackagesFinite == ASSUME report \in Reports PROVE IsFiniteSet(Packages)
<1>1. IsFiniteSet(DOMAIN report.blocks)
  <2>1. DOMAIN report.blocks = 1 .. Len(report.blocks) /\ Len(report.blocks) \in Nat
    BY DEF Reports
  <2> QED BY <2>1, FS_Interval
<1> DEFINE f == [i \in DOMAIN report.blocks |-> Signature(report.blocks[i])]
<1>2. Packages = {f[i] : i \in DOMAIN report.blocks} /\ DOMAIN f = DOMAIN report.blocks
  BY DEF Packages, Blocks
<1> HIDE DEF f
<1> QED BY <1>1, <1>2, ImageFinite

\* A row names, for a MAC that takes part, the id and the cmd of a channel of that MAC.
LEMMA RowsListed ==
    ASSUME CompareTyped, NEW unlisted
    PROVE  IsFiniteSet(ChannelRows(unlisted)) /\ \A r \in ChannelRows(unlisted) : ListedRow(r)
<1> DEFINE enabled == {g \in DOMAIN genre["live"] : genre["live"][g] # Unknown /\ genre["live"][g].enabled}
           wanted == [b \in {c \in Blocks : c.ok} |-> ResolveEnabled(enabled, b.lists["live"])]
           part == {b.mac : b \in {c \in DOMAIN wanted : wanted[c] # {}}} \ unlisted
           listed(m) == {c \in lineup[m] : \E b \in DOMAIN wanted : b.mac = m /\ c.genre \in wanted[b]}
           named(m, n) == {c \in listed(m) : c.name = n}
           has(n) == [m \in {x \in part : named(x, n) # {}} |-> CHOOSE c \in named(m, n) : TRUE]
<1>1. \A m \in part : m \in PortalMacs
  <2>1. part \subseteq {b.mac : b \in Blocks}
    OBVIOUS
  <2>2. \A b \in Blocks : b.mac \in PortalMacs
    <3> TAKE b \in Blocks
    <3>1. PICK i \in DOMAIN report.blocks : b = report.blocks[i]
      BY DEF Blocks
    <3>2. report.blocks \in Seq(Answers)
      BY DEF CompareTyped, Reports
    <3>3. b \in Answers
      BY <3>1, <3>2
    <3> QED BY <3>3 DEF Answers
  <2> QED BY <2>1, <2>2
<1>2. \A m \in PortalMacs, n \in Names : named(m, n) \subseteq Channels
  BY DEF CompareTyped
<1> DEFINE rowOf == [n \in Names |-> [name |-> n, ids |-> [m \in DOMAIN has(n) |-> has(n)[m].id],
                       cmds |-> [m \in {x \in DOMAIN has(n) : has(n)[x].cmd # Blank} |-> has(n)[m].cmd]]]
           differ == {x \in Names : /\ DOMAIN has(x) # {}
                                    /\ \/ DOMAIN has(x) # part
                                       \/ \E m, o \in part : has(x)[m].id # has(x)[o].id}
<1>3. ChannelRows(unlisted) =
        {[name |-> n, ids |-> [m \in DOMAIN has(n) |-> has(n)[m].id],
          cmds |-> [m \in {x \in DOMAIN has(n) : has(n)[x].cmd # Blank} |-> has(n)[m].cmd]] : n \in differ}
  BY Zenon DEF ChannelRows
<1>4. \A n \in Names : \A m \in DOMAIN has(n) : has(n)[m] \in Channels
  <2>1. \A n \in Names : \A m \in DOMAIN has(n) : m \in part /\ named(m, n) # {} /\ has(n)[m] \in named(m, n)
    <3> HIDE DEF part, named
    <3> QED OBVIOUS
  <2> HIDE DEF part, named, has
  <2> QED BY <1>1, <1>2, <2>1
<1> HIDE DEF part, named, has
<1>5. /\ ChannelRows(unlisted) \subseteq {rowOf[n] : n \in Names} /\ DOMAIN rowOf = Names
      /\ \A n \in Names : ListedRow(rowOf[n])
  <2>1. ChannelRows(unlisted) \subseteq {rowOf[n] : n \in Names} /\ DOMAIN rowOf = Names
    BY <1>3
  <2>2. \A n \in Names : ListedRow(rowOf[n])
    BY <1>4 DEF ListedRow, Channels
  <2> QED BY <2>1, <2>2
<1> HIDE DEF rowOf, differ
<1>6. IsFiniteSet(ChannelRows(unlisted))
  <2> DEFINE T == {rowOf[n] : n \in Names}
  <2>1. IsFiniteSet(T)
    BY <1>5, ImageFinite
  <2> HIDE DEF T
  <2>2. ChannelRows(unlisted) \in SUBSET T
    BY <1>5 DEF T
  <2> QED BY <2>1, <2>2, FS_Subset
<1> QED BY <1>5, <1>6

LEMMA ReportKeeps == CompareInv /\ Report => CompareInv'
<1> SUFFICES ASSUME CompareInv, Report PROVE CompareInv'
  OBVIOUS
<1>1. report \in Reports /\ CompareTyped
  BY DEF CompareInv, CompareTyped
<1>2. UNCHANGED <<offers, lineup, there, counts>>
  BY DEF Report
<1>20. PICK unlisted \in SUBSET PortalMacs :
       report' = [report EXCEPT !.at = "done", !.blocks = <<>>, !.refused = Incomplete # {},
                     !.identical = (\A k \in Kinds : KindIdentical(k)) /\ Incomplete = {},
                     !.packages = Cardinality(Packages),
                     !.told = {p \in PortalMacs \X Kinds : \E b \in OkFor(p[2]) : b.mac = p[1] /\ p[2] \notin b.hid},
                     !.rows = IF Cardinality(OkPackages) > 1 THEN ChannelRows(unlisted) ELSE {}]
  BY DEF Report
<1> DEFINE same == (\A k \in Kinds : KindIdentical(k)) /\ Incomplete = {}
           refused == Incomplete # {}
           told == {p \in PortalMacs \X Kinds : \E b \in OkFor(p[2]) : b.mac = p[1] /\ p[2] \notin b.hid}
           rows == IF Cardinality(OkPackages) > 1 THEN ChannelRows(unlisted) ELSE {}
<1>3. report' = [report EXCEPT !.at = "done", !.blocks = <<>>, !.refused = refused, !.identical = same,
                     !.packages = Cardinality(Packages), !.told = told, !.rows = rows]
  BY <1>20
<1>4. same \in BOOLEAN /\ refused \in BOOLEAN /\ told \in SUBSET (PortalMacs \X Kinds)
  OBVIOUS
<1>5. Cardinality(Packages) <= 1 /\ ~refused => same
  BY <1>1, OnePackage, PackagesFinite, AtMostOne
<1>11. same /\ KeysAreOwn => Cardinality(Packages) <= 1
  <2>1. ASSUME KeysAreOwn, NEW b \in Blocks, NEW k \in Kinds, NEW e \in b.lists[k], NEW f \in b.lists[k],
               Key(e) = Key(f)
        PROVE  e = f
    <3>1. PICK i \in DOMAIN report.blocks : b = report.blocks[i]
      BY DEF Blocks
    <3>2. b \in Answers
      BY <1>1, <3>1 DEF Reports
    <3>3. PICK j \in Kinds : b.lists[k] = offers[b.mac][j]
      BY <2>1, <3>1 DEF NothingInvented, CompareInv
    <3> QED BY <2>1, <3>2, <3>3 DEF KeysAreOwn, Answers
  <2> QED BY <1>1, <2>1, OnePackage, PackagesFinite, AtMostOne
<1>12. ASSUME same, NEW p \in told, NEW o \in told, p[2] = o[2]
       PROVE  KeysOf(Given(p[1], p[2])) = KeysOf(Given(o[1], o[2]))
  <2>1. PICK b \in OkFor(p[2]) : b.mac = p[1] /\ p[2] \notin b.hid
    BY <1>12
  <2>2. PICK c \in OkFor(o[2]) : c.mac = o[1] /\ o[2] \notin c.hid
    BY <1>12
  <2>3. p[2] \in Kinds
    BY <1>12
  <2>4. b.lists[p[2]] = Given(p[1], p[2]) /\ c.lists[o[2]] = Given(o[1], o[2])
    <3>1. \A d \in Blocks, k \in Kinds : d.ok /\ k \notin d.errors /\ k \notin d.hid => d.lists[k] = Given(d.mac, k)
      BY DEF GivenWhole, CompareInv, Blocks
    <3> QED BY <1>12, <2>1, <2>2, <2>3, <3>1 DEF OkFor
  <2>5. KindIdentical(p[2])
    BY <1>12, <2>3
  <2> QED BY <1>12, <2>1, <2>2, <2>4, <2>5 DEF KindIdentical
<1>6. IsFiniteSet(rows) /\ \A r \in rows : ListedRow(r)
  BY <1>1, RowsListed, FS_EmptySet
<1> HIDE DEF same, rows, refused, told
<1>7. /\ report'.at = "done" /\ report'.blocks = <<>> /\ report'.refused = refused
      /\ report'.identical = same /\ report'.packages = Cardinality(Packages) /\ report'.rows = rows
      /\ report'.n = report.n /\ report'.told = told /\ report'.hidden = report.hidden
  BY <1>1, <1>3 DEF Reports
<1>8. report' \in Reports'
  <2>1. report' = [at |-> "done", n |-> report.n, blocks |-> <<>>, rows |-> rows, identical |-> same,
                   refused |-> refused, packages |-> Cardinality(Packages), told |-> told, hidden |-> report.hidden]
    BY <1>1, <1>3 DEF Reports
  <2> QED BY <1>1, <1>4, <1>7, <2>1 DEF Reports
<1>9. GivenWhole' /\ NothingInvented' /\ RowsAreListed'
  BY <1>6, <1>7 DEF GivenWhole, NothingInvented, RowsAreListed
<1>13. \A m \in PortalMacs, k \in Kinds : Given(m, k)' = Given(m, k)
  BY <1>2 DEF Given
<1>14. KeysAreOwn' = KeysAreOwn
  BY <1>2 DEF KeysAreOwn
<1>15. VerdictsAgree'
  <2>1. \A p, o \in told : p[2] = o[2] /\ same =>
           KeysOf(Given(p[1], p[2])') = KeysOf(Given(o[1], o[2])')
    BY <1>2, <1>12 DEF Given
  <2> QED BY <1>5, <1>7, <1>11, <1>14, <2>1 DEF VerdictsAgree
<1>16. CountsAreWhole'
  BY <1>2, <1>7, <1>13 DEF PackagesAgree, CountsAreWhole, CompareInv
<1>10. PackagesAgree'
  BY <1>15, <1>16 DEF PackagesAgree
<1> QED BY <1>1, <1>2, <1>9, <1>10, <1>8 DEF CompareInv, CompareTyped

\* What the operator saves, clears, enables and removes, and what the panel renumbers,
\* is not what the report was made of.
LEMMA OperatorKeeps ==
    ASSUME CompareInv, UNCHANGED <<offers, counts, report>>, lineup' \in [PortalMacs -> SUBSET Channels],
           there' \subseteq there
    PROVE  CompareInv'
<1>1. Reports' = Reports
  BY DEF Reports
<1>2. (GivenWhole /\ NothingInvented /\ RowsAreListed)'
  BY GivenStays DEF CompareInv, GivenWhole, NothingInvented, RowsAreListed
<1>4. KeysAreOwn' = KeysAreOwn
  BY DEF KeysAreOwn
<1>5. \A m, k : KeysOf(Given(m, k))' = KeysOf(Given(m, k))
  BY DEF Given, KeysOf
<1>3. PackagesAgree'
  BY <1>4, <1>5, GivenStays DEF CompareInv, PackagesAgree, VerdictsAgree, CountsAreWhole
<1> QED BY <1>1, <1>2, <1>3 DEF CompareInv, CompareTyped

LEMMA CompareStep == CompareInv /\ [CompareNext]_compareVars => CompareInv'
<1> SUFFICES ASSUME CompareInv, [CompareNext]_compareVars PROVE CompareInv'
  OBVIOUS
<1>1. lineup \in [PortalMacs -> SUBSET Channels]
  BY DEF CompareInv, CompareTyped
<1>2. CASE Compare
  BY <1>2, CompareKeeps
<1>3. CASE PersistCounts
  BY <1>3, CountsKeep
<1>4. CASE PersistGenres \/ PersistFails
  BY <1>4, StoredKeeps
<1>5. CASE Report
  BY <1>5, ReportKeeps
<1>6. CASE ClearTranslations \/ \E rows \in SetToAllKPermutations(report.rows) : SaveTranslations(rows)
  BY <1>1, <1>6, OperatorKeeps DEF ClearTranslations, SaveTranslations
<1>7. CASE \E k \in Kinds, g \in Ids \cup Names : ToggleGenre(k, g)
  BY <1>1, <1>7, OperatorKeeps DEF ToggleGenre
<1>8. CASE \E m \in PortalMacs : Renumber(m)
  <2>1. lineup' \in [PortalMacs -> SUBSET Channels]
    BY <1>1, <1>8 DEF Renumber
  <2> QED BY <1>8, <2>1, OperatorKeeps DEF Renumber
<1>9. CASE \E m \in PortalMacs : DropMac(m)
  BY <1>1, <1>9, OperatorKeeps DEF DropMac
<1>10. CASE UNCHANGED compareVars
  BY <1>1, <1>10, OperatorKeeps DEF compareVars
<1> QED BY <1>2, <1>3, <1>4, <1>5, <1>6, <1>7, <1>8, <1>9, <1>10 DEF CompareNext

\* mac_health.compare_genres: the two verdicts of a report agree and no partial list is
\* counted, whatever the panel lists and whichever MAC or list fails.
THEOREM VerdictsAndCounts == CompareSpec => []PackagesAgree
<1>1. CompareInv => PackagesAgree
  BY DEF CompareInv
<1> QED BY <1>1, CompareStarts, CompareStep, PTL DEF CompareSpec
-----------------------------------------------------------------------------
LEMMA RowsOfPermutation ==
    ASSUME NEW T, IsFiniteSet(T), NEW rows \in SetToAllKPermutations(T)
    PROVE  rows \in Seq(T)
<1>1. PICK S \in SUBSET T : rows \in SetToSeqs(S)
  BY DEF SetToAllKPermutations
<1>2. rows \in [1 .. Cardinality(S) -> S]
  BY <1>1 DEF SetToSeqs
<1>3. Cardinality(S) \in Nat
  BY FS_Subset, FS_CardinalityType
<1> QED BY <1>2, <1>3

\* What is written for a pair is said of it by a row about the source; where none says
\* anything of it, nothing is.
LEMMA WrittenAsSaved ==
    ASSUME CompareInv, NEW rows \in SetToAllKPermutations(report.rows), SaveTranslations(rows),
           NEW t \in LiveRows, NEW m \in there
    PROVE  Asked(t, m)' \in IF Saying(rows, t, m) = {} THEN {Asked(t, m)}
                            ELSE {r.cmds[m] : r \in Saying(rows, t, m)}
<1> DEFINE about == Only(rows, Saying(rows, t, m))
           says == [i \in DOMAIN about |-> [id |-> about[i].ids[m], cmd |-> about[i].cmds[m]]]
           pairs == {[id |-> r.ids[m], cmd |-> r.cmds[m]] : r \in Saying(rows, t, m)}
           written == Only(says, Renamed \ {Own(t)})
<1>1. rows \in Seq(report.rows)
  BY RowsOfPermutation DEF CompareInv, RowsAreListed
<1>2. about \in Seq(report.rows) /\ Range(about) = Saying(rows, t, m)
  <2>1. Range(rows) \cap Saying(rows, t, m) = Saying(rows, t, m)
    BY DEF Saying
  <2>2. about \in Seq(report.rows) /\ Range(about) = Range(rows) \cap Saying(rows, t, m)
    BY <1>1, OnlySelects
  <2> QED BY <2>1, <2>2
<1>3. \A r \in Saying(rows, t, m) : [id |-> r.ids[m], cmd |-> r.cmds[m]] \in Renamed
  <2> TAKE r \in Saying(rows, t, m)
  <2>1. r \in report.rows /\ m \in DOMAIN r.cmds
    BY <1>1 DEF Saying, Range
  <2> QED BY <2>1 DEF CompareInv, RowsAreListed, ListedRow, Renamed
<1> HIDE DEF about
<1>4. says \in Seq(Renamed) /\ Range(says) = pairs
  <2>1. \A i \in DOMAIN about : about[i] \in Saying(rows, t, m)
    BY <1>2 DEF Range
  <2>2. \A r \in Saying(rows, t, m) : \E i \in DOMAIN about : about[i] = r
    BY <1>2 DEF Range
  <2>3. DOMAIN about = 1 .. Len(about) /\ Len(about) \in Nat
    BY <1>2
  <2>4. says \in Seq(Renamed)
    BY <1>3, <2>1, <2>3
  <2> QED BY <2>1, <2>2, <2>4 DEF Range
<1>5. Says(rows, t, m) = says
  BY DEF Says, about
<1> HIDE DEF says
<1>6. written \in Seq(Renamed) /\ Range(written) = pairs \cap (Renamed \ {Own(t)})
  BY <1>4, OnlySelects
<1> HIDE DEF written
<1>7. /\ source' = source
      /\ translation'[t][m] = IF written # <<>> THEN Last(written)
                              ELSE IF Dropped(rows, t, m) THEN Unknown ELSE translation[t][m]
  <2>1. m \in PortalMacs
    BY DEF CompareInv, CompareTyped
  <2> QED BY <1>5, <2>1 DEF SaveTranslations, written
<1>8. CASE Saying(rows, t, m) = {}
  <2>1. pairs = {} /\ ~Dropped(rows, t, m)
    BY <1>4, <1>5, <1>8 DEF Dropped
  <2>2. written = <<>>
    BY <1>6, <2>1, EmptyRange
  <2> QED BY <1>7, <1>8, <2>1, <2>2 DEF Asked
<1>9. CASE written # <<>>
  <2>1. Last(written) \in Range(written)
    BY <1>6, <1>9 DEF Last, Range
  <2>2. PICK r \in Saying(rows, t, m) : Last(written) = [id |-> r.ids[m], cmd |-> r.cmds[m]]
    BY <1>6, <2>1
  <2>3. Last(written) \in Renamed
    BY <1>6, <2>1
  <2>4. translation'[t][m] = Last(written) /\ translation'[t][m] # Unknown
    BY <1>7, <1>9, <2>3
  <2>5. Asked(t, m)' = r.cmds[m]
    BY <2>2, <2>4 DEF Asked
  <2> QED BY <2>2, <2>5
<1>10. CASE written = <<>> /\ Saying(rows, t, m) # {}
  <2>1. pairs \cap (Renamed \ {Own(t)}) = {}
    BY <1>6, <1>10, EmptyRange
  <2>2. PICK r \in Saying(rows, t, m) : TRUE
    BY <1>10
  <2>3. [id |-> r.ids[m], cmd |-> r.cmds[m]] \in pairs
    BY <2>2
  <2>4. [id |-> r.ids[m], cmd |-> r.cmds[m]] = Own(t)
    BY <1>3, <2>1, <2>2, <2>3
  <2>5. Dropped(rows, t, m)
    BY <1>4, <1>5, <2>3, <2>4 DEF Dropped
  <2>6. Asked(t, m)' = source[t].cmd /\ source[t].cmd = r.cmds[m]
    BY <1>7, <1>10, <2>4, <2>5 DEF Asked, Own
  <2> QED BY <1>10, <2>2, <2>6
<1> QED BY <1>8, <1>9, <1>10

\* services/channel_translations.py save, links.plan_for: a play of a source asks, through
\* each MAC, with a cmd that a saved row about the source has for the MAC, and as before
\* where none has.
THEOREM SavedIsPlayed == CompareSpec => SavedRowsArePlayed
<1>1. CompareInv /\ [CompareNext]_compareVars => [PlayedAsSaved]_compareVars
  BY WrittenAsSaved DEF PlayedAsSaved
<1> QED BY <1>1, CompareStarts, CompareStep, PTL DEF CompareSpec, SavedRowsArePlayed
=============================================================================
