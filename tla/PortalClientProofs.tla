------------------------- MODULE PortalClientProofs --------------------------
(* A session of a portal always heals: for any number of tasks and clients the *)
(* handshake guard, the refresh lock and its queue belong to tasks that want   *)
(* them, and a retry carries a bearer the panel has not just refused.          *)
EXTENDS PortalClient, FiniteSetTheorems, SequenceTheorems, TLAPS

InHandshake == {"shake", "profile", "plock"}
Waiting == {"lock", "plock"}

ClientRecords == [made : BOOLEAN, http : Nat, open : BOOLEAN, closing : BOOLEAN, header : Nat, token : Nat,
                  aged : BOOLEAN, profiled : BOOLEAN, lock : Tasks \cup {Unheld}, queue : Seq(Tasks),
                  shaking : BOOLEAN]
Stages == 0 .. 3
TaskRecords == [at : TaskPlaces, client : Clients \cup {NoClient}, why : {"refresh", "reauth", "direct"},
                stage : Stages, http : Nat, bearer : Nat, refused : Nat, retried : BOOLEAN, result : Results]

Panels == [issued : Nat, valid : SUBSET Nat]

(* A client that has a token has it in the headers of an open connection: a    *)
(* connection closes after its token is forgotten, and opens without one.      *)
HeaderCarriesToken(cl, issued) ==
    /\ cl.header <= issued
    /\ cl.token # NoToken => cl.header = cl.token /\ cl.open /\ ~cl.closing

(* What a task remembers of a client cl: the connection it uses is not of the  *)
(* future, the bearer it goes on with is one, and the refused one is gone from *)
(* the headers once the refresh after the refusal has its token.               *)
Remembers(k, cl, issued) ==
    /\ k.http <= cl.http /\ k.bearer <= issued
    /\ k.at \in {"profile", "plock"} /\ k.http = cl.http => cl.header # NoToken
    /\ k.at = "ask" /\ k.http = cl.http => k.bearer # NoToken
    /\ k.at # "done" /\ (k.retried \/ k.why = "reauth") => k.refused \in 1 .. issued
    /\ k.at # "done" /\ k.retried => cl.header # k.refused
    /\ k.at \in {"profile", "plock"} /\ k.why = "reauth" => cl.header # k.refused
    /\ k.at = "ask" /\ k.retried => k.bearer # k.refused

TasksRemember ==
    \A t \in Tasks : tasks[t].at # "start" =>
        /\ tasks[t].client \in Clients
        /\ Remembers(tasks[t], clients[tasks[t].client], panel.issued)
HeadersCarryTokens == \A c \in Clients : HeaderCarriesToken(clients[c], panel.issued)

(* GuardAccounted and LockAccounted without counting.                          *)
GuardIsOne == \A c \in Clients : /\ clients[c].shaking <=> Shaking(c) # {}
                                 /\ \A t, u \in Shaking(c) : t = u
HolderShakes == \A c \in Clients : clients[c].lock # Unheld => clients[c].lock \in Shaking(c)
Queued(queue, t) == \E k \in DOMAIN queue : queue[k] = t
QueueOfWaiters ==
    \A c \in Clients :
        /\ \A j, k \in DOMAIN clients[c].queue : clients[c].queue[j] = clients[c].queue[k] => j = k
        /\ \A t \in Tasks : Queued(clients[c].queue, t) <=> tasks[t].client = c /\ tasks[t].at \in Waiting

SessionInv ==
    /\ ClientTypeOK /\ TasksRemember /\ HeadersCarryTokens
    /\ GuardIsOne /\ HolderShakes /\ QueueOfWaiters

-----------------------------------------------------------------------------
(* The operators between two awaits. A state s = [me, task, cl] of them is      *)
(* Running while its task goes on and Rests when it waits again or is done.    *)

States == [me : Tasks, task : TaskRecords, cl : ClientRecords]
OthersShaking(me, c) == {u \in Tasks \ {me} : tasks[u].client = c /\ tasks[u].at \in InHandshake}
OtherWaits(c, u) == tasks[u].client = c /\ tasks[u].at \in Waiting

(* Of a client only the connection and its bearer change, and to newer ones.   *)
Advances(old, cl) ==
    /\ old.http <= cl.http
    /\ \/ cl.header = old.header
       \/ cl.header > panel.issued
       \/ cl.header = NoToken /\ old.http < cl.http

QueueOf(s, me, c, waits) ==
    /\ \A j, k \in DOMAIN s.cl.queue : s.cl.queue[j] = s.cl.queue[k] => j = k
    /\ \A u \in Tasks : Queued(s.cl.queue, u) <=> IF u = me THEN waits ELSE OtherWaits(c, u)

Runs(s, me, c, issued) ==
    /\ s \in States /\ s.me = me /\ s.task.client = c
    /\ HeaderCarriesToken(s.cl, issued) /\ Advances(clients[c], s.cl)
    /\ s.task.http <= s.cl.http /\ s.task.bearer <= issued
    /\ s.task.retried \/ s.task.why = "reauth" => s.task.refused \in 1 .. issued
    /\ s.task.retried => s.cl.header # s.task.refused
    /\ QueueOf(s, me, c, FALSE)
    /\ s.cl.lock \in {Unheld, me} \cup OthersShaking(me, c)

(* The task runs outside a handshake, or in one.                               *)
Outdoors(s, me, c) == s.cl.shaking <=> OthersShaking(me, c) # {}
Indoors(s, me, c) == s.cl.shaking /\ OthersShaking(me, c) = {}

Rests(s, me, c, issued) ==
    /\ s \in States /\ s.me = me /\ s.task.client = c /\ s.task.at # "start"
    /\ HeaderCarriesToken(s.cl, issued) /\ Advances(clients[c], s.cl)
    /\ Remembers(s.task, s.cl, issued)
    /\ QueueOf(s, me, c, s.task.at \in Waiting)
    /\ s.cl.lock # Unheld => \/ s.cl.lock = me /\ s.task.at \in InHandshake
                             \/ s.cl.lock \in OthersShaking(me, c)
    /\ s.cl.shaking <=> (s.task.at \in InHandshake \/ OthersShaking(me, c) # {})
    /\ s.task.at \in InHandshake => OthersShaking(me, c) = {}

(* The lock is given back by the task that holds it, and nothing else changes. *)
LEMMA ReleasedRuns ==
    ASSUME NEW issued \in Nat, NEW me \in Tasks, NEW c \in Clients, NEW s, Unheld \notin Tasks,
           Runs(s, me, c, issued)
    PROVE  /\ Runs(Released(s), me, c, issued) /\ Released(s).cl.lock # me
           /\ Released(s).task = s.task
           /\ Released(s).cl.header = s.cl.header /\ Released(s).cl.http = s.cl.http
           /\ Released(s).cl.shaking = s.cl.shaking /\ Released(s).cl.token = s.cl.token
           /\ Released(s).cl.aged = s.cl.aged /\ Released(s).cl.open = s.cl.open
<1> DEFINE r == Released(s)
<1>1. s \in States /\ s.me = me BY DEF Runs
<1>2. r \in States /\ r.me = s.me /\ r.task = s.task /\ r.cl = [s.cl EXCEPT !.lock = IF @ = me THEN Unheld ELSE @]
    BY <1>1 DEF Released, States, ClientRecords
<1> HIDE DEF r
<1>3. /\ r.cl.lock = IF s.cl.lock = me THEN Unheld ELSE s.cl.lock
      /\ r.cl.header = s.cl.header /\ r.cl.http = s.cl.http /\ r.cl.shaking = s.cl.shaking
      /\ r.cl.token = s.cl.token /\ r.cl.open = s.cl.open /\ r.cl.closing = s.cl.closing
      /\ r.cl.aged = s.cl.aged /\ r.cl.queue = s.cl.queue
    BY <1>1, <1>2 DEF States, ClientRecords
<1>4. Runs(r, me, c, issued)
    BY <1>1, <1>2, <1>3 DEF Runs, HeaderCarriesToken, Advances, QueueOf
<1> QED BY <1>2, <1>3, <1>4 DEF r

(* A task that has not begun is a task.                                        *)
LEMMA Task0Typed ==
    /\ Task0 \in TaskRecords /\ Task0.http = 0 /\ Task0.bearer = 0
    /\ Task0.retried = FALSE /\ Task0.why = "refresh"
BY DEF Task0, TaskRecords, TaskPlaces, Stages, Results, NoToken, NoClient

(* A request that ends outside a handshake leaves neither lock nor queue.      *)
LEMMA EndedRests ==
    ASSUME NEW issued \in Nat, NEW me \in Tasks, NEW c \in Clients, NEW s, NEW result \in Results,
           Unheld \notin Tasks, Runs(s, me, c, issued), Outdoors(s, me, c)
    PROVE  Rests(Ended(s, result), me, c, issued)
<1> DEFINE r == Released(s)
           k == [Task0 EXCEPT !.at = "done", !.client = s.task.client,
                              !.retried = s.task.retried, !.result = result]
           e == Ended(s, result)
<1>1. s \in States /\ s.task.client = c BY DEF Runs
<1>2. /\ Runs(r, me, c, issued) /\ r.cl.lock # me /\ r.cl.shaking = s.cl.shaking
    BY ReleasedRuns
<1>3. r \in States /\ r.me = me BY <1>2 DEF Runs
<1>4. k \in TaskRecords /\ k.at = "done" /\ k.client = c /\ k.http = 0 /\ k.bearer = 0
    <2>1. Task0 \in TaskRecords /\ Task0.http = 0 /\ Task0.bearer = 0 BY Task0Typed
    <2>2. s.task.retried \in BOOLEAN /\ s.task.client \in Clients \cup {NoClient}
        BY <1>1 DEF States, TaskRecords
    <2> QED BY <1>1, <2>1, <2>2 DEF TaskRecords, TaskPlaces
<1>5. e = [r EXCEPT !.task = k] BY DEF Ended
<1> HIDE DEF r, k, e
<1>6. e \in States /\ e.me = me /\ e.task = k /\ e.cl = r.cl BY <1>3, <1>4, <1>5 DEF States
<1>7. r.cl.http \in Nat BY <1>3 DEF States, ClientRecords
<1>8. Remembers(e.task, e.cl, issued) BY <1>4, <1>6, <1>7 DEF Remembers
<1>9. QueueOf(e, me, c, e.task.at \in Waiting) BY <1>2, <1>4, <1>6 DEF Runs, QueueOf, Waiting
<1>10. e.task.at \notin InHandshake BY <1>4, <1>6 DEF InHandshake
<1> QED BY <1>2, <1>4, <1>6, <1>8, <1>9, <1>10 DEF Rests, Runs, Outdoors, e

Connects(s, h) ==
    /\ h.task = [s.task EXCEPT !.http = h.cl.http] /\ h.task.http = h.cl.http
    /\ h.task.why = s.task.why /\ h.task.retried = s.task.retried /\ h.task.refused = s.task.refused
    /\ h.cl.lock = s.cl.lock /\ h.cl.shaking = s.cl.shaking /\ h.cl.queue = s.cl.queue
    /\ h.cl.token = s.cl.token /\ h.cl.aged = s.cl.aged /\ h.cl.profiled = s.cl.profiled
    /\ s.cl.open => h.cl = s.cl

(* _http() opens a connection without a bearer, numbered after those before.   *)
LEMMA HttpRuns ==
    ASSUME NEW issued \in Nat, NEW me \in Tasks, NEW c \in Clients, NEW s, SessionInv,
           Runs(s, me, c, issued)
    PROVE  /\ Runs(Http(s), me, c, issued)
           /\ Connects(s, Http(s))
<1> DEFINE cl == IF s.cl.open THEN s.cl ELSE [s.cl EXCEPT !.open = TRUE, !.http = @ + 1, !.header = NoToken]
           k == [s.task EXCEPT !.http = cl.http]
           h == Http(s)
<1>1. s \in States /\ s.me = me /\ s.task.client = c BY DEF Runs
<1>2. /\ cl \in ClientRecords /\ cl.lock = s.cl.lock /\ cl.shaking = s.cl.shaking /\ cl.queue = s.cl.queue
      /\ cl.token = s.cl.token /\ cl.aged = s.cl.aged /\ cl.profiled = s.cl.profiled
      /\ cl.closing = s.cl.closing
      /\ s.cl.open => cl = s.cl
      /\ ~s.cl.open => cl.open /\ cl.header = NoToken /\ cl.http = s.cl.http + 1
    <2>1. s.cl \in ClientRecords BY <1>1 DEF States
    <2>2. CASE s.cl.open
        <3>1. cl = s.cl BY <2>2
        <3> QED BY <2>1, <2>2, <3>1
    <2>3. CASE ~s.cl.open
        <3>1. cl = [s.cl EXCEPT !.open = TRUE, !.http = s.cl.http + 1, !.header = NoToken] BY <2>3
        <3> HIDE DEF cl
        <3>2. cl \in ClientRecords
            <4>1. s.cl.http + 1 \in Nat /\ NoToken \in Nat /\ TRUE \in BOOLEAN BY <2>1 DEF ClientRecords, NoToken
            <4> DEFINE n == s.cl.http + 1
            <4> HIDE DEF n
            <4>2. cl = [s.cl EXCEPT !.open = TRUE, !.http = n, !.header = NoToken] BY <3>1 DEF n
            <4>3. n \in Nat BY <4>1 DEF n
            <4> QED BY <2>1, <4>1, <4>2, <4>3 DEF ClientRecords
        <3>3. cl.open /\ cl.header = NoToken /\ cl.http = s.cl.http + 1 BY <2>1, <3>1 DEF ClientRecords
        <3>4. /\ cl.lock = s.cl.lock /\ cl.shaking = s.cl.shaking /\ cl.queue = s.cl.queue
              /\ cl.token = s.cl.token /\ cl.aged = s.cl.aged /\ cl.profiled = s.cl.profiled
              /\ cl.closing = s.cl.closing
            BY <2>1, <3>1 DEF ClientRecords
        <3> QED BY <2>3, <3>2, <3>3, <3>4
    <2> QED BY <2>2, <2>3
<1>3. cl.http \in Nat /\ s.cl.http \in Nat /\ s.cl.http <= cl.http BY <1>1, <1>2 DEF States, ClientRecords
<1>4. /\ k \in TaskRecords /\ k.http = cl.http /\ k.client = c /\ k.retried = s.task.retried
      /\ k.why = s.task.why /\ k.refused = s.task.refused /\ k.bearer = s.task.bearer
    BY <1>1, <1>3 DEF States, TaskRecords
<1>5. h = [s EXCEPT !.cl = cl, !.task.http = cl.http] BY DEF Http
<1> HIDE DEF cl, h
<1>6. h.cl = cl /\ h.task = k /\ h.me = me /\ h \in States
    <2>1. h = [s EXCEPT !.cl = cl, !.task = k] BY <1>1, <1>5 DEF States
    <2> HIDE DEF k
    <2> QED BY <1>1, <1>2, <1>4, <2>1 DEF States
<1> HIDE DEF k
<1>7. HeaderCarriesToken(s.cl, issued) /\ Advances(clients[c], s.cl) BY DEF Runs
<1>8. HeaderCarriesToken(cl, issued) BY <1>2, <1>7 DEF HeaderCarriesToken, NoToken
<1>9. clients[c].http \in Nat BY DEF SessionInv, ClientTypeOK
<1>10. Advances(clients[c], cl) BY <1>2, <1>3, <1>7, <1>9 DEF Advances, NoToken
<1>11. /\ k.retried => cl.header # k.refused
       /\ k.retried \/ k.why = "reauth" => k.refused \in 1 .. issued
    BY <1>2, <1>4 DEF Runs, NoToken
<1>12. QueueOf(h, me, c, FALSE) BY <1>2, <1>6 DEF Runs, QueueOf
<1>13. Runs(h, me, c, issued)
    <2>1. h \in States /\ h.me = me /\ h.task.client = c BY <1>4, <1>6
    <2>2. HeaderCarriesToken(h.cl, issued) /\ Advances(clients[c], h.cl) BY <1>6, <1>8, <1>10
    <2>3. h.task.http <= h.cl.http /\ h.task.bearer <= issued BY <1>3, <1>4, <1>6 DEF Runs
    <2>4. h.cl.lock \in {Unheld, me} \cup OthersShaking(me, c) BY <1>2, <1>6 DEF Runs
    <2> QED BY <1>6, <1>11, <1>12, <2>1, <2>2, <2>3, <2>4 DEF Runs
<1>14. h.task = [s.task EXCEPT !.http = h.cl.http] BY <1>6 DEF k
<1>15. Connects(s, h) BY <1>2, <1>4, <1>6, <1>14 DEF Connects
<1> QED BY <1>13, <1>15 DEF h

(* A change of the client that moves neither connection nor queue.             *)
LEMMA ClientChanges ==
    ASSUME NEW issued \in Nat, NEW me \in Tasks, NEW c \in Clients, NEW s, NEW cl \in ClientRecords,
           Runs(s, me, c, issued), HeaderCarriesToken(cl, issued),
           cl.http = s.cl.http, cl.header = s.cl.header, cl.queue = s.cl.queue,
           cl.lock \in {Unheld, me} \cup OthersShaking(me, c)
    PROVE  /\ Runs([s EXCEPT !.cl = cl], me, c, issued)
           /\ [s EXCEPT !.cl = cl].cl = cl /\ [s EXCEPT !.cl = cl].task = s.task
<1> DEFINE r == [s EXCEPT !.cl = cl]
<1>1. s \in States /\ s.me = me BY DEF Runs
<1>2. r \in States /\ r.me = me /\ r.cl = cl /\ r.task = s.task BY <1>1 DEF States
<1> HIDE DEF r
<1>3. Advances(clients[c], r.cl) /\ QueueOf(r, me, c, FALSE)
    BY <1>2 DEF Runs, Advances, QueueOf
<1>4. Runs(r, me, c, issued) BY <1>2, <1>3 DEF Runs
<1> QED BY <1>2, <1>4 DEF r

(* A change of what the task is about, not of what it was refused.              *)
LEMMA TaskChanges ==
    ASSUME NEW issued \in Nat, NEW me \in Tasks, NEW c \in Clients, NEW s, NEW k \in TaskRecords,
           Runs(s, me, c, issued), k.client = c, k.http = s.task.http, k.bearer <= issued,
           k.retried \/ k.why = "reauth" => k.refused \in 1 .. issued,
           k.retried => s.cl.header # k.refused
    PROVE  /\ Runs([s EXCEPT !.task = k], me, c, issued)
           /\ [s EXCEPT !.task = k].task = k /\ [s EXCEPT !.task = k].cl = s.cl
<1> DEFINE r == [s EXCEPT !.task = k]
<1>1. s \in States /\ s.me = me BY DEF Runs
<1>2. r \in States /\ r.me = me /\ r.cl = s.cl /\ r.task = k BY <1>1 DEF States
<1> HIDE DEF r
<1>3. QueueOf(r, me, c, FALSE) BY <1>2 DEF Runs, QueueOf
<1>4. Runs(r, me, c, issued) BY <1>2, <1>3 DEF Runs
<1> QED BY <1>2, <1>4 DEF r

(* Joining the queue once.                                                      *)
LEMMA Joined ==
    ASSUME NEW s \in States, NEW r \in States, NEW me \in Tasks, NEW c, QueueOf(s, me, c, FALSE),
           r.cl.queue = Append(s.cl.queue, me)
    PROVE  QueueOf(r, me, c, TRUE)
<1> DEFINE q == s.cl.queue
           p == r.cl.queue
<1>1. q \in Seq(Tasks) BY DEF States, ClientRecords
<1>2. /\ DOMAIN q = 1 .. Len(q) /\ Len(q) \in Nat /\ DOMAIN p = 1 .. (Len(q) + 1)
      /\ p[Len(q) + 1] = me /\ \A k \in 1 .. Len(q) : p[k] = q[k]
    BY <1>1
<1>3. /\ \A j, k \in DOMAIN q : q[j] = q[k] => j = k
      /\ \A k \in DOMAIN q : q[k] # me
      /\ \A u \in Tasks : (\E k \in DOMAIN q : q[k] = u) <=> IF u = me THEN FALSE ELSE OtherWaits(c, u)
    BY DEF QueueOf, Queued
<1> HIDE DEF p, q
<1>4. \A j, k \in DOMAIN p : p[j] = p[k] => j = k
    <2> SUFFICES ASSUME NEW j \in DOMAIN p, NEW k \in DOMAIN p, p[j] = p[k] PROVE j = k OBVIOUS
    <2> QED BY <1>2, <1>3
<1>5. \A u \in Tasks : (\E k \in DOMAIN p : p[k] = u) <=> IF u = me THEN TRUE ELSE OtherWaits(c, u)
    <2> SUFFICES ASSUME NEW u \in Tasks, u # me
                 PROVE  (\E k \in DOMAIN p : p[k] = u) <=> (\E k \in DOMAIN q : q[k] = u)
        <3>1. Len(q) + 1 \in DOMAIN p BY <1>2
        <3> QED BY <1>2, <1>3, <3>1
    <2> QED BY <1>2
<1> QED BY <1>4, <1>5 DEF p, QueueOf, Queued

(* A request goes out with the bearer in the headers.                           *)
LEMMA SendRests ==
    ASSUME NEW issued \in Nat, NEW me \in Tasks, NEW c \in Clients, NEW s,
           Runs(s, me, c, issued), Outdoors(s, me, c), s.cl.lock # me,
           s.task.http = s.cl.http => s.cl.header # NoToken
    PROVE  Rests(Send(s), me, c, issued)
<1> DEFINE k == [s.task EXCEPT !.at = "ask", !.stage = 0, !.bearer = s.cl.header]
           r == Send(s)
<1>1. s \in States /\ s.me = me /\ s.task.client = c BY DEF Runs
<1>2. s.task \in TaskRecords /\ s.cl \in ClientRecords BY <1>1 DEF States
<1>3. s.cl.header \in Nat /\ s.cl.header <= issued BY <1>2 DEF ClientRecords, Runs, HeaderCarriesToken
<1>4. r = [s EXCEPT !.task = k] BY <1>1, <1>2 DEF Send, States, TaskRecords
<1>5. "ask" \in TaskPlaces /\ 0 \in Stages BY DEF TaskPlaces, Stages
<1>6. /\ k \in TaskRecords /\ k.at = "ask" /\ k.bearer = s.cl.header /\ k.client = c /\ k.http = s.task.http
      /\ k.refused = s.task.refused /\ k.why = s.task.why /\ k.retried = s.task.retried
    BY <1>1, <1>2, <1>3, <1>5 DEF TaskRecords
<1> HIDE DEF k, r
<1>7. r \in States /\ r.me = me /\ r.task = k /\ r.cl = s.cl BY <1>1, <1>4, <1>6 DEF States
<1>8. Remembers(k, s.cl, issued) BY <1>3, <1>6 DEF Runs, Remembers
<1>9. QueueOf(r, me, c, r.task.at \in Waiting) BY <1>6, <1>7 DEF Runs, QueueOf, Waiting
<1>10. r.task.at \notin InHandshake /\ r.task.at # "start" BY <1>6, <1>7 DEF InHandshake
<1>11. r.cl.lock # Unheld => r.cl.lock \in OthersShaking(me, c) BY <1>7 DEF Runs
<1> QED BY <1>6, <1>7, <1>8, <1>9, <1>10, <1>11 DEF Rests, Runs, Outdoors, r

(* A handshake begins when no other is under way and the portal does not pause. *)
LEMMA HandshakeRests ==
    ASSUME NEW issued \in Nat, NEW me \in Tasks, NEW c \in Clients, NEW s, SessionInv, Unheld \notin Tasks,
           Runs(s, me, c, issued), Outdoors(s, me, c)
    PROVE  Rests(Handshake(s), me, c, issued)
<1> DEFINE h == Http(s)
           cl == [h.cl EXCEPT !.shaking = TRUE]
           k == [h.task EXCEPT !.at = "shake", !.stage = 1, !.bearer = NoToken]
           r == [h EXCEPT !.cl.shaking = TRUE, !.task.at = "shake", !.task.stage = 1, !.task.bearer = NoToken]
<1>1. Runs(h, me, c, issued) /\ h.cl.shaking = s.cl.shaking
    <2>1. Runs(h, me, c, issued) /\ Connects(s, h) BY HttpRuns
    <2> QED BY <2>1 DEF Connects
<1>2. Outdoors(h, me, c) BY <1>1 DEF Outdoors
<1>3. "failed" \in Results BY DEF Results
<1>4. Rests(Ended(s, "failed"), me, c, issued) /\ Rests(Ended(h, "failed"), me, c, issued)
    BY <1>1, <1>2, <1>3, EndedRests
<1>5. ASSUME ~h.cl.shaking PROVE Rests(r, me, c, issued)
    <2> HIDE DEF h
    <2>1. h \in States /\ h.me = me /\ h.task.client = c BY <1>1 DEF Runs
    <2>2. h.task \in TaskRecords /\ h.cl \in ClientRecords BY <2>1 DEF States
    <2>3. r = [h EXCEPT !.cl = cl, !.task = k] BY <2>1, <2>2 DEF States, TaskRecords, ClientRecords
    <2>4. cl \in ClientRecords BY <2>2 DEF ClientRecords
    <2>5. /\ cl.shaking = TRUE /\ cl.http = h.cl.http /\ cl.header = h.cl.header /\ cl.queue = h.cl.queue
          /\ cl.token = h.cl.token /\ cl.open = h.cl.open /\ cl.closing = h.cl.closing /\ cl.lock = h.cl.lock
        BY <2>2 DEF ClientRecords
    <2>6. "shake" \in TaskPlaces /\ 1 \in Stages /\ NoToken \in Nat BY DEF TaskPlaces, Stages, NoToken
    <2>7. /\ k \in TaskRecords /\ k.at = "shake" /\ k.bearer = 0 /\ k.client = c /\ k.http = h.task.http
          /\ k.refused = h.task.refused /\ k.why = h.task.why /\ k.retried = h.task.retried
        <3>1. k \in TaskRecords /\ k.at = "shake" /\ k.bearer = NoToken /\ k.client = c
            BY <2>1, <2>2, <2>6 DEF TaskRecords
        <3>2. /\ k.http = h.task.http /\ k.refused = h.task.refused /\ k.why = h.task.why
              /\ k.retried = h.task.retried
            BY <2>2 DEF TaskRecords
        <3> HIDE DEF k
        <3> QED BY <3>1, <3>2 DEF NoToken
    <2> HIDE DEF cl, k, r
    <2>8. r \in States /\ r.me = me /\ r.task = k /\ r.cl = cl BY <2>1, <2>3, <2>4, <2>7 DEF States
    <2>9. Remembers(k, cl, issued) BY <1>1, <2>5, <2>7 DEF Runs, Remembers
    <2>10. QueueOf(r, me, c, r.task.at \in Waiting) BY <1>1, <2>5, <2>7, <2>8 DEF Runs, QueueOf, Waiting
    <2>11. HeaderCarriesToken(cl, issued) /\ Advances(clients[c], cl)
        BY <1>1, <2>5 DEF Runs, HeaderCarriesToken, Advances
    <2>12. OthersShaking(me, c) = {} BY <1>2, <1>5 DEF Outdoors
    <2>13. r.task.at \in InHandshake /\ r.task.at # "start" BY <2>7, <2>8 DEF InHandshake
    <2>14. r.cl.lock \in {Unheld, me} /\ r.cl.shaking BY <1>1, <2>5, <2>8, <2>12 DEF Runs
    <2> QED BY <2>7, <2>8, <2>9, <2>10, <2>11, <2>12, <2>13, <2>14 DEF Rests
<1> QED BY <1>4, <1>5 DEF Handshake


(* Who has the lock refreshes a bearer that is not usable, or a refused one.    *)
LEMMA CriticalRests ==
    ASSUME NEW issued \in Nat, NEW me \in Tasks, NEW c \in Clients, NEW s, SessionInv, Unheld \notin Tasks,
           Runs(s, me, c, issued), Outdoors(s, me, c)
    PROVE  Rests(Critical(s), me, c, issued)
<1>1. s \in States BY DEF Runs
<1>2. CASE s.task.why = "refresh" /\ Unusable(s.cl) BY <1>2, HandshakeRests DEF Critical
<1>3. CASE s.task.why = "refresh" /\ ~Unusable(s.cl)
    <2>1. s.cl.header # NoToken BY <1>3 DEF Unusable, Runs, HeaderCarriesToken
    <2>2. Runs(Released(s), me, c, issued) /\ Outdoors(Released(s), me, c) BY ReleasedRuns DEF Outdoors
    <2>3. Released(s).cl.lock # me /\ Released(s).cl.header # NoToken BY <2>1, ReleasedRuns
    <2>4. Rests(Send(Released(s)), me, c, issued) BY <2>2, <2>3, SendRests
    <2> QED BY <1>3, <2>4 DEF Critical
<1>4. CASE s.task.why # "refresh"
    <2> DEFINE cl == [s.cl EXCEPT !.token = NoToken]
    <2>1. s.cl \in ClientRecords BY <1>1 DEF States
    <2>2. NoToken \in Nat BY DEF NoToken
    <2>3. /\ cl \in ClientRecords /\ cl.token = NoToken /\ cl.http = s.cl.http /\ cl.header = s.cl.header
          /\ cl.queue = s.cl.queue /\ cl.lock = s.cl.lock /\ cl.shaking = s.cl.shaking
        BY <2>1, <2>2 DEF ClientRecords
    <2>4. [s EXCEPT !.cl.token = NoToken] = [s EXCEPT !.cl = cl] BY <1>1, <2>1 DEF States, ClientRecords
    <2> HIDE DEF cl
    <2>5. HeaderCarriesToken(cl, issued) BY <2>3 DEF Runs, HeaderCarriesToken
    <2>6. cl.lock \in {Unheld, me} \cup OthersShaking(me, c) BY <2>3 DEF Runs
    <2>7. Runs([s EXCEPT !.cl = cl], me, c, issued) /\ [s EXCEPT !.cl = cl].cl = cl
        BY <2>3, <2>5, <2>6, ClientChanges
    <2>8. Outdoors([s EXCEPT !.cl = cl], me, c) BY <2>3, <2>7 DEF Outdoors
    <2> QED BY <1>4, <2>4, <2>7, <2>8, HandshakeRests DEF Critical
<1> QED BY <1>2, <1>3, <1>4

(* The lock is taken when it is free and nobody waits for it, or waited for.    *)
LEMMA TakeLockRests ==
    ASSUME NEW issued \in Nat, NEW me \in Tasks, NEW c \in Clients, NEW s, SessionInv, Unheld \notin Tasks,
           Runs(s, me, c, issued), Outdoors(s, me, c), s.cl.lock # me
    PROVE  Rests(TakeLock(s, "lock"), me, c, issued)
<1>1. s \in States /\ s.me = me /\ s.task.client = c BY DEF Runs
<1>2. s.cl \in ClientRecords /\ s.task \in TaskRecords BY <1>1 DEF States
<1>3. CASE s.cl.lock = Unheld /\ s.cl.queue = <<>>
    <2> DEFINE cl == [s.cl EXCEPT !.lock = me]
    <2>1. /\ cl \in ClientRecords /\ cl.lock = me /\ cl.token = s.cl.token /\ cl.http = s.cl.http
          /\ cl.header = s.cl.header /\ cl.queue = s.cl.queue /\ cl.shaking = s.cl.shaking
          /\ cl.open = s.cl.open /\ cl.closing = s.cl.closing
        BY <1>2 DEF ClientRecords
    <2>2. [s EXCEPT !.cl.lock = s.me] = [s EXCEPT !.cl = cl] BY <1>1, <1>2 DEF States, ClientRecords
    <2> HIDE DEF cl
    <2>3. HeaderCarriesToken(cl, issued) BY <2>1 DEF Runs, HeaderCarriesToken
    <2>4. cl.lock \in {Unheld, me} \cup OthersShaking(me, c) BY <2>1
    <2>5. Runs([s EXCEPT !.cl = cl], me, c, issued) /\ [s EXCEPT !.cl = cl].cl = cl
        BY <2>1, <2>3, <2>4, ClientChanges
    <2>6. Outdoors([s EXCEPT !.cl = cl], me, c) BY <2>1, <2>5 DEF Outdoors
    <2>7. Rests(Critical([s EXCEPT !.cl.lock = s.me]), me, c, issued) BY <2>2, <2>5, <2>6, CriticalRests
    <2> QED BY <1>3, <2>7 DEF TakeLock
<1>4. CASE ~(s.cl.lock = Unheld /\ s.cl.queue = <<>>)
    <2> DEFINE cl == [s.cl EXCEPT !.queue = Append(s.cl.queue, me)]
               k == [s.task EXCEPT !.at = "lock"]
               r == TakeLock(s, "lock")
    <2>1. s.cl.queue \in Seq(Tasks) BY <1>2 DEF ClientRecords
    <2>2. Append(s.cl.queue, me) \in Seq(Tasks) BY <2>1
    <2>3. /\ cl \in ClientRecords /\ cl.queue = Append(s.cl.queue, me) /\ cl.token = s.cl.token
          /\ cl.http = s.cl.http /\ cl.header = s.cl.header /\ cl.shaking = s.cl.shaking
          /\ cl.open = s.cl.open /\ cl.closing = s.cl.closing /\ cl.lock = s.cl.lock
        BY <1>2, <2>2 DEF ClientRecords
    <2>4. "lock" \in TaskPlaces BY DEF TaskPlaces
    <2>5. /\ k \in TaskRecords /\ k.at = "lock" /\ k.client = c /\ k.http = s.task.http
          /\ k.bearer = s.task.bearer /\ k.refused = s.task.refused /\ k.why = s.task.why
          /\ k.retried = s.task.retried
        BY <1>1, <1>2, <2>4 DEF TaskRecords
    <2>6. r = [s EXCEPT !.cl = cl, !.task = k]
        <3>1. r = [s EXCEPT !.cl.queue = Append(@, s.me), !.task.at = "lock"] BY <1>4 DEF TakeLock
        <3> QED BY <1>1, <1>2, <3>1 DEF States, TaskRecords, ClientRecords
    <2> HIDE DEF cl, k, r
    <2>7. r \in States /\ r.me = me /\ r.task = k /\ r.cl = cl BY <1>1, <2>3, <2>5, <2>6 DEF States
    <2>8. Remembers(k, cl, issued) BY <2>3, <2>5 DEF Runs, Remembers
    <2>9. QueueOf(r, me, c, TRUE) BY <1>1, <2>3, <2>7, Joined DEF Runs
    <2>10. HeaderCarriesToken(cl, issued) /\ Advances(clients[c], cl)
        BY <2>3 DEF Runs, HeaderCarriesToken, Advances
    <2>11. r.task.at \in Waiting /\ r.task.at # "start" /\ r.task.at \notin InHandshake
        BY <2>5, <2>7 DEF Waiting, InHandshake
    <2>12. QueueOf(r, me, c, r.task.at \in Waiting) BY <2>9, <2>11 DEF QueueOf
    <2>13. r.cl.lock # Unheld => r.cl.lock \in OthersShaking(me, c) BY <2>3, <2>7 DEF Runs
    <2> QED BY <2>3, <2>5, <2>7, <2>8, <2>10, <2>11, <2>12, <2>13 DEF Rests, Outdoors, r
<1> QED BY <1>3, <1>4

(* A request is paused, sent with a usable bearer, or waits for one.            *)
LEMMA GateRests ==
    ASSUME NEW issued \in Nat, NEW me \in Tasks, NEW c \in Clients, NEW s, SessionInv, Unheld \notin Tasks,
           Runs(s, me, c, issued), Outdoors(s, me, c), s.cl.lock # me
    PROVE  Rests(Gate(s), me, c, issued)
<1> DEFINE h == Http(s)
<1>1. Runs(h, me, c, issued) /\ Connects(s, h) BY HttpRuns
<1>2. Outdoors(h, me, c) /\ h.cl.lock # me BY <1>1 DEF Outdoors, Connects
<1> HIDE DEF h
<1>3. "failed" \in Results BY DEF Results
<1>4. CASE paused BY <1>3, <1>4, EndedRests DEF Gate
<1>5. CASE ~paused /\ Unusable(h.cl)
    <2> DEFINE k == [h.task EXCEPT !.why = "refresh"]
    <2>1. h \in States /\ h.task \in TaskRecords /\ h.task.client = c BY <1>1 DEF Runs, States
    <2>2. /\ k \in TaskRecords /\ k.why = "refresh" /\ k.client = c /\ k.http = h.task.http
          /\ k.bearer = h.task.bearer /\ k.refused = h.task.refused /\ k.retried = h.task.retried
        BY <2>1 DEF TaskRecords
    <2>3. [h EXCEPT !.task.why = "refresh"] = [h EXCEPT !.task = k] BY <2>1 DEF States, TaskRecords
    <2> HIDE DEF k
    <2>4. k.bearer <= issued /\ (k.retried => h.cl.header # k.refused)
        BY <1>1, <2>2 DEF Runs
    <2>5. k.retried \/ k.why = "reauth" => k.refused \in 1 .. issued BY <1>1, <2>2 DEF Runs
    <2>6. Runs([h EXCEPT !.task = k], me, c, issued) /\ [h EXCEPT !.task = k].cl = h.cl
        BY <1>1, <2>2, <2>4, <2>5, TaskChanges
    <2>7. Outdoors([h EXCEPT !.task = k], me, c) /\ [h EXCEPT !.task = k].cl.lock # me
        BY <1>2, <2>6 DEF Outdoors
    <2>8. Rests(TakeLock([h EXCEPT !.task.why = "refresh"], "lock"), me, c, issued)
        BY <2>3, <2>6, <2>7, TakeLockRests
    <2> QED BY <1>5, <2>8 DEF Gate, h
<1>6. CASE ~paused /\ ~Unusable(h.cl)
    <2>1. h.cl.header # NoToken BY <1>1, <1>6 DEF Unusable, Runs, HeaderCarriesToken
    <2>2. Rests(Send(h), me, c, issued) BY <1>1, <1>2, <2>1, SendRests
    <2> QED BY <1>6, <2>2 DEF Gate, h
<1> QED BY <1>4, <1>5, <1>6


(* After the handshake its caller goes on, and the guard is down again.         *)
LEMMA ShakenRests ==
    ASSUME NEW issued \in Nat, NEW me \in Tasks, NEW c \in Clients, NEW s, SessionInv, Unheld \notin Tasks,
           Runs(s, me, c, issued), Indoors(s, me, c),
           s.task.http = s.cl.http => s.cl.header # NoToken,
           s.task.why = "reauth" => s.cl.header # s.task.refused
    PROVE  Rests(Shaken(s), me, c, issued)
<1> DEFINE cl == [s.cl EXCEPT !.shaking = FALSE]
           f == [s EXCEPT !.cl = cl]
           r == Released(f)
<1>1. s \in States /\ s.cl \in ClientRecords BY DEF Runs, States
<1>2. /\ cl \in ClientRecords /\ cl.shaking = FALSE /\ cl.token = s.cl.token /\ cl.http = s.cl.http
      /\ cl.header = s.cl.header /\ cl.queue = s.cl.queue /\ cl.lock = s.cl.lock
      /\ cl.open = s.cl.open /\ cl.closing = s.cl.closing
    BY <1>1 DEF ClientRecords
<1>3. [s EXCEPT !.cl.shaking = FALSE] = f BY <1>1 DEF States, ClientRecords
<1> HIDE DEF cl
<1>4. HeaderCarriesToken(cl, issued) BY <1>2 DEF Runs, HeaderCarriesToken
<1>5. cl.lock \in {Unheld, me} \cup OthersShaking(me, c) BY <1>2 DEF Runs
<1>6. Runs(f, me, c, issued) /\ f.cl = cl /\ f.task = s.task BY <1>2, <1>4, <1>5, ClientChanges
<1> HIDE DEF f
<1>7. /\ Runs(r, me, c, issued) /\ r.cl.lock # me /\ r.task = s.task
      /\ r.cl.header = s.cl.header /\ r.cl.http = s.cl.http /\ ~r.cl.shaking
    BY <1>2, <1>6, ReleasedRuns
<1> HIDE DEF r
<1>8. Outdoors(r, me, c) BY <1>7 DEF Outdoors, Indoors
<1>9. r \in States /\ r.task \in TaskRecords /\ r.task.client = c BY <1>7 DEF Runs, States
<1>10. CASE s.task.why = "refresh"
    <2>1. Rests(Send(r), me, c, issued) BY <1>7, <1>8, SendRests
    <2> QED BY <1>3, <1>7, <1>10, <2>1 DEF Shaken, r
<1>11. CASE s.task.why = "reauth"
    <2> DEFINE k == [r.task EXCEPT !.retried = TRUE]
    <2>1. /\ k \in TaskRecords /\ k.client = c /\ k.http = r.task.http /\ k.why = r.task.why
          /\ k.bearer = r.task.bearer /\ k.refused = r.task.refused
        BY <1>9 DEF TaskRecords
    <2>2. [r EXCEPT !.task.retried = TRUE] = [r EXCEPT !.task = k] BY <1>9 DEF States, TaskRecords
    <2> HIDE DEF k
    <2>3. k.bearer <= issued /\ k.refused \in 1 .. issued BY <1>7, <1>11, <2>1 DEF Runs
    <2>4. r.cl.header # k.refused BY <1>7, <1>11, <2>1
    <2>5. Runs([r EXCEPT !.task = k], me, c, issued) /\ [r EXCEPT !.task = k].cl = r.cl
        BY <1>7, <2>1, <2>3, <2>4, TaskChanges
    <2>6. Outdoors([r EXCEPT !.task = k], me, c) /\ [r EXCEPT !.task = k].cl.lock # me
        BY <1>7, <1>8, <2>5 DEF Outdoors
    <2>7. Rests(Gate([r EXCEPT !.task.retried = TRUE]), me, c, issued) BY <2>2, <2>5, <2>6, GateRests
    <2> QED BY <1>3, <1>7, <1>11, <2>7 DEF Shaken, r
<1>12. CASE s.task.why \notin {"refresh", "reauth"}
    <2>1. Rests(Gate(r), me, c, issued) BY <1>7, <1>8, GateRests
    <2> QED BY <1>3, <1>7, <1>12, <2>1 DEF Shaken, r
<1> QED BY <1>10, <1>11, <1>12

(* That the profile is stored changes nothing a session is about.               *)
LEMMA RememberedRuns ==
    ASSUME NEW issued \in Nat, NEW me \in Tasks, NEW c \in Clients, NEW s, Runs(s, me, c, issued)
    PROVE  /\ Runs(Remembered(s), me, c, issued) /\ Remembered(s).task = s.task
           /\ Remembered(s).cl.header = s.cl.header /\ Remembered(s).cl.http = s.cl.http
           /\ Remembered(s).cl.shaking = s.cl.shaking
<1> DEFINE cl == [s.cl EXCEPT !.profiled = TRUE]
<1>1. s \in States /\ s.cl \in ClientRecords BY DEF Runs, States
<1>2. /\ cl \in ClientRecords /\ cl.shaking = s.cl.shaking /\ cl.token = s.cl.token /\ cl.http = s.cl.http
      /\ cl.header = s.cl.header /\ cl.queue = s.cl.queue /\ cl.lock = s.cl.lock
      /\ cl.open = s.cl.open /\ cl.closing = s.cl.closing
    BY <1>1 DEF ClientRecords
<1>3. Remembered(s) = [s EXCEPT !.cl = cl] BY <1>1 DEF Remembered, States, ClientRecords
<1> HIDE DEF cl
<1>4. HeaderCarriesToken(cl, issued) BY <1>2 DEF Runs, HeaderCarriesToken
<1>5. cl.lock \in {Unheld, me} \cup OthersShaking(me, c) BY <1>2 DEF Runs
<1> QED BY <1>2, <1>3, <1>4, <1>5, ClientChanges

(* In a handshake that has its token the profile is asked for, or it is over.   *)
LEMMA ProfileRests ==
    ASSUME NEW issued \in Nat, NEW me \in Tasks, NEW c \in Clients, NEW s, NEW shape \in {1, 2},
           SessionInv, Unheld \notin Tasks,
           Runs(s, me, c, issued), Indoors(s, me, c), s.cl.open, s.cl.header # NoToken,
           s.task.why = "reauth" => s.cl.header # s.task.refused
    PROVE  Rests(Profile(s, shape), me, c, issued)
<1> DEFINE h == Http(s)
<1>1. Runs(h, me, c, issued) /\ Connects(s, h) BY HttpRuns
<1>2. h.cl = s.cl /\ h.task.http = h.cl.http BY <1>1 DEF Connects
<1>3. Indoors(h, me, c) /\ h.cl.header # NoToken BY <1>2 DEF Indoors
<1>4. h.task.why = "reauth" => h.cl.header # h.task.refused BY <1>1, <1>2 DEF Connects
<1> HIDE DEF h
<1>5. h \in States /\ h.me = me /\ h.task.client = c BY <1>1 DEF Runs
<1>6. h.task \in TaskRecords /\ h.cl \in ClientRecords BY <1>5 DEF States
<1>7. shape \in Stages BY DEF Stages
<1>8. OthersShaking(me, c) = {} /\ h.cl.shaking /\ h.cl.lock \in {Unheld, me}
    BY <1>1, <1>3 DEF Indoors, Runs
<1>9. CASE paused
    <2>1. Rests(Shaken(s), me, c, issued) BY ShakenRests
    <2>2. Rests(Shaken(Remembered(s)), me, c, issued)
        <3>1. /\ Runs(Remembered(s), me, c, issued) /\ Remembered(s).task = s.task
              /\ Remembered(s).cl.header = s.cl.header /\ Remembered(s).cl.http = s.cl.http
              /\ Remembered(s).cl.shaking = s.cl.shaking
            BY RememberedRuns
        <3>2. Indoors(Remembered(s), me, c) BY <3>1 DEF Indoors
        <3> QED BY <3>1, <3>2, ShakenRests
    <2> QED BY <1>9, <2>1, <2>2 DEF Profile
<1>10. CASE ~paused /\ Unusable(h.cl)
    <2> DEFINE cl == [h.cl EXCEPT !.queue = Append(h.cl.queue, me)]
               k == [h.task EXCEPT !.at = "plock", !.stage = shape]
               r == Profile(s, shape)
    <2>1. Append(h.cl.queue, me) \in Seq(Tasks)
        <3>1. h.cl.queue \in Seq(Tasks) BY <1>6 DEF ClientRecords
        <3> QED BY <3>1
    <2>2. /\ cl \in ClientRecords /\ cl.queue = Append(h.cl.queue, me) /\ cl.token = h.cl.token
          /\ cl.http = h.cl.http /\ cl.header = h.cl.header /\ cl.shaking = h.cl.shaking
          /\ cl.open = h.cl.open /\ cl.closing = h.cl.closing /\ cl.lock = h.cl.lock
        BY <1>6, <2>1 DEF ClientRecords
    <2>3. "plock" \in TaskPlaces BY DEF TaskPlaces
    <2>4. /\ k \in TaskRecords /\ k.at = "plock" /\ k.client = c /\ k.http = h.task.http
          /\ k.bearer = h.task.bearer /\ k.refused = h.task.refused /\ k.why = h.task.why
          /\ k.retried = h.task.retried
        BY <1>5, <1>6, <1>7, <2>3 DEF TaskRecords
    <2>5. r = [h EXCEPT !.cl = cl, !.task = k]
        <3>1. r = [h EXCEPT !.cl.queue = Append(@, h.me), !.task.at = "plock", !.task.stage = shape]
            BY <1>10 DEF Profile, h
        <3> QED BY <1>5, <1>6, <3>1 DEF States, TaskRecords, ClientRecords
    <2> HIDE DEF cl, k, r
    <2>6. r \in States /\ r.me = me /\ r.task = k /\ r.cl = cl BY <1>5, <2>2, <2>4, <2>5 DEF States
    <2>7. Remembers(k, cl, issued) BY <1>1, <1>3, <1>4, <2>2, <2>4 DEF Runs, Remembers
    <2>8. QueueOf(r, me, c, TRUE) BY <1>1, <1>5, <2>2, <2>6, Joined DEF Runs
    <2>9. HeaderCarriesToken(cl, issued) /\ Advances(clients[c], cl)
        BY <1>1, <2>2 DEF Runs, HeaderCarriesToken, Advances
    <2>10. r.task.at \in Waiting /\ r.task.at # "start" /\ r.task.at \in InHandshake
        BY <2>4, <2>6 DEF Waiting, InHandshake
    <2>11. QueueOf(r, me, c, r.task.at \in Waiting) BY <2>8, <2>10 DEF QueueOf
    <2>12. r.cl.lock \in {Unheld, me} /\ r.cl.shaking BY <1>8, <2>2, <2>6
    <2> QED BY <1>8, <2>2, <2>4, <2>6, <2>7, <2>9, <2>10, <2>11, <2>12 DEF Rests, r
<1>11. CASE ~paused /\ ~Unusable(h.cl)
    <2> DEFINE k == [h.task EXCEPT !.at = "profile", !.stage = shape, !.bearer = h.cl.header]
               r == Profile(s, shape)
    <2>1. "profile" \in TaskPlaces BY DEF TaskPlaces
    <2>2. h.cl.header \in Nat /\ h.cl.header <= issued BY <1>1, <1>6 DEF ClientRecords, Runs, HeaderCarriesToken
    <2>3. /\ k \in TaskRecords /\ k.at = "profile" /\ k.client = c /\ k.http = h.task.http
          /\ k.bearer = h.cl.header /\ k.refused = h.task.refused /\ k.why = h.task.why
          /\ k.retried = h.task.retried
        BY <1>5, <1>6, <1>7, <2>1, <2>2 DEF TaskRecords
    <2>4. r = [h EXCEPT !.task = k]
        <3>1. r = [h EXCEPT !.task.at = "profile", !.task.stage = shape, !.task.bearer = h.cl.header]
            BY <1>11 DEF Profile, h
        <3> QED BY <1>5, <1>6, <3>1 DEF States, TaskRecords
    <2> HIDE DEF k, r
    <2>5. r \in States /\ r.me = me /\ r.task = k /\ r.cl = h.cl BY <1>5, <2>3, <2>4 DEF States
    <2>6. Remembers(k, h.cl, issued) BY <1>1, <1>3, <1>4, <2>2, <2>3 DEF Runs, Remembers
    <2>7. r.task.at \notin Waiting /\ r.task.at # "start" /\ r.task.at \in InHandshake
        BY <2>3, <2>5 DEF Waiting, InHandshake
    <2>8. QueueOf(r, me, c, r.task.at \in Waiting) BY <1>1, <2>5, <2>7 DEF Runs, QueueOf
    <2>9. HeaderCarriesToken(h.cl, issued) /\ Advances(clients[c], h.cl) BY <1>1 DEF Runs
    <2> QED BY <1>8, <2>3, <2>5, <2>6, <2>7, <2>8, <2>9 DEF Rests, r
<1> QED BY <1>9, <1>10, <1>11


(* A new bearer is newer than any other, and in the headers at once.            *)
LEMMA TokenRests ==
    ASSUME NEW me \in Tasks, NEW c \in Clients, NEW s, NEW issued \in Nat, NEW token,
           SessionInv, Unheld \notin Tasks, issued = panel.issued + 1, token = issued,
           Runs(s, me, c, issued), Indoors(s, me, c), Reached(s),
           s.task.retried \/ s.task.why = "reauth" => s.task.refused <= panel.issued
    PROVE  Rests(Token(s, token), me, c, issued)
<1> DEFINE cl == [s.cl EXCEPT !.token = token, !.aged = FALSE, !.header = token]
           r == [s EXCEPT !.cl = cl]
<1>1. /\ s \in States /\ s.me = me /\ s.task.client = c /\ s.cl \in ClientRecords
      /\ s.task \in TaskRecords
    BY DEF Runs, States
<1>2. s.cl.open /\ ~s.cl.closing /\ s.task.http = s.cl.http BY DEF Reached
<1>3. panel.issued \in Nat /\ clients[c].http \in Nat BY DEF SessionInv, ClientTypeOK
<1>4. token \in Nat /\ token > panel.issued /\ token # NoToken BY <1>3 DEF NoToken
<1>5. /\ cl \in ClientRecords /\ cl.token = token /\ cl.header = token /\ cl.http = s.cl.http
      /\ cl.queue = s.cl.queue /\ cl.lock = s.cl.lock /\ cl.shaking = s.cl.shaking
      /\ cl.open = s.cl.open /\ cl.closing = s.cl.closing
    BY <1>1, <1>4 DEF ClientRecords
<1>6. [s EXCEPT !.cl.token = token, !.cl.aged = FALSE,
                !.cl.header = IF s.task.http = s.cl.http THEN token ELSE @] = r
    BY <1>1, <1>2 DEF States, ClientRecords
<1> HIDE DEF cl
<1>7. r \in States /\ r.me = me /\ r.cl = cl /\ r.task = s.task BY <1>1, <1>5 DEF States
<1> HIDE DEF r
<1>8. HeaderCarriesToken(cl, issued) BY <1>2, <1>4, <1>5 DEF HeaderCarriesToken
<1>9. Advances(clients[c], cl)
    <2>1. clients[c].http <= s.cl.http BY DEF Runs, Advances
    <2> QED BY <1>4, <1>5, <2>1 DEF Advances
<1>10. QueueOf(r, me, c, FALSE) BY <1>5, <1>7 DEF Runs, QueueOf
<1>11. s.task.retried \/ s.task.why = "reauth" => cl.header # s.task.refused
    <2>1. s.task.refused \in Nat BY <1>1 DEF TaskRecords
    <2> QED BY <1>3, <1>4, <1>5, <2>1
<1>12. Runs(r, me, c, issued)
    <2>1. r.task.http <= r.cl.http /\ r.task.bearer <= issued BY <1>5, <1>7 DEF Runs
    <2>2. r.task.retried \/ r.task.why = "reauth" => r.task.refused \in 1 .. issued BY <1>7 DEF Runs
    <2>3. r.cl.lock \in {Unheld, me} \cup OthersShaking(me, c) BY <1>5, <1>7 DEF Runs
    <2> QED BY <1>1, <1>7, <1>8, <1>9, <1>10, <1>11, <2>1, <2>2, <2>3 DEF Runs
<1>13. Indoors(r, me, c) BY <1>5, <1>7 DEF Indoors
<1>14. /\ r.cl.open /\ r.cl.header # NoToken
       /\ r.task.why = "reauth" => r.cl.header # r.task.refused
    BY <1>2, <1>4, <1>5, <1>7, <1>11
<1>15. Rests(Shaken(r), me, c, issued) BY <1>12, <1>13, <1>14, ShakenRests
<1>16. Rests(Profile(r, 1), me, c, issued) BY <1>12, <1>13, <1>14, ProfileRests
<1> QED BY <1>6, <1>15, <1>16 DEF Token

(* A handshake that fails lowers the guard and gives the lock back.             *)
LEMMA ShakeFailedRests ==
    ASSUME NEW issued \in Nat, NEW me \in Tasks, NEW c \in Clients, NEW s, Unheld \notin Tasks,
           Runs(s, me, c, issued), Indoors(s, me, c)
    PROVE  Rests(ShakeFailed(s), me, c, issued)
<1> DEFINE cl == [s.cl EXCEPT !.shaking = FALSE]
           f == [s EXCEPT !.cl = cl]
<1>1. s \in States /\ s.cl \in ClientRecords BY DEF Runs, States
<1>2. /\ cl \in ClientRecords /\ cl.shaking = FALSE /\ cl.token = s.cl.token /\ cl.http = s.cl.http
      /\ cl.header = s.cl.header /\ cl.queue = s.cl.queue /\ cl.lock = s.cl.lock
      /\ cl.open = s.cl.open /\ cl.closing = s.cl.closing
    BY <1>1 DEF ClientRecords
<1>3. [s EXCEPT !.cl.shaking = FALSE] = f BY <1>1 DEF States, ClientRecords
<1> HIDE DEF cl
<1>4. HeaderCarriesToken(cl, issued) BY <1>2 DEF Runs, HeaderCarriesToken
<1>5. cl.lock \in {Unheld, me} \cup OthersShaking(me, c) BY <1>2 DEF Runs
<1>6. Runs(f, me, c, issued) /\ f.cl = cl BY <1>2, <1>4, <1>5, ClientChanges
<1> HIDE DEF f
<1>7. Outdoors(f, me, c) BY <1>2, <1>6 DEF Outdoors, Indoors
<1>8. "failed" \in Results BY DEF Results
<1> QED BY <1>3, <1>6, <1>7, <1>8, EndedRests DEF ShakeFailed
-----------------------------------------------------------------------------
(* From one wait to the next                                                    *)

(* A task that waits for an answer is Running, in a handshake or outside.       *)
LEMMA AnswerRuns ==
    ASSUME SessionInv, Unheld \notin Tasks, NEW t \in Tasks, tasks[t].at \in {"shake", "profile", "ask"}
    PROVE  /\ tasks[t].client \in Clients /\ panel.issued \in Nat
           /\ Runs(State(t), t, tasks[t].client, panel.issued)
           /\ State(t).task = tasks[t] /\ State(t).cl = clients[tasks[t].client]
           /\ IF tasks[t].at = "ask"
              THEN Outdoors(State(t), t, tasks[t].client) /\ State(t).cl.lock # t
              ELSE Indoors(State(t), t, tasks[t].client)
<1> DEFINE c == tasks[t].client
           s == State(t)
<1>1. c \in Clients /\ Remembers(tasks[t], clients[c], panel.issued) BY DEF SessionInv, TasksRemember
<1>2. tasks \in [Tasks -> TaskRecords] /\ clients \in [Clients -> ClientRecords] /\ panel.issued \in Nat
    BY DEF SessionInv, ClientTypeOK, TaskRecords, ClientRecords, Stages
<1>3. s = [me |-> t, task |-> tasks[t], cl |-> clients[c]] BY DEF State
<1>4. s \in States /\ s.me = t /\ s.task = tasks[t] /\ s.cl = clients[c] BY <1>1, <1>2, <1>3 DEF States
<1> HIDE DEF s
<1>5. clients[c] \in ClientRecords /\ tasks[t] \in TaskRecords BY <1>1, <1>2
<1>6. Advances(clients[c], s.cl) BY <1>4, <1>5 DEF Advances, ClientRecords
<1>7. QueueOf(s, t, c, FALSE)
    BY <1>1, <1>4 DEF SessionInv, QueueOfWaiters, QueueOf, OtherWaits, Waiting
<1>8. s.cl.lock \in {Unheld, t} \cup OthersShaking(t, c)
    BY <1>1, <1>4 DEF SessionInv, HolderShakes, Shaking, OthersShaking, InHandshake
<1>9. HeaderCarriesToken(s.cl, panel.issued) BY <1>1, <1>4 DEF SessionInv, HeadersCarryTokens
<1>10. Runs(s, t, c, panel.issued)
    BY <1>1, <1>4, <1>6, <1>7, <1>8, <1>9 DEF Runs, Remembers
<1>11. ASSUME tasks[t].at = "ask" PROVE Outdoors(s, t, c) /\ s.cl.lock # t
    <2>1. t \notin Shaking(c) BY <1>11 DEF Shaking
    <2>2. Shaking(c) = OthersShaking(t, c) BY <2>1 DEF Shaking, OthersShaking, InHandshake
    <2>3. clients[c].lock # t BY <1>1, <2>1 DEF SessionInv, HolderShakes
    <2> QED BY <1>1, <1>4, <2>2, <2>3 DEF SessionInv, GuardIsOne, Outdoors
<1>12. ASSUME tasks[t].at # "ask" PROVE Indoors(s, t, c)
    <2>1. t \in Shaking(c) BY <1>12 DEF Shaking
    <2>2. clients[c].shaking /\ \A u \in Shaking(c) : u = t BY <1>1, <2>1 DEF SessionInv, GuardIsOne
    <2>3. OthersShaking(t, c) = {} BY <2>2 DEF Shaking, OthersShaking, InHandshake
    <2> QED BY <1>4, <2>2, <2>3 DEF Indoors
<1> QED BY <1>1, <1>2, <1>4, <1>10, <1>11, <1>12 DEF s

(* What others remember of a client stays true as it advances.                  *)
LEMMA OthersRemember ==
    ASSUME NEW k \in TaskRecords, NEW old \in ClientRecords, NEW cl \in ClientRecords, NEW issued \in Nat,
           panel.issued \in Nat, panel.issued <= issued,
           Remembers(k, old, panel.issued), Advances(old, cl)
    PROVE  Remembers(k, cl, issued)
<1>1. /\ k.http \in Nat /\ k.bearer \in Nat /\ k.refused \in Nat /\ old.http \in Nat /\ cl.http \in Nat
      /\ old.header \in Nat /\ cl.header \in Nat
    BY DEF TaskRecords, ClientRecords
<1>2. k.http <= old.http /\ old.http <= cl.http /\ k.bearer <= panel.issued BY DEF Remembers, Advances
<1>3. k.http = cl.http => old.http = cl.http BY <1>1, <1>2
<1>4. k.http = cl.http => cl.header = old.header \/ cl.header > panel.issued BY <1>1, <1>3 DEF Advances
<1>5. ASSUME k.refused \in 1 .. panel.issued, old.header # k.refused PROVE cl.header # k.refused
    BY <1>1, <1>5 DEF Advances, NoToken
<1>6. k.at # "done" /\ (k.retried \/ k.why = "reauth") => k.refused \in 1 .. panel.issued BY DEF Remembers
<1>7. k.at # "done" /\ (k.retried \/ k.why = "reauth") => k.refused \in 1 .. issued BY <1>1, <1>6
<1>8. k.at \in {"profile", "plock"} /\ k.http = cl.http => cl.header # NoToken
    BY <1>1, <1>3, <1>4 DEF Remembers, NoToken
<1>9. k.at = "ask" /\ k.http = cl.http => k.bearer # NoToken BY <1>3 DEF Remembers
<1>10. k.at # "done" /\ k.retried => cl.header # k.refused BY <1>5, <1>6 DEF Remembers
<1>11. k.at \in {"profile", "plock"} /\ k.why = "reauth" => cl.header # k.refused BY <1>5, <1>6 DEF Remembers
<1>12. k.http <= cl.http /\ k.bearer <= issued BY <1>1, <1>2
<1>13. k.at = "ask" /\ k.retried => k.bearer # k.refused BY DEF Remembers
<1> QED BY <1>7, <1>8, <1>9, <1>10, <1>11, <1>12, <1>13 DEF Remembers


(* The step that brings a task to its next wait keeps the invariant.            *)
LEMMA BecomeKeeps ==
    ASSUME SessionInv, NEW me \in Tasks, NEW c \in Clients, NEW r, NEW issued \in Nat,
           Rests(r, me, c, issued), tasks[me].at = "start" \/ tasks[me].client = c,
           Become(r), panel' \in Panels, panel'.issued = issued, panel.issued <= issued, panel'.valid \subseteq 1 .. issued,
           pool' \in Clients \cup {NoClient}, paused' \in BOOLEAN, events' \in 0 .. MaxEvents
    PROVE  SessionInv'
<1>1. /\ tasks \in [Tasks -> TaskRecords] /\ clients \in [Clients -> ClientRecords] /\ panel.issued \in Nat
    BY DEF SessionInv, ClientTypeOK, TaskRecords, ClientRecords, Stages
<1>2. r.task \in TaskRecords /\ r.cl \in ClientRecords /\ r.me = me /\ r.task.client = c BY DEF Rests, States
<1>3. tasks' = [tasks EXCEPT ![me] = r.task] /\ clients' = [clients EXCEPT ![c] = r.cl]
    BY <1>2 DEF Become
<1>4. tasks' \in [Tasks -> TaskRecords] /\ clients' \in [Clients -> ClientRecords] BY <1>1, <1>2, <1>3
<1>5. tasks'[me] = r.task /\ \A u \in Tasks \ {me} : tasks'[u] = tasks[u] BY <1>1, <1>3
<1>6. clients'[c] = r.cl /\ \A d \in Clients \ {c} : clients'[d] = clients[d] BY <1>1, <1>3
<1>7. ClientTypeOK' BY <1>4 DEF ClientTypeOK, TaskRecords, ClientRecords, Stages, Panels
<1>8. HeadersCarryTokens'
    <2>1. HeaderCarriesToken(r.cl, issued) BY DEF Rests
    <2>2. \A d \in Clients : HeaderCarriesToken(clients[d], panel.issued) /\ clients[d].header \in Nat
        BY <1>1 DEF SessionInv, HeadersCarryTokens, ClientRecords
    <2>3. \A d \in Clients : HeaderCarriesToken(clients[d], issued) BY <1>1, <2>2 DEF HeaderCarriesToken
    <2> QED BY <1>6, <2>1, <2>3 DEF HeadersCarryTokens
<1>9. TasksRemember'
    <2> SUFFICES ASSUME NEW u \in Tasks, tasks'[u].at # "start"
                 PROVE  /\ tasks'[u].client \in Clients
                        /\ Remembers(tasks'[u], clients'[tasks'[u].client], issued)
        BY DEF TasksRemember
    <2>1. CASE u = me BY <1>2, <1>5, <1>6, <2>1 DEF Rests
    <2>2. CASE u # me
        <3> DEFINE d == tasks[u].client
        <3>1. tasks'[u] = tasks[u] /\ d \in Clients /\ Remembers(tasks[u], clients[d], panel.issued)
            BY <1>5, <2>2 DEF SessionInv, TasksRemember
        <3>2. clients[d] \in ClientRecords /\ clients'[d] \in ClientRecords /\ tasks[u] \in TaskRecords
            BY <1>1, <1>4, <3>1
        <3>3. clients[d].http \in Nat BY <3>2 DEF ClientRecords
        <3>4. Advances(clients[d], clients'[d])
            <4>1. CASE d = c BY <1>6, <4>1 DEF Rests
            <4>2. CASE d # c BY <1>6, <3>1, <3>3, <4>2 DEF Advances
            <4> QED BY <4>1, <4>2
        <3> QED BY <1>1, <3>1, <3>2, <3>4, OthersRemember
    <2> QED BY <2>1, <2>2
<1> DEFINE mine == IF r.task.at \in InHandshake THEN {me} ELSE {}
<1>10. Shaking(c)' = OthersShaking(me, c) \cup mine
    BY <1>2, <1>5 DEF Shaking, OthersShaking, InHandshake
<1>11. \A d \in Clients \ {c} : Shaking(d)' = Shaking(d)
    BY <1>2, <1>5 DEF Shaking
<1>12. OthersShaking(me, c) \subseteq Shaking(c) BY DEF OthersShaking, Shaking, InHandshake
<1>13. GuardIsOne'
    <2> SUFFICES ASSUME NEW d \in Clients
                 PROVE  /\ clients'[d].shaking <=> Shaking(d)' # {}
                        /\ \A t, u \in Shaking(d)' : t = u
        BY DEF GuardIsOne
    <2>1. CASE d = c
        <3>1. \A t, u \in OthersShaking(me, c) : t = u BY <1>12 DEF SessionInv, GuardIsOne
        <3>2. /\ r.cl.shaking <=> (r.task.at \in InHandshake \/ OthersShaking(me, c) # {})
              /\ r.task.at \in InHandshake => OthersShaking(me, c) = {}
            BY DEF Rests
        <3> QED BY <1>6, <1>10, <2>1, <3>1, <3>2
    <2>2. CASE d # c BY <1>6, <1>11, <2>2 DEF SessionInv, GuardIsOne
    <2> QED BY <2>1, <2>2
<1>14. HolderShakes'
    <2> SUFFICES ASSUME NEW d \in Clients, clients'[d].lock # Unheld PROVE clients'[d].lock \in Shaking(d)'
        BY DEF HolderShakes, Unheld
    <2>1. CASE d = c BY <1>6, <1>10, <2>1 DEF Rests
    <2>2. CASE d # c BY <1>6, <1>11, <2>2 DEF SessionInv, HolderShakes
    <2> QED BY <2>1, <2>2
<1>15. QueueOfWaiters'
    <2> SUFFICES ASSUME NEW d \in Clients
                 PROVE  /\ \A j, k \in DOMAIN clients'[d].queue :
                               clients'[d].queue[j] = clients'[d].queue[k] => j = k
                        /\ \A t \in Tasks : Queued(clients'[d].queue, t) <=>
                               tasks'[t].client = d /\ tasks'[t].at \in Waiting
        BY DEF QueueOfWaiters, Queued, Waiting
    <2>1. CASE d = c
        <3>1. QueueOf(r, me, c, r.task.at \in Waiting) BY DEF Rests
        <3> QED BY <1>2, <1>5, <1>6, <2>1, <3>1 DEF QueueOf, OtherWaits
    <2>2. CASE d # c
        <3>1. clients'[d] = clients[d] BY <1>6, <2>2
        <3>2. ~(tasks'[me].client = d /\ tasks'[me].at \in Waiting) BY <1>2, <1>5, <2>2
        <3>3. ~(tasks[me].client = d /\ tasks[me].at \in Waiting) BY <2>2 DEF Waiting
        <3> QED BY <1>5, <3>1, <3>2, <3>3 DEF SessionInv, QueueOfWaiters
    <2> QED BY <2>1, <2>2
<1> QED BY <1>7, <1>8, <1>9, <1>13, <1>14, <1>15 DEF SessionInv


(* A queue without one of its entries.                                          *)
Without(p, q, t) ==
    /\ \A j, k \in DOMAIN p : p[j] = p[k] => j = k
    /\ \A u \in Tasks : Queued(p, u) <=> u # t /\ Queued(q, u)

(* A queue without its element i holds the others, each once.                  *)
LEMMA LeftOut ==
    ASSUME NEW q \in Seq(Tasks), NEW p \in Seq(Tasks), NEW t \in Tasks, NEW i \in 1 .. Len(q), q[i] = t,
           \A j, k \in DOMAIN q : q[j] = q[k] => j = k,
           Len(p) = Len(q) - 1,
           \A k \in 1 .. Len(p) : p[k] = IF k < i THEN q[k] ELSE q[k + 1]
    PROVE  Without(p, q, t)
<1>1. DOMAIN q = 1 .. Len(q) /\ DOMAIN p = 1 .. Len(p) /\ Len(q) \in Nat /\ Len(p) \in Nat OBVIOUS
<1>2. \A k \in 1 .. Len(p) : k \in 1 .. Len(q) /\ k + 1 \in 1 .. Len(q) BY <1>1
<1>3. \A j, k \in DOMAIN p : p[j] = p[k] => j = k
    <2> SUFFICES ASSUME NEW j \in 1 .. Len(p), NEW k \in 1 .. Len(p), p[j] = p[k] PROVE j = k BY <1>1
    <2>1. PICK a \in DOMAIN q : p[j] = q[a] /\ a = IF j < i THEN j ELSE j + 1 BY <1>1, <1>2
    <2>2. PICK b \in DOMAIN q : p[k] = q[b] /\ b = IF k < i THEN k ELSE k + 1 BY <1>1, <1>2
    <2>3. a = b BY <2>1, <2>2
    <2> QED BY <2>1, <2>2, <2>3
<1>4. ASSUME NEW u \in Tasks, Queued(p, u) PROVE u # t /\ Queued(q, u)
    <2>1. PICK k \in 1 .. Len(p) : p[k] = u BY <1>1, <1>4 DEF Queued
    <2>2. PICK a \in DOMAIN q : u = q[a] /\ a # i
        <3>1. CASE k < i BY <1>1, <1>2, <2>1, <3>1
        <3>2. CASE ~(k < i) BY <1>1, <1>2, <2>1, <3>2
        <3> QED BY <3>1, <3>2
    <2>3. i \in DOMAIN q BY <1>1
    <2>4. u # t BY <2>2, <2>3
    <2> QED BY <2>2, <2>4 DEF Queued
<1>5. ASSUME NEW u \in Tasks, u # t, Queued(q, u) PROVE Queued(p, u)
    <2>1. PICK a \in 1 .. Len(q) : q[a] = u BY <1>1, <1>5 DEF Queued
    <2>2. a # i BY <1>5, <2>1
    <2>3. CASE a < i
        <3>1. a \in 1 .. Len(p) BY <1>1, <2>3
        <3>2. p[a] = u BY <2>1, <2>3, <3>1
        <3> QED BY <1>1, <3>1, <3>2 DEF Queued
    <2>4. CASE a > i
        <3>1. a - 1 \in 1 .. Len(p) BY <1>1, <2>4
        <3>2. p[a - 1] = u BY <1>1, <2>1, <2>4, <3>1
        <3> QED BY <1>1, <3>1, <3>2 DEF Queued
    <2> QED BY <2>2, <2>3, <2>4
<1> QED BY <1>3, <1>4, <1>5 DEF Without

(* The head leaves when it gets the lock, a cancelled task from where it waits. *)
LEMMA TailWithout ==
    ASSUME NEW q \in Seq(Tasks), NEW t \in Tasks, q # <<>>, Head(q) = t,
           \A j, k \in DOMAIN q : q[j] = q[k] => j = k
    PROVE  Tail(q) \in Seq(Tasks) /\ Without(Tail(q), q, t)
<1>1. Tail(q) \in Seq(Tasks) /\ Len(Tail(q)) = Len(q) - 1
    BY HeadTailProperties
<1>2. \A k \in 1 .. Len(Tail(q)) : Tail(q)[k] = q[k + 1] BY HeadTailProperties
<1>3. 1 \in 1 .. Len(q) /\ q[1] = t OBVIOUS
<1>4. \A k \in 1 .. Len(Tail(q)) : ~(k < 1) BY <1>1
<1> QED BY <1>1, <1>2, <1>3, <1>4, LeftOut

(* Leaving a queue takes the one place out that the task had.                  *)
LEMMA RemoveFirstWithout ==
    ASSUME NEW q \in Seq(Tasks), NEW t \in Tasks, \A j, k \in DOMAIN q : q[j] = q[k] => j = k
    PROVE  RemoveFirst(q, t) \in Seq(Tasks) /\ Without(RemoveFirst(q, t), q, t)
<1>1. CASE ~Queued(q, t)
    <2>1. RemoveFirst(q, t) = q BY <1>1 DEF RemoveFirst, Queued
    <2> QED BY <1>1, <2>1 DEF Without
<1>2. CASE Queued(q, t)
    <2>1. PICK i \in 1 .. Len(q) : q[i] = t BY <1>2 DEF Queued
    <2>2. {k \in 1 .. Len(q) : q[k] = t} = {i} BY <2>1
    <2>3. Min({i}) = i BY DEF Min
    <2>4. SelectInSeq(q, LAMBDA v : v = t) = i BY <2>2, <2>3 DEF SelectInSeq
    <2>5. RemoveFirst(q, t) = SubSeq(q, 1, i - 1) \o SubSeq(q, i + 1, Len(q))
        BY <2>1, <2>4 DEF RemoveFirst, RemoveAt
    <2> DEFINE a == SubSeq(q, 1, i - 1)
               b == SubSeq(q, i + 1, Len(q))
    <2>6. a \in Seq(Tasks) /\ Len(a) = i - 1 /\ \A k \in 1 .. i - 1 : a[k] = q[k] BY <2>1
    <2>7. b \in Seq(Tasks) /\ Len(b) = Len(q) - i /\ \A k \in 1 .. Len(q) - i : b[k] = q[k + i] BY <2>1
    <2> HIDE DEF a, b
    <2>8. /\ a \o b \in Seq(Tasks) /\ Len(a \o b) = Len(q) - 1
          /\ \A k \in 1 .. Len(q) - 1 : (a \o b)[k] = IF k <= i - 1 THEN a[k] ELSE b[k - (i - 1)]
        <3>1. /\ a \o b \in Seq(Tasks) /\ Len(a \o b) = Len(a) + Len(b)
              /\ \A k \in 1 .. Len(a) + Len(b) : (a \o b)[k] = IF k <= Len(a) THEN a[k] ELSE b[k - Len(a)]
            BY <2>6, <2>7, ConcatProperties
        <3>2. Len(a) + Len(b) = Len(q) - 1 BY <2>1, <2>6, <2>7
        <3> QED BY <2>6, <3>1, <3>2
    <2>9. \A k \in 1 .. Len(a \o b) : (a \o b)[k] = IF k < i THEN q[k] ELSE q[k + 1]
        <3> SUFFICES ASSUME NEW k \in 1 .. Len(q) - 1 PROVE (a \o b)[k] = IF k < i THEN q[k] ELSE q[k + 1]
            BY <2>8
        <3>1. CASE k < i BY <2>6, <2>8, <3>1
        <3>2. CASE ~(k < i)
            <4>1. k - (i - 1) \in 1 .. Len(q) - i /\ (k - (i - 1)) + i = k + 1 BY <3>2
            <4> QED BY <2>7, <2>8, <3>2, <4>1
        <3> QED BY <3>1, <3>2
    <2>10. Without(a \o b, q, t) BY <2>1, <2>8, <2>9, LeftOut
    <2> QED BY <2>5, <2>8, <2>10 DEF a, b
<1> QED BY <1>1, <1>2

(* A task that leaves the queue, with the lock or without it, is Running.       *)
LEMMA LeaverRuns ==
    ASSUME SessionInv, NEW t \in Tasks, tasks[t].at \in {"lock", "shake", "profile", "plock", "ask"},
           NEW c, c = tasks[t].client, NEW q \in Seq(Tasks), Without(q, clients[c].queue, t),
           NEW cl \in ClientRecords, cl = [clients[c] EXCEPT !.queue = q, !.lock = cl.lock],
           cl.lock \in {clients[c].lock, t}
    PROVE  LET s == [me |-> t, task |-> tasks[t], cl |-> cl] IN
           /\ Runs(s, t, c, panel.issued)
           /\ IF tasks[t].at \in InHandshake THEN Indoors(s, t, c) ELSE Outdoors(s, t, c)
<1> DEFINE s == [me |-> t, task |-> tasks[t], cl |-> cl]
<1>1. c \in Clients /\ Remembers(tasks[t], clients[c], panel.issued) BY DEF SessionInv, TasksRemember
<1>2. tasks \in [Tasks -> TaskRecords] /\ clients \in [Clients -> ClientRecords] /\ panel.issued \in Nat
    BY DEF SessionInv, ClientTypeOK, TaskRecords, ClientRecords, Stages
<1>3. clients[c] \in ClientRecords /\ tasks[t] \in TaskRecords BY <1>1, <1>2
<1>4. /\ cl.queue = q /\ cl.http = clients[c].http /\ cl.header = clients[c].header
      /\ cl.token = clients[c].token /\ cl.open = clients[c].open /\ cl.closing = clients[c].closing
      /\ cl.shaking = clients[c].shaking
    BY <1>3 DEF ClientRecords
<1>5. s \in States /\ s.me = t /\ s.task = tasks[t] /\ s.cl = cl BY <1>3 DEF States
<1> HIDE DEF s
<1>6. Advances(clients[c], cl) BY <1>3, <1>4 DEF Advances, ClientRecords
<1>7. QueueOf(s, t, c, FALSE)
    <2>1. \A u \in Tasks : Queued(clients[c].queue, u) <=> OtherWaits(c, u)
        BY <1>1 DEF SessionInv, QueueOfWaiters, OtherWaits
    <2> QED BY <1>4, <1>5, <2>1 DEF QueueOf, Without
<1>8. clients[c].lock \in {Unheld, t} \cup OthersShaking(t, c)
    BY <1>1 DEF SessionInv, HolderShakes, Shaking, OthersShaking, InHandshake
<1>9. HeaderCarriesToken(cl, panel.issued)
    BY <1>1, <1>4 DEF SessionInv, HeadersCarryTokens, HeaderCarriesToken
<1>10. Runs(s, t, c, panel.issued)
    <2>1. s.task.http <= s.cl.http /\ s.task.bearer <= panel.issued BY <1>1, <1>4, <1>5 DEF Remembers
    <2>2. s.task.retried \/ s.task.why = "reauth" => s.task.refused \in 1 .. panel.issued
        BY <1>1, <1>5 DEF Remembers
    <2>3. s.task.retried => s.cl.header # s.task.refused BY <1>1, <1>4, <1>5 DEF Remembers
    <2> QED BY <1>5, <1>6, <1>7, <1>8, <1>9, <2>1, <2>2, <2>3 DEF Runs
<1>11. ASSUME tasks[t].at \notin InHandshake PROVE Outdoors(s, t, c)
    <2>1. Shaking(c) = OthersShaking(t, c) BY <1>11 DEF Shaking, OthersShaking, InHandshake
    <2> QED BY <1>1, <1>4, <1>5, <2>1 DEF SessionInv, GuardIsOne, Outdoors
<1>12. ASSUME tasks[t].at \in InHandshake PROVE Indoors(s, t, c)
    <2>1. t \in Shaking(c) BY <1>12 DEF Shaking, InHandshake
    <2>2. clients[c].shaking /\ \A u \in Shaking(c) : u = t BY <1>1, <2>1 DEF SessionInv, GuardIsOne
    <2>3. OthersShaking(t, c) = {} BY <2>2 DEF Shaking, OthersShaking, InHandshake
    <2> QED BY <1>4, <1>5, <2>2, <2>3 DEF Indoors
<1> QED BY <1>10, <1>11, <1>12 DEF s

-----------------------------------------------------------------------------
(* The steps                                                                    *)

(* A chain of calls goes on after the panel has issued another bearer.         *)
LEMMA RunsOn ==
    ASSUME NEW me \in Tasks, NEW c \in Clients, NEW s, panel.issued \in Nat,
           Runs(s, me, c, panel.issued)
    PROVE  Runs(s, me, c, panel.issued + 1)
<1>1. s.cl \in ClientRecords /\ s.task \in TaskRecords BY DEF Runs, States
<1>2. s.cl.header \in Nat /\ s.task.bearer \in Nat BY <1>1 DEF ClientRecords, TaskRecords
<1>3. HeaderCarriesToken(s.cl, panel.issued + 1) BY <1>2 DEF Runs, HeaderCarriesToken
<1>4. s.task.retried \/ s.task.why = "reauth" => s.task.refused \in 1 .. panel.issued + 1 BY DEF Runs
<1>5. s.task.bearer <= panel.issued + 1 BY <1>2 DEF Runs
<1> QED BY <1>3, <1>4, <1>5 DEF Runs

(* The bound of events, the pool and the panel have their types.                *)
LEMMA Surroundings ==
    SessionInv => /\ pool \in Clients \cup {NoClient} /\ paused \in BOOLEAN /\ events \in 0 .. MaxEvents
                  /\ panel \in Panels /\ panel.issued \in Nat /\ panel.issued <= panel.issued
                  /\ panel.valid \subseteq 1 .. panel.issued
BY DEF SessionInv, ClientTypeOK, Panels

(* A task begins with the client of the pool, or a new one.                     *)
LEMMA BeginKeeps ==
    ASSUME SessionInv, Unheld \notin Tasks, NEW t \in Tasks, NEW direct \in BOOLEAN, Begin(t, direct)
    PROVE  SessionInv'
<1>1. PICK c \in Clients :
          /\ pool' = c
          /\ LET s == [me |-> t, task |-> [Task0 EXCEPT !.client = c],
                       cl |-> [clients[c] EXCEPT !.made = TRUE]] IN
             Become(IF direct THEN Handshake([s EXCEPT !.task.why = "direct"]) ELSE Gate(s))
    BY DEF Begin
<1> DEFINE k == [Task0 EXCEPT !.client = c]
           cl == [clients[c] EXCEPT !.made = TRUE]
           s == [me |-> t, task |-> k, cl |-> cl]
           kd == [k EXCEPT !.why = "direct"]
           d == [s EXCEPT !.task = kd]
<1>2. tasks[t].at = "start" /\ UNCHANGED <<panel, paused, events>> BY DEF Begin
<1>3. /\ tasks \in [Tasks -> TaskRecords] /\ clients \in [Clients -> ClientRecords] /\ panel.issued \in Nat
    BY DEF SessionInv, ClientTypeOK, TaskRecords, ClientRecords, Stages
<1>4. /\ k \in TaskRecords /\ k.client = c /\ k.http = 0 /\ k.bearer = 0 /\ k.retried = FALSE /\ k.why = "refresh"
    BY Task0Typed DEF TaskRecords
<1>5. clients[c] \in ClientRecords BY <1>3
<1>6. /\ cl \in ClientRecords /\ cl.http = clients[c].http /\ cl.header = clients[c].header
      /\ cl.token = clients[c].token /\ cl.open = clients[c].open /\ cl.closing = clients[c].closing
      /\ cl.shaking = clients[c].shaking /\ cl.queue = clients[c].queue /\ cl.lock = clients[c].lock
    BY <1>5 DEF ClientRecords
<1> HIDE DEF k, cl
<1>7. s \in States /\ s.me = t /\ s.task = k /\ s.cl = cl BY <1>4, <1>6 DEF States
<1> HIDE DEF s
<1>8. cl.http \in Nat /\ clients[c].http \in Nat BY <1>5, <1>6 DEF ClientRecords
<1>9. Advances(clients[c], cl) BY <1>6, <1>8 DEF Advances
<1>10. HeaderCarriesToken(cl, panel.issued) BY <1>6 DEF SessionInv, HeadersCarryTokens, HeaderCarriesToken
<1>11. t \notin Shaking(c) /\ Shaking(c) = OthersShaking(t, c) BY <1>2 DEF Shaking, OthersShaking, InHandshake
<1>12. QueueOf(s, t, c, FALSE)
    BY <1>2, <1>6, <1>7 DEF SessionInv, QueueOfWaiters, QueueOf, OtherWaits, Waiting
<1>13. s.cl.lock \in {Unheld} \cup OthersShaking(t, c) /\ s.cl.lock # t
    BY <1>6, <1>7, <1>11 DEF SessionInv, HolderShakes
<1>14. Runs(s, t, c, panel.issued) 
    <2>1. s.task.http <= s.cl.http /\ s.task.bearer <= panel.issued BY <1>3, <1>4, <1>7, <1>8
    <2>2. ~s.task.retried /\ s.task.why # "reauth" BY <1>4, <1>7
    <2>3. s.task.client = c /\ HeaderCarriesToken(s.cl, panel.issued) /\ Advances(clients[c], s.cl)
        BY <1>4, <1>7, <1>9, <1>10
    <2>4. s.cl.lock \in {Unheld, t} \cup OthersShaking(t, c) BY <1>13
    <2> QED BY <1>7, <1>12, <2>1, <2>2, <2>3, <2>4 DEF Runs
<1>15. Outdoors(s, t, c) BY <1>6, <1>7, <1>11 DEF SessionInv, GuardIsOne, Outdoors
<1>16. CASE ~direct
    <2>1. Rests(Gate(s), t, c, panel.issued) BY <1>3, <1>13, <1>14, <1>15, GateRests
    <2>2. Become(Gate(s)) BY <1>1, <1>16 DEF s, k, cl
    <2> QED BY <1>1, <1>2, <1>3, <2>1, <2>2, BecomeKeeps, Surroundings
<1>17. CASE direct
    <2>1. /\ kd \in TaskRecords /\ kd.client = c /\ kd.http = k.http /\ kd.bearer = 0 /\ kd.retried = FALSE
          /\ kd.why = "direct"
        BY <1>4 DEF TaskRecords
    <2>2. [s EXCEPT !.task.why = "direct"] = d BY <1>7 DEF States
    <2> HIDE DEF kd
    <2>3. Runs(d, t, c, panel.issued) /\ d.cl = s.cl BY <1>3, <1>7, <1>14, <2>1, TaskChanges
    <2>4. Outdoors(d, t, c) BY <1>15, <2>3 DEF Outdoors
    <2> HIDE DEF d
    <2>5. Rests(Handshake(d), t, c, panel.issued) BY <1>3, <2>3, <2>4, HandshakeRests
    <2>6. Become(Handshake(d)) BY <1>1, <1>17, <2>2 DEF s, k, cl
    <2> QED BY <1>1, <1>2, <1>3, <2>5, <2>6, BecomeKeeps, Surroundings
<1> QED BY <1>16, <1>17

(* The first in the queue gets the lock, and refreshes.                         *)
LEMMA TakenRuns ==
    ASSUME SessionInv, NEW t \in Tasks, tasks[t].at \in Waiting, NEW c, c = tasks[t].client,
           MyTurn(State(t).cl, t)
    PROVE  /\ c \in Clients /\ panel.issued \in Nat
           /\ Runs(Taken(State(t)), t, c, panel.issued) /\ Taken(State(t)).task = tasks[t]
           /\ Taken(State(t)).cl.header = clients[c].header /\ Taken(State(t)).cl.http = clients[c].http
           /\ IF tasks[t].at = "plock" THEN Indoors(Taken(State(t)), t, c) ELSE Outdoors(Taken(State(t)), t, c)
<1> DEFINE q == Tail(clients[c].queue)
           cl == [clients[c] EXCEPT !.lock = t, !.queue = q]
           s == [me |-> t, task |-> tasks[t], cl |-> cl]
<1>1. c \in Clients BY DEF SessionInv, TasksRemember, Waiting
<1>2. /\ tasks[t] \in TaskRecords /\ clients[c] \in ClientRecords /\ panel.issued \in Nat
    BY <1>1 DEF SessionInv, ClientTypeOK, TaskRecords, ClientRecords, Stages
<1>3. State(t) = [me |-> t, task |-> tasks[t], cl |-> clients[c]] BY DEF State
<1>4. clients[c].queue # <<>> /\ Head(clients[c].queue) = t BY <1>3 DEF MyTurn
<1>5. clients[c].queue \in Seq(Tasks) BY <1>2 DEF ClientRecords
<1>6. \A j, k \in DOMAIN clients[c].queue : clients[c].queue[j] = clients[c].queue[k] => j = k
    BY <1>1 DEF SessionInv, QueueOfWaiters
<1>7. q \in Seq(Tasks) /\ Without(q, clients[c].queue, t) BY <1>4, <1>5, <1>6, TailWithout
<1>8. Taken(State(t)) = s
    <2> DEFINE old == [me |-> t, task |-> tasks[t], cl |-> clients[c]]
    <2>1. old.cl = clients[c] /\ old.me = t OBVIOUS
    <2>2. [old EXCEPT !.cl.lock = old.me, !.cl.queue = Tail(old.cl.queue)] = [old EXCEPT !.cl = cl]
        BY <1>2 DEF ClientRecords
    <2>3. [old EXCEPT !.cl = cl] = s OBVIOUS
    <2> QED BY <1>3, <2>2, <2>3 DEF Taken
<1> HIDE DEF q
<1>9. /\ cl \in ClientRecords /\ cl.lock = t /\ cl.header = clients[c].header /\ cl.http = clients[c].http
    BY <1>2, <1>7 DEF ClientRecords
<1>10. cl = [clients[c] EXCEPT !.queue = q, !.lock = cl.lock] BY <1>2, <1>9 DEF ClientRecords
<1> HIDE DEF cl
<1>11. /\ Runs(s, t, c, panel.issued)
       /\ IF tasks[t].at \in InHandshake THEN Indoors(s, t, c) ELSE Outdoors(s, t, c)
    BY <1>7, <1>9, <1>10, LeaverRuns DEF Waiting
<1> QED BY <1>1, <1>2, <1>8, <1>9, <1>11 DEF Waiting, InHandshake

(* The lock is taken by the first in its queue.                                *)
LEMMA AcquireKeeps ==
    ASSUME SessionInv, Unheld \notin Tasks, NEW t \in Tasks, Acquire(t) PROVE SessionInv'
<1> DEFINE c == tasks[t].client
           s == Taken(State(t))
<1>1. tasks[t].at = "lock" /\ MyTurn(State(t).cl, t) /\ Become(Critical(s)) /\ Quiet BY DEF Acquire
<1>2. c \in Clients /\ panel.issued \in Nat /\ Runs(s, t, c, panel.issued) /\ Outdoors(s, t, c)
    BY <1>1, TakenRuns DEF Waiting
<1> HIDE DEF s
<1>3. Rests(Critical(s), t, c, panel.issued) BY <1>2, CriticalRests
<1> QED BY <1>1, <1>2, <1>3, BecomeKeeps, Surroundings DEF Quiet


(* In its handshake a task gets the lock for the profile, and gives it back.    *)
LEMMA AcquireProfileKeeps ==
    ASSUME SessionInv, Unheld \notin Tasks, NEW t \in Tasks, AcquireProfile(t) PROVE SessionInv'
<1> DEFINE c == tasks[t].client
           s == Taken(State(t))
           r == Released(s)
           k == [r.task EXCEPT !.at = "profile", !.bearer = r.cl.header]
           p == [r EXCEPT !.task = k]
<1>1. tasks[t].at = "plock" /\ MyTurn(State(t).cl, t) /\ Quiet BY DEF AcquireProfile
<1>2. /\ c \in Clients /\ panel.issued \in Nat /\ Runs(s, t, c, panel.issued) /\ Indoors(s, t, c)
      /\ s.task = tasks[t] /\ s.cl.header = clients[c].header /\ s.cl.http = clients[c].http
    BY <1>1, TakenRuns DEF Waiting
<1>3. Become(IF Unusable(s.cl) THEN Shaken(Remembered(Released(s)))
             ELSE [Released(s) EXCEPT !.task.at = "profile", !.task.bearer = s.cl.header])
    BY DEF AcquireProfile
<1>4. Remembers(tasks[t], clients[c], panel.issued) BY <1>1 DEF SessionInv, TasksRemember
<1>5. /\ s.task.http = s.cl.http => s.cl.header # NoToken
      /\ s.task.why = "reauth" => s.cl.header # s.task.refused
    BY <1>1, <1>2, <1>4 DEF Remembers
<1> HIDE DEF s
<1>6. /\ Runs(r, t, c, panel.issued) /\ r.cl.lock # t /\ r.task = s.task
      /\ r.cl.header = s.cl.header /\ r.cl.http = s.cl.http /\ r.cl.shaking = s.cl.shaking
    BY <1>2, ReleasedRuns
<1>7. Indoors(r, t, c) BY <1>2, <1>6 DEF Indoors
<1> HIDE DEF r
<1>8. CASE Unusable(s.cl)
    <2> DEFINE m == Remembered(r)
    <2>1. /\ Runs(m, t, c, panel.issued) /\ m.task = r.task /\ m.cl.header = r.cl.header
          /\ m.cl.http = r.cl.http /\ m.cl.shaking = r.cl.shaking
        BY <1>2, <1>6, RememberedRuns
    <2>2. Indoors(m, t, c) BY <1>7, <2>1 DEF Indoors
    <2> HIDE DEF m
    <2>3. Rests(Shaken(m), t, c, panel.issued) BY <1>2, <1>5, <1>6, <2>1, <2>2, ShakenRests
    <2>4. Become(Shaken(m)) BY <1>3, <1>8 DEF m, r
    <2> QED BY <1>1, <1>2, <2>3, <2>4, BecomeKeeps, Surroundings DEF Quiet
<1>9. CASE ~Unusable(s.cl)
    <2>1. r \in States /\ r.me = t /\ r.task \in TaskRecords /\ r.cl \in ClientRecords /\ r.task.client = c
        BY <1>6 DEF Runs, States
    <2>2. r.cl.header \in Nat /\ r.cl.header <= panel.issued /\ "profile" \in TaskPlaces
        BY <1>6, <2>1 DEF ClientRecords, Runs, HeaderCarriesToken, TaskPlaces
    <2>3. /\ k \in TaskRecords /\ k.at = "profile" /\ k.client = c /\ k.http = r.task.http
          /\ k.bearer = r.cl.header /\ k.refused = r.task.refused /\ k.why = r.task.why
          /\ k.retried = r.task.retried
        BY <2>1, <2>2 DEF TaskRecords
    <2>4. [r EXCEPT !.task.at = "profile", !.task.bearer = r.cl.header] = p BY <2>1 DEF States, TaskRecords
    <2>5. Become(p) BY <1>3, <1>6, <1>9, <2>4 DEF r
    <2> HIDE DEF k
    <2>6. p \in States /\ p.me = t /\ p.task = k /\ p.cl = r.cl BY <2>1, <2>3 DEF States
    <2> HIDE DEF p
    <2>7. Remembers(k, r.cl, panel.issued) BY <1>5, <1>6, <2>2, <2>3 DEF Runs, Remembers
    <2>8. p.task.at \notin Waiting /\ p.task.at # "start" /\ p.task.at \in InHandshake
        BY <2>3, <2>6 DEF Waiting, InHandshake
    <2>9. QueueOf(p, t, c, p.task.at \in Waiting) BY <1>6, <2>6, <2>8 DEF Runs, QueueOf
    <2>10. HeaderCarriesToken(r.cl, panel.issued) /\ Advances(clients[c], r.cl) BY <1>6 DEF Runs
    <2>11. OthersShaking(t, c) = {} /\ r.cl.shaking /\ r.cl.lock \in {Unheld, t} BY <1>6, <1>7 DEF Indoors, Runs
    <2>12. Rests(p, t, c, panel.issued)
        BY <2>3, <2>6, <2>7, <2>8, <2>9, <2>10, <2>11 DEF Rests
    <2> QED BY <1>1, <1>2, <2>5, <2>12, BecomeKeeps, Surroundings DEF Quiet
<1> QED BY <1>8, <1>9

(* The panel issues a bearer, and may forget the older ones.                    *)
LEMMA IssueKeeps ==
    ASSUME SessionInv, Unheld \notin Tasks, NEW t \in Tasks, Issue(t) PROVE SessionInv'
<1> DEFINE c == tasks[t].client
           s == State(t)
           issued == panel.issued + 1
<1>1. tasks[t].at = "shake" /\ Reached(s) /\ Become(Token(s, issued)) /\ UNCHANGED <<pool, paused, events>>
    BY DEF Issue
<1>2. /\ c \in Clients /\ panel.issued \in Nat /\ Runs(s, t, c, panel.issued) /\ Indoors(s, t, c)
      /\ s.task = tasks[t]
    BY <1>1, AnswerRuns
<1>3. Remembers(tasks[t], clients[c], panel.issued) BY <1>1 DEF SessionInv, TasksRemember
<1>4. s.task.retried \/ s.task.why = "reauth" => s.task.refused <= panel.issued
    BY <1>1, <1>2, <1>3 DEF Remembers
<1> HIDE DEF s
<1>5. Runs(s, t, c, issued) /\ issued \in Nat BY <1>2, RunsOn
<1>6. panel' \in Panels /\ panel'.issued = issued /\ panel'.valid \subseteq 1 .. issued
    <2>1. panel.valid \subseteq 1 .. panel.issued BY Surroundings
    <2>2. PICK keep \in BOOLEAN :
              panel' = [issued |-> panel.issued + 1,
                        valid |-> {panel.issued + 1} \cup (IF keep THEN panel.valid ELSE {})]
        BY DEF Issue
    <2>3. panel'.issued = issued /\ panel'.valid \subseteq 1 .. issued BY <1>2, <2>1, <2>2
    <2>4. issued \in Nat /\ panel'.valid \in SUBSET Nat BY <1>2, <2>3
    <2> HIDE DEF issued
    <2> QED BY <2>2, <2>3, <2>4 DEF Panels
<1>7. panel.issued <= issued BY <1>2
<1> HIDE DEF issued
<1>8. issued = panel.issued + 1 BY DEF issued
<1>9. Rests(Token(s, issued), t, c, issued) BY <1>1, <1>2, <1>4, <1>5, <1>8, TokenRests
<1> QED BY <1>1, <1>2, <1>5, <1>6, <1>7, <1>9, BecomeKeeps, Surroundings

(* The next shape is tried: still the same handshake.                           *)
LEMMA NextShapeKeeps ==
    ASSUME SessionInv, Unheld \notin Tasks, NEW t \in Tasks, NextShape(t) PROVE SessionInv'
<1> DEFINE c == tasks[t].client
           s == State(t)
           n == s.task.stage + 1
           k == [s.task EXCEPT !.stage = n]
           p == [s EXCEPT !.task = k]
<1>1. /\ tasks[t].at = "shake" /\ tasks[t].stage < 3 /\ Become([s EXCEPT !.task.stage = @ + 1])
      /\ UNCHANGED <<pool, panel, events>>
    BY DEF NextShape
<1>2. paused \in BOOLEAN BY Surroundings
<1>3. paused' \in BOOLEAN BY <1>2 DEF NextShape, Limited
<1>4. /\ c \in Clients /\ panel.issued \in Nat /\ Runs(s, t, c, panel.issued) /\ Indoors(s, t, c)
      /\ s.task = tasks[t]
    BY <1>1, AnswerRuns
<1> HIDE DEF s
<1>5. s \in States /\ s.me = t /\ s.task \in TaskRecords /\ s.cl \in ClientRecords /\ s.task.client = c
    BY <1>4 DEF Runs, States
<1>6. n \in Stages
    <2>1. s.task.stage \in Stages /\ s.task.stage < 3 BY <1>1, <1>4, <1>5 DEF TaskRecords
    <2> QED BY <2>1 DEF Stages
<1>7. [s EXCEPT !.task.stage = @ + 1] = p BY <1>5 DEF States, TaskRecords
<1> HIDE DEF n
<1>8. /\ k \in TaskRecords /\ k.at = "shake" /\ k.client = c /\ k.http = s.task.http
      /\ k.bearer = s.task.bearer /\ k.refused = s.task.refused /\ k.why = s.task.why
      /\ k.retried = s.task.retried
    BY <1>1, <1>4, <1>5, <1>6 DEF TaskRecords
<1> HIDE DEF k
<1>9. p \in States /\ p.me = t /\ p.task = k /\ p.cl = s.cl BY <1>5, <1>8 DEF States
<1> HIDE DEF p
<1>10. Remembers(k, s.cl, panel.issued) BY <1>4, <1>8 DEF Runs, Remembers
<1>11. p.task.at \notin Waiting /\ p.task.at # "start" /\ p.task.at \in InHandshake
    BY <1>8, <1>9 DEF Waiting, InHandshake
<1>12. QueueOf(p, t, c, p.task.at \in Waiting) BY <1>4, <1>9, <1>11 DEF Runs, QueueOf
<1>13. HeaderCarriesToken(s.cl, panel.issued) /\ Advances(clients[c], s.cl) BY <1>4 DEF Runs
<1>14. OthersShaking(t, c) = {} /\ s.cl.shaking /\ s.cl.lock \in {Unheld, t} BY <1>4 DEF Indoors, Runs
<1>15. Rests(p, t, c, panel.issued) BY <1>8, <1>9, <1>10, <1>11, <1>12, <1>13, <1>14 DEF Rests
<1> QED BY <1>1, <1>3, <1>4, <1>7, <1>15, BecomeKeeps, Surroundings

(* No shape gave a bearer.                                                      *)
LEMMA NoBearerKeeps ==
    ASSUME SessionInv, Unheld \notin Tasks, NEW t \in Tasks, NoBearer(t) PROVE SessionInv'
<1> DEFINE c == tasks[t].client
           s == State(t)
<1>1. tasks[t].at = "shake" /\ Become(ShakeFailed(s)) /\ UNCHANGED <<pool, panel, events>> BY DEF NoBearer
<1>2. paused \in BOOLEAN BY Surroundings
<1>3. paused' \in BOOLEAN BY <1>2 DEF NoBearer, Limited
<1>4. c \in Clients /\ panel.issued \in Nat /\ Runs(s, t, c, panel.issued) /\ Indoors(s, t, c)
    BY <1>1, AnswerRuns
<1> HIDE DEF s
<1>5. Rests(ShakeFailed(s), t, c, panel.issued) BY <1>4, ShakeFailedRests
<1> QED BY <1>1, <1>3, <1>4, <1>5, BecomeKeeps, Surroundings

(* The profile is answered, refused, or asked for once more in another shape.   *)
LEMMA ProfileAnsweredKeeps ==
    ASSUME SessionInv, Unheld \notin Tasks, NEW t \in Tasks, ProfileAnswered(t) PROVE SessionInv'
<1> DEFINE c == tasks[t].client
           s == State(t)
           m == Remembered(s)
<1>1. tasks[t].at = "profile" /\ UNCHANGED <<pool, panel, events>> BY DEF ProfileAnswered
<1>2. paused \in BOOLEAN BY Surroundings
<1>3. paused' \in BOOLEAN BY <1>2 DEF ProfileAnswered, Limited
<1>4. /\ c \in Clients /\ panel.issued \in Nat /\ Runs(s, t, c, panel.issued) /\ Indoors(s, t, c)
      /\ s.task = tasks[t] /\ s.cl = clients[c]
    BY <1>1, AnswerRuns
<1>5. Become(Shaken(m)) \/ Become(Shaken(s)) \/ (Reached(s) /\ Become(Profile(s, 2)))
    BY DEF ProfileAnswered
<1>6. Remembers(tasks[t], clients[c], panel.issued) BY <1>1 DEF SessionInv, TasksRemember
<1> HIDE DEF s
<1>7. /\ s.task.http = s.cl.http => s.cl.header # NoToken
      /\ s.task.why = "reauth" => s.cl.header # s.task.refused
    BY <1>1, <1>4, <1>6 DEF Remembers
<1>8. /\ Runs(m, t, c, panel.issued) /\ m.task = s.task /\ m.cl.header = s.cl.header
      /\ m.cl.http = s.cl.http /\ m.cl.shaking = s.cl.shaking
    BY <1>4, RememberedRuns
<1>9. Indoors(m, t, c) BY <1>4, <1>8 DEF Indoors
<1> HIDE DEF m
<1>10. Rests(Shaken(m), t, c, panel.issued) BY <1>4, <1>7, <1>8, <1>9, ShakenRests
<1>11. Rests(Shaken(s), t, c, panel.issued) BY <1>4, <1>7, ShakenRests
<1>12. ASSUME Reached(s) PROVE Rests(Profile(s, 2), t, c, panel.issued)
    <2>1. s.cl.open /\ s.cl.header # NoToken BY <1>7, <1>12 DEF Reached
    <2> QED BY <1>4, <1>7, <2>1, ProfileRests
<1>13. ASSUME NEW r, Rests(r, t, c, panel.issued), Become(r) PROVE SessionInv'
    BY <1>1, <1>3, <1>4, <1>13, BecomeKeeps, Surroundings
<1> QED BY <1>5, <1>10, <1>11, <1>12, <1>13

(* The request is answered, or fails, or the portal pauses.                     *)
LEMMA AnsweredKeeps ==
    ASSUME SessionInv, Unheld \notin Tasks, NEW t \in Tasks, Answered(t) PROVE SessionInv'
<1> DEFINE c == tasks[t].client
           s == State(t)
<1>1. tasks[t].at = "ask" /\ UNCHANGED <<pool, panel, events>> BY DEF Answered
<1>2. paused \in BOOLEAN BY Surroundings
<1>3. paused' \in BOOLEAN BY <1>2 DEF Answered
<1>4. c \in Clients /\ panel.issued \in Nat /\ Runs(s, t, c, panel.issued) /\ Outdoors(s, t, c)
    BY <1>1, AnswerRuns
<1>5. \E result \in {"ok", "failed"} : Become(Ended(s, result)) BY DEF Answered
<1> HIDE DEF s
<1>6. \A result \in {"ok", "failed"} : Rests(Ended(s, result), t, c, panel.issued)
    BY <1>4, EndedRests DEF Results
<1>7. ASSUME NEW r, Rests(r, t, c, panel.issued), Become(r) PROVE SessionInv'
    BY <1>1, <1>3, <1>4, <1>7, BecomeKeeps, Surroundings
<1> QED BY <1>5, <1>6, <1>7

(* The panel refuses a bearer: the request goes for the lock once.              *)
LEMMA RefusedKeeps ==
    ASSUME SessionInv, Unheld \notin Tasks, NEW t \in Tasks, Refused(t) PROVE SessionInv'
<1> DEFINE c == tasks[t].client
           s == State(t)
           k == [s.task EXCEPT !.why = "reauth", !.refused = s.task.bearer]
           a == [s EXCEPT !.task = k]
<1>1. tasks[t].at = "ask" /\ Reached(s) /\ Quiet BY DEF Refused
<1>2. Become(IF MayReauth(s)
             THEN TakeLock([s EXCEPT !.task.why = "reauth", !.task.refused = s.task.bearer], "lock")
             ELSE Ended(s, "http_401"))
    BY DEF Refused
<1>3. /\ c \in Clients /\ panel.issued \in Nat /\ Runs(s, t, c, panel.issued) /\ Outdoors(s, t, c)
      /\ s.task = tasks[t] /\ s.cl = clients[c] /\ s.cl.lock # t
    BY <1>1, AnswerRuns
<1>4. Remembers(tasks[t], clients[c], panel.issued) BY <1>1 DEF SessionInv, TasksRemember
<1> HIDE DEF s
<1>5. s \in States /\ s.me = t /\ s.task \in TaskRecords /\ s.task.client = c BY <1>3 DEF Runs, States
<1>6. ASSUME NEW r, Rests(r, t, c, panel.issued), Become(r) PROVE SessionInv'
    BY <1>1, <1>3, <1>6, BecomeKeeps, Surroundings DEF Quiet
<1>7. CASE ~MayReauth(s)
    <2>1. Rests(Ended(s, "http_401"), t, c, panel.issued) BY <1>3, EndedRests DEF Results
    <2> QED BY <1>2, <1>6, <1>7, <2>1
<1>8. CASE MayReauth(s)
    <2>1. s.task.bearer \in Nat /\ s.task.bearer # NoToken /\ s.task.bearer <= panel.issued
        BY <1>1, <1>3, <1>4, <1>5 DEF Remembers, Reached, TaskRecords
    <2>2. /\ k \in TaskRecords /\ k.client = c /\ k.http = s.task.http /\ k.bearer = s.task.bearer
          /\ k.refused = s.task.bearer /\ k.retried = s.task.retried
        BY <1>5, <2>1 DEF TaskRecords
    <2>3. [s EXCEPT !.task.why = "reauth", !.task.refused = s.task.bearer] = a
        BY <1>5 DEF States, TaskRecords
    <2> HIDE DEF k
    <2>4. k.refused \in 1 .. panel.issued /\ ~k.retried BY <1>8, <2>1, <2>2 DEF MayReauth, NoToken
    <2>5. Runs(a, t, c, panel.issued) /\ a.cl = s.cl BY <1>3, <2>1, <2>2, <2>4, TaskChanges
    <2>6. Outdoors(a, t, c) BY <1>3, <2>5 DEF Outdoors
    <2> HIDE DEF a
    <2>7. Rests(TakeLock(a, "lock"), t, c, panel.issued) BY <1>3, <2>5, <2>6, TakeLockRests
    <2> QED BY <1>2, <1>6, <1>8, <2>3, <2>7
<1> QED BY <1>7, <1>8


(* A cancelled task leaves the queue, lowers its guard and gives the lock back. *)
LEMMA CancelKeeps ==
    ASSUME SessionInv, Unheld \notin Tasks, NEW t \in Tasks, Cancel(t) PROVE SessionInv'
<1> DEFINE c == tasks[t].client
           q == RemoveFirst(clients[c].queue, t)
           cl == [clients[c] EXCEPT !.queue = q]
           s == [me |-> t, task |-> tasks[t], cl |-> cl]
           down == [cl EXCEPT !.shaking = FALSE]
           d == [s EXCEPT !.cl = down]
<1>1. tasks[t].at \in {"lock", "shake", "profile", "plock", "ask"} /\ Quiet BY DEF Cancel
<1>2. c \in Clients BY <1>1 DEF SessionInv, TasksRemember
<1>3. /\ tasks[t] \in TaskRecords /\ clients[c] \in ClientRecords /\ panel.issued \in Nat
    BY <1>2 DEF SessionInv, ClientTypeOK, TaskRecords, ClientRecords, Stages
<1>4. State(t) = [me |-> t, task |-> tasks[t], cl |-> clients[c]] BY DEF State
<1>5. clients[c].queue \in Seq(Tasks) BY <1>3 DEF ClientRecords
<1>6. \A j, k \in DOMAIN clients[c].queue : clients[c].queue[j] = clients[c].queue[k] => j = k
    BY <1>2 DEF SessionInv, QueueOfWaiters
<1>7. q \in Seq(Tasks) /\ Without(q, clients[c].queue, t) BY <1>5, <1>6, RemoveFirstWithout
<1>8. [State(t) EXCEPT !.cl.queue = RemoveFirst(@, t)] = s BY <1>4
<1>9. Become(Ended(IF tasks[t].at \in InHandshake THEN [s EXCEPT !.cl.shaking = FALSE] ELSE s, "failed"))
    <2>1. LET left == [State(t) EXCEPT !.cl.queue = RemoveFirst(@, t)] IN
          Become(Ended(IF State(t).task.at \in {"shake", "profile", "plock"}
                       THEN [left EXCEPT !.cl.shaking = FALSE] ELSE left, "failed"))
        BY DEF Cancel
    <2>2. State(t).task.at = tasks[t].at BY <1>4
    <2> QED BY <1>8, <2>1, <2>2 DEF InHandshake
<1>10. [s EXCEPT !.cl.shaking = FALSE] = d OBVIOUS
<1> HIDE DEF q
<1>11. /\ cl \in ClientRecords /\ cl.lock = clients[c].lock /\ cl.queue = q
    BY <1>3, <1>7 DEF ClientRecords
<1>12. cl = [clients[c] EXCEPT !.queue = q, !.lock = cl.lock] BY <1>3, <1>11 DEF ClientRecords
<1> HIDE DEF cl
<1>13. /\ Runs(s, t, c, panel.issued) /\ s.cl = cl
       /\ IF tasks[t].at \in InHandshake THEN Indoors(s, t, c) ELSE Outdoors(s, t, c)
    BY <1>1, <1>7, <1>11, <1>12, LeaverRuns
<1> HIDE DEF s
<1>14. "failed" \in Results BY DEF Results
<1>15. ASSUME NEW r, Rests(r, t, c, panel.issued), Become(r) PROVE SessionInv'
    BY <1>1, <1>2, <1>3, <1>15, BecomeKeeps, Surroundings DEF Quiet
<1>16. CASE tasks[t].at \notin InHandshake
    <2>1. Rests(Ended(s, "failed"), t, c, panel.issued) BY <1>2, <1>3, <1>13, <1>14, <1>16, EndedRests
    <2> QED BY <1>9, <1>15, <1>16, <2>1
<1>17. CASE tasks[t].at \in InHandshake
    <2>1. /\ down \in ClientRecords /\ down.shaking = FALSE /\ down.token = cl.token /\ down.http = cl.http
          /\ down.header = cl.header /\ down.queue = cl.queue /\ down.lock = cl.lock
          /\ down.open = cl.open /\ down.closing = cl.closing
        BY <1>11 DEF ClientRecords
    <2> HIDE DEF down
    <2>2. HeaderCarriesToken(down, panel.issued) BY <1>13, <2>1 DEF Runs, HeaderCarriesToken
    <2>3. down.lock \in {Unheld, t} \cup OthersShaking(t, c) BY <1>13, <2>1 DEF Runs
    <2>4. Runs(d, t, c, panel.issued) /\ d.cl = down BY <1>2, <1>3, <1>13, <2>1, <2>2, <2>3, ClientChanges
    <2>5. Outdoors(d, t, c) BY <1>13, <1>17, <2>1, <2>4 DEF Outdoors, Indoors
    <2> HIDE DEF d
    <2>6. Rests(Ended(d, "failed"), t, c, panel.issued) BY <1>2, <1>3, <1>14, <2>4, <2>5, EndedRests
    <2> QED BY <1>9, <1>10, <1>15, <1>17, <2>6
<1> QED BY <1>16, <1>17

(* What happens to a client between the steps of its tasks.                     *)
LEMMA OutsideKeeps ==
    ASSUME SessionInv, NEW c \in Clients, NEW cl \in ClientRecords, clients' = [clients EXCEPT ![c] = cl],
           UNCHANGED <<tasks, panel>>, HeaderCarriesToken(cl, panel.issued),
           cl.http = clients[c].http, cl.header = clients[c].header, cl.queue = clients[c].queue,
           cl.lock = clients[c].lock, cl.shaking = clients[c].shaking,
           pool' \in Clients \cup {NoClient}, paused' \in BOOLEAN, events' \in 0 .. MaxEvents
    PROVE  SessionInv'
<1>1. /\ tasks \in [Tasks -> TaskRecords] /\ clients \in [Clients -> ClientRecords] /\ panel.issued \in Nat
    BY DEF SessionInv, ClientTypeOK, TaskRecords, ClientRecords, Stages
<1>2. clients' \in [Clients -> ClientRecords] /\ tasks' = tasks /\ panel' = panel BY <1>1
<1>3. clients'[c] = cl /\ \A d \in Clients \ {c} : clients'[d] = clients[d] BY <1>1
<1>4. ClientTypeOK' BY <1>1, <1>2, Surroundings DEF ClientTypeOK, TaskRecords, ClientRecords, Stages, Panels
<1>5. \A d \in Clients : /\ clients'[d].http = clients[d].http /\ clients'[d].header = clients[d].header
                         /\ clients'[d].queue = clients[d].queue /\ clients'[d].lock = clients[d].lock
                         /\ clients'[d].shaking = clients[d].shaking
    BY <1>3
<1>6. TasksRemember'
    BY <1>2, <1>5 DEF SessionInv, TasksRemember, Remembers
<1>7. HeadersCarryTokens' BY <1>2, <1>3 DEF SessionInv, HeadersCarryTokens
<1>8. \A d \in Clients : Shaking(d)' = Shaking(d) BY <1>2 DEF Shaking
<1>9. GuardIsOne' BY <1>5, <1>8 DEF SessionInv, GuardIsOne
<1>10. HolderShakes' BY <1>5, <1>8 DEF SessionInv, HolderShakes, Unheld
<1>11. QueueOfWaiters' BY <1>2, <1>5 DEF SessionInv, QueueOfWaiters, Queued, Waiting
<1> QED BY <1>4, <1>6, <1>7, <1>9, <1>10, <1>11 DEF SessionInv

(* What the panel and the pool do.                                             *)
LEMMA EventsKeep ==
    ASSUME SessionInv, ClientAssumption, Outside PROVE SessionInv'
<1>1. /\ clients \in [Clients -> ClientRecords] /\ events \in 0 .. MaxEvents /\ MaxEvents \in Nat
      /\ pool \in Clients \cup {NoClient} /\ paused \in BOOLEAN
    BY DEF SessionInv, ClientTypeOK, ClientRecords, ClientAssumption
<1>2. events < MaxEvents => events + 1 \in 0 .. MaxEvents BY <1>1
<1>3. \A c \in Clients : HeaderCarriesToken(clients[c], panel.issued) BY DEF SessionInv, HeadersCarryTokens
<1>4. \A c \in Clients : clients[c] \in ClientRecords BY <1>1
<1>5. ASSUME NEW c \in Clients, NEW closing \in BOOLEAN
      PROVE  LET cl == [Invalidated(clients[c]) EXCEPT !.closing = closing] IN
             /\ cl \in ClientRecords /\ HeaderCarriesToken(cl, panel.issued)
             /\ cl.http = clients[c].http /\ cl.header = clients[c].header /\ cl.queue = clients[c].queue
             /\ cl.lock = clients[c].lock /\ cl.shaking = clients[c].shaking
    <2> DEFINE cl == [Invalidated(clients[c]) EXCEPT !.closing = closing]
    <2>1. NoToken \in Nat BY DEF NoToken
    <2>2. /\ cl \in ClientRecords /\ cl.token = NoToken /\ cl.http = clients[c].http
          /\ cl.header = clients[c].header /\ cl.queue = clients[c].queue
          /\ cl.lock = clients[c].lock /\ cl.shaking = clients[c].shaking
        BY <1>4, <2>1 DEF Invalidated, ClientRecords
    <2> HIDE DEF cl
    <2>3. HeaderCarriesToken(cl, panel.issued) BY <1>3, <2>2 DEF HeaderCarriesToken
    <2> QED BY <2>2, <2>3 DEF cl
<1>6. CASE Drop
    <2>1. pool \in Clients BY <1>1, <1>6 DEF Drop
    <2>2. clients[pool].open \in BOOLEAN BY <1>4, <2>1 DEF ClientRecords
    <2> DEFINE cl == [Invalidated(clients[pool]) EXCEPT !.closing = clients[pool].open]
    <2>3. clients' = [clients EXCEPT ![pool] = cl] BY <1>6 DEF Drop
    <2>4. pool' = NoClient /\ UNCHANGED <<tasks, panel, paused, events>> BY <1>6 DEF Drop
    <2> QED BY <1>1, <1>5, <2>1, <2>2, <2>3, <2>4, OutsideKeeps
<1>7. ASSUME NEW c \in Clients, Closed(c) PROVE SessionInv'
    <2> DEFINE cl == [clients[c] EXCEPT !.closing = FALSE, !.open = FALSE]
    <2>1. clients[c].closing /\ UNCHANGED <<pool, tasks, panel, paused, events>> BY <1>7 DEF Closed
    <2>2. clients' = [clients EXCEPT ![c] = cl]
        <3>1. clients' = [clients EXCEPT ![c].closing = FALSE, ![c].open = FALSE] BY <1>7 DEF Closed
        <3> QED BY <1>1, <3>1
    <2>3. /\ cl \in ClientRecords /\ cl.token = clients[c].token /\ cl.http = clients[c].http
          /\ cl.header = clients[c].header /\ cl.queue = clients[c].queue
          /\ cl.lock = clients[c].lock /\ cl.shaking = clients[c].shaking
        BY <1>4 DEF ClientRecords
    <2> HIDE DEF cl
    <2>4. HeaderCarriesToken(cl, panel.issued) BY <1>3, <2>1, <2>3 DEF HeaderCarriesToken
    <2> QED BY <1>1, <2>1, <2>2, <2>3, <2>4, OutsideKeeps
<1>8. CASE Invalidate
    <2>1. pool \in Clients BY <1>1, <1>8 DEF Invalidate
    <2> DEFINE cl == [Invalidated(clients[pool]) EXCEPT !.closing = clients[pool].closing]
    <2>2. clients[pool].closing \in BOOLEAN BY <1>4, <2>1 DEF ClientRecords
    <2>3. clients' = [clients EXCEPT ![pool] = cl]
        <3>1. Invalidated(clients[pool]) = cl BY <1>4, <2>1 DEF Invalidated, ClientRecords
        <3> QED BY <1>8, <3>1 DEF Invalidate
    <2>4. UNCHANGED <<pool, tasks, panel, paused>> /\ events' \in 0 .. MaxEvents
        BY <1>2, <1>8 DEF Invalidate, Happens
    <2> QED BY <1>1, <1>5, <2>1, <2>2, <2>3, <2>4, OutsideKeeps
<1>9. CASE TokenAges
    <2>1. PICK c \in Clients : clients' = [clients EXCEPT ![c].aged = TRUE] BY <1>9 DEF TokenAges
    <2> DEFINE cl == [clients[c] EXCEPT !.aged = TRUE]
    <2>2. /\ cl \in ClientRecords /\ cl.token = clients[c].token /\ cl.http = clients[c].http
          /\ cl.header = clients[c].header /\ cl.queue = clients[c].queue /\ cl.open = clients[c].open
          /\ cl.lock = clients[c].lock /\ cl.shaking = clients[c].shaking /\ cl.closing = clients[c].closing
        BY <1>4 DEF ClientRecords
    <2>3. clients' = [clients EXCEPT ![c] = cl] BY <1>1, <2>1
    <2> HIDE DEF cl
    <2>4. HeaderCarriesToken(cl, panel.issued) BY <1>3, <2>2 DEF HeaderCarriesToken
    <2>5. UNCHANGED <<pool, tasks, panel, paused>> /\ events' \in 0 .. MaxEvents
        BY <1>2, <1>9 DEF TokenAges, Happens
    <2> QED BY <1>1, <2>2, <2>3, <2>4, <2>5, OutsideKeeps
<1>10. ASSUME UNCHANGED <<pool, clients, tasks>>, panel' \in Panels, panel'.issued = panel.issued,
              panel'.valid \subseteq 1 .. panel.issued, paused' \in BOOLEAN, events' \in 0 .. MaxEvents
       PROVE  SessionInv'
    <2>1. ClientTypeOK' BY <1>10, Surroundings DEF SessionInv, ClientTypeOK, Panels
    <2>2. TasksRemember' /\ HeadersCarryTokens' BY <1>10 DEF SessionInv, TasksRemember, HeadersCarryTokens
    <2>3. \A d \in Clients : Shaking(d)' = Shaking(d) BY <1>10 DEF Shaking
    <2>4. GuardIsOne' /\ HolderShakes' BY <1>10, <2>3 DEF SessionInv, GuardIsOne, HolderShakes, Unheld
    <2>5. QueueOfWaiters' BY <1>10 DEF SessionInv, QueueOfWaiters, Queued, Waiting
    <2> QED BY <2>1, <2>2, <2>4, <2>5 DEF SessionInv
<1>11. CASE PanelForgets
    <2>1. panel' = [panel EXCEPT !.valid = {}] /\ UNCHANGED <<pool, clients, tasks, paused>>
          /\ events' \in 0 .. MaxEvents
        BY <1>2, <1>11 DEF PanelForgets, Happens
    <2>2. panel' \in Panels /\ panel'.issued = panel.issued /\ panel'.valid \subseteq 1 .. panel.issued
        BY <2>1, Surroundings DEF Panels
    <2> QED BY <1>1, <1>10, <2>1, <2>2
<1>12. CASE CooldownOver BY <1>1, <1>10, <1>12, Surroundings DEF CooldownOver
<1> QED BY <1>6, <1>7, <1>8, <1>9, <1>11, <1>12 DEF Outside


(* What a task does, or its cancellation.                                      *)
LEMMA TaskSteps ==
    ASSUME SessionInv, Unheld \notin Tasks, NEW t \in Tasks, TaskStep(t) \/ Cancel(t) PROVE SessionInv'
BY BeginKeeps, AcquireKeeps, AcquireProfileKeeps, IssueKeeps, NextShapeKeeps, NoBearerKeeps,
   ProfileAnsweredKeeps, AnsweredKeeps, RefusedKeeps, CancelKeeps DEF TaskStep

(* Every step keeps the invariant.                                             *)
LEMMA SessionStep ==
    ASSUME SessionInv, ClientAssumption, TaskAssumption, [ClientNext]_clientVars PROVE SessionInv'
<1>1. CASE Outside BY <1>1, EventsKeep
<1>2. ASSUME NEW t \in Tasks, TaskStep(t) \/ Cancel(t) PROVE SessionInv'
    BY <1>2, TaskSteps DEF TaskAssumption
<1>3. CASE UNCHANGED clientVars
    BY <1>3 DEF clientVars, SessionInv, ClientTypeOK, TasksRemember, HeadersCarryTokens, GuardIsOne, HolderShakes,
                QueueOfWaiters, Shaking, Queued, Waiting, Unheld
<1> QED BY <1>1, <1>2, <1>3 DEF ClientNext

(* It holds before any request.                                                *)
LEMMA SessionInit ==
    ASSUME ClientAssumption, TaskAssumption, ClientInit PROVE SessionInv
<1>1. NewClient \in ClientRecords
    <2>1. <<>> \in Seq(Tasks) OBVIOUS
    <2> QED BY <2>1 DEF NewClient, ClientRecords, NoToken
<1>2. /\ pool = NoClient /\ clients = [c \in Clients |-> NewClient] /\ tasks = [t \in Tasks |-> Task0]
      /\ panel = [issued |-> 0, valid |-> {}] /\ paused = FALSE /\ events = 0
    BY DEF ClientInit
<1>3. /\ tasks \in [Tasks -> TaskRecords] /\ clients \in [Clients -> ClientRecords]
    BY <1>1, <1>2, Task0Typed
<1>4. panel \in [issued : Nat, valid : SUBSET Nat] /\ panel.valid \subseteq 1 .. panel.issued BY <1>2
<1>5. events \in 0 .. MaxEvents BY <1>2 DEF ClientAssumption
<1>6. ClientTypeOK BY <1>2, <1>3, <1>4, <1>5 DEF ClientTypeOK, TaskRecords, ClientRecords, Stages
<1>7. /\ \A c \in Clients : /\ clients[c].queue = <<>> /\ clients[c].lock = Unheld /\ ~clients[c].shaking
                            /\ clients[c].header = 0 /\ clients[c].token = 0
      /\ \A t \in Tasks : tasks[t].at = "start"
    BY <1>2 DEF NewClient, Task0, NoToken
<1>8. TasksRemember BY <1>7 DEF TasksRemember
<1>9. HeadersCarryTokens BY <1>2, <1>7 DEF HeadersCarryTokens, HeaderCarriesToken, NoToken
<1>10. GuardIsOne /\ HolderShakes BY <1>7 DEF GuardIsOne, HolderShakes, Shaking
<1>11. QueueOfWaiters BY <1>7 DEF QueueOfWaiters, Queued, Waiting
<1> QED BY <1>6, <1>8, <1>9, <1>10, <1>11 DEF SessionInv
-----------------------------------------------------------------------------
(* The theorems                                                                 *)

(* SessionInv holds of every state of the specification.                       *)
LEMMA SessionInvariant == ClientAssumption /\ TaskAssumption => (ClientSpec => []SessionInv)
<1> SUFFICES ASSUME ClientAssumption, TaskAssumption PROVE ClientSpec => []SessionInv OBVIOUS
<1>1. ClientInit => SessionInv BY SessionInit
<1>2. SessionInv /\ [ClientNext]_clientVars => SessionInv' BY SessionStep
<1> QED BY <1>1, <1>2, PTL DEF ClientSpec

(* Clients and tasks keep their types.                                          *)
THEOREM SessionTypeCorrect == ClientAssumption /\ TaskAssumption => (ClientSpec => []ClientTypeOK)
<1>1. SessionInv => ClientTypeOK BY DEF SessionInv
<1> QED BY <1>1, SessionInvariant, PTL

(* One or none is counted as one or none.                                       *)
LEMMA CountOfOne ==
    ASSUME NEW S, \A x, y \in S : x = y PROVE Cardinality(S) = IF S = {} THEN 0 ELSE 1
<1>1. CASE S = {} BY <1>1, FS_EmptySet
<1>2. CASE S # {}
    <2>1. PICK x : S = {x} BY <1>2
    <2> QED BY <1>2, <2>1, FS_Singleton
<1> QED BY <1>1, <1>2

(* What SessionsHeal says is in the invariant, as counts.                      *)
LEMMA SessionInvHeals == SessionInv => SessionsHeal
<1> SUFFICES ASSUME SessionInv PROVE SessionsHeal OBVIOUS
<1>1. GuardAccounted
    <2> SUFFICES ASSUME NEW c \in Clients
                 PROVE  Cardinality(Shaking(c)) = (IF clients[c].shaking THEN 1 ELSE 0)
        BY DEF GuardAccounted
    <2>1. /\ clients[c].shaking <=> Shaking(c) # {}
          /\ \A x, y \in Shaking(c) : x = y
        BY DEF SessionInv, GuardIsOne
    <2>2. Cardinality(Shaking(c)) = IF Shaking(c) = {} THEN 0 ELSE 1 BY <2>1, CountOfOne
    <2> QED BY <2>1, <2>2
<1>2. LockAccounted
    <2> SUFFICES ASSUME NEW c \in Clients, NEW t \in Tasks
                 PROVE  Cardinality({k \in DOMAIN clients[c].queue : clients[c].queue[k] = t})
                        = (IF tasks[t].client = c /\ tasks[t].at \in {"lock", "plock"} THEN 1 ELSE 0)
        BY DEF LockAccounted, SessionInv, HolderShakes
    <2> DEFINE S == {k \in DOMAIN clients[c].queue : clients[c].queue[k] = t}
    <2>1. \A x, y \in S : x = y BY DEF SessionInv, QueueOfWaiters
    <2>2. S # {} <=> tasks[t].client = c /\ tasks[t].at \in {"lock", "plock"}
        BY DEF SessionInv, QueueOfWaiters, Queued, Waiting
    <2> HIDE DEF S
    <2>3. Cardinality(S) = IF S = {} THEN 0 ELSE 1 BY <2>1, CountOfOne
    <2> QED BY <2>2, <2>3 DEF S
<1>3. RetryIsFresh
    BY DEF SessionInv, TasksRemember, Remembers, RetryIsFresh
<1> QED BY <1>1, <1>2, <1>3 DEF SessionsHeal

(* However many tasks share a session, and wherever they fail, are cancelled,   *)
(* or find it dropped, it can be authenticated again.                           *)
THEOREM SessionsAlwaysHeal == ClientAssumption /\ TaskAssumption => (ClientSpec => []SessionsHeal)
BY SessionInvariant, SessionInvHeals, PTL
=============================================================================
