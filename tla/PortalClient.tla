---------------------------- MODULE PortalClient ----------------------------
(* One MAC of one portal: the pool that hands its session out (portal/pool.py) *)
(* and the tasks that share it (portal/client.py): the bearer, the lock that   *)
(* serialises its refresh, the handshake and its profile call, the one retry   *)
(* after a refusal, the pause after a 429, and sessions dropped under a task.  *)
(* Tasks run between awaits: a network answer, the lock, a closing connection. *)
EXTENDS Naturals, FiniteSets, SequencesExt

CONSTANTS Tasks,        \* each makes one request
          MaxClients,   \* bound: StalkerClient objects the pool makes
          MaxEvents,    \* bound: bearers revoked or aged, sessions invalidated
          FullIdentity  \* the portal's identity mode is MAG250

ClientAssumption == MaxClients \in Nat \ {0} /\ MaxEvents \in Nat /\ FullIdentity \in BOOLEAN

Unheld == "free"
TaskAssumption == Unheld \notin Tasks
NoToken == 0
NoClient == 0
Clients == 1 .. MaxClients

VARIABLES
    pool,     \* ClientPool._clients: the client of this key, or NoClient
    clients,  \* the StalkerClient objects
    tasks,    \* what each task is doing
    panel,    \* the bearers issued and accepted
    paused,   \* _rate_limit_until: the portal's host is paused
    events    \* bound

clientVars == <<pool, clients, tasks, panel, paused, events>>

(* http numbers the AsyncClient in use; open: _client is not None; closing: its*)
(* aclose() is awaited; header: the bearer in its headers.                     *)
NewClient == [made |-> FALSE, http |-> 0, open |-> FALSE, closing |-> FALSE, header |-> NoToken,
              token |-> NoToken, aged |-> FALSE, profiled |-> FALSE,
              lock |-> Unheld, queue |-> <<>>, shaking |-> FALSE]

(* at: start, lock (waiting for it), shake (a handshake stage  *)
(* is on the wire), profile (get_profile is), plock (get_profile waits for the *)
(* lock), ask (the request is), done.                                          *)
Task0 == [at |-> "start", client |-> NoClient, why |-> "refresh", stage |-> 0, http |-> 0,
          bearer |-> NoToken, refused |-> NoToken, retried |-> FALSE, result |-> "none"]

ClientInit ==
    /\ pool = NoClient /\ clients = [c \in Clients |-> NewClient]
    /\ tasks = [t \in Tasks |-> Task0]
    /\ panel = [issued |-> 0, valid |-> {}]
    /\ paused = FALSE /\ events = 0

TaskPlaces == {"start", "lock", "shake", "profile", "plock", "ask", "done"}
Results == {"none", "ok", "http_401", "failed"}    \* failed: any other code, or cancelled

ClientTypeOK ==
    /\ pool \in Clients \cup {NoClient}
    /\ clients \in [Clients -> [made : BOOLEAN, http : Nat, open : BOOLEAN, closing : BOOLEAN,
                                header : Nat, token : Nat, aged : BOOLEAN, profiled : BOOLEAN,
                                lock : Tasks \cup {Unheld}, queue : Seq(Tasks), shaking : BOOLEAN]]
    /\ tasks \in [Tasks -> [at : TaskPlaces, client : Clients \cup {NoClient},
                            why : {"refresh", "reauth", "direct"}, stage : 0 .. 3, http : Nat,
                            bearer : Nat, refused : Nat, retried : BOOLEAN, result : Results]]
    /\ panel \in [issued : Nat, valid : SUBSET Nat] /\ panel.valid \subseteq 1 .. panel.issued
    /\ paused \in BOOLEAN /\ events \in 0 .. MaxEvents

-----------------------------------------------------------------------------
(* The code between two awaits, as operators on s = [me, task, cl]: the task   *)
(* that runs and its client.                                                   *)

State(t) == [me |-> t, task |-> tasks[t], cl |-> clients[tasks[t].client]]
Become(s) ==
    /\ tasks' = [tasks EXCEPT ![s.me] = s.task]
    /\ clients' = [clients EXCEPT ![s.task.client] = s.cl]

Unusable(cl) == cl.token = NoToken \/ cl.aged

Released(s) == [s EXCEPT !.cl.lock = IF @ = s.me THEN Unheld ELSE @]
(* Mutant: an ending that forgets the lock.                                     *)
EndedHoldingLock(s, result) ==
    [s EXCEPT !.task = [Task0 EXCEPT !.at = "done", !.client = s.task.client, !.result = result]]
Ended(s, result) ==
    [Released(s) EXCEPT !.task = [Task0 EXCEPT !.at = "done", !.client = s.task.client,
                                               !.retried = s.task.retried, !.result = result]]

(* _http()                                                                     *)
Http(s) ==
    LET cl == IF s.cl.open THEN s.cl
              ELSE [s.cl EXCEPT !.open = TRUE, !.http = @ + 1, !.header = NoToken] IN
    [s EXCEPT !.cl = cl, !.task.http = cl.http]

Send(s) == [s EXCEPT !.task.at = "ask", !.task.stage = 0, !.task.bearer = s.cl.header]

(* handshake(), up to its first stage.                                         *)
Handshake(s0) ==
    LET s == Http(s0) IN
    IF paused THEN Ended(s0, "failed")
    ELSE IF s.cl.shaking THEN Ended(s, "failed")
    ELSE [s EXCEPT !.cl.shaking = TRUE, !.task.at = "shake", !.task.stage = 1, !.task.bearer = NoToken]

(* Mutant: a refused bearer is kept when it looks usable.                       *)
CriticalTrusting(s) == IF Unusable(s.cl) THEN Handshake(s) ELSE Send([Released(s) EXCEPT !.task.retried = TRUE])

(* The body of `async with self._lock`: the double check, or the reset.        *)
Critical(s) ==
    IF s.task.why = "refresh"
    THEN IF Unusable(s.cl) THEN Handshake(s) ELSE Send(Released(s))
    ELSE Handshake([s EXCEPT !.cl.token = NoToken])

TakeLock(s, place) ==
    IF s.cl.lock = Unheld /\ s.cl.queue = <<>>
    THEN Critical([s EXCEPT !.cl.lock = s.me])
    ELSE [s EXCEPT !.cl.queue = Append(@, s.me), !.task.at = place]

(* _get(), up to the request.                                                  *)
Gate(s) ==
    IF paused THEN Ended(s, "failed")
    ELSE LET h == Http(s) IN
         IF Unusable(h.cl) THEN TakeLock([h EXCEPT !.task.why = "refresh"], "lock") ELSE Send(h)

(* The handshake is over: what its caller goes on with.                        *)
Shaken(s0) ==
    LET s == Released([s0 EXCEPT !.cl.shaking = FALSE]) IN
    CASE s.task.why = "refresh" -> Send(s)
      [] s.task.why = "reauth" -> Gate([s EXCEPT !.task.retried = TRUE])
      [] OTHER -> Gate(s)

(* stb_profile(): a request of its own, inside the handshake, that may not     *)
(* re-authenticate.                                                            *)
Remembered(s) == [s EXCEPT !.cl.profiled = TRUE]

Profile(s, shape) ==
    LET h == Http(s) IN
    IF paused THEN Shaken(IF shape = 2 THEN Remembered(s) ELSE s)
    ELSE IF Unusable(h.cl)
    THEN [h EXCEPT !.cl.queue = Append(@, h.me), !.task.at = "plock", !.task.stage = shape]
    ELSE [h EXCEPT !.task.at = "profile", !.task.stage = shape, !.task.bearer = h.cl.header]

(* _handshake() has its token.                                                 *)
Token(s, token) ==
    LET c == [s EXCEPT !.cl.token = token, !.cl.aged = FALSE,
                       !.cl.header = IF s.task.http = s.cl.http THEN token ELSE @] IN
    IF c.cl.profiled THEN Shaken(c) ELSE Profile(c, 1)

(* Mutant: the guard is lowered on success only.                                *)
ShakeFailedGuarded(s) == Ended(s, "failed")
ShakeFailed(s) == Ended([s EXCEPT !.cl.shaking = FALSE], "failed")

Reached(s) == s.cl.open /\ ~s.cl.closing /\ s.task.http = s.cl.http

-----------------------------------------------------------------------------
(* Steps of a task.                                                            *)

Quiet == UNCHANGED <<pool, panel, paused, events>>

(* ClientPool.get(), then _get() or a handshake() of the caller's own.         *)
Begin(t, direct) ==
    /\ tasks[t].at = "start"
    /\ \E c \in Clients :
        /\ IF pool # NoClient THEN c = pool
           ELSE ~clients[c].made /\ \A d \in Clients : d < c => clients[d].made
        /\ pool' = c
        /\ LET s == [me |-> t, task |-> [Task0 EXCEPT !.client = c],
                     cl |-> [clients[c] EXCEPT !.made = TRUE]] IN
           Become(IF direct THEN Handshake([s EXCEPT !.task.why = "direct"]) ELSE Gate(s))
    /\ UNCHANGED <<panel, paused, events>>

MyTurn(cl, t) == cl.lock = Unheld /\ cl.queue # <<>> /\ Head(cl.queue) = t
Taken(s) == [s EXCEPT !.cl.lock = s.me, !.cl.queue = Tail(@)]

Acquire(t) ==
    /\ tasks[t].at = "lock" /\ MyTurn(State(t).cl, t)
    /\ Become(Critical(Taken(State(t))))
    /\ Quiet

(* Inside a handshake the nested handshake() refuses itself.                   *)
AcquireProfile(t) ==
    /\ tasks[t].at = "plock" /\ MyTurn(State(t).cl, t)
    /\ LET s == Taken(State(t)) IN
       Become(IF Unusable(s.cl) THEN Shaken(Remembered(Released(s)))
              ELSE [Released(s) EXCEPT !.task.at = "profile", !.task.bearer = s.cl.header])
    /\ Quiet

(* An answer to a handshake stage. The panel may forget the older bearers.     *)
Issue(t) ==
    /\ tasks[t].at = "shake" /\ Reached(State(t))
    /\ \E keep \in BOOLEAN :
        panel' = [issued |-> panel.issued + 1,
                  valid |-> {panel.issued + 1} \cup (IF keep THEN panel.valid ELSE {})]
    /\ Become(Token(State(t), panel.issued + 1))
    /\ UNCHANGED <<pool, paused, events>>

(* A stage without a token: the next shape is tried whatever the reason was;   *)
(* the third one only when the panel asks for it.                              *)
Limited(t) == paused' \in (IF Reached(State(t)) THEN {paused, TRUE} ELSE {paused})

(* Mutant: the shapes never run out.                                            *)
NextShapeAlways(t) ==
    /\ tasks[t].at = "shake" /\ Reached(State(t))
    /\ Become([State(t) EXCEPT !.task.stage = @ + 1])
    /\ UNCHANGED <<pool, panel, paused, events>>

NextShape(t) ==
    /\ tasks[t].at = "shake" /\ tasks[t].stage < 3
    /\ IF tasks[t].stage = 1 THEN Limited(t) ELSE Reached(State(t)) /\ UNCHANGED paused
    /\ Become([State(t) EXCEPT !.task.stage = @ + 1])
    /\ UNCHANGED <<pool, panel, events>>

NoBearer(t) ==
    /\ tasks[t].at = "shake" /\ tasks[t].stage > 1
    /\ Limited(t)
    /\ Become(ShakeFailed(State(t)))
    /\ UNCHANGED <<pool, panel, events>>

(* get_profile is answered, refused, or empty.                                 *)
ProfileAnswered(t) ==
    /\ tasks[t].at = "profile"
    /\ LET s == State(t) IN
       \/ Reached(s) /\ s.task.bearer \in panel.valid
          /\ Become(Shaken(Remembered(s))) /\ UNCHANGED paused
       \/ Become(Shaken(IF s.task.stage = 2 THEN Remembered(s) ELSE s))
          /\ Limited(t)
       \/ Reached(s) /\ FullIdentity /\ s.task.stage = 1
          /\ Become(Profile(s, 2)) /\ UNCHANGED paused
    /\ UNCHANGED <<pool, panel, events>>

(* The request is answered.                                                    *)
Answered(t) ==
    /\ tasks[t].at = "ask"
    /\ LET s == State(t) IN
       \/ Reached(s) /\ s.task.bearer \in panel.valid /\ Become(Ended(s, "ok")) /\ UNCHANGED paused
       \/ Reached(s) /\ Become(Ended(s, "failed")) /\ paused' = TRUE
       \/ Become(Ended(s, "failed")) /\ UNCHANGED paused    \* busy slot, other refusal, transport
    /\ UNCHANGED <<pool, panel, events>>

(* _may_reauth(): not a second time, and not while a handshake is running.     *)
MayReauth(s) == ~s.task.retried /\ ~s.cl.shaking

Refused(t) ==
    /\ tasks[t].at = "ask" /\ Reached(State(t)) /\ tasks[t].bearer \notin panel.valid
    /\ LET s == State(t) IN
       Become(IF MayReauth(s)
              THEN TakeLock([s EXCEPT !.task.why = "reauth", !.task.refused = s.task.bearer], "lock")
              ELSE Ended(s, "http_401"))
    /\ Quiet

(* The caller is cancelled at any await: the lock and the guard are given back.*)
Cancel(t) ==
    /\ tasks[t].at \in {"lock", "shake", "profile", "plock", "ask"}
    /\ LET s == State(t)
           left == [s EXCEPT !.cl.queue = RemoveFirst(@, t)]
       IN  Become(Ended(IF s.task.at \in {"shake", "profile", "plock"}
                        THEN [left EXCEPT !.cl.shaking = FALSE] ELSE left, "failed"))
    /\ Quiet

TaskStep(t) ==
    \/ (\E direct \in BOOLEAN : Begin(t, direct)) \/ Acquire(t) \/ AcquireProfile(t)
    \/ Issue(t) \/ NextShape(t) \/ NoBearer(t) \/ ProfileAnswered(t) \/ Answered(t) \/ Refused(t)

-----------------------------------------------------------------------------
(* The pool, other callers, the panel and time.                                *)

Invalidated(cl) == [cl EXCEPT !.token = NoToken, !.profiled = FALSE]

(* drop, drop_mac, drop_portal_url, reap, close_all: the session leaves the    *)
(* pool, forgets its bearer and starts closing its connection.                 *)
Drop ==
    /\ pool # NoClient
    /\ clients' = [clients EXCEPT ![pool] = [Invalidated(@) EXCEPT !.closing = clients[pool].open]]
    /\ pool' = NoClient
    /\ UNCHANGED <<tasks, panel, paused, events>>

Closed(c) ==
    /\ clients[c].closing
    /\ clients' = [clients EXCEPT ![c].closing = FALSE, ![c].open = FALSE]
    /\ UNCHANGED <<pool, tasks, panel, paused, events>>

Happens == events < MaxEvents /\ events' = events + 1

(* invalidate() of another play: the portal moved or its link failed.          *)
Invalidate ==
    /\ Happens /\ pool # NoClient
    /\ clients' = [clients EXCEPT ![pool] = Invalidated(@)]
    /\ UNCHANGED <<pool, tasks, panel, paused>>

TokenAges ==
    /\ Happens
    /\ \E c \in Clients : clients[c].token # NoToken /\ clients' = [clients EXCEPT ![c].aged = TRUE]
    /\ UNCHANGED <<pool, tasks, panel, paused>>

PanelForgets ==
    /\ Happens
    /\ panel' = [panel EXCEPT !.valid = {}]
    /\ UNCHANGED <<pool, clients, tasks, paused>>

CooldownOver == paused /\ paused' = FALSE /\ UNCHANGED <<pool, clients, tasks, panel, events>>

Outside == Drop \/ (\E c \in Clients : Closed(c)) \/ Invalidate \/ TokenAges \/ PanelForgets \/ CooldownOver

ClientNext == Outside \/ (\E t \in Tasks : TaskStep(t) \/ Cancel(t))

ClientSpec == ClientInit /\ [][ClientNext]_clientVars

-----------------------------------------------------------------------------
Shaking(c) == {t \in Tasks : tasks[t].client = c /\ tasks[t].at \in {"shake", "profile", "plock"}}

(* The handshake guard is up exactly while one task is in a handshake of that  *)
(* client, whether it came through the lock or calls handshake() itself, and   *)
(* however the handshake ends: a failure or a cancelled play does not leave a  *)
(* client that can never authenticate again.                                   *)
GuardAccounted ==
    \A c \in Clients : Cardinality(Shaking(c)) = (IF clients[c].shaking THEN 1 ELSE 0)

(* The refresh lock is held by a task of that client that is in a handshake -  *)
(* never by one that has failed, was cancelled or went on with its request -   *)
(* and those in the lock's queue still want it, each once.                     *)
LockAccounted ==
    \A c \in Clients :
        /\ clients[c].lock # Unheld => clients[c].lock \in Shaking(c)
        /\ \A t \in Tasks :
              Cardinality({k \in DOMAIN clients[c].queue : clients[c].queue[k] = t})
              = (IF tasks[t].client = c /\ tasks[t].at \in {"lock", "plock"} THEN 1 ELSE 0)

(* A handshake does not wait for the lock its own task holds: that wait ends   *)
(* only by cancelling the task, with every other task queued behind it.        *)
NoSelfWait == \A c \in Clients, t \in Tasks : clients[c].lock = t => tasks[t].at # "plock"

(* The one retry of a request does not go out with the bearer the panel has    *)
(* just refused.                                                               *)
RetryIsFresh ==
    \A t \in Tasks : tasks[t].at = "ask" /\ tasks[t].retried => tasks[t].bearer # tasks[t].refused

(* However a handshake ends - answered, failed, cancelled with its play - the  *)
(* client can authenticate again, and a refused request is retried in earnest. *)
SessionsHeal == GuardAccounted /\ LockAccounted /\ RetryIsFresh
=============================================================================
