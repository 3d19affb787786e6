----------------------------- MODULE MacHealth -----------------------------
(***************************************************************************)
(* What is known about the MACs of one portal, and who writes it: the       *)
(* health sweep (services/mac_health.py), the operator's portal test and    *)
(* editor (routers/api_portals.py) and the login of a fetch job             *)
(* (services/fetch_jobs.py).  Sweep and test read the rows, ask the panel   *)
(* MAC by MAC, and store the columns they changed in one commit at the end. *)
(* The ledger of MacOccupancy tells the sweep which MACs to leave alone.    *)
(***************************************************************************)
EXTENDS MacOccupancy, Selection

CONSTANTS
    Order,       \* Seq(Macs): MacAddress.order
    Checkers,    \* sweeps and portal tests
    IsSweep,     \* [Checkers -> BOOLEAN]
    NoMac,       \* no MAC
    MaxChecks    \* bound: how often each checker runs

HealthAssumption ==
    /\ Order \in Seq(Macs) /\ NoMac \notin Macs
    /\ IsSweep \in [Checkers -> BOOLEAN] /\ MaxChecks \in Nat

VARIABLES
    row,     \* the MacAddress rows
    said,    \* history: how the panel has disowned a MAC
    check,   \* per checker: the session and the locals of its loop
    login    \* the MAC a fetch job has chosen, or NoMac

healthVars == <<row, said, check, login, occupancyVars>>

\* account_verdict's outcomes, mac_status's name for them, and the ones that take a
\* MAC out of every chain (mac_is_usable).
Verdicts == {"active", "expired", "banned", "no_token"}
StatusOf(verdict) == CASE verdict = "active" -> "online" [] verdict = "no_token" -> "unauthorized"
                       [] OTHER -> verdict
Disowned == {"banned", "expired"}

Statuses == {"unknown", "online", "offline", "unauthorized", "error"} \cup Disowned
Rows == [life : {"unborn", "there", "removed"},
         status : Statuses, online : BOOLEAN]

There == {m \in Macs : row[m].life = "there"}
Usable(m) == m \in There /\ row[m].status \notin Disowned

NotRead == [m \in Macs |-> [life |-> "unborn", status |-> "unknown", online |-> FALSE]]
NoCheck(runs) == [at |-> "idle", todo |-> <<>>, busy |-> {}, old |-> NotRead, new |-> NotRead,
               touched |-> {}, runs |-> runs]

HealthTypeOK ==
    /\ OccupancyTypeOK
    /\ row \in [Macs -> Rows]
    /\ login \in Macs \cup {NoMac}
    /\ said \in [Macs -> SUBSET Disowned]
    /\ \A c \in Checkers : /\ {check[c].old, check[c].new} \subseteq [Macs -> Rows]
                           /\ check[c].touched \cup check[c].busy \subseteq Macs

HealthInit ==
    /\ OccupancyInit
    /\ row \in [Macs -> {[life |-> life, status |-> "unknown", online |-> FALSE] :
                            life \in {"unborn", "there"}}]
    /\ said = [m \in Macs |-> {}]
    /\ check = [c \in Checkers |-> NoCheck(0)]
    /\ login = NoMac
-----------------------------------------------------------------------------
\* refresh_portal_macs and test_portal: the rows of the portal, in their order, and
\* for a sweep the MACs that are busy now.
BeginCheck(c) ==
    /\ check[c].at = "idle" /\ check[c].runs < MaxChecks /\ There # {}
    /\ \E skipBusy \in {IsSweep[c], FALSE} :
          check' = [check EXCEPT ![c] =
                      [at |-> "next", todo |-> Only(Order, There), busy |-> IF skipBusy THEN BusyMacIds ELSE {},
                       old |-> row, new |-> row, touched |-> {}, runs |-> @.runs + 1]]
    /\ UNCHANGED <<row, said, login, occupancyVars>>

\* The portal's address does not resolve: every MAC is called offline.
Unresolved(c) ==
    LET listed == {check[c].todo[i] : i \in DOMAIN check[c].todo} IN
    /\ check[c].at = "next" /\ check[c].touched = {} /\ listed # {}
    /\ check' = [check EXCEPT ![c].at = "commit", ![c].touched = listed, ![c].todo = <<>>,
                    ![c].new = [m \in Macs |-> IF m \notin listed THEN @[m]
                                ELSE [@[m] EXCEPT !.status = "offline", !.online = FALSE]]]
    /\ UNCHANGED <<row, said, login, occupancyVars>>

Skip(c) ==
    /\ check[c].at = "next" /\ check[c].todo # <<>> /\ Head(check[c].todo) \in check[c].busy
    /\ check' = [check EXCEPT ![c].todo = Tail(@)]
    /\ UNCHANGED <<row, said, login, occupancyVars>>

\* The handshake goes out (a play of this portal is given a head start first), and the
\* answer is waited for.
Ask(c) ==
    /\ check[c].at = "next" /\ check[c].todo # <<>> /\ Head(check[c].todo) \notin check[c].busy
    /\ check' = [check EXCEPT ![c].at = "asking", ![c].touched = @ \cup {Head(check[c].todo)}]
    /\ UNCHANGED <<row, said, login, occupancyVars>>

\* The MAC's row in the session of check c becomes r, and the loop goes on.
Noted(c, r) ==
    check' = [check EXCEPT ![c].at = "next", ![c].todo = Tail(@),
                           ![c].new[Head(check[c].todo)] = r]

Said(m, verdict) == said' = [said EXCEPT ![m] = @ \cup ({verdict} \cap Disowned)]

\* mac_status and the columns it comes with.
Judged(r, verdict) ==
    [r EXCEPT !.status = StatusOf(verdict), !.online = (verdict = "active")]

CheckAnswered(c) ==
    /\ check[c].at = "asking"
    /\ \E verdict \in Verdicts :
          LET m == Head(check[c].todo) IN
          Noted(c, Judged(check[c].new[m], verdict)) /\ Said(m, verdict)
    /\ UNCHANGED <<row, login, occupancyVars>>

FailedAs(r, status) == [r EXCEPT !.status = status, !.online = FALSE]

\* Mutant of StatusForError: a refused login takes the MAC out of the chains.
StatusForErrorStrict(error) ==
    CASE error = "refused" -> "banned" [] error = "transport" -> "offline" [] OTHER -> "error"

\* status_for_error: what a PortalError says about the MAC.
StatusForError(error) ==
    CASE error = "refused" -> "unauthorized" [] error = "transport" -> "offline" [] OTHER -> "error"

\* A PortalError, a time-out, or anything else.  A pause of the whole portal says
\* nothing about the MAC, to a sweep.
CheckFailed(c) ==
    LET m == Head(check[c].todo)
        r == check[c].new[m] IN
    /\ check[c].at = "asking"
    /\ \/ \E error \in {"refused", "transport", "other"} : Noted(c, FailedAs(r, StatusForError(error)))
       \/ Noted(c, IF IsSweep[c] THEN r ELSE FailedAs(r, StatusForError("paused")))
    /\ UNCHANGED <<row, said, login, occupancyVars>>

\* What a test does not expect ends it: nothing is stored.
Breaks(c) ==
    /\ check[c].at = "asking" /\ ~IsSweep[c]
    /\ check' = [check EXCEPT ![c] = NoCheck(@.runs)]
    /\ UNCHANGED <<row, said, login, occupancyVars>>

\* An UPDATE names the columns that differ from what the session had read.
Updated(c, m) ==
    LET old == check[c].old[m]
        new == check[c].new[m] IN
    [row[m] EXCEPT !.status = IF new.status = old.status THEN @ ELSE new.status,
                   !.online = IF new.online = old.online THEN @ ELSE new.online]

\* The one commit.  Every MAC touched has a new last_checked; if the row of one of
\* them is gone, the flush fails and nothing at all is stored.
Commit(c) ==
    /\ check[c].at = "commit" \/ (check[c].at = "next" /\ check[c].todo = <<>>)
    /\ row' = IF check[c].touched \subseteq There
              THEN [m \in Macs |-> Updated(c, m)] ELSE row
    /\ check' = [check EXCEPT ![c] = NoCheck(@.runs)]
    /\ UNCHANGED <<said, login, occupancyVars>>

\* _open_client: the first MAC that is not disowned, or else the first; its verdict
\* is stored at once, over a row read again.
LoginPicks ==
    LET listed == Only(Order, There)
        usable == Only(listed, {m \in Macs : Usable(m)}) IN
    /\ login = NoMac /\ listed # <<>>
    /\ login' = IF usable # <<>> THEN Head(usable) ELSE Head(listed)
    /\ UNCHANGED <<row, said, check, occupancyVars>>

LoginAnswered ==
    /\ login # NoMac
    /\ \E verdict \in Verdicts :
          /\ Said(login, verdict)
          /\ row' = IF login \notin There THEN row
                    ELSE [row EXCEPT ![login] = Judged(@, verdict)]
    /\ login' = NoMac
    /\ UNCHANGED <<check, occupancyVars>>

LoginFails ==
    /\ login # NoMac /\ login' = NoMac
    /\ UNCHANGED <<row, said, check, occupancyVars>>

\* update_portal adds a MAC, or takes one away with what the ledger holds of it.
AddMac(m) ==
    /\ row[m].life = "unborn"
    /\ row' = [row EXCEPT ![m].life = "there"]
    /\ UNCHANGED <<said, check, login, occupancyVars>>

RemoveMac(m) ==
    /\ m \in There
    /\ row' = [row EXCEPT ![m].life = "removed"]
    /\ macLocks' = [macLocks EXCEPT ![m] = {}]
    /\ lease' = [lease EXCEPT ![m] = Free]
    /\ UNCHANGED <<said, check, login>>

\* Plays come and go on the ledger.
PlayStarts(p, m) ==
    /\ HeldBy(p) = {} /\ Usable(m) /\ ~IsMacBusy(m, UserOf[p])
    /\ macLocks' = LockMac(m, p)
    /\ UNCHANGED <<row, said, check, login, lease>>

PlayEnds(p) ==
    /\ HeldBy(p) # {}
    /\ macLocks' = DropLocksOf(p)
    /\ UNCHANGED <<row, said, check, login, lease>>

CheckStep(c) ==
    BeginCheck(c) \/ Unresolved(c) \/ Skip(c) \/ Ask(c) \/ CheckAnswered(c) \/ CheckFailed(c) \/ Breaks(c) \/ Commit(c)

HealthNext ==
    \/ \E c \in Checkers : CheckStep(c)
    \/ LoginPicks \/ LoginAnswered \/ LoginFails
    \/ \E m \in Macs : AddMac(m) \/ RemoveMac(m) \/ \E p \in Plays : PlayStarts(p, m)
    \/ \E p \in Plays : PlayEnds(p)

HealthSpec == HealthInit /\ [][HealthNext]_healthVars
-----------------------------------------------------------------------------
(* Properties *)

\* Only the panel takes a MAC out of the chains: one stored as banned or expired was
\* called that by an account answer, whatever errors, time-outs and stale commits
\* were written before and after (portal/account.py, UNUSABLE_MAC_STATUSES).
DisownedByPanel ==
    \A m \in Macs : row[m].status \in Disowned => row[m].status \in said[m]
=============================================================================
