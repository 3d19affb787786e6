---------------------------- MODULE MacOccupancy ----------------------------
(***************************************************************************)
(* The occupancy ledger of StreamManager (app/services/stream_manager.py): *)
(* which play holds a pipe slot on which MAC, and which user holds the     *)
(* time-bounded lease a redirect leaves behind.  Every play reads and      *)
(* writes it between two awaits, so each operator here is one synchronous  *)
(* method, and returns the new value of the variable it changes.           *)
(***************************************************************************)
EXTENDS Naturals, FiniteSets

CONSTANTS
    Macs,       \* MAC addresses, the panel's unit of concurrency
    Plays,      \* play requests; a stream id is the play that created it
    Users,      \* named users
    Anon,       \* a caller without a user name
    Free,       \* no redirect lease
    UserOf,     \* [Plays -> Users \cup {Anon}]
    Limit       \* [Macs -> 1..], the portal's streams_per_mac

ASSUME UserAssumption == /\ Anon \notin Users
                         /\ Free \notin Users \cup {Anon}
                         /\ UserOf \in [Plays -> Users \cup {Anon}]
ASSUME LimitAssumption == Limit \in [Macs -> Nat \ {0}]

VARIABLES
    macLocks,   \* mac_locks: [Macs -> SUBSET Plays]
    lease       \* redirect_leases with the holder of lease_meta

occupancyVars == <<macLocks, lease>>

OccupancyTypeOK ==
    /\ macLocks \in [Macs -> SUBSET Plays]
    /\ lease \in [Macs -> Users \cup {Anon, Free}]

OccupancyInit ==
    /\ macLocks = [m \in Macs |-> {}]
    /\ lease = [m \in Macs |-> Free]
-----------------------------------------------------------------------------
\* Mutant of LockMac: one holder per MAC, a second one evicts the first.
LockMacEvicts(m, h) == [macLocks EXCEPT ![m] = {h}]

LockMac(m, h) == [macLocks EXCEPT ![m] = @ \cup {h}]

UnlockMac(m, h) == [macLocks EXCEPT ![m] = @ \ {h}]

DropLocksOf(h) == [m \in Macs |-> macLocks[m] \ {h}]

\* The MACs a stream holds a slot on.
HeldBy(h) == {m \in Macs : h \in macLocks[m]}

\* is_mac_busy: hard pipe slots first, then a lease of somebody else.  Only the
\* user who holds a lease may take it over, and an anonymous one is nobody's.
IsMacBusy(m, user) ==
    \/ Cardinality(macLocks[m]) >= Limit[m]
    \/ lease[m] # Free /\ (user = Anon \/ lease[m] # user)

\* busy_mac_ids: what health probes and playlist checks must leave alone.
BusyMacIds == {m \in Macs : macLocks[m] # {} \/ lease[m] # Free}
=============================================================================
