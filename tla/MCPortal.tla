------------------------------ MODULE MCPortal ------------------------------
(* What a portal and its MACs go through, one scene at a time: redirected      *)
(* plays, the session of a MAC, the upkeep of the MACs, the comparison of what *)
(* they may see, stored links and the forms of a cmd.  A scene moves its own   *)
(* variables only; outside their scenes all of them rest.                      *)
EXTENDS Redirects, MacHealth, PortalClient, MacCompare, PlayedLinks, TLC

CONSTANTS q1, q2, q3, p1, m1, m2, t1, t2, t3, ann, bob, news, radio, s1, s2, vega
CONSTANTS g1, g2, c1, c2, sport, film, bbc, cnn

VARIABLE scene

ofHealth == <<row, said, check, login>>
ofRedirects == <<walk, usable, cooling, registered, release, memory>>
everything == <<scene, clientVars, ofHealth, ofRedirects, occupancyVars, compareVars, linkVars, formVars>>
-----------------------------------------------------------------------------
\* One request zaps alone on a route of two sources; two ask for a route of one.
Asking == [r \in Requests |-> IF r = q3 THEN bob ELSE ann]
Wanted == [r \in Requests |-> IF r = q1 THEN news ELSE radio]
OneOrTwoRows == (news :> <<s1, s2>>) @@ (radio :> <<s1>>)
PlaysOfBob == [p \in Plays |-> bob]
OnePortal == [s \in Sources |-> vega]
BothMacs == vega :> <<m1, m2>>
Single == [m \in Macs |-> 1]
BothInOrder == <<m1, m2>>
Turns == <<t1, t2, t3>>
OnlySweep == [c \in Checkers |-> c = "sweep"]
Named(i, n) == [id |-> i, name |-> n]
Channel(i, n, c) == [id |-> i, name |-> n, genre |-> g1, cmd |-> c]
\* The usual numbering, another one, one with another cmd only, and one without its cmd.
SomeLineups == {{l, Channel(c2, cnn, c2)} : l \in {Channel(c1, bbc, c1), Channel(g1, bbc, g1),
                                                  Channel(c1, bbc, g1), Channel(g1, bbc, Blank)}}

Zapping == INSTANCE Redirects WITH Requests <- {q1}, Plays <- {}, UserOf <- <<>>, Backoff <- 0,
                                    Lapsing <- {"hot"}
TwoAtOnce == INSTANCE Redirects WITH Requests <- {q2, q3}, Plays <- {}, UserOf <- <<>>, Attempts <- 1,
                                     Zaps <- 1, Lapsing <- {"hot", "strikes"}
BesidePipe == INSTANCE Redirects WITH Requests <- {q2}, Zaps <- 1,
                                      Lapsing <- {"success", "failed", "links"}

ASSUME /\ RedirectAssumption /\ BreakerAssumption
       /\ Zapping!UserAssumption /\ TwoAtOnce!UserAssumption
       /\ Zapping!RedirectAssumption /\ TwoAtOnce!RedirectAssumption /\ BesidePipe!RedirectAssumption
ASSUME ClientAssumption /\ TaskAssumption
ASSUME HealthAssumption
-----------------------------------------------------------------------------
RedirectsRest == MemoryInit /\ walk = [r \in Requests |-> Idle] /\ usable = {}
                 /\ cooling = {} /\ registered = {} /\ release = NoRelease
HealthRests == /\ row = [m \in Macs |-> [life |-> "unborn", status |-> "unknown", online |-> FALSE]]
               /\ said = [m \in Macs |-> {}] /\ check = [c \in Checkers |-> NoCheck(0)] /\ login = NoMac

\* The operator has two sources.
TwoSources == [t \in LiveRows |-> IF t = s1 THEN [id |-> c1, name |-> bbc, cmd |-> c1]
                                 ELSE [id |-> c2, name |-> cnn, cmd |-> c2]]

\* One MAC is given a list of each kind; the other the same, another one, one that repeats
\* a key, one of names only, or no series of its own.
Offer(live, series) == [live |-> live, vod |-> {Named(g1, film)}, series |-> series]
Usual == Offer({Named(g1, sport)}, {Named(g2, film)})
Offers == {Usual, Offer({Named(g1, film), Named(g2, sport)}, {Named(g2, film)}),
           Offer({Named(g1, sport), Named(g1, film)}, {Named(g2, film)}),
           Offer({Named(NoId, sport)}, {}), Offer({Named(g1, sport)}, {})}

GenresDiffer ==
    /\ lineup = [m \in PortalMacs |-> {}] /\ source = TwoSources
    /\ offers \in {[m \in PortalMacs |-> IF m = m1 THEN Usual ELSE o] : o \in Offers}
    /\ CompareInit

ChannelsDiffer ==
    /\ lineup = [m \in PortalMacs |-> {Channel(c1, bbc, c1), Channel(c2, cnn, c2)}] /\ source = TwoSources
    /\ offers = [m \in PortalMacs |-> [live |-> {Named(g1, sport)} \cup
                                               (IF m = m1 THEN {} ELSE {Named(g2, film)}),
                                     vod |-> {}, series |-> {}]]
    /\ CompareInit

\* What rests elsewhere, Empty where no property reads it: nothing has been compared,
\* probed or remembered.
Empty == <<>>
ComparesRest == /\ offers = [m \in PortalMacs |-> [k \in Kinds |-> {}]] /\ report = NoReport
              /\ counts = [m \in PortalMacs |-> [k \in Kinds |-> Unknown]]
              /\ lineup = Empty /\ there = {} /\ genre = Empty /\ source = Empty /\ translation = Empty
LinksRest == /\ channel = Empty /\ force = Empty /\ credit = FALSE /\ zap = NoZap
             /\ learned = [m \in LinkMacs |-> Never] /\ cache = [u \in LinkUrls |-> Never]
             /\ proved = [v \in {"alive", "dead"} |-> {}]
FormsRest == archive = Empty /\ mediaCmd = [f \in Films |-> NoCmd] /\ repair = NoCmd /\ play = Empty

\* The health of one MAC is enough; the other one's row never comes.
OneMac == row[m2].life = "unborn"

MCInit ==
    /\ scene \in {"zapping", "two", "pipe", "trouble", "calm", "health", "genres", "channels",
                  "links", "forms"}
    /\ OccupancyInit /\ ClientInit
    /\ IF scene \in {"zapping", "two", "pipe"} THEN Init ELSE RedirectsRest
    /\ IF scene = "health" THEN HealthInit /\ OneMac ELSE HealthRests
    /\ CASE scene = "genres" -> GenresDiffer [] scene = "channels" -> ChannelsDiffer [] OTHER -> ComparesRest
    /\ IF scene = "links" THEN LinkInit ELSE LinksRest
    /\ IF scene = "forms" THEN FormInit ELSE FormsRest

\* Bound: of the MACs and the lists of a first compare at most two go wrong, of a second one.
Refusals == UNION {{b.mac} \X (b.errors \cup b.hid) : b \in Blocks}
GoneWrong == Cardinality({b \in Blocks : ~b.ok}) + Cardinality(Refusals)

\* The operator enables genres, saves translations and lets the panel renumber where
\* channels are compared; where genres are, MACs come to have other packages.
GenreStep ==
    \/ Compare /\ GoneWrong' <= 3 - report'.n
    \/ PersistCounts \/ PersistGenres \/ PersistFails
    \/ Report \/ \E m \in Macs : DropMac(m)
ChannelStep == CompareNext /\ Refusals' = {}

\* Two tasks where the panel and the pool interfere.  Three where nothing is revoked or
\* invalidated; they are alike, so they begin in one order.
TroubleStep == Outside \/ \E t \in {t1, t2} : TaskStep(t) \/ Cancel(t)
InTurn == \A k \in 1 .. Len(Turns) - 1 : tasks'[Turns[k]].at = "start" => tasks'[Turns[k + 1]].at = "start"
CalmStep == ClientNext /\ events' = events /\ InTurn

MCNext ==
    /\ UNCHANGED scene
    /\ \/ /\ \/ scene = "zapping" /\ Zapping!Next
             \/ scene = "two" /\ TwoAtOnce!Next
             \/ scene = "pipe" /\ BesidePipe!Next
          /\ UNCHANGED <<clientVars, ofHealth, compareVars, linkVars, formVars>>
       \/ /\ UNCHANGED ofRedirects
          /\ \/ /\ \/ scene = "trouble" /\ TroubleStep
                   \/ scene = "calm" /\ CalmStep
                /\ UNCHANGED <<ofHealth, occupancyVars, compareVars, linkVars, formVars>>
             \/ /\ scene = "health" /\ HealthNext /\ OneMac'
                /\ UNCHANGED <<clientVars, compareVars, linkVars, formVars>>
             \/ /\ UNCHANGED <<clientVars, ofHealth, occupancyVars>>
                /\ \/ /\ \/ scene = "genres" /\ GenreStep
                         \/ scene = "channels" /\ ChannelStep
                      /\ UNCHANGED <<linkVars, formVars>>
                   \/ scene = "links" /\ LinkNext /\ UNCHANGED <<compareVars, formVars>>
                   \/ scene = "forms" /\ FormNext /\ UNCHANGED <<compareVars, linkVars>>

MCSpec == MCInit /\ [][MCNext]_everything
-----------------------------------------------------------------------------
\* Every module's types, each in the scenes it plays in.
WellTyped ==
    CASE scene \in {"zapping", "two", "pipe"} -> TypeOK
      [] scene \in {"trouble", "calm"} -> ClientTypeOK
      [] scene \in {"genres", "channels"} -> CompareTypeOK
      [] scene = "health" -> HealthTypeOK
      [] scene = "links" -> LinkTypeOK
      [] scene = "forms" -> FormTypeOK
=============================================================================
