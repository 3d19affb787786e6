---------------------------- MODULE StoredLinks ----------------------------
(***************************************************************************)
(* When a stored link is played instead of asking the panel for a fresh one *)
(* (portal/links.py), and what the probe of a redirect remembers about URLs *)
(* (services/redirect_guard.py).  One live source on the MACs of one        *)
(* portal; redirects only.                                                  *)
(***************************************************************************)
EXTENDS Naturals

CONSTANTS
    LinkMacs,
    Tokens,        \* play tokens the panel mints
    Tokenless,     \* the URL without volatile parameters
    StoredToken,   \* the token the stored URL was fetched with, or Tokenless
    Never          \* no verdict

ASSUME VerdictAssumption == Never \notin BOOLEAN /\ Never \notin {"alive", "dead"}

VARIABLES
    channel,   \* what the panel said of the channel, and the shape of its stored URL
    force,     \* MacAddress.force_ch_link_check
    learned,   \* [LinkMacs -> TRUE, FALSE or Never]: the direct verdict of the stored URL
    cache,     \* _probe_cache: [LinkUrls -> "alive", "dead" or Never]
    credit,    \* _origin_alive: another link of this host was alive a moment ago
    zap,       \* the redirect under way
    proved     \* history: the URLs a probe itself found alive, and dead

linkVars == <<channel, force, learned, cache, credit, zap, proved>>

\* A URL is named by its token; without one it is Tokenless (_tokenless).
LinkUrls == Tokens \cup {StoredToken, Tokenless}

Flags == {"unknown", "quiet", "rebuild"}
\* Shapes of the stored URL: not addressable, a path still to be finished, finished.
Shapes == {"template", "bare", "finished"}
ChannelStates == [flags : Flags, shape : Shapes, direct : BOOLEAN]

NoZap == [at |-> "idle", mac |-> Never, url |-> Never, asked |-> FALSE]

LinkTypeOK ==
    /\ channel \in ChannelStates /\ force \in [LinkMacs -> BOOLEAN]
    /\ learned \in [LinkMacs -> BOOLEAN \cup {Never}]
    /\ cache \in [LinkUrls -> {"alive", "dead", Never}] /\ credit \in BOOLEAN
    /\ proved \in [{"alive", "dead"} -> SUBSET LinkUrls]

LinkInit ==
    /\ channel \in {r \in ChannelStates : StoredToken # Tokenless => r.shape # "bare"}
    /\ force \in [LinkMacs -> BOOLEAN]
    /\ learned = [m \in LinkMacs |-> Never]
    /\ cache = [u \in LinkUrls |-> Never] /\ credit = FALSE
    /\ zap = NoZap
    /\ proved = [v \in {"alive", "dead"} |-> {}]
-----------------------------------------------------------------------------
\* What forbids the stored URL whatever has been learned about it: the panel's own
\* statements, the portal's setting, and a cmd that is no URL yet.
Objects(m) == force[m] \/ ~channel.direct \/ channel.flags = "rebuild" \/ channel.shape = "template"

Trusted(m) ==
    /\ ~Objects(m)
    /\ \/ learned[m] = TRUE
       \/ learned[m] = Never /\ channel.flags = "quiet" /\ StoredToken = Tokenless

\* _looks_finished: worth a try, with create_link as the fallback.
Speculative(m) == ~Objects(m) /\ learned[m] = Never /\ ~Trusted(m) /\ channel.shape = "finished"

\* link_policy, for a caller that verifies: play as stored, or ask.
PlaysAsStored(m) == Trusted(m) \/ Speculative(m)

\* The walk comes to a MAC, or to the same one again after the stored link was dead.
Plan(m) ==
    /\ zap.at = "idle"
    /\ zap' = IF PlaysAsStored(m)
               THEN [at |-> "probe", mac |-> m, url |-> StoredToken, asked |-> FALSE]
               ELSE [at |-> "ask", mac |-> m, url |-> Never, asked |-> TRUE]
    /\ UNCHANGED <<channel, force, learned, cache, credit, proved>>

\* create_link mints a URL, or refuses.
Mint ==
    /\ zap.at = "ask"
    /\ \/ \E t \in Tokens : zap' = [zap EXCEPT !.at = "probe", !.url = t]
       \/ zap' = NoZap
    /\ UNCHANGED <<channel, force, learned, cache, credit, proved>>

\* What a probe that is not put to the origin may answer with.  A stored link asks for
\* its own verdict only (exact); a fresh one may live on the credit of others.
Known(url, exact) ==
    IF cache[url] # Never THEN {cache[url]}
    ELSE IF ~exact /\ (cache[Tokenless] = "alive" \/ credit) THEN {"alive"}
    ELSE {}

\* The stored link's verdict is remembered for this MAC if it came from a probe.
JudgedLink(verdict) ==
    IF zap.asked THEN /\ zap' = NoZap
                       /\ UNCHANGED learned
    ELSE /\ learned' = [learned EXCEPT ![zap.mac] = (verdict = "alive")]
         /\ zap' = IF verdict = "alive" THEN NoZap
                    ELSE [zap EXCEPT !.at = "ask", !.url = Never, !.asked = TRUE]

\* link_is_alive answers from what is known.
ProbeSkipped ==
    /\ zap.at = "probe"
    /\ \E verdict \in Known(zap.url, ~zap.asked) : JudgedLink(verdict)
    /\ UNCHANGED <<channel, force, cache, credit, proved>>

\* Mutant of RememberedUrl: a dead link speaks for the same stream with any token.
RememberedForAll(url, verdict) ==
    [u \in LinkUrls |-> IF u \in {url, Tokenless} THEN verdict ELSE cache[u]]

\* _remember_probe: an alive verdict is kept under the tokenless URL as well.
RememberedUrl(url, verdict) ==
    [u \in LinkUrls |-> IF u = url \/ (u = Tokenless /\ verdict = "alive") THEN verdict ELSE cache[u]]

\* The origin is asked: HEAD, a ranged GET, a plain GET.  Only proof makes it dead; here
\* either may come out.
Probed ==
    /\ zap.at = "probe" /\ Known(zap.url, ~zap.asked) = {}
    /\ \E verdict \in {"alive", "dead"} :
          /\ JudgedLink(verdict)
          /\ cache' = RememberedUrl(zap.url, verdict)
          /\ credit' = (verdict = "alive")
          /\ proved' = [proved EXCEPT ![verdict] = @ \cup {zap.url}]
    /\ UNCHANGED <<channel, force>>

\* An entry leaves its window, or the origin's credit does; a learned verdict too.
Expire ==
    /\ \/ \E u \in LinkUrls : cache[u] # Never /\ cache' = [cache EXCEPT ![u] = Never] /\ UNCHANGED <<credit, learned>>
       \/ credit /\ credit' = FALSE /\ UNCHANGED <<cache, learned>>
       \/ \E m \in LinkMacs : learned[m] # Never /\ learned' = [learned EXCEPT ![m] = Never]
                          /\ UNCHANGED <<cache, credit>>
    /\ UNCHANGED <<channel, force, zap, proved>>

\* A fetch stores the flags the panel gives now (_live_fields).
Refetch ==
    /\ \E f \in Flags \ {channel.flags} : channel' = [channel EXCEPT !.flags = f]
    /\ UNCHANGED <<force, learned, cache, credit, zap, proved>>

LinkNext ==
    \/ \E m \in LinkMacs : Plan(m)
    \/ Mint \/ ProbeSkipped \/ Probed \/ Expire \/ Refetch
-----------------------------------------------------------------------------
(* Properties *)

\* redirect_guard: "a link that died on a busy slot must not veto the re-mint a second
\* later".  A URL is vetoed, and a stored one given up for a MAC, only after a probe of
\* that very URL has proved it dead.
DeadIsOwn ==
    /\ \A u \in LinkUrls : cache[u] = "dead" => u \in proved["dead"]
    /\ \A m \in LinkMacs : learned[m] = FALSE => StoredToken \in proved["dead"]
=============================================================================
