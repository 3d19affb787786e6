----------------------------- MODULE GuidePolicy -----------------------------
(***************************************************************************)
(* What a channel shows in the guide (services/epg_policy.py, epg.py): the   *)
(* policy of each channel, the layers it selects among the stored           *)
(* programmes, how they are merged, and under which id XMLTV carries them.   *)
(* Times are small numbers; Now .. Horizon is the window that is written.    *)
(***************************************************************************)
EXTENDS Naturals, Integers, SequencesExt, Selection

CONSTANTS
    GuideSources,         \* guide sources, in the order of their ids
    FeedOrder,     \* the same, as a sequence
    Guests,        \* the channels
    TvgIds, NoTvg, \* guide ids, and a channel without one
    Legacy,        \* programmes of no source, from before they were kept apart
    Timetables,    \* the tables that may be stored: [GuideSources \cup {Legacy} -> set of programmes]
    Shifts,        \* corrections an operator enters
    Now, Horizon,
    MaxPolicies    \* bound: changes

\* A channel's own id is nobody's guide id: sources do not list ids of that form.
ASSUME PolicyAssumption == NoTvg \notin TvgIds /\ Guests \cap (TvgIds \cup {NoTvg}) = {}

VARIABLES
    stored,        \* the programmes, of every id alike
    present,       \* sources that exist
    active,        \* sources that are enabled
    policy,        \* [Guests -> the guide columns and mappings of a channel]
    policies

policyVars == <<stored, present, active, policy, policies>>

Rules == [feed : GuideSources, tvg : TvgIds, shift : Shifts]
Automatic == [tvg |-> NoTvg, gap |-> TRUE, shift |-> 0, rules |-> <<>>, explicit |-> FALSE, custom |-> FALSE]

PolicyTypeOK ==
    /\ present \subseteq GuideSources /\ active \subseteq present
    /\ \A c \in Guests :
          /\ policy[c].tvg \in TvgIds \cup {NoTvg} /\ policy[c].shift \in Shifts
          /\ \A i \in DOMAIN policy[c].rules : policy[c].rules[i] \in Rules
          /\ policy[c].gap \in BOOLEAN /\ policy[c].explicit \in BOOLEAN /\ policy[c].custom \in BOOLEAN

PolicyInit ==
    /\ stored \in Timetables /\ present = GuideSources /\ active \in SUBSET GuideSources
    /\ \E id \in TvgIds \cup {NoTvg} : policy = [c \in Guests |-> [Automatic EXCEPT !.tvg = id]]
    /\ policies = 0
-----------------------------------------------------------------------------
(* fill_gaps *)

\* sorted: by start, of equal ones the newest record first.
InOrder(layer) == SetToSortSeq(layer, LAMBDA p, q : p.from < q.from \/ (p.from = q.from /\ p.nr > q.nr))

\* bisect_left over the starts.
Earlier(events, t) == Len(SelectSeq(events, LAMBDA e : e.from < t))
Larger(a, b) == IF a > b THEN a ELSE b
Smaller(a, b) == IF a < b THEN a ELSE b

\* Mutant of FirstSeen: the event that began before and may last is passed over.
FirstSeenLater(events, t) == Earlier(events, t) + 1

\* The search for what is covered already begins one event to the left.
FirstSeen(events, t) == Larger(1, Earlier(events, t))

\* The spans of a programme that no event covers, found from left to right.
Uncovered(events, p) ==
    LET from == FirstSeen(events, p.from)
        seen == SelectSeq(SubSeq(events, from, Len(events)), LAMBDA e : e.from < p.to)
        pass(acc, e) ==
            IF e.to <= acc.cursor THEN acc
            ELSE [cursor |-> e.to,
                  spans |-> IF e.from > acc.cursor
                            THEN Append(acc.spans, [from |-> acc.cursor, to |-> Smaller(e.from, p.to)])
                            ELSE acc.spans]
        swept == FoldLeft(pass, [cursor |-> p.from, spans |-> <<>>], seen)
    IN IF swept.cursor < p.to
       THEN Append(swept.spans, [from |-> swept.cursor, to |-> p.to]) ELSE swept.spans

Inserted(events, e) == InsertAt(events, Earlier(events, e.from) + 1, e)
Placed(events, p) ==
    IF p.to <= p.from THEN events
    ELSE FoldLeft(LAMBDA acc, span : Inserted(acc, [p EXCEPT !.from = span.from, !.to = span.to]),
                  events, Uncovered(events, p))

FillGaps(layers) ==
    FoldLeft(LAMBDA acc, layer : FoldLeft(Placed, acc, InOrder(layer)), <<>>, layers)
-----------------------------------------------------------------------------
(* load_schedules *)

\* Every source lists every id here, and a source's own offset is left out.
\* Explicit rules in their order, also when none of them is active any more; else every
\* active source that knows the id, and last the unattributed programmes.
Selected(p) ==
    LET rules == SelectSeq(p.rules, LAMBDA r : r.feed \in active)
        automatic == SelectSeq(FeedOrder, LAMBDA s : s \in active)
        all == IF p.rules # <<>> \/ p.explicit THEN rules
               ELSE [i \in 1 .. Len(automatic) + 1 |->
                        IF i <= Len(automatic) THEN [feed |-> automatic[i], tvg |-> p.tvg, shift |-> 0]
                        ELSE [feed |-> Legacy, tvg |-> p.tvg, shift |-> 0]]
    IN IF p.gap THEN all ELSE SubSeq(all, 1, Smaller(1, Len(all)))

\* Corrections are applied here, and never to what is stored.
Corrected(p, rule) ==
    LET by == p.shift + rule.shift
        moved == {[q EXCEPT !.from = @ + by, !.to = @ + by] :
                     q \in {s \in stored[rule.feed] : rule.tvg # NoTvg}}
    IN {q \in moved : q.to > Now /\ q.from < Horizon}

LayersOf(p) == [i \in DOMAIN Selected(p) |-> Corrected(p, Selected(p)[i])]
Layers(c) == LayersOf(policy[c])
Schedule(c) == FillGaps(Layers(c))

\* channel_epg_id: a channel of its own mind gets an id of its own.
OutputId(c) ==
    IF policy[c].custom \/ policy[c].rules # <<>> \/ policy[c].shift # 0 \/ policy[c].tvg = NoTvg
    THEN c ELSE policy[c].tvg

\* build_xmltv writes the programmes of an id once, for the first channel that has it.
FirstWith(order, id) ==
    CHOOSE i \in DOMAIN order : /\ OutputId(order[i]) = id
                               /\ \A j \in DOMAIN order : OutputId(order[j]) = id => i <= j
Written(order, id) == Schedule(order[FirstWith(order, id)])
-----------------------------------------------------------------------------
(* Changes *)

Counted == policies < MaxPolicies /\ policies' = policies + 1

\* Mutant of OwnMind: switching gap filling off does not count.
OwnMindOfRules(gap, shift, rules) == rules # <<>> \/ shift # 0

OwnMind(gap, shift, rules) == rules # <<>> \/ shift # 0 \/ ~gap

\* apply_policy: rules are unique, and of sources that exist.
SetPolicy(c, gap, shift, rules) ==
    /\ Counted /\ \A i \in DOMAIN rules : rules[i].feed \in present
    /\ \A i, j \in DOMAIN rules : i # j => <<rules[i].feed, rules[i].tvg>> # <<rules[j].feed, rules[j].tvg>>
    /\ policy' = [policy EXCEPT ![c] = [tvg |-> policy[c].tvg, gap |-> gap, shift |-> shift, rules |-> rules,
                                        explicit |-> rules # <<>>, custom |-> OwnMind(gap, shift, rules)]]
    /\ UNCHANGED <<stored, present, active>>

SetTvg(c, id) ==
    /\ Counted /\ policy[c].tvg # id
    /\ policy' = [policy EXCEPT ![c].tvg = id]
    /\ UNCHANGED <<stored, present, active>>

\* delete_source removes the rules of the source, not the mark that there were some.
RemoveFeed(s) ==
    /\ Counted /\ s \in present
    /\ present' = present \ {s} /\ active' = active \ {s}
    /\ stored' = [stored EXCEPT ![s] = {}]
    /\ policy' = [c \in Guests |->
          [policy[c] EXCEPT !.rules = Only(@, {r \in Rules : r.feed # s})]]

Offers == {<<>>} \cup {<<r>> : r \in Rules} \cup {<<q, r>> : q \in Rules, r \in Rules}
PolicyNext ==
    \/ \E c \in Guests : \/ \E gap \in BOOLEAN, shift \in Shifts, rules \in Offers : SetPolicy(c, gap, shift, rules)
                         \/ \E id \in TvgIds \cup {NoTvg} : SetTvg(c, id)
    \/ \E s \in GuideSources : RemoveFeed(s)

PolicySpec == PolicyInit /\ [][PolicyNext]_policyVars
-----------------------------------------------------------------------------
(* Properties *)

\* What should be on at a moment: of the first layer that has anything, the programme
\* that began first, of those the newest record.
At(layers, t) ==
    LET on(i) == {p \in layers[i] : p.from <= t /\ t < p.to}
        filled == {i \in DOMAIN layers : on(i) # {}}
    IN IF filled = {} THEN {}
       ELSE LET best == CHOOSE i \in filled : \A j \in filled : i <= j
            IN {p.nr : p \in {q \in on(best) : \A o \in on(best) :
                                 q.from < o.from \/ (q.from = o.from /\ q.nr >= o.nr)}}

\* "Priority order wins.  Lower-priority entries are clipped to uncovered spans": the
\* merged events do not overlap, and at every moment show what the first layer with
\* anything on has on, if any layer has.
PriorityWins ==
    \A c \in Guests :
        LET events == Schedule(c)
            layers == Layers(c) IN
        /\ \A i \in DOMAIN events : events[i].from < events[i].to
        /\ \A i \in 1 .. Len(events) - 1 : events[i].to <= events[i + 1].from
        /\ \A t \in Now - 3 .. Horizon + 3 :
              {events[i].nr : i \in {j \in DOMAIN events : events[j].from <= t /\ t < events[j].to}}
                  = At(layers, t)

\* Channels that XMLTV carries under one id have one schedule: whichever of them comes
\* first in a user's list, nobody sees another channel's corrections or rules.
OneIdOneGuide ==
    \A c, d \in Guests : c # d => Written(<<c, d>>, OutputId(d)) = Schedule(d)
=============================================================================
