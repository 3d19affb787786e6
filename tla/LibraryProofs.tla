---------------------------- MODULE LibraryProofs ---------------------------
(***************************************************************************)
(* From a catalogue to what a player is shown, for any number of rows, sources,*)
(* requests and edits: the outputs of an account, the review of a scan, the*)
(* locked numbers of the live playlist, and the guide.                     *)
(***************************************************************************)
EXTENDS Outputs, CatalogReview, LivePlaylist, Guide, GuidePolicy, SelectionProofs, FiniteSetTheorems
-----------------------------------------------------------------------------
(* The outputs of an account (Outputs) *)

Keys == [Kinds -> Whitelists] \X Nat
Requested ==
    [at : {"idle", "arrived", "verified", "touched", "rendering", "read", "answered"},
     asked : 0 .. MaxEdits, groups : [Kinds -> Whitelists], key : Keys \cup {<<>>}, seen : 0 .. MaxEdits]

\* An edit under way changes one group, switch or whitelist, and there is room for it.
WriterTyped ==
    writer = Idle \/
    /\ writer.at = "executed" /\ version < MaxEdits
    /\ \/ writer.what = "group" /\ writer.of \in Rows /\ writer.to \in Groups
       \/ writer.what = "switch" /\ writer.of \in Rows \cup Seasons /\ writer.to \in BOOLEAN
       \/ writer.what = "whitelist" /\ writer.of \in Kinds /\ writer.to \in Whitelists

RequestsTyped ==
    /\ req \in [Requests -> Requested]
    /\ \A r \in Requests : req[r].at \in {"rendering", "read"} => req[r].key \in Keys
    /\ \A e \in cache : e.key \in Keys /\ e.text \in Texts

\* No key names a generation to come.
KeysPast ==
    /\ \A e \in cache : e.key[2] <= generation
    /\ \A r \in Requests : req[r].at \in {"rendering", "read"} => req[r].key[2] <= generation

\* What is or will be stored under the present generation has been read since any request
\* that has advanced the generation itself was made.
PresentIsFresh ==
    \A r \in Requests : req[r].at = "touched" =>
        /\ \A e \in cache : e.key[2] = generation => e.text.seen >= req[r].asked
        /\ \A q \in Requests : req[q].at = "read" /\ req[q].key[2] = generation => req[q].seen >= req[r].asked

AskedBefore == \A r \in Requests : req[r].asked <= version
ReadSince == \A r \in Requests : req[r].at \in {"read", "answered"} => req[r].seen >= req[r].asked

OutputInv ==
    /\ OutputTypeOK /\ WriterTyped /\ RequestsTyped
    /\ KeysPast /\ PresentIsFresh /\ AskedBefore /\ ReadSince

-----------------------------------------------------------------------------
(* Every step keeps the invariant                                          *)

\* Nothing has been asked, and a request that has not begun is a request.
LEMMA NoRequestTyped == OutputAssumption => NoRequest \in Requested
<1> SUFFICES ASSUME OutputAssumption PROVE NoRequest \in Requested OBVIOUS
<1>1. {} \in Whitelists BY DEF Whitelists
<1>2. [k \in Kinds |-> {}] \in [Kinds -> Whitelists] BY <1>1
<1> QED BY <1>2 DEF NoRequest, Requested, OutputAssumption

\* Before the first request nothing is cached.
LEMMA OutputInitInv == ASSUME OutputAssumption, OutputInit PROVE OutputInv
<1>1. req \in [Requests -> Requested] /\ \A r \in Requests : req[r] = NoRequest
    BY NoRequestTyped DEF OutputInit
<1>2. \A r \in Requests : req[r].at = "idle" /\ req[r].asked = 0 BY <1>1 DEF NoRequest
<1>3. version = 0 /\ generation = 0 /\ cache = {} /\ writer = Idle BY DEF OutputInit
<1>4. group \in [Rows -> Groups] /\ shown \in [Rows \cup Seasons -> BOOLEAN] /\ allowed \in [Kinds -> Whitelists]
    BY DEF OutputInit
<1>5. RequestsTyped BY <1>1, <1>2, <1>3 DEF RequestsTyped
<1>6. OutputTypeOK
    BY <1>1, <1>3, <1>4 DEF OutputTypeOK, OutputAssumption, Requested
<1> QED
    BY <1>2, <1>3, <1>5, <1>6 DEF OutputInv, WriterTyped, KeysPast, PresentIsFresh, AskedBefore, ReadSince

\* The typed parts of the invariant are OutputTypeOK.
LEMMA TypedIsTypeOK ==
    ASSUME group \in [Rows -> Groups], shown \in [Rows \cup Seasons -> BOOLEAN],
           allowed \in [Kinds -> Whitelists], version \in 0 .. MaxEdits, generation \in Nat,
           WriterTyped, RequestsTyped
    PROVE  OutputTypeOK
BY DEF OutputTypeOK, WriterTyped, RequestsTyped, Requested

\* Editors: a statement runs, its transaction commits or is rolled back.
LEMMA EditorKeeps == ASSUME OutputAssumption, OutputInv, Execute \/ Commit \/ Rollback PROVE OutputInv'
<1> USE DEF OutputInv
<1>1. UNCHANGED <<cache, req>> BY DEF Execute, Commit, Rollback, LibraryStep
<1>2. version \in 0 .. MaxEdits /\ generation \in Nat /\ MaxEdits \in Nat
    BY DEF OutputTypeOK, OutputAssumption
<1>3. /\ generation' \in Nat /\ generation <= generation'
      /\ version' \in 0 .. MaxEdits /\ version <= version'
    BY <1>2 DEF Execute, Commit, Rollback, LibraryStep, WriterTyped
<1>4. RequestsTyped' BY <1>1 DEF RequestsTyped
<1>5. \A r \in Requests : req[r].asked \in Int BY DEF RequestsTyped, Requested
<1>6. /\ \A e \in cache : e.key[2] \in Nat
      /\ \A r \in Requests : req[r].at \in {"rendering", "read"} => req[r].key[2] \in Nat
    BY DEF RequestsTyped, Keys
<1>7. KeysPast' BY <1>1, <1>2, <1>3, <1>6 DEF KeysPast
<1>8. AskedBefore' /\ ReadSince' BY <1>1, <1>2, <1>3, <1>5 DEF AskedBefore, ReadSince
<1>9. PresentIsFresh'
    <2>1. CASE generation' = generation BY <1>1, <2>1 DEF PresentIsFresh
    <2>2. CASE generation' # generation
        <3>1. generation < generation' BY <1>2, <1>3, <2>2
        <3> QED BY <1>1, <1>2, <1>6, <3>1 DEF KeysPast, PresentIsFresh
    <2> QED BY <2>1, <2>2
<1>10. WriterTyped'
    <2>1. CASE Execute
        <3>1. version < MaxEdits /\ version' = version BY <2>1 DEF Execute
        <3>2. CASE \E x \in Rows, g \in Groups :
                      writer' = [at |-> "executed", what |-> "group", of |-> x, to |-> g]
            BY <3>1, <3>2 DEF WriterTyped
        <3>3. CASE \E x \in DOMAIN shown : writer' = [at |-> "executed", what |-> "switch", of |-> x, to |-> ~shown[x]]
            BY <3>1, <3>3 DEF WriterTyped, OutputTypeOK
        <3>4. CASE \E k \in Kinds, S \in Whitelists :
                      writer' = [at |-> "executed", what |-> "whitelist", of |-> k, to |-> S]
            BY <3>1, <3>4 DEF WriterTyped
        <3> QED BY <2>1, <3>2, <3>3, <3>4 DEF Execute
    <2>2. CASE Commit \/ Rollback BY <2>2 DEF Commit, Rollback, WriterTyped
    <2> QED BY <2>1, <2>2
<1>11. group' \in [Rows -> Groups] /\ shown' \in [Rows \cup Seasons -> BOOLEAN] /\ allowed' \in [Kinds -> Whitelists]
    <2>1. CASE Execute \/ Rollback BY <2>1 DEF Execute, Rollback, OutputTypeOK
    <2>2. CASE Commit
        <3>1. group \in [Rows -> Groups] /\ shown \in [Rows \cup Seasons -> BOOLEAN] /\ allowed \in [Kinds -> Whitelists]
            BY DEF OutputTypeOK
        <3>2. writer # Idle BY <2>2 DEF Commit
        <3>3. group' \in [Rows -> Groups] BY <2>2, <3>1, <3>2 DEF Commit, WriterTyped
        <3>4. shown' \in [Rows \cup Seasons -> BOOLEAN] BY <2>2, <3>1, <3>2 DEF Commit, WriterTyped
        <3>5. allowed' \in [Kinds -> Whitelists] BY <2>2, <3>1, <3>2 DEF Commit, WriterTyped
        <3> QED BY <3>3, <3>4, <3>5
    <2> QED BY <2>1, <2>2
<1>12. OutputTypeOK'
    BY <1>3, <1>4, <1>10, <1>11, TypedIsTypeOK DEF OutputTypeOK, WriterTyped, RequestsTyped, Requested
<1> QED BY <1>4, <1>7, <1>8, <1>9, <1>10, <1>12


\* What a step of one request leaves alone.
LEMMA RequestKeeps ==
    ASSUME OutputInv, Playing(0), generation' \in Nat, RequestsTyped', KeysPast', PresentIsFresh',
           AskedBefore', ReadSince'
    PROVE  OutputInv'
<1>1. UNCHANGED <<group, shown, allowed, version, writer>> BY DEF Playing
<1>2. WriterTyped' BY <1>1 DEF OutputInv, WriterTyped
<1>3. OutputTypeOK'
    BY <1>1, <1>2, TypedIsTypeOK DEF OutputInv, OutputTypeOK, WriterTyped, RequestsTyped, Requested
<1> QED BY <1>2, <1>3 DEF OutputInv

\* A request that neither reads nor stores nor touches keeps who has seen what.
LEMMA AskKeeps ==
    ASSUME OutputAssumption, OutputInv, NEW r \in Requests, Arrive(r) \/ Verify(r) \/ Done(r) PROVE OutputInv'
<1> USE DEF OutputInv
<1>1. UNCHANGED <<generation, cache>> /\ Playing(0) BY DEF Arrive, Verify, Done, Playing
<1>2. version \in 0 .. MaxEdits /\ version' = version /\ generation \in Nat /\ MaxEdits \in Nat
    BY <1>1 DEF Playing, OutputTypeOK, OutputAssumption
<1>3. req \in [Requests -> Requested] BY DEF RequestsTyped
<1>4. PICK new \in Requested : /\ req' = [req EXCEPT ![r] = new] /\ new.at \in {"arrived", "verified", "idle"}
                               /\ new.asked <= version
    <2>1. CASE Arrive(r)
        <3> DEFINE new == [req[r] EXCEPT !.at = "arrived", !.asked = version]
        <3>1. new \in Requested /\ new.at = "arrived" /\ new.asked = version BY <1>2, <1>3 DEF Requested
        <3>2. req' = [req EXCEPT ![r] = new] BY <2>1 DEF Arrive
        <3>3. new.asked <= version BY <1>2, <3>1
        <3> HIDE DEF new
        <3> QED BY <3>1, <3>2, <3>3
    <2>2. CASE Verify(r)
        <3> DEFINE new == [req[r] EXCEPT !.at = "verified", !.groups = allowed]
        <3>1. new \in Requested /\ new.at = "verified" /\ new.asked = req[r].asked
            BY <1>3 DEF Requested, OutputTypeOK
        <3>2. req' = [req EXCEPT ![r] = new] BY <2>2 DEF Verify
        <3>3. new.asked <= version BY <3>1 DEF AskedBefore
        <3> HIDE DEF new
        <3> QED BY <3>1, <3>2, <3>3
    <2>3. CASE Done(r)
        <3>1. NoRequest \in Requested /\ NoRequest.at = "idle" /\ NoRequest.asked <= version
            BY <1>2, NoRequestTyped DEF NoRequest
        <3>2. req' = [req EXCEPT ![r] = NoRequest] BY <2>3 DEF Done
        <3> QED BY <3>1, <3>2
    <2> QED BY <2>1, <2>2, <2>3
<1>5. req'[r] = new /\ \A q \in Requests \ {r} : req'[q] = req[q] BY <1>3, <1>4
<1>6. RequestsTyped' BY <1>1, <1>3, <1>4, <1>5 DEF RequestsTyped
<1>7. KeysPast' BY <1>1, <1>4, <1>5 DEF KeysPast
<1>8. PresentIsFresh' BY <1>1, <1>4, <1>5 DEF PresentIsFresh
<1>9. AskedBefore' /\ ReadSince' BY <1>2, <1>4, <1>5 DEF AskedBefore, ReadSince
<1> QED BY <1>1, <1>2, <1>6, <1>7, <1>8, <1>9, RequestKeeps

\* The account is written: a generation begins that no key names yet.
LEMMA TouchKeeps == ASSUME OutputAssumption, OutputInv, NEW r \in Requests, Touch(r) PROVE OutputInv'
<1> USE DEF OutputInv
<1>1. UNCHANGED cache /\ Playing(0) /\ generation' = generation + 1 BY DEF Touch, Touched, Playing
<1>2. version' = version /\ generation \in Nat /\ generation' \in Nat BY <1>1 DEF Playing, OutputTypeOK
<1>3. req \in [Requests -> Requested] BY DEF RequestsTyped
<1> DEFINE new == [req[r] EXCEPT !.at = "touched"]
<1>4. /\ new \in Requested /\ new.at = "touched" /\ new.asked = req[r].asked
      /\ req' = [req EXCEPT ![r] = new]
    BY <1>3 DEF Requested, Touch
<1> HIDE DEF new
<1>5. req'[r] = new /\ \A q \in Requests \ {r} : req'[q] = req[q] BY <1>3, <1>4
<1>6. RequestsTyped' BY <1>1, <1>3, <1>4, <1>5 DEF RequestsTyped
<1>7. /\ \A e \in cache : e.key[2] \in Nat /\ e.key[2] < generation'
      /\ \A q \in Requests : req'[q].at \in {"rendering", "read"} =>
             req'[q].key[2] \in Nat /\ req'[q].key[2] < generation'
    BY <1>1, <1>2, <1>4, <1>5 DEF KeysPast, RequestsTyped, Keys
<1>8. KeysPast' BY <1>1, <1>2, <1>7 DEF KeysPast
<1>9. PresentIsFresh' BY <1>1, <1>2, <1>7 DEF PresentIsFresh
<1>10. AskedBefore' /\ ReadSince' BY <1>2, <1>4, <1>5 DEF AskedBefore, ReadSince
<1> QED BY <1>1, <1>2, <1>6, <1>8, <1>9, <1>10, RequestKeeps

\* A text of the present generation answers; or none does, and it is rendered under its key.
LEMMA LookupKeeps == ASSUME OutputAssumption, OutputInv, NEW r \in Requests, Lookup(r) PROVE OutputInv'
<1> USE DEF OutputInv
<1>1. UNCHANGED <<generation, cache>> /\ Playing(0) /\ req[r].at = "touched" BY DEF Lookup, Playing
<1>2. version' = version /\ generation \in Nat BY <1>1 DEF Playing, OutputTypeOK
<1>3. req \in [Requests -> Requested] BY DEF RequestsTyped
<1>4. KeyOf(r) \in Keys /\ KeyOf(r)[2] = generation BY <1>2, <1>3 DEF KeyOf, Keys, Requested
<1>5. PICK new \in Requested :
          /\ req' = [req EXCEPT ![r] = new] /\ new.asked = req[r].asked
          /\ \/ new.at = "rendering" /\ new.key \in Keys /\ new.key[2] = generation
             \/ new.at = "answered" /\ new.seen >= new.asked
    <2>1. CASE req' = [req EXCEPT ![r].at = "rendering", ![r].key = KeyOf(r)]
        <3> DEFINE new == [req[r] EXCEPT !.at = "rendering", !.key = KeyOf(r)]
        <3>1. new \in Requested /\ new.at = "rendering" /\ new.asked = req[r].asked /\ new.key = KeyOf(r)
            BY <1>3, <1>4 DEF Requested
        <3>2. req' = [req EXCEPT ![r] = new] BY <2>1
        <3> HIDE DEF new
        <3> QED BY <1>4, <3>1, <3>2
    <2>2. ASSUME NEW e \in cache, e.key = KeyOf(r),
                 req' = [req EXCEPT ![r].at = "answered", ![r].groups = e.text.groups, ![r].seen = e.text.seen]
          PROVE  \E new \in Requested :
                     /\ req' = [req EXCEPT ![r] = new] /\ new.asked = req[r].asked
                     /\ new.at = "answered" /\ new.seen >= new.asked
        <3> DEFINE new == [req[r] EXCEPT !.at = "answered", !.groups = e.text.groups, !.seen = e.text.seen]
        <3>1. e.text \in Texts BY DEF RequestsTyped
        <3>2. /\ new \in Requested /\ new.at = "answered" /\ new.asked = req[r].asked
              /\ new.seen = e.text.seen
            BY <1>3, <3>1 DEF Requested, Texts
        <3>3. req' = [req EXCEPT ![r] = new] BY <2>2
        <3>4. e.text.seen >= req[r].asked BY <1>1, <1>4, <2>2 DEF PresentIsFresh
        <3> HIDE DEF new
        <3> QED BY <3>2, <3>3, <3>4
    <2> QED BY <2>1, <2>2 DEF Lookup
<1>6. req'[r] = new /\ \A q \in Requests \ {r} : req'[q] = req[q] BY <1>3, <1>5
<1>7. RequestsTyped' BY <1>1, <1>3, <1>5, <1>6 DEF RequestsTyped
<1>8. KeysPast' BY <1>1, <1>2, <1>5, <1>6 DEF KeysPast
<1>9. PresentIsFresh' BY <1>1, <1>5, <1>6 DEF PresentIsFresh
<1>10. AskedBefore' /\ ReadSince' BY <1>2, <1>5, <1>6 DEF AskedBefore, ReadSince
<1> QED BY <1>1, <1>2, <1>7, <1>8, <1>9, <1>10, RequestKeeps

\* What is read is what is committed, which is no older than any request's asking.
LEMMA RenderKeeps == ASSUME OutputAssumption, OutputInv, NEW r \in Requests, Render(r) PROVE OutputInv'
<1> USE DEF OutputInv
<1>1. UNCHANGED <<generation, cache>> /\ Playing(0) /\ req[r].at = "rendering" BY DEF Render, Playing
<1>2. version' = version /\ generation \in Nat /\ version \in 0 .. MaxEdits
    BY <1>1 DEF Playing, OutputTypeOK
<1>3. req \in [Requests -> Requested] BY DEF RequestsTyped
<1> DEFINE new == [req[r] EXCEPT !.at = "read", !.seen = version]
<1>4. /\ new \in Requested /\ new.at = "read" /\ new.asked = req[r].asked /\ new.key = req[r].key
      /\ new.seen = version /\ req' = [req EXCEPT ![r] = new]
    BY <1>2, <1>3 DEF Requested, Render
<1> HIDE DEF new
<1>5. req'[r] = new /\ \A q \in Requests \ {r} : req'[q] = req[q] BY <1>3, <1>4
<1>6. RequestsTyped' BY <1>1, <1>3, <1>4, <1>5 DEF RequestsTyped
<1>7. KeysPast' BY <1>1, <1>4, <1>5 DEF KeysPast
<1>8. \A q \in Requests : version >= req'[q].asked /\ version >= req[q].asked
    <2>1. MaxEdits \in Nat /\ \A q \in Requests : req[q].asked \in 0 .. MaxEdits
        BY <1>3 DEF OutputAssumption, Requested
    <2> QED BY <1>2, <1>4, <1>5, <2>1 DEF AskedBefore
<1>9. PresentIsFresh' BY <1>1, <1>4, <1>5, <1>8 DEF PresentIsFresh
<1>10. AskedBefore' /\ ReadSince' BY <1>2, <1>4, <1>5, <1>8 DEF AskedBefore, ReadSince
<1> QED BY <1>1, <1>2, <1>6, <1>7, <1>9, <1>10, RequestKeeps

\* A text is stored under the generation its request looked it up with.
LEMMA StoreKeeps == ASSUME OutputAssumption, OutputInv, NEW r \in Requests, Store(r) PROVE OutputInv'
<1> USE DEF OutputInv
<1> DEFINE text == [groups |-> req[r].groups, seen |-> req[r].seen]
           entry == [key |-> req[r].key, text |-> text]
           new == [req[r] EXCEPT !.at = "answered"]
<1>1. UNCHANGED generation /\ Playing(0) /\ req[r].at = "read" BY DEF Store, Playing
<1>2. version' = version /\ generation \in Nat BY <1>1 DEF Playing, OutputTypeOK
<1>3. req \in [Requests -> Requested] BY DEF RequestsTyped
<1>4. /\ text \in Texts /\ text.seen = req[r].seen
      /\ entry.key = req[r].key /\ entry.text = text /\ entry.key \in Keys
    BY <1>1, <1>3 DEF Requested, Texts, RequestsTyped
<1>5. \A e \in cache' : (e \in cache \/ e = entry) /\ e.key[2] = generation BY DEF Store
<1>6. /\ new \in Requested /\ new.at = "answered" /\ new.asked = req[r].asked /\ new.seen = req[r].seen
      /\ req' = [req EXCEPT ![r] = new]
    BY <1>3 DEF Requested, Store
<1> HIDE DEF text, entry, new
<1>7. req'[r] = new /\ \A q \in Requests \ {r} : req'[q] = req[q] BY <1>3, <1>6
<1>8. RequestsTyped' BY <1>3, <1>4, <1>5, <1>6, <1>7 DEF RequestsTyped
<1>9. KeysPast' BY <1>1, <1>2, <1>5, <1>6, <1>7 DEF KeysPast
<1>10. PresentIsFresh'
    <2> SUFFICES ASSUME NEW q \in Requests, req'[q].at = "touched"
                 PROVE  /\ \A e \in cache' : e.key[2] = generation => e.text.seen >= req'[q].asked
                        /\ \A p \in Requests : req'[p].at = "read" /\ req'[p].key[2] = generation =>
                               req'[p].seen >= req'[q].asked
        BY <1>1 DEF PresentIsFresh
    <2>1. q # r /\ req'[q] = req[q] BY <1>6, <1>7
    <2>2. ASSUME NEW e \in cache' PROVE e.text.seen >= req[q].asked
        <3>1. CASE e \in cache BY <1>5, <2>1, <3>1 DEF PresentIsFresh
        <3>2. CASE e = entry BY <1>1, <1>4, <1>5, <2>1, <3>2 DEF PresentIsFresh
        <3> QED BY <1>5, <3>1, <3>2
    <2>3. \A p \in Requests : req'[p].at = "read" => req'[p] = req[p] BY <1>6, <1>7
    <2> QED BY <2>1, <2>2, <2>3 DEF PresentIsFresh
<1>11. AskedBefore' /\ ReadSince' BY <1>1, <1>2, <1>6, <1>7 DEF AskedBefore, ReadSince
<1> QED BY <1>1, <1>2, <1>8, <1>9, <1>10, <1>11, RequestKeeps

\* Every step keeps the invariant.
LEMMA OutputStep == ASSUME OutputAssumption, OutputInv, [OutputNext]_outputVars PROVE OutputInv'
<1>1. CASE Execute \/ Commit \/ Rollback BY <1>1, EditorKeeps
<1>2. ASSUME NEW r \in Requests, \/ Arrive(r) \/ Verify(r) \/ Touch(r) \/ Lookup(r)
                                 \/ Render(r) \/ Store(r) \/ Done(r)
      PROVE  OutputInv'
    BY <1>2, AskKeeps, TouchKeeps, LookupKeeps, RenderKeeps, StoreKeeps
<1>3. CASE UNCHANGED outputVars
    BY <1>3 DEF outputVars, OutputInv, OutputTypeOK, WriterTyped, RequestsTyped, KeysPast, PresentIsFresh,
                AskedBefore, ReadSince
<1> QED BY <1>1, <1>2, <1>3 DEF OutputNext
-----------------------------------------------------------------------------
(* The theorems                                                            *)

\* OutputInv holds of every state of the specification.
LEMMA OutputInvariant == OutputAssumption => (OutputSpec => []OutputInv)
<1> SUFFICES ASSUME OutputAssumption PROVE OutputSpec => []OutputInv OBVIOUS
<1>1. OutputInit => OutputInv BY OutputInitInv
<1>2. OutputInv /\ [OutputNext]_outputVars => OutputInv' BY OutputStep
<1> QED BY <1>1, <1>2, PTL DEF OutputSpec

\* Edits, renders and the cache keep their types.
THEOREM OutputTypeCorrect == OutputAssumption => (OutputSpec => []OutputTypeOK)
<1>1. OutputInv => OutputTypeOK BY DEF OutputInv
<1> QED BY <1>1, OutputInvariant, PTL

\* A playlist shows every edit that was committed when it was asked for, however renderings,
\* edits and other requests overlap.
THEOREM PlaylistsAreFresh == OutputAssumption => (OutputSpec => []FreshPlaylists)
<1>1. OutputInv => FreshPlaylists BY DEF OutputInv, ReadSince, FreshPlaylists
<1> QED BY <1>1, OutputInvariant, PTL

\* The four selections of an account's rows, and the gate of a play, select alike in every
\* state, but for seasons that share a number in an Xtream answer.
THEOREM ClientsSelectAlike == ASSUME OutputAssumption PROVE OneSelection
<1> USE DEF OutputAssumption, OfKind
<1>1. M3uItems = WebItems BY DEF M3uItems, WebItems
<1>2. ASSUME NEW kept \in SUBSET Seasons, Entries(kept)
      PROVE  /\ XtreamItems(kept) \subseteq WebItems
             /\ \A e \in WebItems \ XtreamItems(kept) :
                   e \in Episodes /\ \E s \in kept : s # SeasonOf[e] /\ SameNumber(s, SeasonOf[e])
    <2>1. XtreamItems(kept) \subseteq WebItems
        BY <1>2 DEF XtreamItems, XtreamList, Section, WebItems, Entries
    <2>2. ASSUME NEW e \in WebItems \ XtreamItems(kept)
          PROVE  e \in Episodes /\ SeasonOf[e] \in Seasons /\ shown[SeasonOf[e]] /\ SeasonOf[e] \notin kept
        BY <2>2 DEF XtreamItems, XtreamList, Section, WebItems
    <2>3. ASSUME NEW e \in WebItems \ XtreamItems(kept)
          PROVE  \E s \in kept : s # SeasonOf[e] /\ SameNumber(s, SeasonOf[e])
        <3>1. PICK s \in kept : SameNumber(SeasonOf[e], s) BY <1>2, <2>2, <2>3 DEF Entries
        <3> QED BY <2>2, <2>3, <3>1 DEF SameNumber
    <2> QED BY <2>1, <2>2, <2>3
<1>3. BouquetItems = WebItems BY DEF BouquetItems, WebItems
<1>4. WebItems = {x \in Rows \cup Episodes : MayPlay(x)} BY DEF WebItems, MayPlay, Visible
<1> QED BY <1>1, <1>2, <1>3, <1>4 DEF OneSelection

\* The groups of finitely many rows fold to finitely many names.
LEMMA FoldedNamesFinite ==
    ASSUME OutputAssumption, OutputTypeOK, NEW k
    PROVE  FoldedNames(k) \subseteq Nat /\ IsFiniteSet(FoldedNames(k))
<1> DEFINE f == [x \in Rows |-> Folded[group[x]]]
           T == {f[x] : x \in Rows}
<1>1. f \in [Rows -> T] /\ \A t \in T : \E x \in Rows : f[x] = t OBVIOUS
<1>2. f \in Surjection(Rows, T) BY <1>1 DEF Surjection
<1>3. IsFiniteSet(T) BY <1>2, FS_Surjection DEF OutputAssumption
<1>4. T \subseteq Nat BY DEF OutputAssumption, OutputTypeOK
<1>5. FoldedNames(k) \subseteq T BY DEF FoldedNames, CategoryNames, OfKind
<1> QED BY <1>3, <1>4, <1>5, FS_Subset

\* Whichever spelling a category has, a row of a full list is in an advertised category: the
\* name of its group is one of the names that are numbered.
LEMMA RowsAreFiled == ASSUME OutputAssumption, OutputTypeOK PROVE NothingLostByCategory
<1> SUFFICES ASSUME NEW k \in {"live", "vod", "series"}, NEW x \in XtreamList(k), NEW s \in Spellings(k)
             PROVE  FiledUnder(x, k, s) \in Categories(k)
    BY DEF NothingLostByCategory
<1> DEFINE names == FoldedNames(k)
           name == Folded[group[x]]
           before == {f \in names : f < name}
<1>1. name \in names
    BY DEF XtreamList, Visible, FoldedNames, CategoryNames, OfKind
<1>2. names \subseteq Nat /\ IsFiniteSet(names) BY FoldedNamesFinite
<1>3. Cardinality(names) \in Nat BY <1>2, FS_CardinalityType
<1>4. IsFiniteSet(before) /\ before \cup {name} \subseteq names /\ name \notin before
    BY <1>1, <1>2, FS_Subset
<1>5. Cardinality(before) \in Nat /\ Cardinality(before \cup {name}) = Cardinality(before) + 1
    BY <1>4, FS_AddElement, FS_CardinalityType
<1>6. Cardinality(before \cup {name}) <= Cardinality(names) BY <1>2, <1>4, FS_Subset
<1>7. FiledUnder(x, k, s) = 1 + Cardinality(before) \/ FiledUnder(x, k, s) = 1 BY DEF FiledUnder
<1> HIDE DEF names, before
<1>8. Categories(k) = 1 .. Cardinality(names) BY DEF Categories, names
<1> QED BY <1>3, <1>5, <1>6, <1>7, <1>8

\* All clients of an account are shown the same rows, and nothing is lost by asking for one
\* category at a time, whatever is edited.
THEOREM ClientsAreShownTheSame == OutputAssumption => (OutputSpec => []SameForEveryClient)
<1> SUFFICES ASSUME OutputAssumption PROVE OutputSpec => []SameForEveryClient OBVIOUS
<1>1. OutputTypeOK => SameForEveryClient BY ClientsSelectAlike, RowsAreFiled DEF SameForEveryClient
<1>2. OutputSpec => []OutputTypeOK BY OutputTypeCorrect
<1> QED BY <1>1, <1>2, PTL
-----------------------------------------------------------------------------
(* The review of a scan's findings (CatalogReview) *)

Phrases == Words \cup {OwnWord}
ItemRows ==
    [there : BOOLEAN, name : Phrases, group : Phrases, art : Phrases, chain : Seq(Titles),
     canon : Titles \cup {NoTitle}, seasons : SUBSET Titles]
Notes == [status : {"none", "pending", "reviewed", "ignored"}, type : {"none", "new", "changed"},
          labels : SUBSET Reports]
Desks == [at : {"idle", "apply", "add"}, rows : SUBSET Titles, labels : [Titles -> SUBSET Reports]]

\* What waits to be decided, and what is being applied, has been reported since the last decision.
ReviewInv ==
    /\ title \in [Titles -> TitleRows] /\ item \in [Slots -> ItemRows] /\ note \in [Titles -> Notes]
    /\ desk \in Desks /\ since \in [Titles -> SUBSET Reports] /\ scans \in Nat
    /\ \A s \in Titles : note[s].status = "pending" => note[s].labels \subseteq since[s]
    /\ desk.at = "apply" => \A s \in desk.rows : desk.labels[s] \subseteq since[s]
    /\ desk.at = "add" => desk.rows # {}

LEMMA ReviewInitInv == ReviewInit => ReviewInv
<1> SUFFICES ASSUME ReviewInit PROVE ReviewInv OBVIOUS
<1>1. title \in [Titles -> TitleRows]
    BY WordAssumption DEF ReviewInit, TitleRows, Words
<1>2. item \in [Slots -> ItemRows]
    <2>1. NoItem \in ItemRows BY WordAssumption DEF NoItem, ItemRows, Phrases, Words
    <2> QED BY <2>1 DEF ReviewInit
<1>3. note \in [Titles -> Notes] /\ \A s \in Titles : note[s].labels = {}
    <2>1. NoNote \in Notes /\ [NoNote EXCEPT !.status = "pending", !.type = "new"] \in Notes
        BY DEF NoNote, Notes
    <2>2. NoNote.labels = {} /\ [NoNote EXCEPT !.status = "pending", !.type = "new"].labels = {}
        BY DEF NoNote
    <2> QED BY <2>1, <2>2 DEF ReviewInit
<1>4. desk \in Desks /\ desk.at = "idle" BY DEF ReviewInit, FreeDesk, Desks
<1>5. since \in [Titles -> SUBSET Reports] /\ scans \in Nat BY DEF ReviewInit
<1> QED BY <1>1, <1>2, <1>3, <1>4, <1>5 DEF ReviewInv

\* An item that takes what its source says is an item.
LEMMA SyncedTyped ==
    ASSUME ReviewInv, NEW i \in Slots, NEW s \in Titles, NEW labels
    PROVE  /\ Synced(i, s, labels) \in ItemRows
           /\ \A f \in Fields : Synced(i, s, labels)[f] # item[i][f] => Takes(i, s, labels, f)
<1>1. item[i] \in ItemRows /\ title[s] \in TitleRows BY DEF ReviewInv
<1>2. Words \subseteq Phrases BY DEF Phrases
<1>3. Missing(i, s) \subseteq Titles BY DEF Missing
<1> DEFINE n == IF Takes(i, s, labels, "name") THEN title[s].name ELSE item[i].name
           g == IF Takes(i, s, labels, "group") THEN title[s].group ELSE item[i].group
           a == IF Takes(i, s, labels, "art") THEN title[s].art ELSE item[i].art
           se == item[i].seasons \cup Missing(i, s)
<1>4. n \in Phrases /\ g \in Phrases /\ a \in Phrases /\ se \in SUBSET Titles
    BY <1>1, <1>2, <1>3 DEF ItemRows, TitleRows
<1> HIDE DEF n, g, a, se
<1> DEFINE new == [item[i] EXCEPT !.name = n, !.group = g, !.art = a, !.seasons = se]
<1>5. new \in ItemRows BY <1>1, <1>4 DEF ItemRows
<1>6. new.name = n /\ new.group = g /\ new.art = a BY <1>1, <1>4 DEF ItemRows
<1>7. Synced(i, s, labels) = new BY DEF Synced, n, g, a, se
<1>8. \A f \in Fields : new[f] # item[i][f] => Takes(i, s, labels, f)
    BY <1>6 DEF Fields, n, g, a
<1> QED BY <1>5, <1>7, <1>8

LEMMA ScanKeeps == ASSUME ReviewInv, NEW s \in Titles, Scan(s) PROVE ReviewInv'
<1>1. PICK found \in Findings :
          /\ title' = [title EXCEPT ![s] =
                [name |-> IF "name" \in found THEN scans' ELSE @.name,
                 group |-> IF "group" \in found THEN scans' ELSE @.group,
                 art |-> IF "art" \in found THEN scans' ELSE @.art, season |-> @.season]]
          /\ LET labels == found \cap Compared IN
             /\ note' = IF labels = {} THEN note ELSE [note EXCEPT ![s] = Recorded(@, labels)]
             /\ since' = [since EXCEPT ![s] = @ \cup labels]
    BY DEF Scan
<1> DEFINE labels == found \cap Compared
           new == Recorded(note[s], labels)
<1>2. labels \subseteq Reports BY DEF Compared
<1>3. new \in Notes /\ new.labels = labels BY <1>2 DEF Recorded, Notes
<1>4. scans' \in Words /\ scans' \in Nat BY WordAssumption DEF Scan, Words, ReviewInv
<1>5. title' \in [Titles -> TitleRows] BY <1>1, <1>4 DEF ReviewInv, TitleRows
<1>6. since' = [since EXCEPT ![s] = @ \cup labels] BY <1>1
<1>7. note' = IF labels = {} THEN note ELSE [note EXCEPT ![s] = new] BY <1>1
<1> HIDE DEF labels, new
<1>8. since' \in [Titles -> SUBSET Reports] /\ \A t \in Titles : since[t] \subseteq since'[t] /\ labels \subseteq since'[s]
    BY <1>2, <1>6 DEF ReviewInv
<1>9. note' \in [Titles -> Notes] BY <1>3, <1>7 DEF ReviewInv
<1>10. \A t \in Titles : note'[t] = note[t] \/ (t = s /\ note'[t] = new) BY <1>3, <1>7 DEF ReviewInv
<1>11. UNCHANGED <<item, desk>> BY DEF Scan
<1> QED BY <1>3, <1>4, <1>5, <1>8, <1>9, <1>10, <1>11 DEF ReviewInv, Desks

\* A decision leaves nothing waiting on its rows, and frees the desk.
LEMMA DecidedKeeps ==
    ASSUME ReviewInv, Decided("reviewed"), UNCHANGED <<title, scans>>, item' \in [Slots -> ItemRows]
    PROVE  ReviewInv'
<1>1. desk' \in Desks /\ desk'.at = "idle" BY DEF Decided, FreeDesk, Desks
<1>2. note' \in [Titles -> Notes]
    <2>1. \A s \in Titles : [note[s] EXCEPT !.status = "reviewed"] \in Notes BY DEF ReviewInv, Notes
    <2> QED BY <2>1 DEF Decided, ReviewInv
<1>3. since' \in [Titles -> SUBSET Reports] BY DEF Decided, ReviewInv
<1>4. \A s \in Titles : note'[s].status = "pending" => note'[s] = note[s] /\ since'[s] = since[s]
    <2>1. \A s \in Titles : [note[s] EXCEPT !.status = "reviewed"].status = "reviewed"
        BY DEF ReviewInv, Notes
    <2> QED BY <2>1 DEF Decided, ReviewInv
<1> QED BY <1>1, <1>2, <1>3, <1>4 DEF ReviewInv

\* The requests of an operator at the desk.
LEMMA DeskKeeps ==
    ASSUME ReviewInv, BeginReview \/ ReviewFails \/ Ignore \/ BeginAdd
    PROVE  ReviewInv'
<1>1. ASSUME BeginReview PROVE ReviewInv'
    <2>1. PICK rows \in SUBSET Pending :
              desk' = [at |-> "apply", rows |-> rows,
                       labels |-> [s \in Titles |-> IF s \in rows THEN note[s].labels ELSE {}]]
        BY <1>1 DEF BeginReview
    <2>2. \A s \in Titles : note[s].labels \subseteq Reports BY DEF ReviewInv, Notes
    <2>3. desk' \in Desks /\ desk'.at = "apply" /\ desk'.rows = rows /\ \A s \in rows : desk'.labels[s] = note[s].labels
        BY <2>1, <2>2 DEF Desks, Pending
    <2>4. UNCHANGED <<title, item, note, since, scans>> BY <1>1 DEF BeginReview
    <2> QED BY <2>3, <2>4 DEF ReviewInv, Pending
<1>2. ASSUME ReviewFails PROVE ReviewInv'
    <2>1. desk' \in Desks /\ desk'.at = "idle" BY <1>2 DEF ReviewFails, FreeDesk, Desks
    <2> QED BY <1>2, <2>1 DEF ReviewFails, ReviewInv
<1>3. ASSUME BeginAdd PROVE ReviewInv'
    <2>1. PICK s \in Titles : desk' = [FreeDesk EXCEPT !.at = "add", !.rows = {s}]
        BY <1>3 DEF BeginAdd, Pending
    <2>2. desk' \in Desks /\ desk'.at = "add" /\ desk'.rows = {s} BY <2>1 DEF FreeDesk, Desks
    <2> QED BY <1>3, <2>2 DEF BeginAdd, ReviewInv
<1>4. ASSUME Ignore PROVE ReviewInv'
    <2>1. PICK rows \in SUBSET Pending :
              /\ note' = [s \in Titles |-> IF s \in rows THEN [note[s] EXCEPT !.status = "ignored"] ELSE note[s]]
              /\ since' = [s \in Titles |-> IF s \in rows THEN {} ELSE since[s]]
        BY <1>4 DEF Ignore
    <2>2. \A s \in Titles : /\ [note[s] EXCEPT !.status = "ignored"] \in Notes
                            /\ [note[s] EXCEPT !.status = "ignored"].status = "ignored"
        BY DEF ReviewInv, Notes
    <2>3. note' \in [Titles -> Notes] /\ since' \in [Titles -> SUBSET Reports]
        BY <2>1, <2>2 DEF ReviewInv
    <2>4. \A s \in Titles : note'[s].status = "pending" => note'[s] = note[s] /\ since'[s] = since[s]
        BY <2>1, <2>2
    <2>5. desk.at = "idle" /\ UNCHANGED <<title, item, desk, scans>> BY <1>4 DEF Ignore
    <2> QED BY <2>3, <2>4, <2>5 DEF ReviewInv
<1> QED BY <1>1, <1>2, <1>3, <1>4

LEMMA ApplyKeeps == ASSUME ReviewInv, ApplyReview \/ ApplyAdd PROVE ReviewInv'
<1>1. ASSUME ApplyReview PROVE ReviewInv'
    <2>1. \A i \in Slots : (\E s \in desk.rows : Primary(i, s)) =>
              (CHOOSE t \in desk.rows : Primary(i, t)) \in Titles
        BY DEF ReviewInv, Desks
    <2>2. item' \in [Slots -> ItemRows] BY <1>1, <2>1, SyncedTyped DEF ApplyReview, ReviewInv
    <2> QED BY <1>1, <2>2, DecidedKeeps DEF ApplyReview
<1>2. ASSUME ApplyAdd PROVE ReviewInv'
    <2> DEFINE s == CHOOSE t \in desk.rows : TRUE
               same == {i \in Slots : item[i].there /\ item[i].name = title[s].name}
               unused == {i \in Slots : ~item[i].there}
    <2>1. desk.at = "add" BY <1>2 DEF ApplyAdd
    <2>2. s \in Titles BY <2>1 DEF ReviewInv, Desks
    <2> HIDE DEF s
    <2>3. item' \in [Slots -> ItemRows]
        <3>1. CASE UNCHANGED item BY <3>1 DEF ReviewInv
        <3>2. CASE same # {} /\ item' = [item EXCEPT ![CHOOSE j \in same : TRUE].chain = Append(@, s)]
            <4>1. PICK i \in Slots : item' = [item EXCEPT ![i].chain = Append(item[i].chain, s)] BY <3>2
            <4> DEFINE links == Append(item[i].chain, s)
            <4>2. item[i] \in ItemRows BY DEF ReviewInv
            <4>3. links \in Seq(Titles) BY <2>2, <4>2 DEF ItemRows
            <4>4. item' = [item EXCEPT ![i] = [item[i] EXCEPT !.chain = links]] BY <4>1
            <4> HIDE DEF links
            <4>5. [item[i] EXCEPT !.chain = links] \in ItemRows BY <4>2, <4>3 DEF ItemRows
            <4> QED BY <4>4, <4>5 DEF ReviewInv
        <3>3. CASE unused # {} /\ item' = [item EXCEPT ![CHOOSE j \in unused : TRUE] = Fresh(s)]
            <4>1. title[s] \in TitleRows BY <2>2 DEF ReviewInv
            <4>2. Fresh(s) \in ItemRows BY <2>2, <4>1 DEF Fresh, ItemRows, TitleRows, Phrases
            <4> QED BY <3>3, <4>2 DEF ReviewInv
        <3> QED BY <1>2, <3>1, <3>2, <3>3 DEF ApplyAdd, s
    <2> QED BY <1>2, <2>3, DecidedKeeps DEF ApplyAdd
<1> QED BY <1>1, <1>2

LEMMA PlaylistKeeps ==
    ASSUME ReviewInv, NEW i \in Slots,
           (\E s \in Titles : AddFallback(i, s)) \/ ReorderChain(i) \/ (\E f \in Fields : Rename(i, f))
    PROVE  ReviewInv'
<1>1. item[i] \in ItemRows BY DEF ReviewInv
<1>2. PICK new \in ItemRows : item' = [item EXCEPT ![i] = new]
    <2>1. ASSUME NEW s \in Titles, AddFallback(i, s) PROVE \E new \in ItemRows : item' = [item EXCEPT ![i] = new]
        <3> DEFINE links == Append(item[i].chain, s)
        <3>1. links \in Seq(Titles) BY <1>1 DEF ItemRows
        <3>2. item' = [item EXCEPT ![i] = [item[i] EXCEPT !.chain = links]] BY <2>1 DEF AddFallback
        <3> HIDE DEF links
        <3>3. [item[i] EXCEPT !.chain = links] \in ItemRows BY <1>1, <3>1 DEF ItemRows
        <3> QED BY <3>2, <3>3
    <2>2. ASSUME ReorderChain(i) PROVE \E new \in ItemRows : item' = [item EXCEPT ![i] = new]
        <3> DEFINE links == Reverse(item[i].chain)
        <3>1. links \in Seq(Titles) BY <1>1 DEF ItemRows, Reverse
        <3>2. item' = [item EXCEPT ![i] = [item[i] EXCEPT !.chain = links]] BY <2>2 DEF ReorderChain
        <3> HIDE DEF links
        <3>3. [item[i] EXCEPT !.chain = links] \in ItemRows BY <1>1, <3>1 DEF ItemRows
        <3> QED BY <3>2, <3>3
    <2>3. ASSUME NEW f \in Fields, Rename(i, f) PROVE \E new \in ItemRows : item' = [item EXCEPT ![i] = new]
        <3>1. item' = [item EXCEPT ![i] = [item[i] EXCEPT ![f] = OwnWord]] BY <2>3 DEF Rename
        <3>2. [item[i] EXCEPT ![f] = OwnWord] \in ItemRows BY <1>1 DEF ItemRows, Fields, Phrases
        <3> QED BY <3>1, <3>2
    <2> QED BY <2>1, <2>2, <2>3
<1>3. UNCHANGED <<title, note, desk, since, scans>> BY DEF AddFallback, ReorderChain, Rename, Touching
<1>4. item' \in [Slots -> ItemRows] BY <1>2 DEF ReviewInv
<1> QED BY <1>3, <1>4 DEF ReviewInv

LEMMA ReviewStep == ASSUME ReviewInv, [ReviewNext]_reviewVars PROVE ReviewInv'
<1>1. ASSUME NEW s \in Titles, SeasonsFetched(s) PROVE ReviewInv'
    <2>1. title' = [title EXCEPT ![s] = [title[s] EXCEPT !.season = TRUE]] BY <1>1 DEF SeasonsFetched
    <2>2. title' \in [Titles -> TitleRows] BY <2>1 DEF ReviewInv, TitleRows
    <2> QED BY <1>1, <2>2 DEF SeasonsFetched, ReviewInv
<1>2. ASSUME UNCHANGED reviewVars PROVE ReviewInv' BY <1>2 DEF reviewVars, ReviewInv
<1> QED BY <1>1, <1>2, ScanKeeps, DeskKeeps, ApplyKeeps, PlaylistKeeps DEF ReviewNext

\* What a review changes is what its desk has read, or a group nobody typed.
LEMMA ReviewTakes == ASSUME ReviewInv, [ReviewNext]_reviewVars PROVE TakesReported
<1> SUFFICES ASSUME desk.at = "apply", desk'.at = "idle", NEW i \in Slots, NEW f \in Fields,
                    item'[i][f] # item[i][f]
             PROVE  \E s \in desk.rows : /\ Primary(i, s)
                                         /\ f \in since[s] \/ (f = "group" /\ item[i].group # OwnWord)
    BY DEF TakesReported
<1>1. ApplyReview
    <2>1. \A s \in Titles : ~Scan(s) /\ ~SeasonsFetched(s) BY DEF Scan, SeasonsFetched
    <2>2. \A j \in Slots : /\ \A s \in Titles : ~AddFallback(j, s)
                           /\ ~ReorderChain(j) /\ \A g \in Fields : ~Rename(j, g)
        BY DEF AddFallback, ReorderChain, Rename, Touching
    <2>3. ~BeginReview /\ ~ReviewFails /\ ~Ignore /\ ~BeginAdd /\ ~ApplyAdd /\ ~UNCHANGED reviewVars
        BY DEF BeginReview, ReviewFails, Ignore, BeginAdd, ApplyAdd, reviewVars
    <2> QED BY <2>1, <2>2, <2>3 DEF ReviewNext
<1>2. PICK s \in desk.rows : Primary(i, s) /\ item'[i] = Synced(i, s, desk.labels[s])
    BY <1>1 DEF ApplyReview
<1>3. s \in Titles BY <1>2 DEF ReviewInv, Desks
<1>4. Takes(i, s, desk.labels[s], f) BY <1>2, <1>3, SyncedTyped
<1>5. OwnWord \notin Words BY WordAssumption DEF Words
<1> QED BY <1>2, <1>4, <1>5 DEF Takes, Derived, ReviewInv

\* A review never brings a word into the playlist that the source's portal has not reported
\* since the operator last decided on it, for any number of sources, items, scans and edits.
THEOREM ReviewsTakeWhatWasReported == ReviewSpec => OnlyWhatWasReported
<1>1. ReviewInv /\ [ReviewNext]_reviewVars => [TakesReported]_reviewVars BY ReviewTakes
<1>2. ReviewSpec => []ReviewInv BY ReviewInitInv, ReviewStep, PTL DEF ReviewSpec
<1> QED BY <1>1, <1>2, PTL DEF ReviewSpec, OnlyWhatWasReported
-----------------------------------------------------------------------------
(* The live playlist (LivePlaylist) *)

\* A row has the columns of the table, whatever they hold.
IsRow(r) == r \in [order : {r.order}, number : {r.number}, lock : {r.lock}, enabled : {r.enabled}, name : {r.name}]
IsTable(t) == \A c \in DOMAIN t : IsRow(t[c])

\* Of table t, u has the same rows, the locked ones with the same numbers.
Steady(t, u) ==
    /\ DOMAIN u = DOMAIN t /\ IsTable(u)
    /\ \A c \in DOMAIN t : u[c].lock = t[c].lock /\ (t[c].lock => u[c].number = t[c].number)

\* u has the rows of t, all but that of c as they are.
SameBut(t, u, c) == DOMAIN u = DOMAIN t /\ IsTable(u) /\ \A d \in DOMAIN t \ {c} : u[d] = t[d]

\* u has the rows of t and one for c.
Joined(t, u, c) ==
    /\ DOMAIN u = DOMAIN t \cup {c} /\ IsTable(u)
    /\ \A d \in DOMAIN t : u[d].lock = t[d].lock /\ (t[d].lock => u[d].number = t[d].number)

\* u has some rows of t, as they are.
PartOf(t, u) == DOMAIN u \subseteq DOMAIN t /\ IsTable(u) /\ \A d \in DOMAIN u : u[d] = t[d]

LEMMA RowColumns ==
    ASSUME NEW r, IsRow(r), NEW x
    PROVE  /\ IsRow([r EXCEPT !.order = x]) /\ [r EXCEPT !.order = x].number = r.number
           /\ [r EXCEPT !.order = x].lock = r.lock /\ [r EXCEPT !.order = x].enabled = r.enabled
           /\ IsRow([r EXCEPT !.number = x]) /\ [r EXCEPT !.number = x].number = x
           /\ [r EXCEPT !.number = x].lock = r.lock /\ [r EXCEPT !.number = x].enabled = r.enabled
           /\ IsRow([r EXCEPT !.lock = x]) /\ [r EXCEPT !.lock = x].number = r.number
           /\ [r EXCEPT !.lock = x].lock = x /\ [r EXCEPT !.lock = x].enabled = r.enabled
           /\ IsRow([r EXCEPT !.enabled = x]) /\ [r EXCEPT !.enabled = x].number = r.number
           /\ [r EXCEPT !.enabled = x].lock = r.lock /\ [r EXCEPT !.enabled = x].enabled = x
           /\ IsRow([r EXCEPT !.name = x]) /\ [r EXCEPT !.name = x].number = r.number
           /\ [r EXCEPT !.name = x].lock = r.lock /\ [r EXCEPT !.name = x].enabled = r.enabled
BY DEF IsRow

LEMMA SteadyTwice ==
    ASSUME NEW t, NEW u, NEW v, Steady(t, u), Steady(u, v) PROVE Steady(t, v)
BY DEF Steady

LEMMA SteadyItself == ASSUME NEW t, IsTable(t) PROVE Steady(t, t)
BY DEF Steady

LEMMA RenumberSteady == ASSUME NEW t, IsTable(t) PROVE Steady(t, Renumber(t))
<1> DEFINE new(c) == [t[c] EXCEPT !.number = Free(t, Rank(t, Unlocked(t), c))]
<1>1. Renumber(t) = [c \in DOMAIN t |-> IF c \in Unlocked(t) THEN new(c) ELSE t[c]]
  BY DEF Renumber
<1>2. \A c \in DOMAIN t : IsRow(new(c)) /\ new(c).lock = t[c].lock
  BY RowColumns DEF IsTable
<1>3. \A c \in Unlocked(t) : ~t[c].lock
  BY DEF Unlocked
<1> HIDE DEF new
<1> QED BY <1>1, <1>2, <1>3 DEF Steady, IsTable

LEMMA RepairSteady == ASSUME NEW t, IsTable(t) PROVE Steady(t, Repair(t))
<1> DEFINE new(c) == [t[c] EXCEPT !.order = Rank(t, DOMAIN t, c)]
<1>1. CASE Ordered(t)
  BY <1>1, SteadyItself DEF Repair
<1>2. CASE ~Ordered(t)
  <2>1. Repair(t) = [c \in DOMAIN t |-> new(c)]
    BY <1>2 DEF Repair
  <2>2. \A c \in DOMAIN t : IsRow(new(c)) /\ new(c).lock = t[c].lock /\ new(c).number = t[c].number
    BY RowColumns DEF IsTable
  <2> HIDE DEF new
  <2> QED BY <2>1, <2>2 DEF Steady, IsTable
<1> QED BY <1>1, <1>2

LEMMA PlaceSteady == ASSUME NEW t, IsTable(t), NEW seq, NEW S PROVE Steady(t, Place(t, seq, S))
<1> DEFINE held == Ranked(t, S)
           new(c) == [t[c] EXCEPT !.order = t[held[CHOOSE k \in DOMAIN seq : seq[k] = c]].order]
<1>1. Place(t, seq, S) = [c \in DOMAIN t |-> IF c \in S THEN new(c) ELSE t[c]]
  BY DEF Place
<1>2. \A c \in DOMAIN t : IsRow(new(c)) /\ new(c).lock = t[c].lock /\ new(c).number = t[c].number
  BY RowColumns DEF IsTable
<1> HIDE DEF new
<1> QED BY <1>1, <1>2 DEF Steady, IsTable

LEMMA MoveSteady == ASSUME NEW t, IsTable(t), NEW c, NEW rank PROVE Steady(t, MoveToRank(t, c, rank))
<1> DEFINE u == Repair(t)
<1>1. Steady(t, u) /\ IsTable(u)
  BY RepairSteady DEF Steady
<1>2. MoveToRank(t, c, rank) = u \/ \E seq : MoveToRank(t, c, rank) = Place(u, seq, Enabled(u))
  BY DEF MoveToRank
<1> HIDE DEF u
<1> QED BY <1>1, <1>2, PlaceSteady, SteadyTwice

LEMMA SyncSteady == ASSUME NEW t, IsTable(t), NEW c, NEW asked PROVE Steady(t, NumberSync(t, c, asked))
<1> DEFINE u == IF t[c].enabled /\ asked # NoNumber THEN MoveToRank(t, c, asked) ELSE t
<1>1. Steady(t, u) /\ IsTable(u)
  BY MoveSteady, SteadyItself DEF Steady
<1> HIDE DEF u
<1>2. NumberSync(t, c, asked) = Renumber(u)
  BY DEF NumberSync, u
<1> QED BY <1>1, <1>2, RenumberSteady, SteadyTwice

LEMMA LockedColumns ==
    ASSUME NEW t, IsTable(t), NEW c \in DOMAIN t, NEW lock
    PROVE  /\ SameBut(t, Locked(t, c, lock), c)
           /\ Locked(t, c, lock)[c].lock = lock /\ Locked(t, c, lock)[c].number = t[c].number
           /\ Locked(t, c, lock)[c].enabled = t[c].enabled
<1>1. Locked(t, c, lock) = [t EXCEPT ![c] = [t[c] EXCEPT !.lock = lock]]
  BY DEF Locked
<1>2. IsRow([t[c] EXCEPT !.lock = lock])
  BY RowColumns DEF IsTable
<1>3. /\ [t[c] EXCEPT !.lock = lock].lock = lock /\ [t[c] EXCEPT !.lock = lock].number = t[c].number
      /\ [t[c] EXCEPT !.lock = lock].enabled = t[c].enabled
  BY RowColumns DEF IsTable
<1> QED BY <1>1, <1>2, <1>3 DEF IsTable, SameBut
-----------------------------------------------------------------------------
\* What a writer must do with the numbers that are locked before and after it.
KeepsLocked(t, u) ==
    /\ IsTable(u)
    /\ \A c \in DOMAIN t \cap DOMAIN u :
          t[c].lock /\ u[c].lock /\ t[c].number # NoNumber => u[c].number = t[c].number

LEMMA SteadyKeeps == ASSUME NEW t, NEW u, Steady(t, u) PROVE KeepsLocked(t, u)
BY DEF Steady, KeepsLocked

\* live_update: the row that is edited, and every other row.
LEMMA UpdatedKeeps == ASSUME NEW t0, IsTable(t0), NEW c \in DOMAIN t0, NEW p PROVE KeepsLocked(t0, Updated(t0, c, p))
<1> DEFINE was == t0[c]
           t == [t0 EXCEPT ![c].number = IF "number" \in DOMAIN p THEN p.number ELSE @,
                           ![c].lock = IF "lock" \in DOMAIN p THEN p.lock ELSE @,
                           ![c].enabled = IF "enabled" \in DOMAIN p THEN p.enabled ELSE @,
                           ![c].name = IF "name" \in DOMAIN p THEN p.name ELSE @]
           asked == IF "number" \in DOMAIN p THEN p.number ELSE NoNumber
           kept == [t EXCEPT ![c].number = was.number]
           pinned == IF kept[c].number = NoNumber /\ kept[c].enabled
                     THEN Locked(Renumber(Locked(kept, c, FALSE)), c, TRUE) ELSE kept
           still == IF t[c].lock THEN pinned ELSE t
           u == Updated(t0, c, p)
<1>1. u = CASE was.lock /\ ~t[c].lock -> Renumber(t)
            [] ~was.lock /\ t[c].lock -> Locked(NumberSync(Locked(t, c, FALSE), c, asked), c, TRUE)
            [] OTHER -> IF "number" \in DOMAIN p \/ was.enabled # t[c].enabled
                        THEN NumberSync(still, c, asked) ELSE still
  BY DEF Updated
<1>2. DOMAIN t = DOMAIN t0 /\ IsRow(t[c]) /\ \A d \in DOMAIN t0 \ {c} : t[d] = t0[d]
  <2>1. IsRow(t0[c])
    BY DEF IsTable
  <2>2. IsRow(t[c])
    BY <2>1 DEF IsRow
  <2>3. DOMAIN t = DOMAIN t0 /\ \A d \in DOMAIN t0 \ {c} : t[d] = t0[d]
    OBVIOUS
  <2> QED BY <2>2, <2>3
<1> HIDE DEF t
<1>3. IsTable(t) /\ c \in DOMAIN t
  BY <1>2 DEF IsTable
<1>4. /\ DOMAIN kept = DOMAIN t /\ IsTable(kept) /\ kept[c].number = was.number /\ kept[c].lock = t[c].lock
      /\ \A d \in DOMAIN t \ {c} : kept[d] = t[d]
  <2>1. kept = [t EXCEPT ![c] = [t[c] EXCEPT !.number = was.number]]
    OBVIOUS
  <2> DEFINE x == was.number
  <2> HIDE DEF x
  <2>2. IsRow(t[c])
    BY <1>2
  <2>3. /\ IsRow([t[c] EXCEPT !.number = x]) /\ [t[c] EXCEPT !.number = x].number = x
        /\ [t[c] EXCEPT !.number = x].lock = t[c].lock
    BY <2>2 DEF IsRow
  <2> HIDE DEF kept
  <2> QED BY <1>2, <1>3, <2>1, <2>3 DEF IsTable, x
<1> HIDE DEF kept
<1>5. CASE was.lock /\ ~t[c].lock
  <2>1. u = Renumber(t)
    BY <1>1, <1>5
  <2>2. Steady(t, u)
    BY <1>3, <2>1, RenumberSteady
  <2> QED BY <1>2, <1>5, <2>2 DEF Steady, KeepsLocked
<1>6. CASE ~was.lock /\ t[c].lock
  <2> DEFINE v == Locked(t, c, FALSE)
             w == NumberSync(v, c, asked)
  <2>1. u = Locked(w, c, TRUE)
    BY <1>1, <1>6
  <2>2. SameBut(t, v, c)
    BY <1>3, LockedColumns
  <2>3. IsTable(v) /\ DOMAIN v = DOMAIN t
    BY <2>2 DEF SameBut
  <2> HIDE DEF v
  <2>4. Steady(v, w) /\ IsTable(w) /\ DOMAIN w = DOMAIN t
    BY <2>3, SyncSteady DEF Steady
  <2> HIDE DEF w, u
  <2>5. SameBut(w, u, c)
    BY <1>3, <2>1, <2>4, LockedColumns
  <2> QED BY <1>2, <1>6, <2>2, <2>4, <2>5, <2>3 DEF Steady, KeepsLocked, SameBut, u
<1>7. CASE ~ (was.lock /\ ~t[c].lock) /\ ~ (~was.lock /\ t[c].lock)
  <2>1. u = NumberSync(still, c, asked) \/ u = still
    BY <1>1, <1>7
  <2>2. /\ IsTable(pinned) /\ DOMAIN pinned = DOMAIN t
        /\ was.number # NoNumber => pinned[c].number = was.number
        /\ \A d \in DOMAIN t \ {c} : pinned[d].lock = t[d].lock /\ (t[d].lock => pinned[d].number = t[d].number)
    <3>1. CASE kept[c].number = NoNumber /\ kept[c].enabled
      <4> DEFINE v == Locked(kept, c, FALSE)
                 w == Renumber(v)
      <4>1. SameBut(kept, v, c)
        BY <1>3, <1>4, LockedColumns
      <4>2. IsTable(v) /\ DOMAIN v = DOMAIN t
        BY <1>4, <4>1 DEF SameBut
      <4> HIDE DEF v
      <4>3. Steady(v, w) /\ IsTable(w) /\ DOMAIN w = DOMAIN t
        BY <4>2, RenumberSteady DEF Steady
      <4> HIDE DEF w
      <4>4. pinned = Locked(w, c, TRUE)
        BY <3>1 DEF w, v
      <4> HIDE DEF pinned
      <4>5. SameBut(w, pinned, c)
        BY <1>3, <4>3, <4>4, LockedColumns
      <4> QED BY <1>4, <3>1, <4>1, <4>3, <4>5, <4>2 DEF Steady, SameBut
    <3>2. CASE ~ (kept[c].number = NoNumber /\ kept[c].enabled)
      <4>1. pinned = kept
        BY <3>2
      <4> QED BY <1>4, <4>1
    <3> QED BY <3>1, <3>2
  <2> HIDE DEF pinned
  <2>3. /\ IsTable(still) /\ DOMAIN still = DOMAIN t
        /\ t[c].lock /\ was.number # NoNumber => still[c].number = was.number
        /\ \A d \in DOMAIN t \ {c} : still[d].lock = t[d].lock /\ (t[d].lock => still[d].number = t[d].number)
        /\ ~t[c].lock => still[c].lock = t[c].lock
        /\ t[c].lock => still = pinned
    BY <1>3, <2>2
  <2> HIDE DEF still
  <2>4. Steady(still, u)
    BY <2>1, <2>3, SyncSteady, SteadyItself
  <2>5. ASSUME was.lock, u[c].lock, was.number # NoNumber PROVE u[c].number = was.number
    <3>1. t[c].lock
      BY <1>7, <2>5
    <3>2. still[c].number = was.number
      BY <2>3, <2>5, <3>1
    <3>3. u[c].lock = still[c].lock
      BY <1>3, <2>3, <2>4 DEF Steady
    <3> QED BY <1>3, <2>3, <2>4, <2>5, <3>2, <3>3 DEF Steady
  <2> QED BY <1>2, <2>3, <2>4, <2>5 DEF Steady, KeepsLocked
<1> QED BY <1>5, <1>6, <1>7
-----------------------------------------------------------------------------
LEMMA WithKeeps ==
    ASSUME NEW t, IsTable(t), NEW c, c \notin DOMAIN t, NEW entry, IsRow(entry)
    PROVE  Joined(t, With(t, c, entry), c)
<1>1. Steady(t, Repair(t))
  BY RepairSteady
<1> QED BY <1>1 DEF With, Steady, IsTable, Joined

LEMMA NewRow == ASSUME NEW t, NEW name PROVE IsRow(NewChannel(t, name))
BY DEF NewChannel, IsRow

LEMMA CreateKeeps ==
    ASSUME IsTable(channels), NEW c, NEW name, NEW asked, NEW lock, NEW enabled, NEW sources,
           Create(c, name, asked, lock, enabled, sources)
    PROVE  KeepsLocked(channels, channels')
<1> DEFINE entry == [NewChannel(channels, name) EXCEPT !.number = asked, !.enabled = enabled]
           v == With(channels, c, entry)
           w == NumberSync(v, c, asked)
<1>1. c \notin DOMAIN channels /\ channels' = Locked(w, c, lock)
  BY DEF Create, Unused
<1>2. IsRow(entry)
  BY DEF NewChannel, IsRow
<1> HIDE DEF entry
<1>3. Joined(channels, v, c)
  BY <1>1, <1>2, WithKeeps
<1>4. IsTable(v) /\ c \in DOMAIN v
  BY <1>3 DEF Joined
<1> HIDE DEF v
<1>5. Steady(v, w) /\ IsTable(w) /\ DOMAIN w = DOMAIN v
  BY <1>4, SyncSteady DEF Steady
<1> HIDE DEF w
<1>6. SameBut(w, channels', c)
  BY <1>1, <1>4, <1>5, LockedColumns
<1> QED BY <1>1, <1>4, <1>5, <1>6, <1>3 DEF Steady, KeepsLocked, SameBut, Joined

LEMMA NewPlacementKeeps ==
    ASSUME NEW t, IsTable(t), NEW c, c \notin DOMAIN t, NEW entry, IsRow(entry)
    PROVE  KeepsLocked(t, Renumber(With(t, c, entry)))
<1> DEFINE v == With(t, c, entry)
<1>1. Joined(t, v, c)
  BY WithKeeps
<1> HIDE DEF v
<1>2. IsTable(v)
  BY <1>1 DEF Joined
<1>3. Steady(v, Renumber(v))
  BY <1>2, RenumberSteady
<1> QED BY <1>1, <1>3 DEF Steady, KeepsLocked, Joined, v

LEMMA WithoutTable ==
    ASSUME NEW t, IsTable(t), NEW S
    PROVE  PartOf(t, Without(t, S))
BY DEF IsTable, Without, PartOf

LEMMA AssignKeepsLocked ==
    ASSUME IsTable(channels), NEW s, NEW name, AssignName(s, name)
    PROVE  KeepsLocked(channels, channels')
<1>1. ASSUME NEW c, AssignExisting(s, c) PROVE KeepsLocked(channels, channels')
  <2>1. CASE channels' = channels
    BY <2>1, SteadyItself, SteadyKeeps
  <2>2. CASE channels' = Without(channels, Emptied(s, c))
    BY <2>2, WithoutTable DEF KeepsLocked, PartOf
  <2> QED BY <1>1, <2>1, <2>2 DEF AssignExisting
<1>2. ASSUME AssignNew(s, name), Owned(s) # {} PROVE KeepsLocked(channels, channels')
  <2> DEFINE c == CHOOSE x \in Owned(s) : TRUE
  <2>1. channels' = [channels EXCEPT ![c] = [channels[c] EXCEPT !.name = name]]
    BY <1>2 DEF AssignNew
  <2> HIDE DEF c
  <2>2. c \in DOMAIN channels => /\ IsRow([channels[c] EXCEPT !.name = name])
                                 /\ [channels[c] EXCEPT !.name = name].number = channels[c].number
    BY RowColumns DEF IsTable
  <2> QED BY <2>1, <2>2 DEF KeepsLocked, IsTable
<1>3. ASSUME AssignNew(s, name), Owned(s) = {} PROVE KeepsLocked(channels, channels')
  <2> DEFINE t == Without(channels, Emptied(s, NoNumber))
  <2>1. PICK c \in Unused : channels' = Renumber(With(t, c, NewChannel(t, name)))
    BY <1>3 DEF AssignNew
  <2>2. PartOf(channels, t) /\ IsTable(t)
    BY WithoutTable DEF PartOf
  <2> HIDE DEF t
  <2>3. c \notin DOMAIN t /\ c \notin DOMAIN channels
    BY <2>2 DEF Unused, PartOf
  <2> DEFINE entry == NewChannel(t, name)
             v == With(t, c, entry)
  <2>4. IsRow(entry)
    BY NewRow
  <2> HIDE DEF entry
  <2>5. Joined(t, v, c)
    BY <2>2, <2>3, <2>4, WithKeeps
  <2>6. IsTable(v)
    BY <2>5 DEF Joined
  <2>7. channels' = Renumber(v)
    BY <2>1 DEF entry
  <2> HIDE DEF v
  <2>8. Steady(v, channels')
    BY <2>7, <2>6, RenumberSteady
  <2> QED BY <2>2, <2>3, <2>5, <2>8 DEF Steady, KeepsLocked, Joined, PartOf
<1> QED BY <1>1, <1>2, <1>3 DEF AssignName

LEMMA SourceKeeps ==
    ASSUME IsTable(channels), NEW s, NEW match,
           EnableSource(s, match) \/ DisableSource(s) \/ AddSource(s)
    PROVE  KeepsLocked(channels, channels')
<1>1. CASE channels' = channels
  BY <1>1, SteadyItself, SteadyKeeps
<1>2. CASE NewPlacement(chain, s, NameOf[s])
  <2>1. PICK c \in Unused : channels' = Renumber(With(channels, c, NewChannel(channels, NameOf[s])))
    BY <1>2 DEF NewPlacement
  <2> QED BY <2>1, NewRow, NewPlacementKeeps DEF Unused
<1> QED BY <1>1, <1>2 DEF EnableSource, DisableSource, AddSource

LEMMA ListKeeps ==
    ASSUME IsTable(channels), NEW S, NEW b, NEW seq, NEW c, NEW order,
           Delete(S) \/ BulkEnable(S, b) \/ Reorder(seq) \/ SetOrder(c, order)
    PROVE  KeepsLocked(channels, channels')
<1>1. CASE Delete(S)
  <2> DEFINE v == Without(channels, S)
  <2>1. channels' = Renumber(v)
    BY <1>1 DEF Delete
  <2>2. PartOf(channels, v) /\ IsTable(v)
    BY WithoutTable DEF PartOf
  <2> HIDE DEF v
  <2> QED BY <2>1, <2>2, RenumberSteady DEF Steady, KeepsLocked, PartOf
<1>2. CASE BulkEnable(S, b)
  <2> DEFINE new(d) == [channels[d] EXCEPT !.enabled = b]
             v == [d \in DOMAIN channels |-> IF d \in S THEN new(d) ELSE channels[d]]
  <2>1. channels' = Renumber(v)
    BY <1>2 DEF BulkEnable
  <2>2. \A d \in DOMAIN channels : IsRow(new(d)) /\ new(d).lock = channels[d].lock
                                   /\ new(d).number = channels[d].number
    BY RowColumns DEF IsTable
  <2> HIDE DEF new
  <2>3. Steady(channels, v) /\ IsTable(v)
    BY <2>2 DEF Steady, IsTable
  <2> HIDE DEF v
  <2> QED BY <2>1, <2>3, RenumberSteady, SteadyTwice, SteadyKeeps
<1>3. CASE Reorder(seq)
  <2> DEFINE v == Repair(channels)
             w == Place(v, seq, ToSet(seq))
  <2>1. channels' = Renumber(w)
    BY <1>3 DEF Reorder
  <2>2. Steady(channels, v) /\ IsTable(v)
    BY RepairSteady DEF Steady
  <2> HIDE DEF v
  <2>3. Steady(v, w) /\ IsTable(w)
    BY <2>2, PlaceSteady DEF Steady
  <2> HIDE DEF w
  <2> QED BY <2>1, <2>2, <2>3, RenumberSteady, SteadyTwice, SteadyKeeps
<1>4. CASE SetOrder(c, order)
  <2> DEFINE v == [channels EXCEPT ![c].order = order]
             w == Repair(v)
  <2>1. c \in DOMAIN channels /\ channels' = Renumber(w)
    BY <1>4 DEF SetOrder
  <2>2. Steady(channels, v) /\ IsTable(v)
    <3>1. v = [channels EXCEPT ![c] = [channels[c] EXCEPT !.order = order]]
      OBVIOUS
    <3>2. IsRow([channels[c] EXCEPT !.order = order])
          /\ [channels[c] EXCEPT !.order = order].lock = channels[c].lock
          /\ [channels[c] EXCEPT !.order = order].number = channels[c].number
      BY <2>1, RowColumns DEF IsTable
    <3> HIDE DEF v
    <3> QED BY <2>1, <3>1, <3>2 DEF Steady, IsTable
  <2> HIDE DEF v
  <2>3. Steady(v, w) /\ IsTable(w)
    BY <2>2, RepairSteady DEF Steady
  <2> HIDE DEF w
  <2> QED BY <2>1, <2>2, <2>3, RenumberSteady, SteadyTwice, SteadyKeeps
<1> QED BY <1>1, <1>2, <1>3, <1>4

LEMMA WritersKeep == IsTable(channels) /\ [Next]_vars => KeepsLocked(channels, channels')
<1> SUFFICES ASSUME IsTable(channels), [Next]_vars PROVE KeepsLocked(channels, channels')
  OBVIOUS
<1>1. CASE \E c \in Ids, name \in Names, asked \in Asked \cup {NoNumber}, lock \in Locks,
              enabled \in BOOLEAN, sources \in Chains : Create(c, name, asked, lock, enabled, sources)
  BY <1>1, CreateKeeps
<1>2. CASE \E c \in Ids, p \in Payloads : Update(c, p)
  BY <1>2, UpdatedKeeps DEF Update
<1>3. CASE \E c \in Ids, sources \in Chains : UpdateChain(c, sources)
  BY <1>3, UpdatedKeeps DEF UpdateChain
<1>4. CASE \E S \in SUBSET Ids : Delete(S) \/ (\E b \in BOOLEAN : BulkEnable(S, b))
  BY <1>4, ListKeeps
<1>5. CASE \E S \in SUBSET Ids : \E seq \in Sequencing(S) : Reorder(seq)
  BY <1>5, ListKeeps
<1>6. CASE \E c \in Ids, order \in 0 .. MaxOrder : SetOrder(c, order)
  BY <1>6, ListKeeps
<1>7. CASE \E s \in Sources : \/ \E match \in BOOLEAN : EnableSource(s, match)
                              \/ DisableSource(s) \/ AddSource(s)
                              \/ \E name \in Names : AssignName(s, name)
  BY <1>7, SourceKeeps, AssignKeepsLocked
<1>8. CASE (\E S, T \in SUBSET Sources : DeletePortal(S, T)) \/ UNCHANGED vars
  <2>1. channels' = channels
    BY <1>8 DEF DeletePortal, vars
  <2> QED BY <2>1, SteadyItself, SteadyKeeps
<1> QED BY <1>1, <1>2, <1>3, <1>4, <1>5, <1>6, <1>7, <1>8 DEF Next

\* services/playlist_order.py, routers/api_playlist.py: no writer of the playlist changes the
\* number of a channel that is locked before and after it.
THEOREM LockedNumbersStay == Spec => LockedKeepNumber
<1>1. Init => IsTable(channels)
  BY DEF Init, IsTable
<1>2. IsTable(channels) /\ [Next]_vars => IsTable(channels)'
  BY WritersKeep DEF KeepsLocked
<1>3. IsTable(channels) /\ [Next]_vars =>
        [\A c \in DOMAIN channels \cap DOMAIN channels' :
          channels[c].lock /\ channels'[c].lock /\ channels[c].number # NoNumber
          => channels'[c].number = channels[c].number]_vars
  BY WritersKeep DEF KeepsLocked
<1> QED BY <1>1, <1>2, <1>3, PTL DEF Spec, LockedKeepNumber
-----------------------------------------------------------------------------
(* The programme guide (Guide) *)

WorkerState ==
    [at : Steps, todo : SUBSET Feeds, feed : Feeds \cup {NoId}, raw : {NoGuide} \cup SUBSET EpgIds,
     clock : Clocks, plan : [Channels -> EpgIds \cup {NoId}], wanted : SUBSET EpgIds]

GuideTyped ==
    /\ remote \in [Feeds -> SUBSET EpgIds]
    /\ row \in [Feeds -> [there : BOOLEAN, enabled : BOOLEAN, clock : Clocks, applied : Clocks]]
    /\ cached \in [Feeds -> {NoGuide} \cup SUBSET EpgIds]
    /\ shows \in [Feeds -> [ids : SUBSET EpgIds, clock : Clocks]]
    /\ live \in [Channels -> [id : EpgIds \cup {NoId}, enabled : BOOLEAN]]
    /\ mapped \subseteq Channels \X Feeds \X EpgIds
    /\ chosen \subseteq Channels
    /\ pending \in BOOLEAN
    /\ worker \in [Workers -> WorkerState]

\* One ingest at a time, of a feed; and a rerun that has not begun has nothing to do.
OneIngest ==
    /\ \A v, w \in Workers : Ingesting(v) /\ Ingesting(w) => v = w
    /\ \A w \in Workers : Ingesting(w) => worker[w].feed \in Feeds
    /\ worker["rematch"].at \in {"idle", "nap"} => worker["rematch"].todo = {}

\* A rerun is going to read the feed again.
Awaited(s) == pending \/ s \in worker["rematch"].todo
Used(s) == row[s].there /\ row[s].enabled

AfterKeep(w) == worker[w].at \in {"match", "assign", "want", "flush"}

\* The ingest under way reads what is cached, with the clock of the row, for all that is
\* chosen, unless a rerun follows.
FileIsRead(w) ==
    LET s == worker[w].feed IN
    (AfterKeep(w) \/ (worker[w].at = "keep" /\ w = "rematch")) /\ row[s].there => worker[w].raw = cached[s]
ClockIsRead(w) ==
    LET s == worker[w].feed IN
    Ingesting(w) /\ Used(s) => worker[w].clock = row[s].clock \/ Awaited(s)
ChoicesAreRead(w) ==
    LET s == worker[w].feed IN
    worker[w].at = "flush" /\ Used(s) => ChosenFor(s) \cap EpgIds \subseteq worker[w].wanted \/ Awaited(s)

\* An ingest that cannot fail any more, or whose failure leaves no file.
Bringing(w, s) ==
    worker[w].feed = s /\ (AfterKeep(w) \/ (w = "rematch" /\ worker[w].at \in {"load", "keep"}))
UpToDate(s) == cached[s] \cap ChosenFor(s) \subseteq shows[s].ids /\ row[s].clock = shows[s].clock
NoneForgotten(s) ==
    Used(s) /\ cached[s] # NoGuide => Awaited(s) \/ UpToDate(s) \/ \E w \in Workers : Bringing(w, s)

GuideInv ==
    /\ GuideTyped
    /\ OneIngest
    /\ \A w \in Workers : FileIsRead(w) /\ ClockIsRead(w) /\ ChoicesAreRead(w)
    /\ \A s \in Feeds : NoneForgotten(s)
    /\ ClockIsHonest

ClockTold(s) == row[s].there => row[s].applied = shows[s].clock

LEMMA GuideStarts == ASSUME GuideInit PROVE GuideInv
<1>1. GuideTyped
  <2>1. Resting \in WorkerState
    BY DEF Resting, WorkerState, Steps, Clocks
  <2> QED BY <2>1 DEF GuideInit, GuideTyped, Clocks
<1>2. \A w \in Workers : worker[w].at = "idle" /\ worker[w].todo = {}
  BY DEF GuideInit, Resting
<1>3. OneIngest
  BY <1>2 DEF OneIngest, Ingesting, Workers
<1>4. \A w \in Workers : FileIsRead(w) /\ ClockIsRead(w) /\ ChoicesAreRead(w)
  BY <1>2 DEF FileIsRead, ClockIsRead, ChoicesAreRead, AfterKeep, Ingesting
<1>5. \A s \in Feeds : NoneForgotten(s)
  BY DEF GuideInit, NoneForgotten
<1>6. ClockIsHonest
  BY DEF GuideInit, ClockIsHonest
<1> QED BY <1>1, <1>3, <1>4, <1>5, <1>6 DEF GuideInv

\* What a step of a worker comes to: what is chosen does not grow, a file that changes is
\* being brought, and nobody who waits for a rerun is passed over.
LEMMA WorkerMoves ==
    ASSUME GuideInv, NEW w \in Workers, GuideTyped', OneIngest',
           UNCHANGED <<row, shows>>,
           \A v \in Workers : v # w => worker'[v] = worker[v],
           \A s \in Feeds : ChosenFor(s)' \subseteq ChosenFor(s),
           \A s \in Feeds : cached'[s] = cached[s] \/ Bringing(w, s)',
           \A v \in Workers : v # w /\ Ingesting(v) =>
               /\ cached' = cached
               /\ Used(worker[v].feed) /\ Awaited(worker[v].feed) => Awaited(worker[v].feed)',
           FileIsRead(w)', ClockIsRead(w)', ChoicesAreRead(w)',
           \A s \in Feeds : Used(s) /\ cached[s] # NoGuide /\ (Awaited(s) \/ Bringing(w, s)) =>
               Awaited(s)' \/ Bringing(w, s)'
    PROVE  GuideInv'
<1>1. ASSUME NEW v \in Workers, v # w PROVE FileIsRead(v)' /\ ClockIsRead(v)' /\ ChoicesAreRead(v)'
  <2>1. worker'[v] = worker[v]
    BY <1>1
  <2>2. CASE ~Ingesting(v)
    BY <2>1, <2>2 DEF Ingesting, FileIsRead, ClockIsRead, ChoicesAreRead, AfterKeep
  <2>3. CASE Ingesting(v)
    <3> DEFINE s == worker[v].feed
    <3>1. s \in Feeds /\ FileIsRead(v) /\ ClockIsRead(v) /\ ChoicesAreRead(v)
      BY <2>3 DEF GuideInv, OneIngest
    <3>2. cached' = cached /\ (Used(s) /\ Awaited(s) => Awaited(s)') /\ ChosenFor(s)' \subseteq ChosenFor(s)
      BY <1>1, <2>3, <3>1
    <3>3. Used(s)' = Used(s) /\ worker'[v].feed = s
      BY <2>1 DEF Used
    <3>4. FileIsRead(v)'
      BY <2>1, <3>1, <3>2 DEF FileIsRead, AfterKeep
    <3>5. ClockIsRead(v)'
      BY <2>1, <3>1, <3>2, <3>3 DEF ClockIsRead, Ingesting
    <3>6. ChoicesAreRead(v)'
      BY <2>1, <3>1, <3>2, <3>3 DEF ChoicesAreRead
    <3> QED BY <3>4, <3>5, <3>6
  <2> QED BY <2>2, <2>3
<1>2. ASSUME NEW s \in Feeds PROVE NoneForgotten(s)'
  <2> SUFFICES ASSUME Used(s)', cached'[s] # NoGuide, ~Awaited(s)', ~UpToDate(s)'
               PROVE  \E v \in Workers : Bringing(v, s)'
    BY DEF NoneForgotten
  <2>1. CASE Bringing(w, s)'
    BY <2>1
  <2>2. CASE ~Bringing(w, s)'
    <3>1. cached'[s] = cached[s] /\ Used(s) /\ cached[s] # NoGuide
      BY <2>2 DEF Used
    <3>2. ~Awaited(s) /\ ~Bringing(w, s)
      BY <2>2, <3>1
    <3>3. ~UpToDate(s)
      <4>1. ChosenFor(s)' \subseteq ChosenFor(s)
        OBVIOUS
      <4>2. cached'[s] \cap ChosenFor(s)' \subseteq cached[s] \cap ChosenFor(s)
        BY <3>1, <4>1
      <4> QED BY <4>2 DEF UpToDate
    <3>4. PICK v \in Workers : Bringing(v, s)
      BY <3>1, <3>2, <3>3 DEF GuideInv, NoneForgotten
    <3>5. worker'[v] = worker[v]
      BY <3>2, <3>4
    <3> QED BY <3>4, <3>5 DEF Bringing, AfterKeep
  <2> QED BY <2>1, <2>2
<1>3. ClockIsHonest'
  BY DEF GuideInv, ClockIsHonest
<1> QED BY <1>1, <1>2, <1>3 DEF GuideInv

\* An operator's change queues a rerun, whatever it does to the tables.
LEMMA QueuedKeeps ==
    ASSUME GuideInv, Queued, GuideTyped', ClockIsHonest',
           \A s \in Feeds : row'[s].there => row[s].there /\ cached'[s] = cached[s]
    PROVE  GuideInv'
<1>1. \A s \in Feeds : Awaited(s)'
  BY DEF Queued, Awaited
<1>2. \A w \in Workers : /\ Ingesting(w)' = Ingesting(w) /\ AfterKeep(w)' = AfterKeep(w)
                         /\ (worker'[w].at = "keep") = (worker[w].at = "keep")
                         /\ worker'[w].feed = worker[w].feed /\ worker'[w].raw = worker[w].raw
                         /\ worker'[w].todo = worker[w].todo
                         /\ worker'[w].at \in {"idle", "nap"} => worker[w].at \in {"idle", "nap"}
  <2>1. worker \in [Workers -> WorkerState]
    BY DEF GuideInv, GuideTyped
  <2> QED BY <2>1 DEF Queued, Ingesting, AfterKeep, WorkerState, Workers
<1>3. OneIngest'
  <2>1. OneIngest
    BY DEF GuideInv
  <2> QED BY <1>2, <2>1 DEF OneIngest, Workers
<1>4. ASSUME NEW w \in Workers PROVE FileIsRead(w)' /\ ClockIsRead(w)' /\ ChoicesAreRead(w)'
  <2>1. FileIsRead(w) /\ (Ingesting(w) => worker[w].feed \in Feeds)
    BY DEF GuideInv, OneIngest
  <2>2. AfterKeep(w) \/ worker[w].at = "keep" \/ worker'[w].at = "flush" => Ingesting(w)
    BY <1>2 DEF AfterKeep, Ingesting
  <2>3. FileIsRead(w)'
    BY <1>2, <2>1, <2>2 DEF FileIsRead
  <2>4. Ingesting(w)' => Awaited(worker[w].feed)'
    BY <1>1, <1>2, <2>1
  <2>5. worker'[w].at = "flush" => Ingesting(w)'
    BY DEF Ingesting
  <2>6. worker'[w].feed = worker[w].feed
    BY <1>2
  <2>7. ClockIsRead(w)'
    BY <2>4, <2>6 DEF ClockIsRead
  <2>8. ChoicesAreRead(w)'
    BY <2>4, <2>5, <2>6 DEF ChoicesAreRead
  <2> QED BY <2>3, <2>7, <2>8
<1> QED BY <1>1, <1>3, <1>4 DEF GuideInv, NoneForgotten

still == <<row, live, mapped, chosen, shows>>

LEMMA StillSame ==
    ASSUME UNCHANGED <<row, live, mapped, chosen>>, NEW s
    PROVE  ChosenFor(s)' = ChosenFor(s) /\ Used(s)' = Used(s)
BY DEF ChosenFor, Used

LEMMA TypedStill ==
    ASSUME GuideTyped, UNCHANGED still, UNCHANGED <<remote, cached>>, pending' \in BOOLEAN,
           worker' \in [Workers -> WorkerState]
    PROVE  GuideTyped'
BY DEF GuideTyped, still

LEMMA AloneInside ==
    ASSUME OneIngest, NEW w \in Workers, Ingesting(w)
    PROVE  /\ worker[w].feed \in Feeds
           /\ \A v \in Workers : v # w => ~Ingesting(v)
BY DEF OneIngest

\* A worker that is not ingesting afterwards.
LEMMA OutsideKeeps ==
    ASSUME GuideInv, NEW w \in Workers, UNCHANGED still, UNCHANGED <<remote, cached>>, pending' \in BOOLEAN,
           worker' \in [Workers -> WorkerState],
           \A v \in Workers : v # w => worker'[v] = worker[v],
           worker'[w].at \in {"idle", "nap", "next"},
           w = "rematch" /\ worker'[w].at \in {"idle", "nap"} => worker'[w].todo = {},
           \A v \in Workers : v # w /\ Ingesting(v) =>
               (Used(worker[v].feed) /\ Awaited(worker[v].feed) => Awaited(worker[v].feed)'),
           \A s \in Feeds : Used(s) /\ cached[s] # NoGuide =>
               (Awaited(s) => Awaited(s)') /\ ~Bringing(w, s)
    PROVE  GuideInv'
<1>1. GuideTyped'
  BY TypedStill DEF GuideInv
<1>2. OneIngest'
  <2>1. \A v \in Workers : Ingesting(v)' => v # w /\ Ingesting(v) /\ worker'[v] = worker[v]
    BY DEF Ingesting
  <2>2. worker'["rematch"].at \in {"idle", "nap"} => worker'["rematch"].todo = {}
    BY DEF GuideInv, OneIngest, Workers
  <2>3. OneIngest
    BY DEF GuideInv
  <2> QED BY <2>1, <2>2, <2>3 DEF OneIngest
<1>3. \A s \in Feeds : ChosenFor(s)' \subseteq ChosenFor(s)
  BY StillSame DEF still
<1>4. FileIsRead(w)' /\ ClockIsRead(w)' /\ ChoicesAreRead(w)'
  BY DEF FileIsRead, ClockIsRead, ChoicesAreRead, AfterKeep, Ingesting
<1> QED BY <1>1, <1>2, <1>3, <1>4, WorkerMoves DEF still

\* A worker that goes on with its ingest.
LEMMA InsideKeeps ==
    ASSUME GuideInv, NEW w \in Workers, UNCHANGED <<row, shows, pending>>, GuideTyped',
           \A s \in Feeds : ChosenFor(s)' \subseteq ChosenFor(s),
           \A v \in Workers : v # w => worker'[v] = worker[v],
           Ingesting(w), Ingesting(w)',
           worker'[w].feed = worker[w].feed, worker'[w].clock = worker[w].clock,
           worker'[w].todo = worker[w].todo,
           \A s \in Feeds : cached'[s] = cached[s] \/ Bringing(w, s)',
           FileIsRead(w)', ChoicesAreRead(w)',
           \A s \in Feeds : Bringing(w, s) => Bringing(w, s)'
    PROVE  GuideInv'
<1>1. worker[w].feed \in Feeds /\ \A v \in Workers : v # w => ~Ingesting(v)
  BY AloneInside DEF GuideInv
<1>2. OneIngest'
  <2>1. \A v \in Workers : v # w => ~Ingesting(v)'
    BY <1>1 DEF Ingesting
  <2>2. worker'["rematch"].at \in {"idle", "nap"} => worker'["rematch"].todo = {}
    <3>1. CASE w = "rematch"
      BY <3>1 DEF Ingesting
    <3>2. CASE w # "rematch"
      BY <3>2 DEF GuideInv, OneIngest, Workers
    <3> QED BY <3>1, <3>2
  <2> QED BY <1>1, <2>1, <2>2 DEF OneIngest
<1>3. \A s \in Feeds : Awaited(s)' = Awaited(s)
  <2>1. worker'["rematch"].todo = worker["rematch"].todo
    BY DEF Workers
  <2> QED BY <2>1 DEF Awaited
<1>4. ClockIsRead(w)'
  <2>1. ClockIsRead(w)
    BY DEF GuideInv
  <2>2. Used(worker[w].feed)' = Used(worker[w].feed)
    BY DEF Used
  <2> QED BY <1>1, <1>3, <2>1, <2>2 DEF ClockIsRead
<1> QED BY <1>1, <1>2, <1>3, <1>4, WorkerMoves

LEMMA RestingIsTyped == Resting \in WorkerState
BY DEF Resting, WorkerState, Steps, Clocks

\* A worker sent back to the start of its list.
LEMMA BackToList ==
    ASSUME NEW T \in SUBSET Feeds, NEW W, W = [Resting EXCEPT !.at = "next", !.todo = T]
    PROVE  W \in WorkerState /\ W.at = "next" /\ W.todo = T
<1>1. W = [at |-> "next", todo |-> T, feed |-> NoId, raw |-> NoGuide, clock |-> "auto",
           plan |-> [c \in Channels |-> NoId], wanted |-> {}]
  BY DEF Resting
<1> QED BY <1>1 DEF WorkerState, Steps, Clocks

LEMMA RefreshStarts ==
    ASSUME GuideInv, StartRefresh PROVE GuideInv'
<1> PICK todo \in {{s} : s \in Feeds} \cup {Feeds} :
          worker' = [worker EXCEPT !["refresh"] = [Resting EXCEPT !.at = "next",
                                       !.todo = {s \in todo : row[s].there /\ row[s].enabled}]]
  BY DEF StartRefresh
<1> DEFINE T == {s \in todo : row[s].there /\ row[s].enabled}
<1>1. T \in SUBSET Feeds /\ worker' = [worker EXCEPT !["refresh"] = [Resting EXCEPT !.at = "next", !.todo = T]]
  OBVIOUS
<1>2. worker \in [Workers -> WorkerState] /\ "refresh" \in Workers /\ "rematch" \in Workers
  BY DEF GuideInv, GuideTyped, Workers
<1>3. worker'["refresh"] \in WorkerState /\ worker'["refresh"].at = "next"
  BY <1>1, <1>2, BackToList
<1>4. \A v \in Workers : v # "refresh" => worker'[v] = worker[v]
  BY <1>1, <1>2
<1>5. worker' \in [Workers -> WorkerState]
  BY <1>1, <1>2, <1>3
<1>6. worker'["rematch"] = worker["rematch"]
  BY <1>2, <1>4
<1>7. pending' = pending /\ UNCHANGED still /\ UNCHANGED <<remote, cached>> /\ pending' \in BOOLEAN
  BY DEF StartRefresh, settings, tables, still, GuideInv, GuideTyped
<1>8. \A s : Awaited(s)' = Awaited(s)
  BY <1>6, <1>7 DEF Awaited
<1>9. \A s \in Feeds : ~Bringing("refresh", s)
  BY DEF StartRefresh, Bringing, AfterKeep
<1> QED BY <1>2, <1>3, <1>4, <1>5, <1>7, <1>8, <1>9, OutsideKeeps

LEMMA TickStarts ==
    ASSUME GuideInv, Tick PROVE GuideInv'
<1>1. PICK T \in SUBSET Feeds :
          worker' = [worker EXCEPT !["tick"] = [Resting EXCEPT !.at = "next", !.todo = T]]
  BY DEF Tick
<1>2. worker \in [Workers -> WorkerState] /\ "tick" \in Workers /\ "rematch" \in Workers
  BY DEF GuideInv, GuideTyped, Workers
<1>3. worker'["tick"] \in WorkerState /\ worker'["tick"].at = "next"
  BY <1>1, <1>2, BackToList
<1>4. \A v \in Workers : v # "tick" => worker'[v] = worker[v]
  BY <1>1, <1>2
<1>5. worker' \in [Workers -> WorkerState]
  BY <1>1, <1>2, <1>3
<1>6. worker'["rematch"] = worker["rematch"]
  BY <1>2, <1>4
<1>7. pending' = pending /\ UNCHANGED still /\ UNCHANGED <<remote, cached>> /\ pending' \in BOOLEAN
  BY DEF Tick, settings, tables, still, GuideInv, GuideTyped
<1>8. \A s : Awaited(s)' = Awaited(s)
  BY <1>6, <1>7 DEF Awaited
<1>9. \A s \in Feeds : ~Bringing("tick", s)
  BY DEF Tick, Bringing, AfterKeep
<1> QED BY <1>2, <1>3, <1>4, <1>5, <1>7, <1>8, <1>9, OutsideKeeps

LEMMA RematchWakes ==
    ASSUME GuideInv, Wake PROVE GuideInv'
<1>1. worker' = [worker EXCEPT !["rematch"] = [Resting EXCEPT !.at = "next"]]
  BY DEF Wake
<1>2. worker \in [Workers -> WorkerState] /\ "rematch" \in Workers
  BY DEF GuideInv, GuideTyped, Workers
<1>3. worker'["rematch"] \in WorkerState /\ worker'["rematch"].at = "next" /\ worker'["rematch"].todo = {}
  BY <1>1, <1>2, RestingIsTyped DEF Resting, WorkerState, Steps
<1>4. \A v \in Workers : v # "rematch" => worker'[v] = worker[v]
  BY <1>1, <1>2
<1>5. worker' \in [Workers -> WorkerState]
  BY <1>1, <1>2, <1>3
<1>6. worker["rematch"].todo = {}
  BY DEF Wake, GuideInv, OneIngest
<1>7. pending' = pending /\ UNCHANGED still /\ UNCHANGED <<remote, cached>> /\ pending' \in BOOLEAN
  BY DEF Wake, settings, tables, still, GuideInv, GuideTyped
<1>8. \A s : Awaited(s)' = Awaited(s)
  BY <1>3, <1>6, <1>7 DEF Awaited
<1>9. \A s \in Feeds : ~Bringing("rematch", s)
  BY DEF Wake, Bringing, AfterKeep
<1> QED BY <1>2, <1>3, <1>4, <1>5, <1>7, <1>8, <1>9, OutsideKeeps

\* The mark is cleared, and every feed in use is on the list.
LEMMA RerunBegins ==
    ASSUME GuideInv, Rerun PROVE GuideInv'
<1> DEFINE T == {s \in Feeds : row[s].there /\ row[s].enabled}
<1>1. worker' = [worker EXCEPT !["rematch"].todo = T]
  BY DEF Rerun
<1>2. worker \in [Workers -> WorkerState] /\ "rematch" \in Workers
  BY DEF GuideInv, GuideTyped, Workers
<1>3. worker'["rematch"] \in WorkerState /\ worker'["rematch"].at = "next" /\ worker'["rematch"].todo = T
  BY <1>1, <1>2 DEF WorkerState, Rerun
<1>4. \A v \in Workers : v # "rematch" => worker'[v] = worker[v]
  BY <1>1, <1>2
<1>5. worker' \in [Workers -> WorkerState]
  BY <1>1, <1>2, <1>3
<1>6. UNCHANGED still /\ UNCHANGED <<remote, cached>> /\ pending' \in BOOLEAN
  BY DEF Rerun, settings, tables, still
<1>7. \A s \in Feeds : Used(s) => Awaited(s)'
  BY <1>3 DEF Awaited, Used
<1>8. \A s \in Feeds : ~Bringing("rematch", s)
  BY DEF Rerun, Bringing, AfterKeep
<1>9. \A v \in Workers : Ingesting(v) => worker[v].feed \in Feeds
  BY DEF GuideInv, OneIngest
<1> QED BY <1>2, <1>3, <1>4, <1>5, <1>6, <1>7, <1>8, <1>9, OutsideKeeps

LEMMA WorkerRests ==
    ASSUME GuideInv, NEW w \in Workers, Rest(w) PROVE GuideInv'
<1>1. worker' = [worker EXCEPT ![w] = Resting]
  BY DEF Rest
<1>2. worker \in [Workers -> WorkerState] /\ "rematch" \in Workers
  BY DEF GuideInv, GuideTyped, Workers
<1>3. worker'[w] \in WorkerState /\ worker'[w].at = "idle" /\ worker'[w].todo = {}
  BY <1>1, <1>2, RestingIsTyped DEF Resting
<1>4. \A v \in Workers : v # w => worker'[v] = worker[v]
  BY <1>1, <1>2
<1>5. worker' \in [Workers -> WorkerState]
  BY <1>1, <1>2, <1>3
<1>6. pending' = pending /\ UNCHANGED still /\ UNCHANGED <<remote, cached>> /\ pending' \in BOOLEAN
  BY DEF Rest, settings, tables, still, GuideInv, GuideTyped
<1>7. \A s : Awaited(s)' = Awaited(s)
  <2>1. worker'["rematch"].todo = worker["rematch"].todo
    BY <1>2, <1>3, <1>4 DEF Rest
  <2> QED BY <2>1, <1>6 DEF Awaited
<1>8. \A s \in Feeds : ~Bringing(w, s)
  BY DEF Rest, Bringing, AfterKeep
<1> QED BY <1>2, <1>3, <1>4, <1>5, <1>6, <1>7, <1>8, OutsideKeeps

\* The rows of a source: skipped, or taken up with its clock.
LEMMA IngestBegins ==
    ASSUME GuideInv, NEW w \in Workers, BeginIngest(w) PROVE GuideInv'
<1>1. PICK s \in worker[w].todo :
          \/ /\ Ingestible(w, s)
             /\ worker' = [worker EXCEPT ![w] = [worker[w] EXCEPT !.at = "load", !.todo = worker[w].todo \ {s},
                                                                 !.feed = s, !.clock = row[s].clock]]
          \/ ~Ingestible(w, s) /\ worker' = [worker EXCEPT ![w].todo = @ \ {s}]
  BY DEF BeginIngest
<1>2. worker \in [Workers -> WorkerState] /\ "rematch" \in Workers /\ row[s].clock \in Clocks
  BY <1>1 DEF GuideInv, GuideTyped, Workers, WorkerState
<1>3. s \in Feeds /\ worker[w].todo \in SUBSET Feeds /\ worker[w] \in WorkerState
  BY <1>1, <1>2 DEF WorkerState
<1>4. \A v \in Workers : ~Ingesting(v)
  BY DEF BeginIngest, LockFree
<1>5. pending' = pending /\ UNCHANGED still /\ UNCHANGED <<remote, cached>> /\ pending' \in BOOLEAN
  BY DEF BeginIngest, settings, tables, still, GuideInv, GuideTyped
<1>6. \A v \in Workers : v # w => worker'[v] = worker[v]
  BY <1>1, <1>2
<1>7. worker[w].at = "next" /\ \A f \in Feeds : ~Bringing(w, f)
  BY DEF BeginIngest, Bringing, AfterKeep
<1>8. ASSUME NEW f \in Feeds, Awaited(f), ~Awaited(f)', worker'[w].todo = worker[w].todo \ {s}
      PROVE  f = s /\ w = "rematch"
  <2>1. ~pending /\ f \in worker["rematch"].todo /\ f \notin worker'["rematch"].todo
    BY <1>5, <1>8 DEF Awaited
  <2> QED BY <1>2, <1>6, <1>8, <2>1
<1>9. CASE Ingestible(w, s)
  <2>1. worker' = [worker EXCEPT ![w] =
            [worker[w] EXCEPT !.at = "load", !.todo = worker[w].todo \ {s}, !.feed = s, !.clock = row[s].clock]]
    BY <1>1, <1>9
  <2>2. /\ worker'[w].at = "load" /\ worker'[w].todo = worker[w].todo \ {s}
        /\ worker'[w].feed = s /\ worker'[w].clock = row[s].clock
    BY <1>2, <1>3, <2>1 DEF WorkerState
  <2>3. worker' \in [Workers -> WorkerState]
    <3>1. [worker[w] EXCEPT !.at = "load", !.todo = worker[w].todo \ {s}, !.feed = s, !.clock = row[s].clock]
              \in WorkerState
      BY <1>2, <1>3 DEF WorkerState, Steps
    <3> QED BY <1>2, <2>1, <3>1
  <2>4. GuideTyped'
    BY <1>5, <2>3, TypedStill DEF GuideInv
  <2>5. OneIngest'
    <3>1. \A v \in Workers : Ingesting(v)' => v = w
      BY <1>4, <1>6 DEF Ingesting
    <3>2. worker'["rematch"].at \in {"idle", "nap"} => worker'["rematch"].todo = {}
      BY <1>2, <1>6, <2>2 DEF GuideInv, OneIngest
    <3> QED BY <1>3, <2>2, <3>1, <3>2 DEF OneIngest
  <2>6. \A f \in Feeds : ChosenFor(f)' \subseteq ChosenFor(f)
    BY <1>5, StillSame DEF still
  <2>7. FileIsRead(w)' /\ ChoicesAreRead(w)'
    BY <2>2 DEF FileIsRead, ChoicesAreRead, AfterKeep
  <2>8. ClockIsRead(w)'
    BY <1>5, <2>2 DEF ClockIsRead, still
  <2>9. ASSUME NEW f \in Feeds, Awaited(f) PROVE Awaited(f)' \/ Bringing(w, f)'
    <3>1. CASE f = s /\ w = "rematch"
      BY <2>2, <3>1 DEF Bringing
    <3> QED BY <1>8, <2>2, <2>9, <3>1
  <2>10. cached' = cached /\ UNCHANGED <<row, shows>>
    BY <1>5 DEF still
  <2> QED BY <1>4, <1>6, <1>7, <2>4, <2>5, <2>6, <2>7, <2>8, <2>9, <2>10, WorkerMoves
<1>10. CASE ~Ingestible(w, s)
  <2>1. worker' = [worker EXCEPT ![w] = [worker[w] EXCEPT !.todo = worker[w].todo \ {s}]]
    BY <1>1, <1>10
  <2>2. worker'[w] \in WorkerState /\ worker'[w].at = "next" /\ worker'[w].todo = worker[w].todo \ {s}
    BY <1>2, <1>3, <1>7, <2>1 DEF WorkerState
  <2>3. worker' \in [Workers -> WorkerState]
    BY <1>2, <2>1, <2>2
  <2>4. ASSUME NEW f \in Feeds, Used(f), cached[f] # NoGuide, Awaited(f) PROVE Awaited(f)'
    BY <1>8, <1>10, <2>2, <2>4 DEF Cached, Ingestible, Used
  <2> QED BY <1>4, <1>5, <1>6, <1>7, <2>2, <2>3, <2>4, OutsideKeeps
<1> QED BY <1>9, <1>10

\* The previous guide stays.
LEMMA IngestFails ==
    ASSUME GuideInv, NEW w \in Workers, Fail(w) PROVE GuideInv'
<1>1. worker' = [worker EXCEPT ![w] = [Resting EXCEPT !.at = "next", !.todo = worker[w].todo]]
  BY DEF Fail, Dropped
<1>2. worker \in [Workers -> WorkerState] /\ "rematch" \in Workers
  BY DEF GuideInv, GuideTyped, Workers
<1>3. worker'[w] \in WorkerState /\ worker'[w].at = "next" /\ worker'[w].todo = worker[w].todo
  <2>1. worker[w].todo \in SUBSET Feeds
    BY <1>2 DEF WorkerState
  <2> QED BY <1>1, <1>2, <2>1, BackToList
<1>4. \A v \in Workers : v # w => worker'[v] = worker[v]
  BY <1>1, <1>2
<1>5. worker' \in [Workers -> WorkerState]
  BY <1>1, <1>2, <1>3
<1>6. worker'["rematch"].todo = worker["rematch"].todo
  BY <1>2, <1>3, <1>4
<1>7. pending' = pending /\ UNCHANGED still /\ UNCHANGED <<remote, cached>> /\ pending' \in BOOLEAN
  BY DEF Fail, settings, tables, still, GuideInv, GuideTyped
<1>8. \A s : Awaited(s)' = Awaited(s)
  BY <1>6, <1>7 DEF Awaited
<1>9. \A s \in Feeds : Used(s) /\ cached[s] # NoGuide => ~Bringing(w, s)
  BY DEF Fail, Bringing, AfterKeep, Cached, Used
<1> QED BY <1>3, <1>4, <1>5, <1>7, <1>8, <1>9, OutsideKeeps

\* Load, Match and Want: the ingest goes on, and no table but the list of ids changes.
LEMMA IngestGoesOn ==
    ASSUME GuideInv, NEW w \in Workers, Ingesting(w), UNCHANGED still, UNCHANGED <<remote, cached, pending>>,
           NEW N \in WorkerState, worker' = [worker EXCEPT ![w] = N],
           N.at \in {"keep", "match", "assign", "want", "flush"},
           N.feed = worker[w].feed, N.clock = worker[w].clock, N.todo = worker[w].todo,
           AfterKeep(w) => N.at # "keep",
           FileIsRead(w)', ChoicesAreRead(w)'
    PROVE  GuideInv'
<1>1. worker \in [Workers -> WorkerState] /\ pending \in BOOLEAN
  BY DEF GuideInv, GuideTyped
<1>2. worker'[w] = N /\ \A v \in Workers : v # w => worker'[v] = worker[v]
  BY <1>1
<1>3. GuideTyped'
  <2>1. worker' \in [Workers -> WorkerState]
    BY <1>1
  <2> QED BY <1>1, <2>1, TypedStill DEF GuideInv
<1>4. \A s \in Feeds : ChosenFor(s)' \subseteq ChosenFor(s)
  BY StillSame DEF still
<1>5. Ingesting(w)'
  BY <1>2 DEF Ingesting
<1>6. \A s \in Feeds : Bringing(w, s) => Bringing(w, s)'
  BY <1>2 DEF Bringing, AfterKeep
<1>7. UNCHANGED <<row, shows, pending>> /\ cached' = cached
  BY DEF still
<1> QED BY <1>2, <1>3, <1>4, <1>5, <1>6, <1>7, InsideKeeps

LEMMA LoadKeeps ==
    ASSUME GuideInv, NEW w \in Workers, Load(w) PROVE GuideInv'
<1> DEFINE s == worker[w].feed
           raw == IF Cached(w) THEN cached[s] ELSE remote[s]
           N == [worker[w] EXCEPT !.at = "keep", !.raw = raw]
<1>1. worker \in [Workers -> WorkerState] /\ worker[w] \in WorkerState /\ Ingesting(w) /\ s \in Feeds
  BY DEF GuideInv, GuideTyped, OneIngest, Load, Ingesting
<1>2. raw \in {NoGuide} \cup SUBSET EpgIds
  BY <1>1 DEF GuideInv, GuideTyped
<1> HIDE DEF raw
<1>3. worker' = [worker EXCEPT ![w] = N]
  BY <1>1 DEF Load, raw
<1>4. N \in WorkerState
  BY <1>1, <1>2 DEF WorkerState, Steps
<1>5. /\ N.at = "keep" /\ N.feed = s /\ N.clock = worker[w].clock /\ N.todo = worker[w].todo
      /\ N.raw = raw
  BY <1>1 DEF WorkerState
<1>6. UNCHANGED still /\ UNCHANGED <<remote, cached, pending>>
  BY DEF Load, settings, still
<1>7. ~AfterKeep(w)
  BY DEF Load, AfterKeep
<1> HIDE DEF N
<1>8. worker'[w] = N
  BY <1>1, <1>3
<1>9. FileIsRead(w)'
  BY <1>5, <1>6, <1>8 DEF FileIsRead, AfterKeep, raw, Cached
<1>10. ChoicesAreRead(w)'
  BY <1>5, <1>8 DEF ChoicesAreRead
<1> QED BY <1>1, <1>3, <1>4, <1>5, <1>6, <1>7, <1>9, <1>10, IngestGoesOn

LEMMA MatchKeeps ==
    ASSUME GuideInv, NEW w \in Workers, Match(w) PROVE GuideInv'
<1> DEFINE plan == [c \in Channels |-> Sure(c)]
           N == [worker[w] EXCEPT !.at = "assign", !.plan = plan]
<1>1. worker \in [Workers -> WorkerState] /\ worker[w] \in WorkerState /\ Ingesting(w) /\ AfterKeep(w)
  BY DEF GuideInv, GuideTyped, Match, Ingesting, AfterKeep
<1>2. plan \in [Channels -> EpgIds \cup {NoId}]
  <2> SUFFICES ASSUME NEW c \in Channels PROVE Sure(c) \in EpgIds \cup {NoId}
    OBVIOUS
  <2> DEFINE F == Fits[c] \cap IdsOffered
  <2>1. CASE Cardinality(F) = 1
    <3>1. F # {}
      BY <2>1, FS_EmptySet
    <3>2. (CHOOSE i \in F : TRUE) \in F
      BY <3>1
    <3>3. F \subseteq EpgIds
      BY GuideAssumption DEF GuideAssumption
    <3> QED BY <3>2, <3>3 DEF Sure
  <2>2. CASE Cardinality(F) # 1
    BY <2>2 DEF Sure
  <2> QED BY <2>1, <2>2
<1> HIDE DEF plan
<1>3. worker' = [worker EXCEPT ![w] = N]
  BY <1>1 DEF Match, plan
<1>4. N \in WorkerState
  BY <1>1, <1>2 DEF WorkerState, Steps
<1>5. /\ N.at = "assign" /\ N.feed = worker[w].feed /\ N.clock = worker[w].clock
      /\ N.todo = worker[w].todo /\ N.raw = worker[w].raw
  BY <1>1 DEF WorkerState
<1>6. UNCHANGED still /\ UNCHANGED <<remote, cached, pending>>
  BY DEF Match, settings, still, tables
<1> HIDE DEF N
<1>7. worker'[w] = N
  BY <1>1, <1>3
<1>8. FileIsRead(w)'
  BY <1>1, <1>5, <1>6, <1>7 DEF FileIsRead, GuideInv, still
<1>9. ChoicesAreRead(w)'
  BY <1>5, <1>7 DEF ChoicesAreRead
<1> QED BY <1>1, <1>3, <1>4, <1>5, <1>6, <1>8, <1>9, IngestGoesOn

LEMMA WantKeeps ==
    ASSUME GuideInv, NEW w \in Workers, Want(w) PROVE GuideInv'
<1> DEFINE s == worker[w].feed
           N == [worker[w] EXCEPT !.at = "flush", !.wanted = WantedOf(s)]
<1>1. /\ worker \in [Workers -> WorkerState] /\ worker[w] \in WorkerState /\ Ingesting(w) /\ AfterKeep(w)
      /\ s \in Feeds
  BY DEF GuideInv, GuideTyped, OneIngest, Want, Ingesting, AfterKeep
<1>2. WantedOf(s) \subseteq EpgIds /\ ChosenFor(s) \cap EpgIds \subseteq WantedOf(s)
  <2>1. /\ live \in [Channels -> [id : EpgIds \cup {NoId}, enabled : BOOLEAN]]
        /\ mapped \subseteq Channels \X Feeds \X EpgIds /\ chosen \subseteq Channels
    BY DEF GuideInv, GuideTyped
  <2>2. \A m \in mapped : m[3] \in EpgIds
    BY <2>1
  <2>3. WantedOf(s) \subseteq EpgIds
    BY <2>1, <2>2 DEF WantedOf
  <2>4. ASSUME NEW i \in ChosenFor(s), i \in EpgIds PROVE i \in WantedOf(s)
    <3>1. i # NoId
      BY <2>4, GuideAssumption DEF GuideAssumption
    <3>2. CASE \E c \in chosen : live[c].enabled /\ i = live[c].id
      BY <2>1, <3>1, <3>2 DEF WantedOf
    <3>3. CASE \E m \in mapped : m[2] = s /\ live[m[1]].enabled /\ i = m[3]
      BY <3>3 DEF WantedOf
    <3> QED BY <3>2, <3>3 DEF ChosenFor
  <2> QED BY <2>3, <2>4
<1>3. worker' = [worker EXCEPT ![w] = N]
  BY <1>1 DEF Want
<1>4. N \in WorkerState
  BY <1>1, <1>2 DEF WorkerState, Steps
<1>5. /\ N.at = "flush" /\ N.feed = s /\ N.clock = worker[w].clock
      /\ N.todo = worker[w].todo /\ N.raw = worker[w].raw /\ N.wanted = WantedOf(s)
  BY <1>1 DEF WorkerState
<1>6. UNCHANGED still /\ UNCHANGED <<remote, cached, pending>>
  BY DEF Want, settings, still, tables
<1> HIDE DEF N
<1>7. worker'[w] = N
  BY <1>1, <1>3
<1>8. FileIsRead(w)'
  BY <1>1, <1>5, <1>6, <1>7 DEF FileIsRead, GuideInv, still
<1>9. ChoicesAreRead(w)'
  <2>1. \A f \in Feeds : ChosenFor(f)' = ChosenFor(f)
    BY <1>6, StillSame DEF still
  <2> QED BY <1>1, <1>2, <1>5, <1>7, <2>1 DEF ChoicesAreRead
<1> QED BY <1>1, <1>3, <1>4, <1>5, <1>6, <1>8, <1>9, IngestGoesOn

\* The file is replaced, and is being read.
LEMMA KeepKeeps ==
    ASSUME GuideInv, NEW w \in Workers, Keep(w) PROVE GuideInv'
<1> DEFINE s == worker[w].feed
<1>1. worker \in [Workers -> WorkerState] /\ worker[w] \in WorkerState /\ Ingesting(w) /\ s \in Feeds
  BY DEF GuideInv, GuideTyped, OneIngest, Keep, Ingesting
<1>2. worker' = [worker EXCEPT ![w].at = "match"]
  BY DEF Keep, Goto
<1>3. /\ worker'[w].at = "match" /\ worker'[w].feed = s /\ worker'[w].clock = worker[w].clock
      /\ worker'[w].todo = worker[w].todo /\ worker'[w].raw = worker[w].raw
      /\ worker' \in [Workers -> WorkerState]
      /\ \A v \in Workers : v # w => worker'[v] = worker[v]
  BY <1>1, <1>2 DEF WorkerState, Steps
<1>4. cached \in [Feeds -> {NoGuide} \cup SUBSET EpgIds] /\ worker[w].raw \in {NoGuide} \cup SUBSET EpgIds
  BY <1>1 DEF GuideInv, GuideTyped, WorkerState
<1>5. cached' = IF Cached(w) THEN cached ELSE [cached EXCEPT ![s] = worker[w].raw]
  BY DEF Keep
<1>6. /\ cached' \in [Feeds -> {NoGuide} \cup SUBSET EpgIds]
      /\ \A f \in Feeds : f # s => cached'[f] = cached[f]
      /\ ~Cached(w) => cached'[s] = worker[w].raw
      /\ Cached(w) => cached' = cached
  BY <1>1, <1>4, <1>5
<1>7. UNCHANGED still /\ UNCHANGED <<remote, pending>>
  BY DEF Keep, settings, still
<1>8. GuideTyped'
  BY <1>3, <1>6, <1>7 DEF GuideInv, GuideTyped, still
<1>9. FileIsRead(w)'
  <2>1. Cached(w) /\ row[s].there => worker[w].raw = cached[s]
    BY DEF GuideInv, FileIsRead, Keep, Cached
  <2> QED BY <1>3, <1>6, <1>7, <2>1 DEF FileIsRead, still
<1>10. ChoicesAreRead(w)' /\ Ingesting(w)'
  BY <1>3 DEF ChoicesAreRead, Ingesting
<1>11. \A f \in Feeds : (Bringing(w, f) => Bringing(w, f)') /\ (cached'[f] = cached[f] \/ Bringing(w, f)')
  BY <1>3, <1>6 DEF Bringing, AfterKeep
<1>12. \A f \in Feeds : ChosenFor(f)' \subseteq ChosenFor(f)
  BY <1>7, StillSame DEF still
<1>13. UNCHANGED <<row, shows, pending>>
  BY <1>7 DEF still
<1> QED BY <1>1, <1>3, <1>8, <1>9, <1>10, <1>11, <1>12, <1>13, InsideKeeps

\* A channel that the matching writes is not the operator's choice any more.
LEMMA AssignKeeps ==
    ASSUME GuideInv, NEW w \in Workers, Assign(w) PROVE GuideInv'
<1> DEFINE plan == worker[w].plan
<1>1. worker \in [Workers -> WorkerState] /\ worker[w] \in WorkerState /\ Ingesting(w) /\ AfterKeep(w)
  BY DEF GuideInv, GuideTyped, Assign, Ingesting, AfterKeep
<1>2. worker' = [worker EXCEPT ![w].at = "want"]
  BY DEF Assign, Goto
<1>3. /\ worker'[w].at = "want" /\ worker'[w].feed = worker[w].feed /\ worker'[w].clock = worker[w].clock
      /\ worker'[w].todo = worker[w].todo /\ worker'[w].raw = worker[w].raw
      /\ worker' \in [Workers -> WorkerState]
      /\ \A v \in Workers : v # w => worker'[v] = worker[v]
  BY <1>1, <1>2 DEF WorkerState, Steps
<1>4. /\ live \in [Channels -> [id : EpgIds \cup {NoId}, enabled : BOOLEAN]] /\ chosen \subseteq Channels
      /\ mapped \subseteq Channels \X Feeds \X EpgIds /\ plan \in [Channels -> EpgIds \cup {NoId}]
  BY <1>1 DEF GuideInv, GuideTyped, WorkerState
<1> DEFINE written(c) == IF plan[c] = NoId THEN live[c] ELSE [live[c] EXCEPT !.id = plan[c]]
<1>5. live' = [c \in Channels |-> written(c)]
  BY DEF Assign
<1>6. live' \in [Channels -> [id : EpgIds \cup {NoId}, enabled : BOOLEAN]]
  <2> DEFINE R == [id : EpgIds \cup {NoId}, enabled : BOOLEAN]
  <2>1. \A c \in Channels : written(c) \in R
    BY <1>4
  <2> HIDE DEF R, written
  <2>2. live' \in [Channels -> R]
    BY <1>5, <2>1
  <2> QED BY <2>2 DEF R
<1>7. chosen' = chosen \ {c \in Channels : plan[c] # NoId}
  BY DEF Assign
<1>8. UNCHANGED <<remote, row, mapped, cached, shows, pending>>
  BY DEF Assign, tables
<1>9. GuideTyped'
  BY <1>3, <1>6, <1>7, <1>8 DEF GuideInv, GuideTyped
<1>10. ASSUME NEW f \in Feeds PROVE ChosenFor(f)' \subseteq ChosenFor(f)
  <2> SUFFICES ASSUME NEW i \in ChosenFor(f)' PROVE i \in ChosenFor(f)
    OBVIOUS
  <2>1. ASSUME NEW c \in chosen' PROVE c \in chosen /\ live'[c] = live[c]
    <3>1. c \in chosen /\ c \in Channels /\ plan[c] = NoId
      BY <1>4, <1>7
    <3>2. written(c) = live[c]
      BY <3>1
    <3> HIDE DEF written
    <3> QED BY <1>5, <3>1, <3>2
  <2>2. CASE \E c \in chosen' : live'[c].enabled /\ i = live'[c].id
    <3>1. PICK c \in chosen : live[c].enabled /\ i = live[c].id
      BY <2>1, <2>2
    <3> QED BY <3>1 DEF ChosenFor
  <2>3. CASE \E m \in mapped : m[2] = f /\ m[1] \in chosen' /\ live'[m[1]].enabled /\ i = m[3]
    <3>1. PICK m \in mapped : m[2] = f /\ m[1] \in chosen /\ live[m[1]].enabled /\ i = m[3]
      BY <2>1, <2>3
    <3> QED BY <3>1 DEF ChosenFor
  <2>4. \/ \E c \in chosen' : live'[c].enabled /\ i = live'[c].id
        \/ \E m \in mapped : m[2] = f /\ m[1] \in chosen' /\ live'[m[1]].enabled /\ i = m[3]
    BY <1>8 DEF ChosenFor
  <2> QED BY <2>2, <2>3, <2>4
<1>11. FileIsRead(w)' /\ ChoicesAreRead(w)' /\ Ingesting(w)'
  BY <1>1, <1>3, <1>8 DEF FileIsRead, ChoicesAreRead, Ingesting, GuideInv
<1>12. \A f \in Feeds : (Bringing(w, f) => Bringing(w, f)') /\ cached'[f] = cached[f]
  BY <1>3, <1>8 DEF Bringing, AfterKeep
<1> QED BY <1>1, <1>3, <1>8, <1>9, <1>10, <1>11, <1>12, InsideKeeps

\* The snapshot is replaced by what was read of the file and is wanted.
LEMMA FlushKeeps ==
    ASSUME GuideInv, NEW w \in Workers, Flush(w) PROVE GuideInv'
<1>1. PICK s \in Feeds : s = worker[w].feed
  BY AloneInside DEF GuideInv, Flush, Ingesting
<1> DEFINE kept == worker[w].raw \cap worker[w].wanted
<1>2. /\ worker \in [Workers -> WorkerState] /\ worker[w] \in WorkerState /\ Ingesting(w)
      /\ worker[w].at = "flush" /\ "rematch" \in Workers
  BY DEF GuideInv, GuideTyped, OneIngest, Flush, Ingesting, Workers
<1>3. worker' = [worker EXCEPT ![w] = [Resting EXCEPT !.at = "next", !.todo = worker[w].todo]]
  BY DEF Flush, Dropped
<1>4. worker'[w] \in WorkerState /\ worker'[w].at = "next" /\ worker'[w].todo = worker[w].todo
  <2>1. worker[w].todo \in SUBSET Feeds
    BY <1>2 DEF WorkerState
  <2> QED BY <1>2, <1>3, <2>1, BackToList
<1>5. \A v \in Workers : v # w => worker'[v] = worker[v] /\ ~Ingesting(v)
  BY <1>2, <1>3, AloneInside DEF GuideInv
<1>6. worker' \in [Workers -> WorkerState] /\ worker'["rematch"].todo = worker["rematch"].todo
  BY <1>2, <1>3, <1>4, <1>5
<1>7. /\ row \in [Feeds -> [there : BOOLEAN, enabled : BOOLEAN, clock : Clocks, applied : Clocks]]
      /\ shows \in [Feeds -> [ids : SUBSET EpgIds, clock : Clocks]]
      /\ worker[w].clock \in Clocks /\ kept \subseteq EpgIds
  BY <1>2 DEF GuideInv, GuideTyped, WorkerState
<1>8. UNCHANGED <<remote, live, mapped, chosen, cached, pending>>
  BY DEF Flush
<1> DEFINE moved(f) ==
        /\ row'[f].there = row[f].there /\ row'[f].enabled = row[f].enabled
        /\ row'[f].clock = row[f].clock
        /\ f # s \/ ~row[s].there => row'[f] = row[f] /\ shows'[f] = shows[f]
<1>9. /\ row' \in [Feeds -> [there : BOOLEAN, enabled : BOOLEAN, clock : Clocks, applied : Clocks]]
      /\ shows' \in [Feeds -> [ids : SUBSET EpgIds, clock : Clocks]]
      /\ \A f \in Feeds : moved(f)
      /\ row[s].there => /\ row'[s].applied = worker[w].clock /\ shows'[s].clock = worker[w].clock
                         /\ shows'[s].ids = kept
  <2> HIDE DEF kept
  <2>1. CASE row[s].there
    <3> DEFINE S == [ids |-> kept, clock |-> worker[w].clock]
               R == [row[s] EXCEPT !.applied = worker[w].clock]
    <3>1. shows' = [shows EXCEPT ![s] = S] /\ row' = [row EXCEPT ![s] = R]
      BY <1>1, <1>2, <1>7, <2>1 DEF Flush, Applied, kept
    <3>2. /\ S \in [ids : SUBSET EpgIds, clock : Clocks] /\ S.ids = kept /\ S.clock = worker[w].clock
      BY <1>7
    <3>3. /\ R \in [there : BOOLEAN, enabled : BOOLEAN, clock : Clocks, applied : Clocks]
          /\ R.there = row[s].there /\ R.enabled = row[s].enabled /\ R.clock = row[s].clock
          /\ R.applied = worker[w].clock
      BY <1>2, <1>7
    <3> HIDE DEF S, R
    <3> QED BY <1>2, <1>7, <2>1, <3>1, <3>2, <3>3
  <2>2. CASE ~row[s].there
    BY <1>1, <1>2, <1>7, <2>2 DEF Flush
  <2> QED BY <2>1, <2>2
<1> HIDE DEF moved
<1>a. \A f \in Feeds : moved(f)
  BY <1>9
<1>b. row[s].there => /\ row'[s].applied = worker[w].clock /\ shows'[s].clock = worker[w].clock
                     /\ shows'[s].ids = kept
  BY <1>9
<1> USE DEF moved
<1>10. GuideTyped'
  BY <1>6, <1>8, <1>9 DEF GuideInv, GuideTyped
<1>11. \A v \in Workers : ~Ingesting(v)'
  BY <1>4, <1>5 DEF Ingesting
<1>12. OneIngest'
  <2>1. worker'["rematch"].at \in {"idle", "nap"} => worker'["rematch"].todo = {}
    BY <1>2, <1>4, <1>5 DEF GuideInv, OneIngest
  <2> QED BY <1>11, <2>1 DEF OneIngest
<1>13. \A v \in Workers : FileIsRead(v)' /\ ClockIsRead(v)' /\ ChoicesAreRead(v)'
  BY <1>11 DEF FileIsRead, ClockIsRead, ChoicesAreRead, AfterKeep, Ingesting
<1>14. ClockIsHonest'
  <2> SUFFICES ASSUME NEW f \in Feeds, row'[f].there PROVE row'[f].applied = shows'[f].clock
    BY DEF ClockIsHonest
  <2>1. row[f].there /\ row[f].applied = shows[f].clock
    BY <1>a DEF GuideInv, ClockIsHonest
  <2>2. CASE f = s
    BY <1>b, <2>1, <2>2
  <2>3. CASE f # s
    BY <1>a, <2>1, <2>3
  <2> QED BY <2>2, <2>3
<1>15. \A f \in Feeds : /\ Awaited(f)' = Awaited(f) /\ Used(f)' = Used(f) /\ cached'[f] = cached[f]
                       /\ ChosenFor(f)' = ChosenFor(f)
  <2> SUFFICES ASSUME NEW f \in Feeds
               PROVE  /\ Awaited(f)' = Awaited(f) /\ Used(f)' = Used(f) /\ cached'[f] = cached[f]
                      /\ ChosenFor(f)' = ChosenFor(f)
    OBVIOUS
  <2>1. Awaited(f)' = Awaited(f) /\ cached'[f] = cached[f]
    BY <1>6, <1>8 DEF Awaited
  <2>2. Used(f)' = Used(f)
    BY <1>a DEF Used
  <2>3. ChosenFor(f)' = ChosenFor(f)
    BY <1>8 DEF ChosenFor
  <2> QED BY <2>1, <2>2, <2>3
<1>16. NoneForgotten(s)'
  <2> SUFFICES ASSUME Used(s), cached[s] # NoGuide, ~Awaited(s) PROVE UpToDate(s)'
    BY <1>2, <1>15 DEF NoneForgotten
  <2>1. row[s].there /\ FileIsRead(w) /\ ClockIsRead(w) /\ ChoicesAreRead(w)
    BY DEF GuideInv, Used
  <2>2. worker[w].raw = cached[s] /\ worker[w].clock = row[s].clock
    BY <1>1, <1>2, <2>1 DEF FileIsRead, ClockIsRead, AfterKeep
  <2>3. ChosenFor(s) \cap EpgIds \subseteq worker[w].wanted
    BY <1>1, <1>2, <2>1 DEF ChoicesAreRead
  <2>4. cached[s] \subseteq EpgIds
    BY <1>2 DEF GuideInv, GuideTyped
  <2>5. shows'[s].ids = kept /\ shows'[s].clock = row'[s].clock
    BY <1>a, <1>b, <2>1, <2>2
  <2>6. cached'[s] \cap ChosenFor(s)' \subseteq kept
    BY <1>2, <1>15, <2>2, <2>3, <2>4
  <2> QED BY <2>5, <2>6 DEF UpToDate
<1>17. ASSUME NEW f \in Feeds, f # s PROVE NoneForgotten(f)'
  <2> SUFFICES ASSUME Used(f), cached[f] # NoGuide, ~Awaited(f), ~UpToDate(f)' PROVE FALSE
    BY <1>15 DEF NoneForgotten
  <2>1. ~UpToDate(f)
    BY <1>a, <1>15, <1>17 DEF UpToDate
  <2>2. PICK v \in Workers : Bringing(v, f)
    BY <2>1 DEF GuideInv, NoneForgotten
  <2>3. Ingesting(v) /\ worker[v].feed = f
    BY <2>2 DEF Bringing, AfterKeep, Ingesting
  <2> QED BY <1>1, <1>5, <1>17, <2>3
<1>18. \A f \in Feeds : NoneForgotten(f)'
  <2> SUFFICES ASSUME NEW f \in Feeds PROVE NoneForgotten(f)'
    OBVIOUS
  <2>1. CASE f # s
    BY <1>17, <2>1
  <2>2. CASE f = s
    BY <1>16, <2>2
  <2> QED BY <2>1, <2>2
<1> QED BY <1>10, <1>12, <1>13, <1>14, <1>18 DEF GuideInv

LEMMA QueuedTyped ==
    ASSUME GuideInv, Queued
    PROVE  worker' \in [Workers -> WorkerState] /\ pending' \in BOOLEAN
<1>1. worker \in [Workers -> WorkerState] /\ "rematch" \in Workers
  BY DEF GuideInv, GuideTyped, Workers
<1>2. [worker["rematch"] EXCEPT !.at = "nap"] \in WorkerState
  BY <1>1 DEF WorkerState, Steps
<1> QED BY <1>1, <1>2 DEF Queued

\* The five changes of an operator that queue a rerun.
LEMMA OperatorKeepsGuide ==
    ASSUME GuideInv,
           \/ \E c \in Channels : \/ \E i \in EpgIds \cup {NoId} : ChooseId(c, i)
                                  \/ \E rules \in {{}} \cup {{r} : r \in Feeds \X EpgIds} : ChoosePolicy(c, rules)
           \/ \E s \in Feeds : SwitchFeed(s) \/ SetClock(s) \/ DeleteFeed(s)
    PROVE  GuideInv'
<1> USE DEF GuideInv
<1>1. GuideTyped /\ ClockIsHonest
  OBVIOUS
<1>2. ASSUME Queued PROVE worker' \in [Workers -> WorkerState] /\ pending' \in BOOLEAN
  BY <1>2, QueuedTyped
<1>3. ASSUME NEW c \in Channels, NEW i \in EpgIds \cup {NoId}, ChooseId(c, i) PROVE GuideInv'
  <2>1. Queued /\ UNCHANGED <<remote, row, mapped, tables>> /\ chosen' = chosen \cup {c}
    BY <1>3 DEF ChooseId, Change
  <2>2. live' \in [Channels -> [id : EpgIds \cup {NoId}, enabled : BOOLEAN]]
    <3>1. live' = [live EXCEPT ![c] = [live[c] EXCEPT !.id = i]]
      BY <1>3 DEF ChooseId
    <3>2. [live[c] EXCEPT !.id = i] \in [id : EpgIds \cup {NoId}, enabled : BOOLEAN]
      BY <1>1 DEF GuideTyped
    <3> QED BY <1>1, <3>1, <3>2 DEF GuideTyped
  <2>3. GuideTyped'
    BY <1>1, <1>2, <2>1, <2>2 DEF GuideTyped, tables
  <2>4. ClockIsHonest'
    BY <1>1, <2>1 DEF ClockIsHonest, tables
  <2> QED BY <2>1, <2>3, <2>4, QueuedKeeps DEF tables
<1>4. ASSUME NEW c \in Channels, NEW rules \in {{}} \cup {{r} : r \in Feeds \X EpgIds}, ChoosePolicy(c, rules)
      PROVE  GuideInv'
  <2>1. Queued /\ UNCHANGED <<remote, row, live, tables>> /\ chosen' = chosen \cup {c}
    BY <1>4 DEF ChoosePolicy, Change
  <2>2. mapped' \subseteq Channels \X Feeds \X EpgIds
    <3>1. rules \subseteq Feeds \X EpgIds
      OBVIOUS
    <3>2. {<<c, r[1], r[2]>> : r \in rules} \subseteq Channels \X Feeds \X EpgIds
      BY <3>1
    <3>3. {m \in mapped : m[1] # c} \subseteq Channels \X Feeds \X EpgIds
      BY <1>1 DEF GuideTyped
    <3>4. mapped' = {m \in mapped : m[1] # c} \cup {<<c, r[1], r[2]>> : r \in rules}
      BY <1>4 DEF ChoosePolicy
    <3> QED BY ONLY <3>2, <3>3, <3>4
  <2>3. GuideTyped'
    BY <1>1, <1>2, <2>1, <2>2 DEF GuideTyped, tables
  <2>4. ClockIsHonest'
    BY <1>1, <2>1 DEF ClockIsHonest, tables
  <2> QED BY <2>1, <2>3, <2>4, QueuedKeeps DEF tables
<1> DEFINE FeedRows == [there : BOOLEAN, enabled : BOOLEAN, clock : Clocks, applied : Clocks]
<1>5. ASSUME NEW s \in Feeds, Queued, UNCHANGED <<remote, live, mapped, chosen, tables>>, row[s].there,
             NEW R \in FeedRows, row' = [row EXCEPT ![s] = R], R.applied = row[s].applied
      PROVE  GuideInv'
  <2>1. row \in [Feeds -> FeedRows]
    BY <1>1 DEF GuideTyped
  <2> HIDE DEF FeedRows
  <2>2. row' \in [Feeds -> FeedRows]
    BY <1>5, <2>1
  <2>3. GuideTyped'
    BY <1>1, <1>2, <1>5, <2>2 DEF GuideTyped, tables, FeedRows
  <2>4. \A f \in Feeds : row'[f] = row[f] \/ (f = s /\ row'[f] = R)
    BY <1>5, <2>1
  <2>5. ClockIsHonest'
    BY <1>1, <1>5, <2>4 DEF ClockIsHonest, tables
  <2>6. \A f \in Feeds : row'[f].there => row[f].there /\ cached'[f] = cached[f]
    BY <1>5, <2>4 DEF tables
  <2> QED BY <1>5, <2>3, <2>5, <2>6, QueuedKeeps
<1>6. ASSUME NEW s \in Feeds, SwitchFeed(s) PROVE GuideInv'
  <2> DEFINE R == [row[s] EXCEPT !.enabled = ~row[s].enabled]
  <2>1. R \in FeedRows /\ R.applied = row[s].applied
    BY <1>1 DEF GuideTyped
  <2>2. row' = [row EXCEPT ![s] = R]
    BY <1>6 DEF SwitchFeed
  <2>3. Queued /\ UNCHANGED <<remote, live, mapped, chosen, tables>> /\ row[s].there
    BY <1>6 DEF SwitchFeed, Change
  <2> HIDE DEF R, FeedRows
  <2> QED BY <1>5, <2>1, <2>2, <2>3
<1>7. ASSUME NEW s \in Feeds, SetClock(s) PROVE GuideInv'
  <2> DEFINE R == [row[s] EXCEPT !.clock = IF row[s].clock = "auto" THEN "override" ELSE "auto"]
  <2>1. R \in FeedRows /\ R.applied = row[s].applied
    BY <1>1 DEF GuideTyped, Clocks
  <2>2. row' = [row EXCEPT ![s] = R]
    BY <1>7 DEF SetClock
  <2>3. Queued /\ UNCHANGED <<remote, live, mapped, chosen, tables>> /\ row[s].there
    BY <1>7 DEF SetClock, Change
  <2> HIDE DEF R, FeedRows
  <2> QED BY <1>5, <2>1, <2>2, <2>3
<1>8. ASSUME NEW s \in Feeds, DeleteFeed(s) PROVE GuideInv'
  <2> DEFINE R == [there |-> FALSE, enabled |-> FALSE, clock |-> "auto", applied |-> "auto"]
             S == [ids |-> {}, clock |-> "auto"]
             Shown == [ids : SUBSET EpgIds, clock : Clocks]
  <2>1. Queued /\ UNCHANGED <<remote, live, chosen>>
    BY <1>8 DEF DeleteFeed, Change
  <2>2. R \in FeedRows /\ ~R.there /\ S \in Shown
    BY DEF Clocks
  <2>3. /\ row' = [row EXCEPT ![s] = R] /\ shows' = [shows EXCEPT ![s] = S]
        /\ cached' = [cached EXCEPT ![s] = NoGuide] /\ mapped' = {m \in mapped : m[2] # s}
    BY <1>8 DEF DeleteFeed
  <2>4. /\ row \in [Feeds -> FeedRows] /\ shows \in [Feeds -> Shown]
        /\ cached \in [Feeds -> {NoGuide} \cup SUBSET EpgIds]
    BY <1>1 DEF GuideTyped
  <2> HIDE DEF R, S, FeedRows, Shown
  <2>5. \A f \in Feeds : \/ (f = s /\ ~row'[f].there)
                        \/ (row'[f] = row[f] /\ shows'[f] = shows[f] /\ cached'[f] = cached[f])
    BY <2>2, <2>3, <2>4
  <2>6. /\ row' \in [Feeds -> FeedRows] /\ shows' \in [Feeds -> Shown]
        /\ cached' \in [Feeds -> {NoGuide} \cup SUBSET EpgIds]
    BY <2>2, <2>3, <2>4
  <2>7. GuideTyped'
    BY <1>1, <1>2, <2>1, <2>3, <2>6 DEF GuideTyped, FeedRows, Shown
  <2>8. ClockIsHonest'
    BY <1>1, <2>5 DEF ClockIsHonest
  <2>9. \A f \in Feeds : row'[f].there => row[f].there /\ cached'[f] = cached[f]
    BY <2>5
  <2> QED BY <2>1, <2>7, <2>8, <2>9, QueuedKeeps
<1> QED BY <1>3, <1>4, <1>6, <1>7, <1>8

\* Switching a channel takes it from the chosen; the publisher changes nothing here.
LEMMA OthersKeepGuide ==
    ASSUME GuideInv,
           \/ \E c \in Channels : SwitchChannel(c)
           \/ \E s \in Feeds : Publish(s)
           \/ UNCHANGED guideVars
    PROVE  GuideInv'
<1>1. UNCHANGED <<row, cached, shows, worker, pending>>
  BY DEF SwitchChannel, Publish, guideVars, settings, tables
<1>2. GuideTyped /\ OneIngest /\ "tick" \in Workers
  BY DEF GuideInv, Workers
<1>3. /\ GuideTyped'
      /\ \A f \in Feeds : ChosenFor(f)' \subseteq ChosenFor(f)
  <2>1. CASE \E c \in Channels : SwitchChannel(c)
    <3> PICK c \in Channels : SwitchChannel(c)
      BY <2>1
    <3> DEFINE R == [id : EpgIds \cup {NoId}, enabled : BOOLEAN]
               L == [live[c] EXCEPT !.enabled = ~live[c].enabled]
    <3>1. live' = [live EXCEPT ![c] = L] /\ chosen' = chosen \ {c} /\ UNCHANGED <<remote, mapped>>
      BY DEF SwitchChannel, Change
    <3>2. live \in [Channels -> R] /\ L \in R /\ chosen \subseteq Channels
      BY <1>2 DEF GuideTyped
    <3> HIDE DEF R, L
    <3>3. live' \in [Channels -> R] /\ \A d \in chosen' : d \in chosen /\ live'[d] = live[d]
      BY <3>1, <3>2
    <3>4. GuideTyped'
      BY <1>1, <1>2, <3>1, <3>3 DEF GuideTyped, R
    <3>5. ASSUME NEW f \in Feeds, NEW i \in ChosenFor(f)' PROVE i \in ChosenFor(f)
      <4>1. CASE \E d \in chosen' : live'[d].enabled /\ i = live'[d].id
        <5>1. PICK d \in chosen : live[d].enabled /\ i = live[d].id
          BY <3>3, <4>1
        <5> QED BY <5>1 DEF ChosenFor
      <4>2. CASE \E m \in mapped : m[2] = f /\ m[1] \in chosen' /\ live'[m[1]].enabled /\ i = m[3]
        <5>1. PICK m \in mapped : m[2] = f /\ m[1] \in chosen /\ live[m[1]].enabled /\ i = m[3]
          BY <3>3, <4>2
        <5> QED BY <5>1 DEF ChosenFor
      <4>3. \/ \E d \in chosen' : live'[d].enabled /\ i = live'[d].id
            \/ \E m \in mapped : m[2] = f /\ m[1] \in chosen' /\ live'[m[1]].enabled /\ i = m[3]
        BY <3>1 DEF ChosenFor
      <4> QED BY <4>1, <4>2, <4>3
    <3> QED BY <3>4, <3>5
  <2>2. CASE \E s \in Feeds : Publish(s)
    <3> PICK s \in Feeds : Publish(s)
      BY <2>2
    <3>1. remote' \in [Feeds -> SUBSET EpgIds] /\ UNCHANGED <<live, mapped, chosen>>
      BY <1>2 DEF Publish, settings, GuideTyped
    <3> QED BY <1>1, <1>2, <3>1 DEF GuideTyped, ChosenFor
  <2>3. CASE UNCHANGED guideVars
    BY <1>2, <2>3 DEF guideVars, GuideTyped, ChosenFor
  <2> QED BY <2>1, <2>2, <2>3
<1>4. OneIngest'
  BY <1>1, <1>2 DEF OneIngest, Ingesting
<1>5. \A f \in Feeds : Awaited(f)' = Awaited(f)
  BY <1>1 DEF Awaited
<1>6. \A w \in Workers : Ingesting(w) => worker[w].feed \in Feeds
  BY <1>2 DEF OneIngest
<1>7. \A f \in Feeds : Bringing("tick", f)' = Bringing("tick", f)
  BY <1>1 DEF Bringing, AfterKeep
<1>8. FileIsRead("tick")' /\ ClockIsRead("tick")'
  <2>1. FileIsRead("tick") /\ ClockIsRead("tick")
    BY <1>2 DEF GuideInv
  <2> QED BY <1>1, <2>1 DEF FileIsRead, ClockIsRead, AfterKeep, Ingesting, Used, Awaited
<1>9. ChoicesAreRead("tick")'
  <2>1. ChoicesAreRead("tick")
    BY <1>2 DEF GuideInv
  <2>2. worker["tick"].at = "flush" => worker["tick"].feed \in Feeds
    BY <1>2, <1>6 DEF Ingesting
  <2> QED BY <1>1, <1>3, <1>5, <2>1, <2>2 DEF ChoicesAreRead, Used
<1> QED BY <1>1, <1>2, <1>3, <1>4, <1>5, <1>6, <1>7, <1>8, <1>9, WorkerMoves

LEMMA GuideStep ==
    ASSUME GuideInv, [GuideNext]_guideVars
    PROVE  GuideInv'
<1>1. CASE StartRefresh \/ Tick \/ Wake \/ Rerun
  BY <1>1, RefreshStarts, TickStarts, RematchWakes, RerunBegins
<1>2. ASSUME NEW w \in Workers,
             \/ Rest(w) \/ BeginIngest(w) \/ Load(w) \/ Fail(w) \/ Keep(w)
             \/ Match(w) \/ Assign(w) \/ Want(w) \/ Flush(w)
      PROVE  GuideInv'
  BY <1>2, WorkerRests, IngestBegins, LoadKeeps, IngestFails, KeepKeeps, MatchKeeps, AssignKeeps,
     WantKeeps, FlushKeeps
<1>3. CASE \/ \E c \in Channels : \/ \E i \in EpgIds \cup {NoId} : ChooseId(c, i)
                                  \/ \E rules \in {{}} \cup {{r} : r \in Feeds \X EpgIds} : ChoosePolicy(c, rules)
           \/ \E s \in Feeds : SwitchFeed(s) \/ SetClock(s) \/ DeleteFeed(s)
  BY <1>3, OperatorKeepsGuide
<1>4. CASE (\E c \in Channels : SwitchChannel(c)) \/ (\E s \in Feeds : Publish(s)) \/ UNCHANGED guideVars
  BY <1>4, OthersKeepGuide
<1> QED BY <1>1, <1>2, <1>3, <1>4 DEF GuideNext

\* When nothing runs or waits, nobody brings and nothing is awaited.
LEMMA QuietIsUpToDate == ASSUME GuideInv PROVE GuideKeepsUp
<1>1. ASSUME Quiet, NEW s \in Feeds, row[s].there, row[s].enabled, cached[s] # NoGuide
      PROVE  UpToDate(s)
  <2>1. \A w \in Workers : worker[w].at = "idle"
    BY <1>1 DEF Quiet
  <2>2. ~Awaited(s)
    BY <1>1, <2>1 DEF Quiet, Awaited, GuideInv, OneIngest, Workers
  <2>3. \A w \in Workers : ~Bringing(w, s)
    BY <2>1 DEF Bringing, AfterKeep
  <2> QED BY <1>1, <2>2, <2>3 DEF GuideInv, NoneForgotten, Used
<1>2. ChoicesArrive
  BY <1>1 DEF ChoicesArrive, UpToDate
<1> QED BY <1>2 DEF GuideKeepsUp, GuideInv

\* Whatever an operator chooses, and whenever, reaches the guide without the network once
\* the reruns it queued have ended; and the clock on record is the one that was read with.
THEOREM ChoicesReachTheGuide == GuideSpec => []GuideKeepsUp
<1>1. GuideInit => GuideInv
  BY GuideStarts
<1>2. GuideInv /\ [GuideNext]_guideVars => GuideInv'
  BY GuideStep
<1>3. GuideInv => GuideKeepsUp
  BY QuietIsUpToDate
<1> QED BY <1>1, <1>2, <1>3, PTL DEF GuideSpec
-----------------------------------------------------------------------------
(* What a channel shows in the guide (GuidePolicy) *)

\* A channel that is not of its own mind fills gaps, and has had no rules of its own.
IsPolicy(p) ==
    p = [tvg |-> p.tvg, gap |-> p.gap, shift |-> p.shift, rules |-> p.rules,
         explicit |-> p.explicit, custom |-> p.custom]
Mindful(p) == ~p.custom => p.gap = TRUE /\ p.explicit = FALSE
PolicyInv ==
    /\ policy = [c \in Guests |-> policy[c]]
    /\ \A c \in Guests : /\ IsPolicy(policy[c]) /\ Mindful(policy[c])
                         /\ policy[c].tvg \in TvgIds \cup {NoTvg} /\ policy[c].custom \in BOOLEAN

\* Who shares an id shares the policy.
LEMMA OneIdOnePolicy ==
    ASSUME PolicyInv, NEW c \in Guests, NEW d \in Guests, OutputId(c) = OutputId(d)
    PROVE  policy[c] = policy[d]
<1>1. CASE c = d
  BY <1>1
<1>2. CASE c # d
  <2>1. \A g \in Guests : /\ OutputId(g) = g \/ OutputId(g) = policy[g].tvg
                          /\ policy[g].tvg \notin Guests
    BY PolicyAssumption DEF PolicyAssumption, PolicyInv, OutputId
  <2>2. OutputId(c) # c /\ OutputId(d) # d
    BY <1>2, <2>1
  <2>3. /\ ~policy[c].custom /\ policy[c].rules = <<>> /\ policy[c].shift = 0
        /\ ~policy[d].custom /\ policy[d].rules = <<>> /\ policy[d].shift = 0
        /\ policy[c].tvg = policy[d].tvg
    BY <2>2 DEF OutputId
  <2>4. /\ policy[c].gap = policy[d].gap /\ policy[c].explicit = policy[d].explicit
        /\ IsPolicy(policy[c]) /\ IsPolicy(policy[d])
    BY <2>3 DEF PolicyInv, Mindful
  <2>5. policy[c].custom = policy[d].custom
    BY <2>3 DEF PolicyInv
  <2> QED BY <2>3, <2>4, <2>5 DEF IsPolicy
<1> QED BY <1>1, <1>2

LEMMA OneIdOneSchedule ==
    ASSUME PolicyInv PROVE OneIdOneGuide
<1> SUFFICES ASSUME NEW c \in Guests, NEW d \in Guests, c # d
             PROVE  Written(<<c, d>>, OutputId(d)) = Schedule(d)
  BY DEF OneIdOneGuide
<1> DEFINE order == <<c, d>>
           id == OutputId(d)
           first(i) == /\ OutputId(order[i]) = id
                       /\ \A j \in DOMAIN order : OutputId(order[j]) = id => i <= j
<1>1. DOMAIN order = {1, 2} /\ order[1] = c /\ order[2] = d
  OBVIOUS
<1>2. \E i \in DOMAIN order : first(i)
  <2>1. CASE OutputId(c) = id
    BY <1>1, <2>1
  <2>2. CASE OutputId(c) # id
    BY <1>1, <2>2
  <2> QED BY <2>1, <2>2
<1>3. FirstWith(order, id) = CHOOSE i \in DOMAIN order : first(i)
  BY DEF FirstWith
<1>4. FirstWith(order, id) \in {1, 2} /\ OutputId(order[FirstWith(order, id)]) = id
  <2> HIDE DEF order, id
  <2>1. FirstWith(order, id) \in DOMAIN order /\ first(FirstWith(order, id))
    BY <1>2, <1>3
  <2> QED BY <1>1, <2>1
<1>5. policy[order[FirstWith(order, id)]] = policy[d]
  BY <1>1, <1>4, OneIdOnePolicy
<1> HIDE DEF order, id
<1>6. Schedule(order[FirstWith(order, id)]) = Schedule(d)
  BY <1>5 DEF Schedule, Layers
<1> QED BY <1>6 DEF Written, order, id

LEMMA WithTvg ==
    ASSUME NEW q, IsPolicy(q), NEW id
    PROVE  LET p == [q EXCEPT !.tvg = id] IN
           /\ IsPolicy(p) /\ p.tvg = id
           /\ p.custom = q.custom /\ p.gap = q.gap /\ p.explicit = q.explicit
BY DEF IsPolicy

LEMMA PolicyStarts == ASSUME PolicyInit PROVE PolicyInv
<1>1. PICK id \in TvgIds \cup {NoTvg} : policy = [c \in Guests |-> [Automatic EXCEPT !.tvg = id]]
  BY DEF PolicyInit
<1> DEFINE A == [Automatic EXCEPT !.tvg = id]
<1>2. IsPolicy(A) /\ Mindful(A) /\ A.tvg = id /\ A.custom \in BOOLEAN
  <2>1. IsPolicy(Automatic) /\ Automatic.gap = TRUE /\ Automatic.explicit = FALSE /\ Automatic.custom = FALSE
    BY DEF Automatic, IsPolicy
  <2> QED BY <2>1, WithTvg DEF Mindful
<1>3. policy = [c \in Guests |-> A]
  BY <1>1
<1> HIDE DEF A
<1> QED BY <1>2, <1>3 DEF PolicyInv

\* One channel's policy is replaced by a mindful one.
LEMMA OnePolicyChanges ==
    ASSUME PolicyInv, NEW c \in Guests, NEW p, policy' = [policy EXCEPT ![c] = p],
           IsPolicy(p), Mindful(p), p.tvg \in TvgIds \cup {NoTvg}, p.custom \in BOOLEAN
    PROVE  PolicyInv'
<1>1. policy = [g \in Guests |-> policy[g]]
  BY DEF PolicyInv
<1>2. policy' = [g \in Guests |-> IF g = c THEN p ELSE policy[g]]
  BY <1>1
<1> QED BY <1>1, <1>2 DEF PolicyInv

LEMMA PolicyStep ==
    ASSUME PolicyInv, [PolicyNext]_policyVars
    PROVE  PolicyInv'
<1>1. ASSUME NEW c \in Guests, NEW gap \in BOOLEAN, NEW shift \in Shifts, NEW rules \in Offers,
             SetPolicy(c, gap, shift, rules)
      PROVE  PolicyInv'
  <2> DEFINE p == [tvg |-> policy[c].tvg, gap |-> gap, shift |-> shift, rules |-> rules,
                   explicit |-> rules # <<>>, custom |-> OwnMind(gap, shift, rules)]
  <2>1. policy' = [policy EXCEPT ![c] = p]
    BY <1>1 DEF SetPolicy
  <2>2. IsPolicy(p) /\ p.tvg \in TvgIds \cup {NoTvg} /\ p.custom \in BOOLEAN
    BY DEF IsPolicy, PolicyInv, OwnMind
  <2>3. Mindful(p)
    BY DEF Mindful, OwnMind
  <2> HIDE DEF p
  <2> QED BY <2>1, <2>2, <2>3, OnePolicyChanges
<1>2. ASSUME NEW c \in Guests, NEW id \in TvgIds \cup {NoTvg}, SetTvg(c, id) PROVE PolicyInv'
  <2> DEFINE p == [policy[c] EXCEPT !.tvg = id]
  <2>1. policy' = [policy EXCEPT ![c] = p]
    BY <1>2 DEF SetTvg
  <2>2. IsPolicy(policy[c]) /\ Mindful(policy[c]) /\ policy[c].custom \in BOOLEAN
    BY DEF PolicyInv
  <2>3. IsPolicy(p) /\ p.tvg = id /\ p.custom = policy[c].custom /\ p.gap = policy[c].gap
        /\ p.explicit = policy[c].explicit
    BY <2>2, WithTvg
  <2> HIDE DEF p
  <2> QED BY <2>1, <2>2, <2>3, OnePolicyChanges DEF Mindful
<1>3. ASSUME NEW s \in GuideSources, RemoveFeed(s) PROVE PolicyInv'
  <2> DEFINE p(c) == [policy[c] EXCEPT !.rules = Only(policy[c].rules, {r \in Rules : r.feed # s})]
  <2>1. policy' = [c \in Guests |-> p(c)]
    BY <1>3 DEF RemoveFeed
  <2>2. \A c \in Guests : /\ IsPolicy(policy[c]) /\ Mindful(policy[c])
                          /\ policy[c].tvg \in TvgIds \cup {NoTvg} /\ policy[c].custom \in BOOLEAN
    BY DEF PolicyInv
  <2>3. \A c \in Guests : /\ IsPolicy(p(c)) /\ p(c).tvg = policy[c].tvg /\ p(c).custom = policy[c].custom
                          /\ p(c).gap = policy[c].gap /\ p(c).explicit = policy[c].explicit
    <3> SUFFICES ASSUME NEW c \in Guests
                 PROVE  /\ IsPolicy(p(c)) /\ p(c).tvg = policy[c].tvg /\ p(c).custom = policy[c].custom
                        /\ p(c).gap = policy[c].gap /\ p(c).explicit = policy[c].explicit
      OBVIOUS
    <3>1. IsPolicy(policy[c])
      BY <2>2
    <3> QED BY <3>1 DEF IsPolicy
  <2> HIDE DEF p
  <2> QED BY <2>1, <2>2, <2>3 DEF PolicyInv, Mindful
<1>4. CASE UNCHANGED policyVars
  BY <1>4 DEF policyVars, PolicyInv
<1> QED BY <1>1, <1>2, <1>3, <1>4 DEF PolicyNext

\* Channels that XMLTV carries under one id show one schedule.
THEOREM OneIdShowsOneGuide == PolicySpec => []OneIdOneGuide
<1>1. PolicyInit => PolicyInv
  BY PolicyStarts
<1>2. PolicyInv /\ [PolicyNext]_policyVars => PolicyInv'
  BY PolicyStep
<1>3. PolicyInv => OneIdOneGuide
  BY OneIdOneSchedule
<1> QED BY <1>1, <1>2, <1>3, PTL DEF PolicySpec
=============================================================================
