-------------------------- MODULE PublishingProofs --------------------------
(***************************************************************************)
(* The controller implements Publication, for every set of names,          *)
(* specifications, settings, stores and models, every build and every      *)
(* bound.                                                                  *)
(***************************************************************************)
EXTENDS Publishing, ConvergenceProofs

-----------------------------------------------------------------------------
(* The verdict on a version.                                               *)

\* A version says of each module what is listed of it.
LEMMA VersionSeen ==
    ASSUME NEW mods \in [Name -> Module \cup {NoModule}]
    PROVE  /\ Version(mods) \in [Name -> [spec : Spec, gen : Nat] \cup {NoModule}]
           /\ Present(Version(mods)) = Present(mods)
           /\ \A n \in Present(mods) : /\ Version(mods)[n] # NoModule
                                       /\ Version(mods)[n].spec = mods[n].spec
                                       /\ Version(mods)[n].gen = mods[n].gen
  <1>1. \A n \in Present(mods) : /\ n \in Name
                                 /\ mods[n].spec \in Spec /\ mods[n].gen \in Nat
                                 /\ Version(mods)[n] = [spec |-> mods[n].spec, gen |-> mods[n].gen]
    BY DEF Present, Version, Seen, Module
  <1>2. \A n \in Present(mods) : Version(mods)[n] \in [spec : Spec, gen : Nat]
    <2> TAKE n \in Present(mods)
    <2>1. mods[n].spec \in Spec /\ mods[n].gen \in Nat
      BY <1>1
    <2>2. [spec |-> mods[n].spec, gen |-> mods[n].gen] \in [spec : Spec, gen : Nat]
      BY <2>1
    <2> QED
      BY <1>1, <2>2
  <1>3. \A n \in Name \ Present(mods) : mods[n] = NoModule /\ Version(mods)[n] = NoModule
    BY DEF Present, Version, Seen
  <1>4. \A n \in Present(mods) : Version(mods)[n] # NoModule
    BY <1>2, SeenAssumption
  <1>5. Present(Version(mods)) = Present(mods)
    BY <1>1, <1>3, <1>4 DEF Present
  <1>6. \A n \in Name : Version(mods)[n] \in [spec : Spec, gen : Nat] \cup {NoModule}
    BY <1>2, <1>3
  <1>7. Version(mods) \in [Name -> [spec : Spec, gen : Nat] \cup {NoModule}]
    BY <1>6 DEF Version
  <1>8. \A n \in Present(mods) : /\ Version(mods)[n].spec = mods[n].spec
                                /\ Version(mods)[n].gen = mods[n].gen
    <2> TAKE n \in Present(mods)
    <2> DEFINE seen == [spec |-> mods[n].spec, gen |-> mods[n].gen]
    <2>1. seen.spec = mods[n].spec /\ seen.gen = mods[n].gen
      OBVIOUS
    <2>2. Version(mods)[n] = seen
      BY <1>1
    <2> HIDE DEF seen
    <2> QED
      BY <2>1, <2>2
  <1> QED
    BY <1>4, <1>5, <1>7, <1>8

\* What is built from a listing of the cache is the model of the version that
\* the cache has, whatever the order of the listing.
LEMMA ListedVerdict ==
    ASSUME NEW mods \in [Name -> Module \cup {NoModule}], Version(mods) \in Versions,
           NEW order \in SetToSeqs(Present(mods)), order # <<>>
    PROVE  LET verdictOn == BuildOf(Version(mods))
               built == Build(Listing(order, mods))
           IN /\ verdictOn.ready = built.ready /\ verdictOn.reason = built.reason
              /\ verdictOn.hash = built.hash /\ ModelOf(Version(mods)) = built.hash
  <1> DEFINE version == Version(mods)
             S == Present(mods)
             other == CHOOSE o \in SetToSeqs(Present(version)) : TRUE
  <1>1. Present(version) = S /\ \A n \in S : version[n].spec = mods[n].spec
    BY VersionSeen
  <1>2. other \in SetToSeqs(S)
    BY <1>1
  <1> HIDE DEF version, other
  <1>3. /\ order \in Seq(Name) /\ Len(order) = Cardinality(S) /\ \A i \in DOMAIN order : order[i] \in S
        /\ other \in Seq(Name) /\ Len(other) = Cardinality(S) /\ \A i \in DOMAIN other : other[i] \in S
    BY <1>2, OrderOfPresent
  <1>4. S # {} /\ other # <<>>
    BY <1>3
  <1>5. Listing(other, version) = Listing(other, mods)
    BY <1>1, <1>3 DEF Listing
  <1>6. /\ Build(Listing(order, mods)).ready = Build(Listing(other, mods)).ready
        /\ Build(Listing(order, mods)).reason = Build(Listing(other, mods)).reason
        /\ Build(Listing(order, mods)).hash = Build(Listing(other, mods)).hash
    BY <1>2, <1>4, SameBuild
  <1>7. BuildOf(version) = Build(Listing(other, version))
    <2> DEFINE RecordOn(v) == [version |-> v,
                 verdict |-> Build(Listing(CHOOSE o \in SetToSeqs(Present(v)) : TRUE, v))]
    <2>1. version \in Versions \ {NoModules}
      <3>1. Present(NoModules) = {}
        BY DEF Present, NoModules
      <3> QED
        BY <1>1, <1>4, <3>1 DEF version
    <2>2. VerdictsOn = {RecordOn(v) : v \in Versions \ {NoModules}}
      BY DEF VerdictsOn
    <2>3. \A v : RecordOn(v).version = v
      OBVIOUS
    <2>4. RecordOn(version).verdict = Build(Listing(other, version))
      BY DEF other
    <2> HIDE DEF RecordOn
    <2>5. \A r \in VerdictsOn : r.version = version <=> r = RecordOn(version)
      BY <2>1, <2>2, <2>3
    <2>6. RecordOn(version) \in VerdictsOn
      BY <2>1, <2>2
    <2>7. (CHOOSE r \in VerdictsOn : r.version = version) = RecordOn(version)
      BY <2>5, <2>6
    <2> QED
      BY <2>4, <2>7 DEF BuildOf
  <1> QED
    BY <1>1, <1>4, <1>5, <1>6, <1>7 DEF ModelOf, version

-----------------------------------------------------------------------------
(* The versions that the parts of the controller have.  Inductive: the     *)
(* versions are ordered from the Secret over the worker's listing and the  *)
(* cache to the events under way, each event leads from the version before *)
(* it to its own, the last one to the current, and the worker's verdict is *)
(* the one on the version it listed.                                       *)

\* A version as an event changes it.
Changed(version, event) == [version EXCEPT ![event.name] = Seen(event.obj)]

PastOK ==
    /\ past \in Seq(Versions)
    /\ past # <<>>
    /\ past[Len(past)] = Version(modules)

\* Of the versions vs: the first is number c, the i-th of the events es leads
\* to number at[i], and the last one to the current version.
At(c, at, i) == IF i = 0 THEN c ELSE at[i]

Leads(vs, c, at, es) ==
    /\ at \in Seq(Nat)
    /\ Len(at) = Len(es)
    /\ \A i \in 0 .. Len(at) : At(c, at, i) \in 1 .. Len(vs)
    /\ \A i \in 1 .. Len(at) :
          /\ At(c, at, i - 1) <= At(c, at, i)
          /\ vs[At(c, at, i)] = Changed(vs[At(c, at, i - 1)], es[i])
    /\ At(c, at, Len(at)) = Len(vs)

StreamOK ==
    /\ Leads(past, cachedAt, modAt, modWatch)
    /\ past[cachedAt] = Version(modCache)

OrderOK == shownAt \in 1 .. listedAt /\ listedAt \in 1 .. cachedAt

ListedOK ==
    /\ pc = "deleteSecret" => past[listedAt] = NoModules
    /\ pc \in {"getSecret", "createStore", "writeModel", "applySecret"} =>
          verdict.hash = ModelOf(past[listedAt])

HistoryOK == PastOK /\ StreamOK /\ OrderOK /\ ListedOK

\* The history only observes.
LEMMA HistoryObserves == HistorySystem => System
  <1>1. HistoryInit => Init
    BY DEF HistoryInit
  <1>2. [HistoryNext]_allVars => [Next]_vars
    <2>1. HistoryNext => Next
      BY DEF HistoryNext, Lists, Publishes, WritesSecret, PatchesStatus, DeliversModule,
             DeliversSecret, ChangesModules, DamagesSecret, Restarts, Next, Worker, Environment
    <2>2. UNCHANGED allVars => UNCHANGED vars
      BY DEF allVars
    <2> QED
      BY <2>1, <2>2
  <1> QED
    BY <1>1, <1>2, PTL DEF HistorySystem, System

\* So it is well typed.
LEMMA HistoryTyped == HistorySystem => []TypeOK
  BY HistoryObserves, TypeCorrect, PTL

\* The empty version is one, and has no model.
LEMMA NoModulesVersion ==
    /\ NoModules \in Versions
    /\ Version(NoModules) = NoModules
    /\ Present(NoModules) = {}
    /\ ModelOf(NoModules) = None
  <1>1. NoModules \in Versions /\ Present(NoModules) = {}
    BY DEF NoModules, Versions, Present
  <1>2. Version(NoModules) = NoModules
    BY DEF Version, NoModules, Seen
  <1> QED
    BY <1>1, <1>2 DEF ModelOf

\* The invariant holds initially.
LEMMA HistoryInitOK == HistoryInit => HistoryOK
  <1> SUFFICES ASSUME HistoryInit PROVE HistoryOK
    OBVIOUS
  <1>1. modules = NoModules /\ modCache = NoModules /\ modWatch = <<>> /\ pc = "idle"
    BY DEF HistoryInit, Init, NoModules
  <1>2. past = <<NoModules>> /\ Len(past) = 1 /\ past[1] = NoModules
    BY <1>1, NoModulesVersion DEF HistoryInit
  <1>3. PastOK
    BY <1>1, <1>2, NoModulesVersion DEF PastOK
  <1>4. modAt = <<>> /\ cachedAt = 1 /\ listedAt = 1 /\ shownAt = 1
    BY DEF HistoryInit
  <1>5. StreamOK
    BY <1>1, <1>2, <1>4, NoModulesVersion DEF StreamOK, Leads, At
  <1> QED
    BY <1>1, <1>3, <1>4, <1>5 DEF HistoryOK, OrderOK, ListedOK

\* An event that is put on its way, perhaps along with a new version, leads
\* to the version that is then the current one.
LEMMA StreamGrows ==
    ASSUME NEW Event, NEW V,
           NEW vs \in Seq(V), NEW ws \in Seq(V), NEW c, NEW at, NEW es \in Seq(Event), NEW e \in Event,
           Leads(vs, c, at, es),
           Len(vs) <= Len(ws), \A i \in 1 .. Len(vs) : ws[i] = vs[i],
           ws[Len(ws)] = Changed(vs[Len(vs)], e)
    PROVE  Leads(ws, c, Append(at, Len(ws)), Append(es, e)) /\ ws[c] = vs[c]
  <1> DEFINE n == Len(at)
             bt == Append(at, Len(ws))
             fs == Append(es, e)
  <1>1. n \in Nat /\ Len(vs) \in Nat /\ Len(ws) \in Nat /\ Len(es) = n
    BY DEF Leads
  <1>2. /\ bt \in Seq(Nat) /\ Len(bt) = n + 1 /\ Len(fs) = n + 1
        /\ bt[n + 1] = Len(ws) /\ fs[n + 1] = e
        /\ \A i \in 1 .. n : bt[i] = at[i] /\ fs[i] = es[i]
    BY <1>1 DEF Leads
  <1> HIDE DEF bt, fs
  <1>3. \A i \in 0 .. n : At(c, bt, i) = At(c, at, i) /\ At(c, at, i) \in 1 .. Len(vs)
    BY <1>1, <1>2 DEF At, Leads
  <1>4. At(c, bt, n + 1) = Len(ws)
    BY <1>1, <1>2 DEF At
  <1>5. \A i \in 0 .. n : ws[At(c, bt, i)] = vs[At(c, at, i)]
    BY <1>3
  <1>6. ASSUME NEW i \in 0 .. n + 1
        PROVE  At(c, bt, i) \in 1 .. Len(ws)
    <2>1. At(c, at, n) = Len(vs) /\ Len(vs) \in 1 .. Len(vs)
      BY <1>1, <1>3 DEF Leads
    <2>2. CASE i \in 0 .. n
      BY <1>1, <1>3, <2>2
    <2>3. CASE i = n + 1
      BY <1>1, <1>4, <2>1, <2>3
    <2> QED
      BY <1>1, <2>2, <2>3
  <1>7. ASSUME NEW i \in 1 .. n + 1
        PROVE  /\ At(c, bt, i - 1) <= At(c, bt, i)
               /\ ws[At(c, bt, i)] = Changed(ws[At(c, bt, i - 1)], fs[i])
    <2>1. CASE i \in 1 .. n
      <3>1. At(c, at, i - 1) <= At(c, at, i) /\ vs[At(c, at, i)] = Changed(vs[At(c, at, i - 1)], es[i])
        BY <2>1 DEF Leads
      <3>2. i - 1 \in 0 .. n /\ i \in 0 .. n
        BY <1>1, <2>1
      <3> QED
        BY <1>2, <1>3, <1>5, <2>1, <3>1, <3>2
    <2>2. CASE i = n + 1
      <3>1. i - 1 = n /\ n \in 0 .. n
        BY <1>1, <2>2
      <3>2. At(c, bt, i - 1) = Len(vs) /\ ws[At(c, bt, i - 1)] = vs[Len(vs)]
        BY <1>3, <1>5, <3>1 DEF Leads
      <3> QED
        BY <1>1, <1>2, <1>4, <2>2, <3>2
    <2> QED
      BY <1>1, <2>1, <2>2
  <1>8. Leads(ws, c, bt, fs)
    BY <1>1, <1>2, <1>4, <1>6, <1>7 DEF Leads
  <1>9. ws[c] = vs[c]
    BY <1>1, <1>3 DEF At
  <1> QED
    BY <1>8, <1>9 DEF bt, fs

\* When the first event is delivered, the cache takes its place.
LEMMA StreamShrinks ==
    ASSUME NEW vs, NEW c, NEW at, NEW Event, NEW es \in Seq(Event), es # <<>>,
           Leads(vs, c, at, es)
    PROVE  /\ Leads(vs, Head(at), Tail(at), Tail(es))
           /\ c \in 1 .. Head(at)
           /\ vs[Head(at)] = Changed(vs[c], Head(es))
  <1> DEFINE n == Len(at)
             rest == Tail(at)
             events == Tail(es)
  <1>1. at \in Seq(Nat) /\ n \in Nat /\ n >= 1 /\ Len(es) = n
    <2>1. Len(es) # 0 /\ Len(es) \in Nat
      OBVIOUS
    <2> QED
      BY <2>1 DEF Leads
  <1>2. /\ rest \in Seq(Nat) /\ Len(rest) = n - 1 /\ Len(events) = n - 1
        /\ Head(at) = at[1] /\ Head(es) = es[1]
        /\ \A i \in 1 .. n - 1 : rest[i] = at[i + 1] /\ events[i] = es[i + 1]
    BY <1>1
  <1> HIDE DEF rest, events
  <1>3. \A i \in 0 .. n - 1 : At(Head(at), rest, i) = At(c, at, i + 1)
    BY <1>1, <1>2 DEF At
  <1>4. \A i \in 0 .. n - 1 : At(Head(at), rest, i) \in 1 .. Len(vs)
    BY <1>1, <1>3 DEF Leads
  <1>5. ASSUME NEW i \in 1 .. n - 1
        PROVE  /\ At(Head(at), rest, i - 1) <= At(Head(at), rest, i)
               /\ vs[At(Head(at), rest, i)] = Changed(vs[At(Head(at), rest, i - 1)], events[i])
    <2>1. i + 1 \in 1 .. n /\ i \in 0 .. n - 1 /\ i - 1 \in 0 .. n - 1 /\ (i - 1) + 1 = i /\ (i + 1) - 1 = i
      BY <1>1
    <2>2. /\ At(c, at, i) <= At(c, at, i + 1)
          /\ vs[At(c, at, i + 1)] = Changed(vs[At(c, at, i)], es[i + 1])
      BY <2>1 DEF Leads
    <2>3. At(Head(at), rest, i) = At(c, at, i + 1) /\ At(Head(at), rest, i - 1) = At(c, at, i)
      BY <1>3, <2>1
    <2> QED
      BY <1>2, <2>2, <2>3
  <1>6. At(Head(at), rest, n - 1) = Len(vs)
    BY <1>1, <1>3 DEF Leads
  <1>7. Leads(vs, Head(at), rest, events)
    BY <1>1, <1>2, <1>4, <1>5, <1>6 DEF Leads
  <1>8. c \in 1 .. Head(at) /\ vs[Head(at)] = Changed(vs[c], Head(es))
    <2>1. 1 \in 1 .. n /\ 0 \in 0 .. n
      BY <1>1
    <2>2. At(c, at, 0) = c /\ At(c, at, 1) = at[1]
      BY DEF At
    <2>3. c \in 1 .. Len(vs)
      BY <2>1, <2>2 DEF Leads
    <2>4. At(c, at, 1 - 1) <= At(c, at, 1) /\ vs[At(c, at, 1)] = Changed(vs[At(c, at, 1 - 1)], es[1])
      BY <2>1 DEF Leads
    <2>5. at[1] \in Nat
      BY <1>1
    <2> QED
      BY <1>2, <2>2, <2>3, <2>4, <2>5
  <1> QED
    BY <1>7, <1>8 DEF rest, events

-----------------------------------------------------------------------------
(* Every step keeps the invariant.                                         *)

\* A write of a module changes the version as its event says.
LEMMA WriteChanges ==
    ASSUME NEW mods \in [Name -> Module \cup {NoModule}], NEW n \in Name, NEW obj
    PROVE  Version([mods EXCEPT ![n] = obj]) = Changed(Version(mods), [name |-> n, obj |-> obj])
  <1> DEFINE new == [mods EXCEPT ![n] = obj]
             event == [name |-> n, obj |-> obj]
  <1>1. event.name = n /\ event.obj = obj
    OBVIOUS
  <1>2. \A m \in Name : new[m] = IF m = n THEN obj ELSE mods[m]
    OBVIOUS
  <1> HIDE DEF new, event
  <1>3. Changed(Version(mods), event) = [m \in Name |-> IF m = n THEN Seen(obj) ELSE Seen(mods[m])]
    BY <1>1 DEF Changed, Version
  <1>4. Version(new) = [m \in Name |-> IF m = n THEN Seen(obj) ELSE Seen(mods[m])]
    BY <1>2 DEF Version
  <1> QED
    BY <1>3, <1>4 DEF new, event

\* A version that a module is changed in is a version.
LEMMA ChangedVersion ==
    ASSUME NEW version \in Versions, NEW n \in Name, NEW obj,
           Seen(obj) \in [spec : Spec, gen : 1 .. MaxGen] \cup {NoModule}
    PROVE  Changed(version, [name |-> n, obj |-> obj]) \in Versions
  BY DEF Changed, Versions

\* Where the streams are not touched, and the worker's listing stays, nothing
\* of the history has to change.
LEMMA HistoryKept ==
    ASSUME HistoryOK, UNCHANGED <<past, modules, modAt, modWatch, cachedAt, modCache, listedAt>>,
           shownAt' \in {shownAt, listedAt},
           \/ pc' \in {"idle", "patchStatus"}
           \/ /\ pc \in {"getSecret", "createStore", "writeModel", "applySecret"}
              /\ pc' # "deleteSecret" /\ verdict' = verdict
    PROVE  HistoryOK'
  <1>1. PastOK' /\ StreamOK'
    BY DEF HistoryOK, PastOK, StreamOK, Leads, At
  <1>2. OrderOK'
    BY DEF HistoryOK, OrderOK
  <1>3. ListedOK'
    BY DEF HistoryOK, ListedOK
  <1> QED
    BY <1>1, <1>2, <1>3 DEF HistoryOK

\* Numbers of versions are numbers.
LEMMA NumbersTyped ==
    ASSUME HistoryOK
    PROVE  /\ Len(past) \in Nat /\ Len(past) >= 1
           /\ cachedAt \in 1 .. Len(past) /\ listedAt \in 1 .. Len(past) /\ shownAt \in 1 .. Len(past)
           /\ \A i \in 1 .. Len(past) : past[i] \in Versions
  <1>1. Len(past) \in Nat /\ Len(past) # 0
    BY DEF HistoryOK, PastOK
  <1>2. cachedAt \in 1 .. Len(past)
    <2>1. Len(modAt) \in Nat /\ At(cachedAt, modAt, 0) = cachedAt
      BY DEF HistoryOK, StreamOK, Leads, At
    <2> QED
      BY <2>1 DEF HistoryOK, StreamOK, Leads
  <1>3. listedAt \in 1 .. cachedAt /\ shownAt \in 1 .. listedAt
    BY DEF HistoryOK, OrderOK
  <1>4. \A i \in 1 .. Len(past) : past[i] \in Versions
    BY DEF HistoryOK, PastOK
  <1> QED
    BY <1>1, <1>2, <1>3, <1>4

\* Every step keeps the invariant of the history.
LEMMA HistoryStep == TypeOK /\ HistoryOK /\ [HistoryNext]_allVars => HistoryOK'
  <1> SUFFICES ASSUME TypeOK, HistoryOK, [HistoryNext]_allVars PROVE HistoryOK'
    OBVIOUS
  <1> DEFINE Event == [name : Name, obj : Module \cup {NoModule}]
  <1>0. /\ modules \in [Name -> Module \cup {NoModule}] /\ modCache \in [Name -> Module \cup {NoModule}]
        /\ modWatch \in Seq(Event)
        /\ PastOK /\ StreamOK /\ OrderOK /\ ListedOK
    BY DEF TypeOK, ServerOK, ManagerOK, HistoryOK
  <1>1. CASE Lists
    <2>1. UNCHANGED <<past, modules, modAt, modWatch, cachedAt, modCache, shownAt>> /\ listedAt' = cachedAt
      BY <1>1 DEF Lists, ListAndBuild, server, caches
    <2>2. PastOK' /\ StreamOK'
      BY <1>0, <2>1 DEF PastOK, StreamOK, Leads, At
    <2>3. OrderOK'
      BY <1>0, <2>1, NumbersTyped DEF OrderOK
    <2> PICK order \in SetToSeqs(Present(modCache)) :
          \/ order = <<>> /\ pc' = "deleteSecret"
          \/ /\ order # <<>>
             /\ verdict' = Prepare(Listing(order, modCache), settings)
             /\ pc' = IF verdict'.ready THEN "getSecret" ELSE "patchStatus"
      BY <1>1 DEF Lists, ListAndBuild
    <2>4. past'[listedAt'] = Version(modCache) /\ Version(modCache) \in Versions
      BY <1>0, <2>1, NumbersTyped DEF StreamOK
    <2>5. CASE order = <<>>
      <3>1. Cardinality(Present(modCache)) = 0
        BY <2>5, OrderOfPresent
      <3>2. IsFiniteSet(Present(modCache))
        BY NameAssumption, FS_Subset DEF Present
      <3>3. Present(modCache) = {}
        BY <3>1, <3>2, FS_EmptySet
      <3>4. Version(modCache) = NoModules
        BY <3>3 DEF Present, Version, NoModules, Seen
      <3>5. ListedOK'
        BY <2>4, <2>5, <3>4 DEF ListedOK
      <3> QED
        BY <2>2, <2>3, <3>5 DEF HistoryOK
    <2>6. CASE order # <<>>
      <3> DEFINE listing == Listing(order, modCache)
      <3>1. verdict'.ready => verdict' = Build(listing)
        <4>1. ~Failed("ModelPublishFailed", "OPENFGA_API_URL is required").ready
          BY DEF Failed
        <4> HIDE DEF listing
        <4>2. Prepare(listing, settings) \in
                {Build(listing), Failed("ModelPublishFailed", "OPENFGA_API_URL is required")}
          BY DEF Prepare
        <4>3. verdict' = Prepare(listing, settings)
          BY <2>6 DEF listing
        <4> QED
          BY <4>1, <4>2, <4>3
      <3>2. ModelOf(Version(modCache)) = Build(Listing(order, modCache)).hash
        BY <1>0, <2>4, <2>6, ListedVerdict
      <3>3. ListedOK'
        BY <2>4, <2>6, <3>1, <3>2 DEF ListedOK
      <3> QED
        BY <2>2, <2>3, <3>3 DEF HistoryOK
    <2> QED
      BY <2>5, <2>6
  <1>2. CASE Publishes
    <2>1. UNCHANGED <<past, modules, modAt, modWatch, cachedAt, modCache, listedAt, shownAt>>
      BY <1>2 DEF Publishes, GetSecret, CreateStore, CreateStoreAs, WriteModel, WriteModelAs,
                  server, caches, history
    <2>2. \/ pc' = "patchStatus"
          \/ pc' \in {"createStore", "writeModel", "applySecret"} /\ verdict' = verdict
      BY <1>2 DEF Publishes, GetSecret, CreateStore, CreateStoreAs, WriteModel, WriteModelAs, Report
    <2>3. pc \in {"getSecret", "createStore", "writeModel"}
      BY <1>2 DEF Publishes, GetSecret, CreateStore, CreateStoreAs, WriteModel, WriteModelAs
    <2> QED
      BY <2>1, <2>2, <2>3, HistoryKept
  <1>3. CASE WritesSecret
    <2>1. UNCHANGED <<past, modules, modAt, modWatch, cachedAt, modCache, listedAt>>
      BY <1>3 DEF WritesSecret, DeleteSecret, ApplySecret, WriteSecret, server, caches
    <2>2. shownAt' \in {shownAt, listedAt} /\ pc' \in {"idle", "patchStatus"}
      BY <1>3 DEF WritesSecret, DeleteSecret, ApplySecret, Return, Report
    <2> QED
      BY <2>1, <2>2, HistoryKept
  <1>4. CASE PatchesStatus
    <2> DEFINE item == Head(items)
               obj  == modules[item.name]
               new  == Patched(obj, modCache[item.name], item)
    <2>1. /\ UNCHANGED <<past, cachedAt, modCache, listedAt, shownAt>>
          /\ modAt' = IF modWatch' = modWatch THEN modAt ELSE Append(modAt, Len(past))
          /\ pc = "patchStatus" /\ pc' \in {"idle", "patchStatus"}
          /\ \/ UNCHANGED server
             \/ obj # NoModule /\ modCache[item.name] # NoModule /\ WriteModule(item.name, new)
      BY <1>4 DEF PatchesStatus, PatchStatus, PatchedOne, Return, caches, Current
    <2>2. item.name \in Name
      BY <2>1, HeadTyped DEF TypeOK
    <2>3. CASE UNCHANGED <<modules, modWatch>>
      BY <2>1, <2>3, HistoryKept
    <2>4. CASE obj # NoModule /\ modCache[item.name] # NoModule /\ WriteModule(item.name, new) /\ new # obj
      <3> DEFINE event == [name |-> item.name, obj |-> new]
      <3>1. obj \in Module /\ modCache[item.name] \in Module
        BY <1>0, <2>2, <2>4
      <3>2. new \in Module
        BY <2>1, <3>1, HeadTyped, PatchedTyped DEF TypeOK, WorkerOK
      <3>3. new.spec = obj.spec /\ new.gen = obj.gen /\ new # NoModule
        BY <3>1, <3>2, DistinctAssumption DEF Patched, Module
      <3>4. Seen(new) = Seen(obj)
        BY <2>4, <3>3 DEF Seen
      <3>5. /\ modules' = [modules EXCEPT ![item.name] = new]
            /\ modWatch' = Append(modWatch, event)
        BY <2>4 DEF WriteModule
      <3>6. event \in Event
        BY <2>2, <3>2
      <3> HIDE DEF new
      <3>7. Changed(Version(modules), event) = Version(modules)
        BY <1>0, <2>2, <3>4 DEF Changed, Version
      <3>8. Version(modules') = Version(modules)
        BY <1>0, <2>2, <3>5, <3>7, WriteChanges
      <3> HIDE DEF event, Event
      <3>9. modAt' = Append(modAt, Len(past))
        <4>1. Len(modWatch') = Len(modWatch) + 1 /\ Len(modWatch) \in Nat
          BY <1>0, <3>5, <3>6
        <4>2. modWatch' # modWatch
          BY <4>1
        <4> QED
          BY <2>1, <4>2
      <3>10. Leads(past, cachedAt, modAt', modWatch')
        BY <1>0, <3>5, <3>6, <3>7, <3>9, StreamGrows, NumbersTyped DEF PastOK, StreamOK
      <3>11. PastOK' /\ StreamOK'
        BY <1>0, <2>1, <3>8, <3>10 DEF PastOK, StreamOK, Leads, At
      <3>12. OrderOK' /\ ListedOK'
        BY <1>0, <2>1 DEF OrderOK, ListedOK
      <3> QED
        BY <3>11, <3>12 DEF HistoryOK
    <2>5. CASE obj # NoModule /\ WriteModule(item.name, new) /\ new = obj
      <3>1. modules' = modules /\ modWatch' = modWatch
        BY <1>0, <2>2, <2>5 DEF WriteModule
      <3> QED
        BY <2>1, <3>1, HistoryKept
    <2> QED
      BY <2>1, <2>3, <2>4, <2>5 DEF server
  <1>5. CASE DeliversModule
    <2> DEFINE e == Head(modWatch)
    <2>1. /\ modWatch # <<>> /\ modWatch' = Tail(modWatch)
          /\ modCache' = [modCache EXCEPT ![e.name] = e.obj]
          /\ cachedAt' = Head(modAt) /\ modAt' = Tail(modAt)
          /\ UNCHANGED <<modules, pc, verdict, past, listedAt, shownAt>>
      BY <1>5 DEF DeliversModule, DeliverModule, locals
    <2>2. /\ Leads(past, Head(modAt), Tail(modAt), Tail(modWatch))
          /\ cachedAt \in 1 .. Head(modAt)
          /\ past[Head(modAt)] = Changed(past[cachedAt], Head(modWatch))
      BY <1>0, <2>1, StreamShrinks DEF StreamOK
    <2>3. e \in Event
      <3> HIDE DEF Event
      <3> QED
        BY <1>0, <2>1
    <2>4. e = [name |-> e.name, obj |-> e.obj] /\ e.name \in Name
      BY <2>3
    <2> HIDE DEF e
    <2>5. Version(modCache') = Changed(Version(modCache), e)
      BY <1>0, <2>1, <2>4, WriteChanges
    <2>6. PastOK' /\ StreamOK'
      BY <1>0, <2>1, <2>2, <2>5 DEF PastOK, StreamOK, Leads, At, e
    <2>7. Head(modAt) \in Nat
      <3>1. Len(modAt) # 0 /\ modAt \in Seq(Nat)
        BY <1>0, <2>1 DEF StreamOK, Leads
      <3> QED
        BY <3>1
    <2>8. OrderOK' /\ ListedOK'
      BY <1>0, <2>1, <2>2, <2>7 DEF OrderOK, ListedOK
    <2> QED
      BY <2>6, <2>8 DEF HistoryOK
  <1>6. CASE ChangesModules
    <2> DEFINE ws == Append(past, Version(modules'))
    <2>1. /\ UNCHANGED <<modCache, pc, verdict, cachedAt, listedAt, shownAt>>
          /\ past' = ws /\ modAt' = Append(modAt, Len(past) + 1)
      BY <1>6 DEF ChangesModules, CreateModule, UpdateModule, RemoveModule, UserStep, caches, locals, Current
    <2>2. \A n \in Name : Seen(modules[n]) \in [spec : Spec, gen : 1 .. MaxGen] \cup {NoModule}
      <3>1. Version(modules) \in Versions
        BY <1>0, NumbersTyped DEF PastOK
      <3>2. \A n \in Name : Version(modules)[n] = Seen(modules[n])
        BY DEF Version
      <3> QED
        BY <3>1, <3>2 DEF Versions
    <2>3. PICK n \in Name, obj \in Module \cup {NoModule} :
             /\ WriteModule(n, obj) /\ obj # modules[n]
             /\ Seen(obj) \in [spec : Spec, gen : 1 .. MaxGen] \cup {NoModule}
      <3>1. CASE CreateModule
        <4> PICK n \in Name \ Present(modules), sp \in Spec : WriteModule(n, Created(sp))
          BY <3>1 DEF CreateModule
        <4>1. Created(sp) \in Module /\ Created(sp).spec = sp /\ Created(sp).gen = 1
          BY DEF Created, Module
        <4>2. modules[n] = NoModule /\ Created(sp) # NoModule
          BY <4>1, DistinctAssumption DEF Present
        <4>3. Seen(Created(sp)) \in [spec : Spec, gen : 1 .. MaxGen]
          BY <4>1, <4>2, GenerationAssumption, BoundsAssumption DEF Seen
        <4> QED
          BY <4>1, <4>2, <4>3
      <3>2. CASE UpdateModule
        <4> PICK n \in Present(modules), sp \in Spec :
               /\ modules[n].spec # sp /\ modules[n].gen < MaxGen
               /\ WriteModule(n, [modules[n] EXCEPT !.spec = sp, !.gen = @ + 1])
          BY <3>2 DEF UpdateModule
        <4> DEFINE obj == modules[n]
                   gen == obj.gen + 1
                   new == [obj EXCEPT !.spec = sp, !.gen = gen]
        <4>1. n \in Name /\ obj \in Module /\ obj # NoModule
          BY <1>0 DEF Present
        <4>2. obj.gen \in Nat /\ gen = obj.gen + 1 /\ gen \in Nat /\ obj.spec # sp
          BY <4>1 DEF Module
        <4>3. WriteModule(n, new) /\ obj = modules[n]
          OBVIOUS
        <4> HIDE DEF gen, obj
        <4>4. new \in Module /\ new.spec = sp /\ new.gen = gen
          BY <4>1, <4>2 DEF Module
        <4> HIDE DEF new
        <4>5. new # obj /\ new # NoModule
          BY <4>2, <4>4, DistinctAssumption
        <4>6. gen \in 1 .. MaxGen
          BY <4>2, BoundsAssumption DEF obj
        <4>7. Seen(new) = [spec |-> sp, gen |-> gen]
          BY <4>4, <4>5 DEF Seen
        <4>8. Seen(new) \in [spec : Spec, gen : 1 .. MaxGen]
          BY <4>6, <4>7
        <4> QED
          BY <4>1, <4>3, <4>4, <4>5, <4>8
      <3>3. CASE RemoveModule
        BY <3>3 DEF RemoveModule, Present, Seen
      <3> QED
        BY <1>6, <3>1, <3>2, <3>3 DEF ChangesModules
    <2> DEFINE event == [name |-> n, obj |-> obj]
    <2>4. modules' = [modules EXCEPT ![n] = obj] /\ modWatch' = Append(modWatch, event)
      BY <2>3 DEF WriteModule
    <2>5. event \in Event
      OBVIOUS
    <2>6. Version(modules') = Changed(Version(modules), event)
      BY <1>0, <2>4, WriteChanges
    <2>7. Version(modules') \in Versions
      BY <1>0, <2>3, <2>6, ChangedVersion, NumbersTyped DEF PastOK
    <2>8. /\ ws \in Seq(Versions) /\ Len(ws) = Len(past) + 1 /\ Len(past) \in Nat
          /\ ws[Len(past) + 1] = Version(modules')
          /\ \A i \in 1 .. Len(past) : ws[i] = past[i]
      BY <1>0, <2>7, NumbersTyped DEF PastOK
    <2> HIDE DEF ws, event, Event
    <2>9. Leads(ws, cachedAt, modAt', modWatch') /\ ws[cachedAt] = past[cachedAt]
      <3>1. ws[Len(ws)] = Changed(past[Len(past)], event) /\ Len(past) <= Len(ws)
        BY <1>0, <2>6, <2>8 DEF PastOK
      <3>2. modAt' = Append(modAt, Len(ws))
        BY <2>1, <2>8
      <3>3. Leads(past, cachedAt, modAt, modWatch) /\ past \in Seq(Versions)
        BY <1>0 DEF PastOK, StreamOK
      <3>4. /\ Leads(ws, cachedAt, Append(modAt, Len(ws)), Append(modWatch, event))
            /\ ws[cachedAt] = past[cachedAt]
        BY <1>0, <2>5, <2>8, <3>1, <3>3, StreamGrows
      <3> QED
        BY <2>4, <3>2, <3>4
    <2>10. PastOK'
      BY <2>1, <2>8 DEF PastOK
    <2>11. StreamOK'
      BY <1>0, <2>1, <2>9 DEF StreamOK, Leads, At
    <2>12. OrderOK' /\ ListedOK'
      BY <1>0, <2>1, <2>8, NumbersTyped DEF OrderOK, ListedOK
    <2> QED
      BY <2>10, <2>11, <2>12 DEF HistoryOK
  <1>7. CASE DeliversSecret \/ DamagesSecret
    <2>1. UNCHANGED <<past, modules, modAt, modWatch, cachedAt, modCache, listedAt, shownAt, pc, verdict>>
      BY <1>7 DEF DeliversSecret, DeliverSecret, DamagesSecret, RemoveSecret, EditSecret, WriteSecret, UserStep,
                  caches, locals, history
    <2>2. PastOK' /\ StreamOK' /\ OrderOK' /\ ListedOK'
      BY <1>0, <2>1 DEF PastOK, StreamOK, Leads, At, OrderOK, ListedOK
    <2> QED
      BY <2>2 DEF HistoryOK
  <1>8. CASE Restarts
    <2>1. /\ modCache' = modules /\ modWatch' = <<>> /\ pc' = "idle"
          /\ cachedAt' = Len(past) /\ modAt' = <<>>
          /\ UNCHANGED <<modules, past, listedAt, shownAt>>
      BY <1>8 DEF Restarts, Restart, Current
    <2>2. PastOK'
      BY <1>0, <2>1 DEF PastOK
    <2>3. StreamOK'
      BY <1>0, <2>1, NumbersTyped DEF PastOK, StreamOK, Leads, At
    <2>4. OrderOK' /\ ListedOK'
      BY <1>0, <2>1, NumbersTyped DEF OrderOK, ListedOK
    <2> QED
      BY <2>2, <2>3, <2>4 DEF HistoryOK
  <1>9. CASE UNCHANGED allVars
    <2>1. UNCHANGED <<past, modules, modAt, modWatch, cachedAt, modCache, listedAt, shownAt, pc, verdict>>
      BY <1>9 DEF allVars, vars, history, server, caches, locals
    <2>2. PastOK' /\ StreamOK' /\ OrderOK' /\ ListedOK'
      BY <1>0, <2>1 DEF PastOK, StreamOK, Leads, At, OrderOK, ListedOK
    <2> QED
      BY <2>2 DEF HistoryOK
  <1> QED
    BY <1>1, <1>2, <1>3, <1>4, <1>5, <1>6, <1>7, <1>8, <1>9 DEF HistoryNext

-----------------------------------------------------------------------------
(* The refinement.                                                         *)

\* Initially the modules are at the empty version, which has no model.
LEMMA PromiseInit == HistoryInit => Promise!PublicationInit
  <1> SUFFICES ASSUME HistoryInit PROVE Promise!PublicationInit
    OBVIOUS
  <1>1. modules = NoModules /\ secret = NoSecret
    BY DEF HistoryInit, Init, NoModules
  <1>2. past = <<NoModules>> /\ shownAt = 1 /\ damaged = FALSE
    BY <1>1, NoModulesVersion DEF HistoryInit
  <1>3. Carried(secret) = None
    BY <1>1 DEF Carried, HasConfig
  <1> QED
    BY <1>2, <1>3 DEF Promise!PublicationInit

\* A write of the Secret either leaves the Secret as it is, or shows the
\* version that the worker listed.
LEMMA WriteShows ==
    ASSUME TypeOK, HistoryOK, WritesSecret
    PROVE  Promise!Show \/ UNCHANGED Promise!pvars
  <1>1. UNCHANGED past /\ listedAt \in shownAt .. Len(past)
    BY NumbersTyped DEF WritesSecret, HistoryOK, OrderOK
  <1>2. CASE secret' = secret
    BY <1>2 DEF WritesSecret, Promise!pvars
  <1>3. CASE secret' # secret
    <2>1. shownAt' = listedAt /\ damaged' = FALSE
      BY <1>3 DEF WritesSecret
    <2>2. /\ Carried(secret)' = ModelOf(past[listedAt])
          /\ past[listedAt] = NoModules \/ Carried(secret)' # None
      <3>1. CASE DeleteSecret
        <4>1. secret' = NoSecret
          BY <1>3, <3>1 DEF DeleteSecret, WriteSecret, server
        <4>2. Carried(secret)' = None
          BY <4>1 DEF Carried, HasConfig
        <4>3. past[listedAt] = NoModules
          BY <3>1 DEF DeleteSecret, HistoryOK, ListedOK
        <4> QED
          BY <4>2, <4>3, NoModulesVersion
      <3>2. CASE ApplySecret
        <4>1. secret' = NewSecret
          BY <1>3, <3>2 DEF ApplySecret, WriteSecret, server
        <4>2. pc = "applySecret" /\ verdict.hash = ModelOf(past[listedAt])
          BY <3>2 DEF ApplySecret, HistoryOK, ListedOK
        <4>3. NewSecret \in Secret /\ verdict.hash \in Hash /\ modelID # None
          BY <4>2, NewSecretTyped DEF TypeOK, WorkerOK
        <4>4. NewSecret.hash = verdict.hash /\ NewSecret.data = New(settings, storeID, modelID)
          BY DEF NewSecret
        <4>5. New(settings, storeID, modelID).model = modelID
          BY DEF New
        <4>6. HasConfig(NewSecret)
          BY <4>2, NewSecretTyped DEF TypeOK
        <4>7. Carried(secret)' = verdict.hash
          BY <4>1, <4>3, <4>4, <4>5, <4>6 DEF Carried
        <4>8. verdict.hash # None
          BY <4>3, DistinctAssumption
        <4> QED
          BY <4>2, <4>7, <4>8
      <3> QED
        BY <3>1, <3>2 DEF WritesSecret
    <2> QED
      BY <1>1, <2>1, <2>2 DEF Promise!Show
  <1> QED
    BY <1>2, <1>3

\* Every step is a step of the promise, or stutters there.
LEMMA PromiseStep ==
    TypeOK /\ HistoryOK /\ HistoryOK' /\ [HistoryNext]_allVars
      => [Promise!PublicationNext]_(Promise!pvars)
  <1> SUFFICES ASSUME TypeOK, HistoryOK, HistoryOK', [HistoryNext]_allVars
               PROVE  Promise!PublicationNext \/ UNCHANGED Promise!pvars
    OBVIOUS
  <1>1. CASE Lists \/ Publishes \/ PatchesStatus \/ DeliversModule \/ DeliversSecret \/ Restarts
    <2>1. UNCHANGED secret
      BY <1>1 DEF Lists, ListAndBuild, Publishes, GetSecret, CreateStore, CreateStoreAs, WriteModel, WriteModelAs,
                  PatchesStatus, PatchStatus, WriteModule, DeliversModule, DeliverModule,
                  DeliversSecret, DeliverSecret, Restarts, Restart, server
    <2>2. UNCHANGED <<past, shownAt, damaged>>
      BY <1>1 DEF Lists, Publishes, PatchesStatus, DeliversModule, DeliversSecret, Restarts, history
    <2> QED
      BY <2>1, <2>2 DEF Promise!pvars, Carried, HasConfig
  <1>2. CASE WritesSecret
    BY <1>2, WriteShows DEF Promise!PublicationNext
  <1>3. CASE ChangesModules
    <2>1. past' = Append(past, Version(modules')) /\ UNCHANGED <<shownAt, damaged, secret>>
      BY <1>3 DEF ChangesModules, CreateModule, UpdateModule, RemoveModule, WriteModule
    <2>2. past \in Seq(Versions) /\ past' \in Seq(Versions) /\ past' # <<>>
      BY DEF HistoryOK, PastOK
    <2>3. Len(past') = Len(past) + 1 /\ Len(past) \in Nat
          /\ past'[Len(past')] = Version(modules') /\ past'[Len(past')] \in Versions
      BY <2>1, <2>2 DEF HistoryOK, PastOK
    <2> QED
      BY <2>1, <2>3 DEF Promise!PublicationNext, Promise!Change, Promise!Last, Carried, HasConfig
  <1>4. CASE DamagesSecret
    <2>1. damaged' = TRUE /\ UNCHANGED <<past, shownAt>>
      BY <1>4 DEF DamagesSecret
    <2>2. Carried(secret)' = None
      <3>1. CASE RemoveSecret
        <4>1. secret' = NoSecret
          BY <3>1 DEF RemoveSecret, WriteSecret
        <4> QED
          BY <4>1 DEF Carried, HasConfig
      <3>2. CASE EditSecret
        <4> PICK d \in {NoData, [secret.data EXCEPT !.model = None]} :
                secret' = [secret EXCEPT !.data = d]
          BY <3>2 DEF EditSecret, WriteSecret
        <4>1. secret \in Secret /\ secret.data \in Config
          BY <3>2, ConfigTyped DEF EditSecret, TypeOK, ServerOK
        <4>2. secret'.data = d
          BY <4>1 DEF Secret
        <4>3. d = NoData \/ d.model = None
          BY <4>1 DEF Config
        <4> QED
          BY <4>2, <4>3 DEF Carried, HasConfig
      <3> QED
        BY <1>4, <3>1, <3>2 DEF DamagesSecret
    <2> QED
      BY <2>1, <2>2 DEF Promise!PublicationNext, Promise!Damage
  <1>5. CASE UNCHANGED allVars
    <2>1. UNCHANGED <<secret, past, shownAt, damaged>>
      BY <1>5 DEF allVars, vars, history, server
    <2> QED
      BY <2>1 DEF Promise!pvars, Carried, HasConfig
  <1> QED
    BY <1>1, <1>2, <1>3, <1>4, <1>5 DEF HistoryNext

\* Through caches that lag, lost responses, restarts and retries, the Secret
\* carries the model of one version of all the modules, and is only ever
\* replaced, or deleted, for a later one.
THEOREM VersionsArePublished == HistorySystem => PublishesVersions
  <1>1. HistorySystem => []HistoryOK
    BY HistoryInitOK, HistoryStep, HistoryTyped, PTL DEF HistorySystem
  <1> QED
    BY <1>1, PromiseInit, PromiseStep, HistoryTyped, PTL
    DEF HistorySystem, PublishesVersions, Promise!PublicationSpec

-----------------------------------------------------------------------------
(* What the statuses tell.  Inductive with the run on its way to them: the *)
(* listed modules have the generations of the version that was listed, and *)
(* the verdict is about that version.                                      *)

\* Says, of models whose hashes have been published.
Tells(hashes, c, build) ==
    \/ c.ready = build.ready /\ c.reason = build.reason /\ (c.ready => build.hash \in hashes)
    \/ build.ready /\ ~c.ready /\ c.reason \in {"ModelPublishFailed", "ClientConfigWriteFailed"}

\* Version number v among vs tells the condition c of the module n.
TrueOf(vs, hashes, n, c, v) ==
    v \in DOMAIN vs /\ vs[v][n] # NoModule /\ vs[v][n].gen = c.ogen /\ Tells(hashes, c, BuildOf(vs[v]))

WasTrue(n, c) == \E v : TrueOf(past, published, n, c, v)

AllTrue == \A n \in Present(modules) : modules[n].cond # NoCondition => WasTrue(n, modules[n].cond)

RunOK ==
    LET version == past[listedAt]
        build == BuildOf(version)
    IN /\ \A i \in 1 .. Len(items) : /\ version[items[i].name] # NoModule
                                     /\ version[items[i].name].gen = items[i].gen
       /\ pc \in {"getSecret", "createStore", "writeModel", "applySecret"} => build.ready
       /\ pc \in {"getSecret", "createStore", "writeModel", "applySecret", "patchStatus"} =>
             Tells({verdict.hash}, verdict, build)

ToldInv == AllTrue /\ RunOK

\* The history observes what is published, too.
LEMMA HistoryPublished == HistorySystem => []PublishedInv
  <1>1. Init => PublishedInv
    BY DEF Init, PublishedInv, ReadyWasPublished, Present, Known
  <1> QED
    BY <1>1, PublishedStep, NextIsFresh, TypeCorrect, HistoryObserves, PTL DEF System

\* The versions stay what they are; only a user's change adds one.
LEMMA PastGrows ==
    ASSUME HistoryOK, [HistoryNext]_allVars
    PROVE  \A v \in DOMAIN past : v \in DOMAIN past' /\ past'[v] = past[v]
  <1>1. past \in Seq(Versions)
    BY DEF HistoryOK, PastOK
  <1>2. UNCHANGED past \/ past' = Append(past, Version(modules'))
    BY DEF HistoryNext, Lists, Publishes, WritesSecret, PatchesStatus, DeliversModule, DeliversSecret,
           ChangesModules, DamagesSecret, Restarts, history, allVars
  <1>3. \A x : Len(Append(past, x)) = Len(past) + 1 /\ \A v \in 1 .. Len(past) : Append(past, x)[v] = past[v]
    BY <1>1
  <1>4. \A x : DOMAIN Append(past, x) = 1 .. Len(past) + 1 /\ DOMAIN past = 1 .. Len(past)
    BY <1>1
  <1> QED
    BY <1>1, <1>2, <1>3, <1>4

\* So what was true of one remains so,
LEMMA TrueRemains ==
    ASSUME HistoryOK, [HistoryNext]_allVars, NEW n, NEW c, NEW v, TrueOf(past, published, n, c, v)
    PROVE  TrueOf(past', published', n, c, v)
  <1>1. published \subseteq published'
    <2>1. [Next]_vars
      BY DEF HistoryNext, Lists, Publishes, WritesSecret, PatchesStatus, DeliversModule, DeliversSecret,
             ChangesModules, DamagesSecret, Restarts, Next, Worker, Environment, allVars
    <2> QED
      BY <2>1, NextIsFresh, PublishedGrows
  <1>2. \A w \in DOMAIN past : w \in DOMAIN past' /\ past'[w] = past[w]
    BY PastGrows
  <1> QED
    BY <1>1, <1>2 DEF TrueOf, Tells

\* and the statuses that nobody writes are still covered.
LEMMA ToldKept ==
    ASSUME HistoryOK, [HistoryNext]_allVars, AllTrue,
           \A n \in Present(modules') :
              \/ modules'[n].cond = NoCondition
              \/ n \in Present(modules) /\ modules'[n].cond = modules[n].cond
              \/ WasTrue(n, modules'[n].cond)
    PROVE  AllTrue'
  <1>1. ASSUME NEW n \in Present(modules'), modules'[n].cond # NoCondition
        PROVE  \E v : TrueOf(past', published', n, modules'[n].cond, v)
    <2>1. WasTrue(n, modules'[n].cond)
      BY <1>1 DEF AllTrue
    <2>2. PICK v : TrueOf(past, published, n, modules'[n].cond, v)
      BY <2>1 DEF WasTrue
    <2> QED
      BY <2>2, TrueRemains
  <1> QED
    BY <1>1 DEF AllTrue, WasTrue, Present

\* What the worker writes into the next status is true of the version listed.
LEMMA PatchTells ==
    ASSUME TypeOK, HistoryOK, PublishedInv, RunOK, pc = "patchStatus"
    PROVE  LET item == Head(items)
               cond == [ready |-> verdict.ready, reason |-> verdict.reason,
                        msg |-> verdict.msg, ogen |-> item.gen]
           IN TrueOf(past, published, item.name, cond, listedAt)
  <1> DEFINE build == BuildOf(past[listedAt])
             item == Head(items)
             cond == [ready |-> verdict.ready, reason |-> verdict.reason,
                      msg |-> verdict.msg, ogen |-> item.gen]
  <1>1. item = items[1] /\ 1 \in 1 .. Len(items)
    <2>1. items \in Seq([name : Name, gen : Nat]) /\ items # <<>>
      BY DEF TypeOK, WorkerOK
    <2> QED
      BY <2>1
  <1>2. listedAt \in DOMAIN past
    BY NumbersTyped DEF HistoryOK, PastOK
  <1>3. past[listedAt][item.name] # NoModule /\ past[listedAt][item.name].gen = item.gen
    BY <1>1 DEF RunOK
  <1>4. Tells({verdict.hash}, verdict, build)
    BY DEF RunOK
  <1>5. verdict.ready => verdict.hash \in published
    BY DEF PublishedInv
  <1>6. cond.ready = verdict.ready /\ cond.reason = verdict.reason /\ cond.ogen = item.gen
    OBVIOUS
  <1> HIDE DEF cond, item, build
  <1>7. Tells(published, cond, build)
    BY <1>4, <1>5, <1>6 DEF Tells
  <1>8. TrueOf(past, published, item.name, cond, listedAt)
    BY <1>2, <1>3, <1>6, <1>7 DEF TrueOf, build
  <1> QED
    BY <1>8 DEF cond, item

\* Every step keeps the invariant of the statuses.
LEMMA ToldStep ==
    TypeOK /\ HistoryOK /\ PublishedInv /\ ToldInv /\ [HistoryNext]_allVars => ToldInv'
  <1> SUFFICES ASSUME TypeOK, HistoryOK, PublishedInv, ToldInv, [HistoryNext]_allVars PROVE ToldInv'
    OBVIOUS
  <1>0. AllTrue /\ RunOK
    BY DEF ToldInv
  <1>1. CASE Lists
    <2> PICK k \in queue, order \in SetToSeqs(Present(modCache)) :
          /\ items' = [i \in DOMAIN order |->
                         [name |-> order[i], gen |-> modCache[order[i]].gen]]
          /\ \/ order = <<>> /\ pc' = "deleteSecret" /\ verdict' = NoVerdict
             \/ /\ order # <<>>
                /\ verdict' = Prepare(Listing(order, modCache), settings)
                /\ pc' = IF verdict'.ready THEN "getSecret" ELSE "patchStatus"
      BY <1>1 DEF Lists, ListAndBuild
    <2> DEFINE version == Version(modCache)
    <2>1. UNCHANGED <<modules, past>> /\ listedAt' = cachedAt
      BY <1>1 DEF Lists, ListAndBuild, server
    <2>2. past'[listedAt'] = version /\ version \in Versions
      BY <2>1, NumbersTyped DEF HistoryOK, StreamOK
    <2>3. modCache \in [Name -> Module \cup {NoModule}]
      BY DEF TypeOK, ManagerOK
    <2>4. ASSUME NEW i \in 1 .. Len(items')
          PROVE  version[items'[i].name] # NoModule /\ version[items'[i].name].gen = items'[i].gen
      <3> DEFINE entry == [name |-> order[i], gen |-> modCache[order[i]].gen]
      <3>1. i \in DOMAIN order /\ order[i] \in Present(modCache)
        BY OrderOfPresent
      <3>2. items'[i] = entry /\ entry.name = order[i] /\ entry.gen = modCache[order[i]].gen
        BY <3>1
      <3> HIDE DEF entry
      <3> QED
        BY <2>3, <3>1, <3>2, VersionSeen
    <2>5. CASE order = <<>>
      BY <1>0, <2>1, <2>2, <2>4, <2>5, ToldKept DEF ToldInv, RunOK
    <2>6. CASE order # <<>>
      <3> DEFINE built == Build(Listing(order, modCache))
                 refused == Failed("ModelPublishFailed", "OPENFGA_API_URL is required")
                 build == BuildOf(version)
      <3>1. build.ready = built.ready /\ build.reason = built.reason /\ build.hash = built.hash
        BY <2>2, <2>3, <2>6, ListedVerdict
      <3>2. ~refused.ready /\ refused.reason = "ModelPublishFailed"
        BY DEF Failed
      <3>3. verdict' = built \/ (verdict' = refused /\ built.ready)
        BY <2>6 DEF Prepare
      <3>4. pc' = IF verdict'.ready THEN "getSecret" ELSE "patchStatus"
        BY <2>6
      <3> HIDE DEF built, refused, build, version
      <3>5. /\ pc' = "getSecret" => build.ready
            /\ Tells({verdict'.hash}, verdict', build)
        BY <3>1, <3>2, <3>3, <3>4 DEF Tells
      <3>6. RunOK'
        BY <2>2, <2>4, <3>4, <3>5 DEF RunOK, build
      <3> QED
        BY <1>0, <2>1, <3>6, ToldKept DEF ToldInv
    <2> QED
      BY <2>5, <2>6
  <1>2. CASE Publishes \/ WritesSecret
    <2>1. UNCHANGED <<modules, past, listedAt>>
      BY <1>2 DEF Publishes, WritesSecret, GetSecret, CreateStore, CreateStoreAs, WriteModel, WriteModelAs,
                  DeleteSecret, ApplySecret, WriteSecret, server, history
    <2>2. \/ pc' = "idle" /\ items' = <<>>
          \/ /\ UNCHANGED items /\ pc' \notin {"idle", "deleteSecret"}
             /\ pc \in {"getSecret", "createStore", "writeModel", "applySecret"}
             /\ \/ verdict' = verdict
                \/ pc' = "patchStatus" /\ verdict' \in {PublishFailed, ApplyFailed}
      BY <1>2 DEF Publishes, WritesSecret, GetSecret, CreateStore, CreateStoreAs, WriteModel, WriteModelAs,
                  DeleteSecret, ApplySecret, Return, Report
    <2>3. \A v \in {PublishFailed, ApplyFailed} :
             ~v.ready /\ v.reason \in {"ModelPublishFailed", "ClientConfigWriteFailed"}
      <3>1. \A reason, msg : Failed(reason, msg).ready = FALSE /\ Failed(reason, msg).reason = reason
        BY DEF Failed
      <3> QED
        BY <3>1 DEF PublishFailed, ApplyFailed
    <2>4. RunOK'
      <3>1. CASE pc' = "idle" /\ items' = <<>>
        BY <3>1 DEF RunOK
      <3>2. CASE UNCHANGED items /\ verdict' = verdict
        BY <1>0, <2>1, <2>2, <3>2 DEF RunOK, Tells
      <3>3. CASE UNCHANGED items /\ pc' = "patchStatus" /\ verdict' \in {PublishFailed, ApplyFailed}
        <4>1. BuildOf(past[listedAt]).ready
          BY <1>0, <2>2, <3>3 DEF RunOK
        <4> QED
          BY <1>0, <2>1, <2>3, <3>3, <4>1 DEF RunOK, Tells
      <3> QED
        BY <2>2, <3>1, <3>2, <3>3
    <2> QED
      BY <1>0, <2>1, <2>4, ToldKept DEF ToldInv
  <1>3. CASE PatchesStatus
    <2> DEFINE item == Head(items)
               obj  == modules[item.name]
               base == modCache[item.name]
               cond == [ready |-> verdict.ready, reason |-> verdict.reason,
                        msg |-> verdict.msg, ogen |-> item.gen]
               new  == Patched(obj, base, item)
    <2>1. /\ UNCHANGED <<past, listedAt>> /\ pc = "patchStatus"
          /\ \/ pc' = "idle" /\ items' = <<>>
             \/ Len(items) > 1 /\ items' = Tail(items) /\ UNCHANGED <<pc, verdict>>
          /\ \/ UNCHANGED modules
             \/ obj # NoModule /\ modules' = [modules EXCEPT ![item.name] = new]
      BY <1>3 DEF PatchesStatus, PatchStatus, PatchedOne, Return, WriteModule, server
    <2>2. item = items[1] /\ 1 \in 1 .. Len(items) /\ item.name \in Name /\ items \in Seq([name : Name, gen : Nat])
      BY <2>1, HeadTyped DEF TypeOK, WorkerOK
    <2>3. RunOK'
      <3>1. CASE pc' = "idle" /\ items' = <<>>
        BY <3>1 DEF RunOK
      <3>2. CASE Len(items) > 1 /\ items' = Tail(items) /\ UNCHANGED <<pc, verdict>>
        <4>1. \A i \in 1 .. Len(items') : i + 1 \in 1 .. Len(items) /\ items'[i] = items[i + 1]
          BY <2>2, <3>2
        <4> QED
          BY <1>0, <2>1, <3>2, <4>1 DEF RunOK
      <3> QED
        BY <2>1, <3>1, <3>2
    <2>4. WasTrue(item.name, cond)
      BY <1>0, <2>1, PatchTells DEF WasTrue
    <2>5. CASE UNCHANGED modules
      BY <1>0, <2>3, <2>5, ToldKept DEF ToldInv
    <2>6. CASE obj # NoModule /\ modules' = [modules EXCEPT ![item.name] = new]
      <3>1. obj \in Module /\ item.name \in Present(modules)
        BY <2>2, <2>6 DEF TypeOK, ServerOK, Present
      <3>2. new.cond \in {obj.cond, cond}
        <4> HIDE DEF obj, base, item
        <4> QED
          BY <3>1 DEF Patched, Module, cond
      <3>3. \A n \in Name : modules'[n] = IF n = item.name THEN new ELSE modules[n]
        BY <2>6 DEF TypeOK, ServerOK
      <3> HIDE DEF new, cond
      <3>4. \A n \in Present(modules') :
               \/ n \in Present(modules) /\ modules'[n].cond = modules[n].cond
               \/ WasTrue(n, modules'[n].cond)
        BY <2>4, <3>1, <3>2, <3>3 DEF Present
      <3> QED
        BY <1>0, <2>3, <3>4, ToldKept DEF ToldInv
    <2> QED
      BY <2>1, <2>5, <2>6
  <1>4. CASE ChangesModules
    <2>1. UNCHANGED <<pc, verdict, items, listedAt>>
      BY <1>4 DEF ChangesModules, CreateModule, UpdateModule, RemoveModule, UserStep, locals
    <2>2. past'[listedAt] = past[listedAt]
      BY PastGrows, NumbersTyped DEF HistoryOK, PastOK
    <2>3. RunOK'
      BY <1>0, <2>1, <2>2 DEF RunOK
    <2>4. PICK n, obj :
             /\ n \in Name
             /\ modules' = [modules EXCEPT ![n] = obj]
             /\ \/ obj = NoModule
                \/ obj.cond = NoCondition
                \/ n \in Present(modules) /\ obj.cond = modules[n].cond
      <3>1. CASE CreateModule
        <4> PICK n \in Name, sp \in Spec : WriteModule(n, Created(sp))
          BY <3>1 DEF CreateModule
        <4>1. Created(sp).cond = NoCondition
          BY DEF Created
        <4> QED
          BY <4>1 DEF WriteModule
      <3>2. CASE UpdateModule
        <4> PICK n \in Present(modules), sp \in Spec :
               WriteModule(n, [modules[n] EXCEPT !.spec = sp, !.gen = @ + 1])
          BY <3>2 DEF UpdateModule
        <4>1. n \in Name /\ modules[n] \in Module
          BY DEF Present, TypeOK, ServerOK
        <4>2. [modules[n] EXCEPT !.spec = sp, !.gen = @ + 1].cond = modules[n].cond
          BY <4>1 DEF Module
        <4> QED
          BY <4>1, <4>2 DEF WriteModule
      <3>3. CASE RemoveModule
        BY <3>3 DEF RemoveModule, WriteModule, Present
      <3> QED
        BY <1>4, <3>1, <3>2, <3>3 DEF ChangesModules
    <2>5. \A m \in Name : modules'[m] = IF m = n THEN obj ELSE modules[m]
      BY <2>4 DEF TypeOK, ServerOK
    <2>6. \A m \in Present(modules') :
             \/ modules'[m].cond = NoCondition
             \/ m \in Present(modules) /\ modules'[m].cond = modules[m].cond
      BY <2>4, <2>5 DEF Present
    <2> QED
      BY <1>0, <2>3, <2>6, ToldKept DEF ToldInv
  <1>5. CASE DeliversModule \/ DeliversSecret \/ DamagesSecret \/ UNCHANGED allVars
    <2>1. UNCHANGED <<modules, past, listedAt, pc, verdict, items>>
      BY <1>5 DEF DeliversModule, DeliverModule, DeliversSecret, DeliverSecret, DamagesSecret, RemoveSecret,
                  EditSecret, WriteSecret, UserStep, locals, history, allVars, vars, server
    <2>2. RunOK'
      BY <1>0, <2>1 DEF RunOK
    <2> QED
      BY <1>0, <2>1, <2>2, ToldKept DEF ToldInv
  <1>6. CASE Restarts
    <2>1. UNCHANGED modules /\ pc' = "idle" /\ items' = <<>>
      BY <1>6 DEF Restarts, Restart
    <2>2. RunOK'
      BY <2>1 DEF RunOK
    <2> QED
      BY <1>0, <2>1, <2>2, ToldKept DEF ToldInv
  <1> QED
    BY <1>1, <1>2, <1>3, <1>4, <1>5, <1>6 DEF HistoryNext

-----------------------------------------------------------------------------
(* Whose status it is.  Inductive: a module whose condition is not its own *)
(* has a wake-up ahead; the run that works off the last one has listed     *)
(* this very module, and has its status before it or has just written it.  *)

\* The module n of version number v among vs was not removed since.
Since(vs, n, v) == \A w \in v .. Len(vs) : vs[w][n] # NoModule

OwnOf(n) ==
    modules[n].cond # NoCondition =>
        \E v : TrueOf(past, published, n, modules[n].cond, v) /\ Since(past, n, v)

\* An event of the module n is under way.
UnderWay(n) == \E i \in DOMAIN modWatch : modWatch[i].name = n

\* No wake-up of the module n is left, but perhaps the one being worked off.
Unheard(n) == n \in Present(modules) /\ n \notin queue /\ ~UnderWay(n)

\* A module that a version from the cache's on has not got is yet to be told of.
CreationsTold ==
    \A n \in Present(modules), w \in cachedAt .. Len(past) :
        past[w][n] = NoModule => \E i \in DOMAIN modWatch : modWatch[i].name = n /\ modAt[i] > w

OwnRun ==
    \A n : n = key /\ Unheard(n) =>
        /\ pc # "deleteSecret"
        /\ Since(past, n, listedAt)
        /\ OwnOf(n) \/ \E i \in DOMAIN items : items[i].name = n

OwnInv ==
    /\ \A n \in Present(modules) : OwnOf(n) \/ Awaited(n)
    /\ CreationsTold
    /\ OwnRun

\* Users do not touch what the manager has.
LEMMA UsersLeaveQueue ==
    ChangesModules \/ DamagesSecret => UNCHANGED <<queue, caches, pc, locals, published>>
  <1>1. CreateModule \/ RemoveModule \/ RemoveSecret \/ EditSecret => UserStep
    BY DEF CreateModule, RemoveModule, RemoveSecret, EditSecret
  <1>2. UpdateModule => UserStep
    BY Zenon DEF UpdateModule
  <1> QED
    BY <1>1, <1>2 DEF UserStep, ChangesModules, DamagesSecret

\* A module that is changed is told of, and one that has no wake-up left had
\* none before, unless the worker has just taken it.
LEMMA UnheardBefore ==
    ASSUME TypeOK, [HistoryNext]_allVars, NEW n, Unheard(n)'
    PROVE  /\ n \in Present(modules) /\ modules'[n] = modules[n] /\ ~UnderWay(n)
           /\ Unheard(n) \/ (Lists /\ key' = n)
  <1> DEFINE Event == [name : Name, obj : Module \cup {NoModule}]
  <1>0. modWatch \in Seq(Event) /\ modules \in [Name -> Module \cup {NoModule}]
    BY DEF TypeOK, ServerOK
  <1>1. n \in Name /\ n \notin queue' /\ modules'[n] # NoModule
    BY DEF Unheard, Present
  <1>2. ~UnderWay(n)'
    BY DEF Unheard
  <1>3. CASE UNCHANGED <<modules, modWatch>>
    <2>1. n \in Present(modules) /\ modules'[n] = modules[n] /\ ~UnderWay(n)
      BY <1>1, <1>2, <1>3 DEF Present, UnderWay
    <2>2. queue \subseteq queue' \/ (Lists /\ queue' = queue \ {key'}) \/ Restarts
      <3>1. Lists => queue' = queue \ {key'}
        BY DEF Lists, ListAndBuild
      <3>2. Publishes \/ WritesSecret \/ PatchesStatus => queue \subseteq queue'
        BY DEF Publishes, WritesSecret, PatchesStatus, GetSecret, CreateStore, CreateStoreAs,
           WriteModel, WriteModelAs, DeleteSecret, ApplySecret, PatchStatus, PatchedOne, Return, Report
      <3>3. DeliversModule \/ DeliversSecret => queue \subseteq queue'
        BY DEF DeliversModule, DeliversSecret, DeliverModule, DeliverSecret
      <3>4. ChangesModules \/ DamagesSecret => queue \subseteq queue'
        BY UsersLeaveQueue
      <3>5. UNCHANGED allVars => queue \subseteq queue'
        BY DEF allVars, vars
      <3> QED
        BY <3>1, <3>2, <3>3, <3>4, <3>5 DEF HistoryNext
    <2>3. Restarts => n \in queue'
      BY <1>1, <1>3 DEF Restarts, Restart, Present
    <2>4. n \in queue => Lists /\ key' = n
      BY <1>1, <2>2, <2>3
    <2> QED
      BY <2>1, <2>4 DEF Unheard
  <1>4. ASSUME NEW m \in Name, NEW obj \in Module \cup {NoModule}, WriteModule(m, obj), queue \subseteq queue'
        PROVE  n \in Present(modules) /\ modules'[n] = modules[n] /\ ~UnderWay(n) /\ Unheard(n)
    <2> DEFINE event == [name |-> m, obj |-> obj]
    <2>1. modules' = [modules EXCEPT ![m] = obj]
      BY <1>4 DEF WriteModule
    <2>2. (modWatch' = modWatch /\ obj = modules[m]) \/ modWatch' = Append(modWatch, event)
      BY <1>4 DEF WriteModule
    <2>3. event \in Event /\ event.name = m
      OBVIOUS
    <2> HIDE DEF event, Event
    <2>4. CASE modWatch' = modWatch /\ obj = modules[m]
      BY <1>0, <1>1, <1>2, <1>4, <2>1, <2>4 DEF Unheard, UnderWay, Present
    <2>5. CASE modWatch' = Append(modWatch, event)
      <3>1. /\ DOMAIN modWatch = 1 .. Len(modWatch) /\ DOMAIN modWatch' = 1 .. Len(modWatch) + 1
            /\ Len(modWatch) \in Nat /\ modWatch'[Len(modWatch) + 1] = event
            /\ \A i \in 1 .. Len(modWatch) : modWatch'[i] = modWatch[i]
        BY <1>0, <2>3, <2>5
      <3>2. m # n
        BY <1>2, <2>3, <3>1 DEF UnderWay
      <3>3. ~UnderWay(n)
        BY <1>2, <3>1 DEF UnderWay
      <3> QED
        BY <1>0, <1>1, <1>4, <2>1, <3>2, <3>3 DEF Unheard, Present
    <2> QED
      BY <2>2, <2>4, <2>5
  <1>5. CASE PatchesStatus
    <2>1. queue \subseteq queue'
      BY <1>5 DEF PatchesStatus, PatchStatus, PatchedOne, Return
    <2>2. \/ UNCHANGED <<modules, modWatch>>
          \/ \E m \in Name, obj \in Module \cup {NoModule} : WriteModule(m, obj)
      <3> DEFINE item == Head(items)
                 base == modCache[item.name]
                 obj  == modules[item.name]
      <3>1. pc = "patchStatus" /\ item \in [name : Name, gen : Nat]
        BY <1>5, HeadTyped DEF PatchesStatus, PatchStatus, TypeOK
      <3>2. \/ UNCHANGED server
            \/ base # NoModule /\ obj # NoModule /\ WriteModule(item.name, Patched(obj, base, item))
        BY <1>5 DEF PatchesStatus, PatchStatus
      <3>3. obj \in Module \cup {NoModule} /\ item.name \in Name
        BY <1>0, <3>1
      <3>4. base \in Module \cup {NoModule} /\ verdict \in Verdict
        BY <3>3 DEF TypeOK, ManagerOK, WorkerOK
      <3>5. obj # NoModule /\ base # NoModule => Patched(obj, base, item) \in Module
        BY <3>1, <3>3, <3>4, PatchedTyped
      <3> QED
        BY <3>2, <3>3, <3>5 DEF server
    <2> QED
      BY <1>3, <1>4, <2>1, <2>2
  <1>6. CASE ChangesModules
    <2>1. queue' = queue
      BY <1>6, UsersLeaveQueue
    <2>2. \E m \in Name, obj \in Module \cup {NoModule} : WriteModule(m, obj)
      BY <1>6, UserWrites DEF ChangesModules, TypeOK
    <2> QED
      BY <1>4, <2>1, <2>2
  <1>7. CASE DeliversModule
    <2> DEFINE e == Head(modWatch)
    <2>1. modules' = modules /\ modWatch # <<>> /\ modWatch' = Tail(modWatch) /\ queue' = queue \cup {e.name}
      BY <1>7 DEF DeliversModule, DeliverModule
    <2> HIDE DEF Event
    <2>2. /\ Len(modWatch) \in Nat /\ Len(modWatch) >= 1 /\ e = modWatch[1]
          /\ DOMAIN modWatch = 1 .. Len(modWatch) /\ DOMAIN modWatch' = 1 .. Len(modWatch) - 1
          /\ \A i \in 1 .. Len(modWatch) - 1 : modWatch'[i] = modWatch[i + 1]
      BY <1>0, <2>1
    <2> HIDE DEF e
    <2>3. ASSUME NEW i \in DOMAIN modWatch PROVE modWatch[i].name # n
      <3>1. CASE i = 1
        BY <1>1, <2>1, <2>2, <3>1
      <3>2. CASE i # 1
        <4>1. i - 1 \in DOMAIN modWatch' /\ modWatch'[i - 1] = modWatch[i]
          BY <2>2, <2>3, <3>2
        <4> QED
          BY <1>2, <4>1 DEF UnderWay
      <3> QED
        BY <3>1, <3>2
    <2> QED
      BY <1>1, <2>1, <2>3 DEF Unheard, UnderWay, Present
  <1>8. CASE Restarts
    <2>1. Present(modules) \subseteq queue' /\ modules' = modules
      BY <1>8 DEF Restarts, Restart
    <2> QED
      BY <1>1, <2>1 DEF Present
  <1>9. CASE Lists \/ Publishes \/ WritesSecret \/ DeliversSecret \/ DamagesSecret \/ UNCHANGED allVars
    <2>1. UNCHANGED <<modules, modWatch>>
      BY <1>9 DEF Lists, ListAndBuild, Publishes, WritesSecret, GetSecret, CreateStore, CreateStoreAs,
           WriteModel, WriteModelAs, DeleteSecret, ApplySecret, WriteSecret, DeliversSecret, DeliverSecret,
           DamagesSecret, RemoveSecret, EditSecret, server, allVars, vars
    <2> QED
      BY <1>3, <2>1
  <1> QED
    BY <1>5, <1>6, <1>7, <1>8, <1>9 DEF HistoryNext

\* A module that is there, and was since version v, still was since v; so its
\* own condition remains its own.
LEMMA OwnKept ==
    ASSUME TypeOK, HistoryOK, [HistoryNext]_allVars, NEW n, n \in Present(modules)'
    PROVE  /\ \A v \in 1 .. Len(past) : Since(past, n, v) => Since(past', n, v)
           /\ modules'[n].cond = modules[n].cond /\ OwnOf(n) => OwnOf(n)'
  <1>1. UNCHANGED past \/ (ChangesModules /\ past' = Append(past, Version(modules')))
    BY DEF HistoryNext, Lists, Publishes, WritesSecret, PatchesStatus, DeliversModule, DeliversSecret,
           ChangesModules, DamagesSecret, Restarts, history, allVars
  <1>2. past \in Seq(Versions) /\ Len(past) \in Nat
    BY DEF HistoryOK, PastOK
  <1>3. ChangesModules => Version(modules')[n] # NoModule
    <2>1. ChangesModules => modules' \in [Name -> Module \cup {NoModule}]
      <3>1. ChangesModules => \E m \in Name, obj \in Module \cup {NoModule} : WriteModule(m, obj)
        BY UserWrites DEF ChangesModules, TypeOK
      <3> QED
        BY <3>1 DEF WriteModule, TypeOK, ServerOK
    <2> QED
      BY <2>1, VersionSeen DEF Present
  <1>4. ASSUME NEW v \in 1 .. Len(past), Since(past, n, v)
        PROVE  Since(past', n, v)
    <2>1. CASE UNCHANGED past
      BY <1>4, <2>1 DEF Since
    <2>2. CASE ChangesModules /\ past' = Append(past, Version(modules'))
      <3>1. /\ Len(past') = Len(past) + 1 /\ past'[Len(past) + 1] = Version(modules')
            /\ \A w \in 1 .. Len(past) : past'[w] = past[w]
        BY <1>2, <2>2
      <3> QED
        BY <1>2, <1>3, <1>4, <2>2, <3>1 DEF Since
    <2> QED
      BY <1>1, <2>1, <2>2
  <1>5. ASSUME modules'[n].cond = modules[n].cond, modules[n].cond # NoCondition, OwnOf(n)
        PROVE  \E v : TrueOf(past', published', n, modules'[n].cond, v) /\ Since(past', n, v)
    <2>1. PICK v : TrueOf(past, published, n, modules[n].cond, v) /\ Since(past, n, v)
      BY <1>5 DEF OwnOf
    <2>2. v \in 1 .. Len(past)
      BY <1>2, <2>1 DEF TrueOf
    <2>3. TrueOf(past', published', n, modules[n].cond, v)
      BY <2>1, TrueRemains
    <2> QED
      BY <1>4, <1>5, <2>1, <2>2, <2>3
  <1> QED
    BY <1>4, <1>5 DEF OwnOf

\* The run that works off a module's last wake-up makes its condition its own.
LEMMA PatchedOwn ==
    ASSUME TypeOK, HistoryOK, PublishedInv, RunOK, CachesFollow, OwnRun, [HistoryNext]_allVars,
           PatchesStatus, NEW n, n = key, Head(items).name = n, Unheard(n), Unheard(n)',
           modules'[n] = modules[n]
    PROVE  OwnOf(n)'
  <1> DEFINE item == Head(items)
             obj  == modules[n]
             base == modCache[n]
             cond == [ready |-> verdict.ready, reason |-> verdict.reason,
                      msg |-> verdict.msg, ogen |-> item.gen]
  <1>1. pc = "patchStatus"
    BY DEF PatchesStatus, PatchStatus
  <1>2. n \in Name /\ obj \in Module
    BY DEF Unheard, Present, TypeOK, ServerOK
  <1>3. base = obj
    <2>1. DOMAIN modWatch = 1 .. Len(modWatch)
      BY DEF TypeOK, ServerOK
    <2> QED
      BY <1>2, <2>1 DEF Unheard, UnderWay, CachesFollow
  <1>4. modules' = [modules EXCEPT ![n] = Patched(obj, base, item)]
    <2>1. \/ WriteModule(n, Patched(obj, base, item))
          \/ Return(TRUE)
      BY DEF PatchesStatus, PatchStatus
    <2>2. ~Return(TRUE)
      BY DEF Return, Unheard
    <2> QED
      BY <2>1, <2>2 DEF WriteModule
  <1>5. obj = Patched(obj, base, item)
    <2>1. modules'[n] = Patched(obj, base, item)
      BY <1>2, <1>4 DEF TypeOK, ServerOK
    <2> QED
      BY <2>1
  <1>6. obj.cond = cond
    <2>1. \A h, c : [obj EXCEPT !.hash = h, !.cond = c].cond = c
      BY <1>2 DEF Module
    <2> DEFINE hash == IF base.hash = verdict.hash THEN obj.hash ELSE verdict.hash
               new == IF base.cond = cond THEN obj.cond ELSE cond
    <2>2. Patched(obj, base, item) = [obj EXCEPT !.hash = hash, !.cond = new]
      BY DEF Patched
    <2> HIDE DEF hash, cond, obj, base, item
    <2>3. Patched(obj, base, item).cond = new
      BY <2>1, <2>2
    <2> QED
      BY <1>3, <1>5, <2>3
  <1>7. TrueOf(past, published, n, cond, listedAt)
    BY <1>1, PatchTells
  <1>8. Since(past, n, listedAt)
    BY DEF OwnRun
  <1>9. OwnOf(n)
    BY <1>6, <1>7, <1>8 DEF OwnOf
  <1> QED
    BY <1>9, OwnKept DEF Unheard

\* Nobody forgets to tell the cache of a module that was created.
LEMMA CreationsStep ==
    ASSUME TypeOK, HistoryOK, [HistoryNext]_allVars, CreationsTold
    PROVE  CreationsTold'
  <1> DEFINE Event == [name : Name, obj : Module \cup {NoModule}]
  <1>0. /\ modWatch \in Seq(Event) /\ Len(modWatch) \in Nat /\ modAt \in Seq(Nat) /\ Len(modAt) = Len(modWatch)
        /\ past \in Seq(Versions) /\ Len(past) \in Nat /\ past[Len(past)] = Version(modules)
        /\ cachedAt \in 1 .. Len(past)
        /\ \A i \in 1 .. Len(modAt) : modAt[i] \in Nat
    BY NumbersTyped DEF HistoryOK, PastOK, StreamOK, Leads, TypeOK, ServerOK
  <1>1. \A n \in Present(modules) : Version(modules)[n] # NoModule
    BY VersionSeen DEF TypeOK, ServerOK
  <1>2. DOMAIN modWatch = 1 .. Len(modWatch)
    BY <1>0
  <1> HIDE DEF Event
  <1>3. CASE UNCHANGED <<modules, modWatch, modAt, cachedAt, past>>
    BY <1>3 DEF CreationsTold, Present
  <1>4. CASE PatchesStatus
    <2>1. UNCHANGED <<past, cachedAt>> /\ Present(modules') = Present(modules)
      <3>1. UNCHANGED modules \/ \E m \in Present(modules), obj \in Module : modules' = [modules EXCEPT ![m] = obj]
        <4> DEFINE item == Head(items)
                   base == modCache[item.name]
                   obj  == modules[item.name]
        <4>1. pc = "patchStatus" /\ item \in [name : Name, gen : Nat] /\ item.name \in Name
          BY <1>4, HeadTyped DEF PatchesStatus, PatchStatus, TypeOK
        <4>2. \/ UNCHANGED server
              \/ base # NoModule /\ obj # NoModule /\ WriteModule(item.name, Patched(obj, base, item))
          BY <1>4 DEF PatchesStatus, PatchStatus
        <4>3. /\ obj \in Module \cup {NoModule} /\ base \in Module \cup {NoModule} /\ verdict \in Verdict
          BY <4>1 DEF TypeOK, ServerOK, ManagerOK, WorkerOK
        <4>4. obj # NoModule /\ base # NoModule => Patched(obj, base, item) \in Module
          BY <4>1, <4>3, PatchedTyped
        <4> QED
          BY <4>1, <4>2, <4>4 DEF server, WriteModule, Present
      <3>2. ASSUME NEW m \in Present(modules), NEW obj \in Module, modules' = [modules EXCEPT ![m] = obj]
            PROVE  Present(modules') = Present(modules)
        BY <3>2, DistinctAssumption DEF Present, TypeOK, ServerOK
      <3> QED
        BY <1>4, <3>1, <3>2 DEF PatchesStatus
    <2>2. /\ \A i \in 1 .. Len(modWatch) : modWatch'[i] = modWatch[i] /\ modAt'[i] = modAt[i]
          /\ DOMAIN modWatch \subseteq DOMAIN modWatch'
      <3>1. modAt' = IF modWatch' = modWatch THEN modAt ELSE Append(modAt, Len(past))
        BY <1>4 DEF PatchesStatus, Current
      <3>2. modWatch' = modWatch \/ \E e : modWatch' = Append(modWatch, e)
        BY <1>4 DEF PatchesStatus, PatchStatus, WriteModule, server
      <3>3. \A e : /\ DOMAIN Append(modWatch, e) = 1 .. Len(modWatch) + 1
                   /\ \A i \in 1 .. Len(modWatch) : Append(modWatch, e)[i] = modWatch[i]
        BY <1>0
      <3>4. \A i \in 1 .. Len(modWatch) : Append(modAt, Len(past))[i] = modAt[i]
        BY <1>0
      <3>5. CASE modWatch' = modWatch
        BY <3>1, <3>5
      <3>6. CASE modWatch' # modWatch
        <4> PICK e : modWatch' = Append(modWatch, e)
          BY <3>2, <3>6
        <4>1. modAt' = Append(modAt, Len(past))
          BY <3>1, <3>6
        <4>2. DOMAIN modWatch' = 1 .. Len(modWatch) + 1 /\ \A i \in 1 .. Len(modWatch) : modWatch'[i] = modWatch[i]
          BY <3>3
        <4> QED
          BY <1>0, <1>2, <3>4, <4>1, <4>2
      <3> QED
        BY <3>5, <3>6
    <2> QED
      BY <1>2, <2>1, <2>2 DEF CreationsTold
  <1>5. CASE ChangesModules
    <2>1. past' = Append(past, Version(modules')) /\ modAt' = Append(modAt, Len(past) + 1) /\ UNCHANGED cachedAt
      BY <1>5 DEF ChangesModules, Current
    <2>2. PICK m \in Name, obj \in Module \cup {NoModule} : WriteModule(m, obj) /\ obj # modules[m]
      BY <1>5, UserWrites DEF ChangesModules, TypeOK
    <2> DEFINE event == [name |-> m, obj |-> obj]
    <2>3. modules' = [modules EXCEPT ![m] = obj] /\ modWatch' = Append(modWatch, event) /\ event.name = m
      BY <2>2 DEF WriteModule
    <2> HIDE DEF event
    <2>4. /\ DOMAIN modWatch' = 1 .. Len(modWatch) + 1 /\ modWatch'[Len(modWatch) + 1] = event
          /\ \A i \in 1 .. Len(modWatch) : modWatch'[i] = modWatch[i]
      BY <1>0, <2>3
    <2>5. /\ modAt'[Len(modWatch) + 1] = Len(past) + 1
          /\ \A i \in 1 .. Len(modWatch) : modAt'[i] = modAt[i]
      BY <1>0, <2>1
    <2>6. /\ Len(past') = Len(past) + 1 /\ past'[Len(past) + 1] = Version(modules')
          /\ \A w \in 1 .. Len(past) : past'[w] = past[w]
      BY <1>0, <2>1
    <2>7. modules' \in [Name -> Module \cup {NoModule}]
      BY <2>3 DEF TypeOK, ServerOK
    <2>8. \A n \in Present(modules') : Version(modules')[n] # NoModule
      BY <2>7, VersionSeen
    <2>9. ASSUME NEW n \in Present(modules'), NEW w \in cachedAt .. Len(past'), past'[w][n] = NoModule
          PROVE  \E i \in DOMAIN modWatch' : modWatch'[i].name = n /\ modAt'[i] > w
      <3>1. w \in cachedAt .. Len(past) /\ past[w][n] = NoModule
        <4>1. w # Len(past) + 1
          BY <2>6, <2>8, <2>9
        <4>2. w \in cachedAt .. Len(past) + 1 /\ cachedAt \in 1 .. Len(past) /\ Len(past) \in Nat
          BY <1>0, <2>6
        <4>3. w \in cachedAt .. Len(past) /\ w \in 1 .. Len(past)
          BY <4>1, <4>2
        <4> QED
          BY <2>6, <2>9, <4>3
      <3>2. CASE n = m
        <4>1. Len(modWatch) + 1 \in DOMAIN modWatch' /\ Len(past) + 1 > w
          BY <1>0, <2>4, <3>1
        <4> QED
          BY <2>3, <2>4, <2>5, <3>2, <4>1
      <3>3. CASE n # m
        <4>1. n \in Present(modules)
          BY <2>3, <2>9, <3>3 DEF Present, TypeOK, ServerOK
        <4>2. PICK i \in 1 .. Len(modWatch) : modWatch[i].name = n /\ modAt[i] > w
          BY <1>2, <3>1, <4>1 DEF CreationsTold
        <4>3. i \in DOMAIN modWatch'
          BY <1>0, <2>4
        <4> QED
          BY <2>4, <2>5, <4>2, <4>3
      <3> QED
        BY <3>2, <3>3
    <2> QED
      BY <2>1, <2>9 DEF CreationsTold, Present
  <1>6. CASE DeliversModule
    <2>1. /\ UNCHANGED <<modules, past>> /\ modWatch # <<>> /\ modWatch' = Tail(modWatch)
          /\ cachedAt' = Head(modAt) /\ modAt' = Tail(modAt)
      BY <1>6 DEF DeliversModule, DeliverModule
    <2>2. /\ Len(modWatch) >= 1 /\ DOMAIN modWatch' = 1 .. Len(modWatch) - 1
          /\ \A i \in 1 .. Len(modWatch) - 1 : modWatch'[i] = modWatch[i + 1]
      BY <1>0, <2>1
    <2>3. Head(modAt) = modAt[1] /\ \A i \in 1 .. Len(modWatch) - 1 : modAt'[i] = modAt[i + 1]
      BY <1>0, <2>1, <2>2
    <2>4. cachedAt' \in Nat /\ cachedAt <= cachedAt'
      <3>1. cachedAt \in 1 .. Head(modAt)
        BY <1>0, <2>1, StreamShrinks DEF HistoryOK, StreamOK
      <3>2. modAt[1] \in Nat
        BY <1>0, <2>2
      <3> QED
        BY <1>0, <2>1, <2>3, <3>1, <3>2
    <2>5. ASSUME NEW n \in Present(modules'), NEW w \in cachedAt' .. Len(past'), past'[w][n] = NoModule
          PROVE  \E i \in DOMAIN modWatch' : modWatch'[i].name = n /\ modAt'[i] > w
      <3>1. w \in cachedAt .. Len(past) /\ past[w][n] = NoModule /\ n \in Present(modules)
        BY <1>0, <2>1, <2>4, <2>5 DEF Present
      <3>2. PICK i \in 1 .. Len(modWatch) : modWatch[i].name = n /\ modAt[i] > w
        BY <1>2, <3>1 DEF CreationsTold
      <3>3. i # 1
        BY <1>0, <2>1, <2>3, <2>4, <3>2
      <3>4. i - 1 \in 1 .. Len(modWatch) - 1 /\ (i - 1) + 1 = i
        BY <1>0, <3>3
      <3>5. modWatch'[i - 1] = modWatch[i] /\ modAt'[i - 1] = modAt[i] /\ i - 1 \in DOMAIN modWatch'
        BY <2>2, <2>3, <3>4
      <3> QED
        BY <3>2, <3>5
    <2> QED
      BY <2>5 DEF CreationsTold, Present
  <1>7. CASE Restarts
    <2>1. cachedAt' = Len(past) /\ UNCHANGED <<modules, past>>
      BY <1>7 DEF Restarts, Restart, Current
    <2>2. \A w \in cachedAt' .. Len(past') : w = Len(past)
      BY <1>0, <2>1
    <2> QED
      BY <1>0, <1>1, <2>1, <2>2 DEF CreationsTold, Present
  <1>8. CASE Lists \/ Publishes \/ WritesSecret \/ DeliversSecret \/ DamagesSecret \/ UNCHANGED allVars
    <2>1. UNCHANGED <<modules, modWatch, modAt, cachedAt, past>>
      BY <1>8 DEF Lists, ListAndBuild, Publishes, WritesSecret, GetSecret, CreateStore, CreateStoreAs,
           WriteModel, WriteModelAs, DeleteSecret, ApplySecret, WriteSecret, DeliversSecret, DeliverSecret,
           DamagesSecret, RemoveSecret, EditSecret, server, history, allVars, vars
    <2> QED
      BY <1>3, <2>1
  <1> QED
    BY <1>4, <1>5, <1>6, <1>7, <1>8 DEF HistoryNext

\* A run begins: what it lists of a module that nothing is under way about is
\* this very module.
LEMMA OwnRunBegins ==
    ASSUME TypeOK, HistoryOK, CachesFollow, CreationsTold, Lists, NEW n, n = key',
           n \in Present(modules), ~UnderWay(n)
    PROVE  /\ pc' # "deleteSecret" /\ Since(past', n, listedAt')
           /\ \E i \in DOMAIN items' : items'[i].name = n
  <1>1. DOMAIN modWatch = 1 .. Len(modWatch)
    BY DEF TypeOK, ServerOK
  <1>2. n \in Name /\ modCache[n] = modules[n] /\ n \in Present(modCache)
    BY <1>1 DEF UnderWay, CachesFollow, Present
  <1> PICK order \in SetToSeqs(Present(modCache)) :
        /\ items' = [i \in DOMAIN order |->
                       [name |-> order[i], gen |-> modCache[order[i]].gen]]
        /\ \/ order = <<>> /\ pc' = "deleteSecret"
           \/ order # <<>> /\ pc' \in {"getSecret", "patchStatus"}
    BY DEF Lists, ListAndBuild
  <1>3. Range(order) = Present(modCache)
    BY NameAssumption, FS_Subset, OrderListsAll DEF Present
  <1>4. PICK i \in DOMAIN order : order[i] = n
    BY <1>2, <1>3 DEF Range
  <1>5. i \in DOMAIN items' /\ items'[i].name = n
    BY <1>4
  <1>6. order # <<>>
    BY <1>4
  <1>7. Since(past', n, listedAt')
    BY <1>1 DEF Lists, CreationsTold, UnderWay, Since
  <1> QED
    BY <1>5, <1>6, <1>7

\* A step that is not the beginning of a run leaves the run what it was, ends
\* it, or turns to the next status.
LEMMA RunMoves ==
    ASSUME [HistoryNext]_allVars, ~Lists
    PROVE  /\ UNCHANGED listedAt
           /\ pc' = "deleteSecret" => pc = "deleteSecret"
           /\ \/ UNCHANGED <<key, items>>
              \/ key' = None /\ (key \in queue' \/ Restarts \/ pc = "deleteSecret")
              \/ PatchesStatus /\ Len(items) <= 1 /\ key' = None
              \/ PatchesStatus /\ items' = Tail(items) /\ Len(items) > 1 /\ key' = key
  <1>1. CASE Publishes
    BY <1>1 DEF Publishes, GetSecret, CreateStore, CreateStoreAs, WriteModel, WriteModelAs, Report, history
  <1>2. CASE WritesSecret
    BY <1>2 DEF WritesSecret, DeleteSecret, ApplySecret, Report, Return
  <1>3. CASE PatchesStatus
    BY <1>3 DEF PatchesStatus, PatchStatus, PatchedOne, Return
  <1>4. CASE DeliversModule \/ DeliversSecret
    BY <1>4 DEF DeliversModule, DeliversSecret, DeliverModule, DeliverSecret, locals, history
  <1>5. CASE ChangesModules \/ DamagesSecret
    <2>1. UNCHANGED listedAt
      BY <1>5 DEF ChangesModules, DamagesSecret
    <2> QED
      BY <1>5, <2>1, UsersLeaveQueue DEF locals
  <1>6. CASE Restarts
    BY <1>6 DEF Restarts, Restart
  <1>7. CASE UNCHANGED allVars
    BY <1>7 DEF allVars, vars, locals, history
  <1> QED
    BY <1>1, <1>2, <1>3, <1>4, <1>5, <1>6, <1>7 DEF HistoryNext

\* What is left to a module without other wake-ups: its status is its own, or
\* the run goes on and comes to it.
LEMMA OwnGoesOn ==
    ASSUME TypeOK, HistoryOK, PublishedInv, RunOK, CachesFollow, OwnInv, [HistoryNext]_allVars, ~Lists,
           NEW n, Unheard(n), Unheard(n)', modules'[n] = modules[n]
    PROVE  \/ OwnOf(n)'
           \/ n = key /\ n = key' /\ \E i \in DOMAIN items' : items'[i].name = n
  <1>1. n \in Name /\ n # None /\ n \in Present(modules)' /\ n \in Present(modules) /\ n \notin queue'
    BY DistinctAssumption DEF Unheard, Present
  <1>2. CASE OwnOf(n)
    BY <1>1, <1>2, OwnKept
  <1>3. CASE ~OwnOf(n)
    <2>1. n = key
      BY <1>1, <1>3 DEF OwnInv, Awaited, Unheard, UnderWay
    <2>2. PICK i \in DOMAIN items : items[i].name = n
      BY <1>3, <2>1 DEF OwnInv, OwnRun
    <2>3. pc # "deleteSecret"
      BY <2>1 DEF OwnInv, OwnRun
    <2>4. items \in Seq([name : Name, gen : Nat]) /\ DOMAIN items = 1 .. Len(items) /\ Len(items) \in Nat
      BY DEF TypeOK, WorkerOK
    <2>5. ~Restarts
      BY <1>1 DEF Restarts, Restart, Present
    <2>6. CASE UNCHANGED <<key, items>>
      BY <2>1, <2>2, <2>6
    <2>7. CASE PatchesStatus /\ i = 1
      <3>1. Head(items).name = n
        BY <2>2, <2>4, <2>7
      <3> QED
        BY <2>1, <2>7, <3>1, PatchedOwn DEF OwnInv
    <2>8. CASE PatchesStatus /\ i # 1 /\ items' = Tail(items) /\ Len(items) > 1 /\ key' = key
      <3>1. i - 1 \in DOMAIN items' /\ items'[i - 1] = items[i]
        <4>1. /\ DOMAIN Tail(items) = 1 .. Len(items) - 1
              /\ \A j \in 1 .. Len(items) - 1 : Tail(items)[j] = items[j + 1]
          BY <2>4, <2>8
        <4>2. i - 1 \in 1 .. Len(items) - 1 /\ (i - 1) + 1 = i
          BY <2>4, <2>8
        <4> QED
          BY <2>8, <4>1, <4>2
      <3> QED
        BY <2>1, <2>2, <2>8, <3>1
    <2>9. Len(items) <= 1 => i = 1
      BY <2>4
    <2> QED
      BY <1>1, <2>1, <2>3, <2>5, <2>6, <2>7, <2>8, <2>9, RunMoves
  <1> QED
    BY <1>2, <1>3

\* Every step keeps the invariant of whose status it is.
LEMMA OwnStep ==
    TypeOK /\ HistoryOK /\ PublishedInv /\ ToldInv /\ CachesFollow /\ OwnInv /\ [HistoryNext]_allVars => OwnInv'
  <1> SUFFICES ASSUME TypeOK, HistoryOK, PublishedInv, ToldInv, CachesFollow, OwnInv, [HistoryNext]_allVars
               PROVE  OwnInv'
    OBVIOUS
  <1>0. RunOK /\ CreationsTold /\ OwnRun
    BY DEF ToldInv, OwnInv
  <1>1. ASSUME NEW n \in Present(modules') PROVE OwnOf(n)' \/ Awaited(n)'
    <2>1. CASE Unheard(n)'
      <3>1. n \in Present(modules) /\ modules'[n] = modules[n] /\ (Unheard(n) \/ (Lists /\ key' = n))
        BY <2>1, UnheardBefore
      <3>2. CASE Lists
        <4>1. CASE key' = n
          BY <4>1 DEF Awaited
        <4>2. CASE key' # n
          <5>1. Unheard(n) /\ key = None /\ n # None
            BY <3>1, <3>2, <4>2, DistinctAssumption DEF Lists, ListAndBuild, TypeOK, WorkerOK, Present
          <5>2. OwnOf(n)
            BY <3>1, <5>1 DEF OwnInv, Awaited, Unheard, UnderWay
          <5> QED
            BY <1>1, <3>1, <5>2, OwnKept DEF Present
        <4> QED
          BY <4>1, <4>2
      <3>3. CASE ~Lists
        BY <1>0, <2>1, <3>1, <3>3, OwnGoesOn DEF Awaited
      <3> QED
        BY <3>2, <3>3
    <2>2. CASE ~Unheard(n)'
      BY <1>1, <2>2 DEF Unheard, Awaited, UnderWay, Present
    <2> QED
      BY <2>1, <2>2
  <1>2. CreationsTold'
    BY <1>0, CreationsStep
  <1>3. ASSUME NEW n, n = key', Unheard(n)'
        PROVE  /\ pc' # "deleteSecret" /\ Since(past', n, listedAt')
               /\ OwnOf(n)' \/ \E i \in DOMAIN items' : items'[i].name = n
    <2>1. /\ n \in Present(modules) /\ modules'[n] = modules[n] /\ ~UnderWay(n)
          /\ Unheard(n) \/ (Lists /\ key' = n)
      BY <1>3, UnheardBefore
    <2>2. CASE Lists
      BY <1>0, <1>3, <2>1, <2>2, OwnRunBegins
    <2>3. CASE ~Lists
      <3>1. key' # None
        BY <1>3, <2>1, DistinctAssumption DEF Present
      <3>2. n = key /\ UNCHANGED listedAt /\ (pc' = "deleteSecret" => pc = "deleteSecret")
        BY <1>3, <2>3, <3>1, RunMoves
      <3>3. Unheard(n)
        BY <2>1, <2>3
      <3>4. pc # "deleteSecret" /\ Since(past, n, listedAt)
        BY <1>0, <3>2, <3>3 DEF OwnRun
      <3>5. listedAt \in 1 .. Len(past) /\ n \in Present(modules)'
        BY <1>3, NumbersTyped DEF Unheard
      <3>6. Since(past', n, listedAt')
        BY <3>2, <3>4, <3>5, OwnKept
      <3> QED
        BY <1>0, <1>3, <2>1, <2>3, <3>2, <3>3, <3>4, <3>6, OwnGoesOn
    <2> QED
      BY <2>2, <2>3
  <1> QED
    BY <1>1, <1>2, <1>3 DEF OwnInv, OwnRun, Present

\* Every condition tells what one version of the modules came to, in which its
\* module had the generation that the condition names; and it is a version of
\* this very module, or a wake-up of the module is to come.
THEOREM ConditionsWereTrue == HistorySystem => []ConditionWasTrue
  <1>1. HistoryInit => ToldInv
    BY DEF HistoryInit, Init, ToldInv, AllTrue, RunOK, Present
  <1>2. HistoryInit => OwnInv
    <2>1. HistoryInit => Present(modules) = {}
      BY DEF HistoryInit, Init, Present
    <2> QED
      BY <2>1 DEF OwnInv, CreationsTold, OwnRun, Unheard
  <1>3. ToldInv /\ OwnInv => ConditionWasTrue
    <2> SUFFICES ASSUME ToldInv, OwnInv, NEW n \in Present(modules), modules[n].cond # NoCondition
                 PROVE  \E v \in DOMAIN past :
                           /\ past[v][n] # NoModule /\ past[v][n].gen = modules[n].cond.ogen
                           /\ Says(modules[n].cond, BuildOf(past[v]))
                           /\ SameInstance(n, v) \/ Awaited(n)
      BY DEF ConditionWasTrue
    <2>1. \A v : TrueOf(past, published, n, modules[n].cond, v) <=>
                    /\ v \in DOMAIN past /\ past[v][n] # NoModule /\ past[v][n].gen = modules[n].cond.ogen
                    /\ Says(modules[n].cond, BuildOf(past[v]))
      BY DEF TrueOf, Tells, Says
    <2>2. \A v : Since(past, n, v) <=> SameInstance(n, v)
      BY DEF Since, SameInstance, Current
    <2>3. CASE OwnOf(n)
      BY <2>1, <2>2, <2>3 DEF OwnOf
    <2>4. CASE Awaited(n)
      BY <2>1, <2>4 DEF ToldInv, AllTrue, WasTrue
    <2> QED
      BY <2>3, <2>4 DEF OwnInv
  <1>4. HistorySystem => []HistoryOK
    BY HistoryInitOK, HistoryStep, HistoryTyped, PTL DEF HistorySystem
  <1>5. System => []CachesFollow
    BY CalmFirst, CalmStep, NextIsFresh, TypeCorrect, PTL DEF System, CalmInv
  <1>6. HistorySystem => []CachesFollow
    BY <1>5, HistoryObserves, PTL
  <1> QED
    BY <1>1, <1>2, <1>3, <1>4, <1>6, ToldStep, OwnStep, HistoryTyped, HistoryPublished, PTL DEF HistorySystem
=============================================================================
