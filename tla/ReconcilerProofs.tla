-------------------------- MODULE ReconcilerProofs --------------------------
(***************************************************************************)
(* What holds of the controller for every set of names, specifications,    *)
(* settings, stores and models, every build and every bound.               *)
(***************************************************************************)
EXTENDS Reconciler, FiniteSetTheorems, FunctionTheorems, TLAPS

-----------------------------------------------------------------------------
(* Listings and verdicts.                                                  *)

\* A verdict of failure is one, and carries no hash.
LEMMA FailedIsVerdict ==
    ASSUME NEW r \in Reason, NEW m \in Message
    PROVE  /\ Failed(r, m) \in Verdict
           /\ ~Failed(r, m).ready
           /\ Failed(r, m).hash = None
  BY DEF Failed, Verdict

\* The fixed verdicts.
LEMMA FixedVerdicts ==
    \A v \in {NoVerdict, PublishFailed, ApplyFailed} :
        v \in Verdict /\ ~v.ready /\ v.hash = None
  <1>1. \A v \in {NoVerdict, PublishFailed, ApplyFailed} :
           \E r \in Reason, m \in Message : v = Failed(r, m)
    BY DEF NoVerdict, PublishFailed, ApplyFailed, Reason, Message
  <1> QED
    BY <1>1, FailedIsVerdict

\* A listing of a cache is a sequence without repetition of modules that the
\* cache has.
LEMMA OrderOfPresent ==
    ASSUME NEW mods, NEW order \in SetToSeqs(Present(mods))
    PROVE  /\ order \in Seq(Name)
           /\ Len(order) = Cardinality(Present(mods))
           /\ Len(order) \in 0 .. Cardinality(Name)
           /\ \A i \in DOMAIN order : order[i] \in Present(mods)
           /\ \A i, j \in DOMAIN order : i # j => order[i] # order[j]
  <1>1. Present(mods) \subseteq Name
    BY DEF Present
  <1>2. /\ IsFiniteSet(Present(mods))
        /\ Cardinality(Present(mods)) \in Nat /\ Cardinality(Name) \in Nat
        /\ Cardinality(Present(mods)) <= Cardinality(Name)
    BY <1>1, NameAssumption, FS_Subset, FS_CardinalityType
  <1>3. order \in [1 .. Cardinality(Present(mods)) -> Present(mods)]
        /\ \A i, j \in 1 .. Cardinality(Present(mods)) : i # j => order[i] # order[j]
    BY DEF SetToSeqs
  <1> QED
    BY <1>1, <1>2, <1>3

\* So the build is asked about listings only.
LEMMA ListingIsListing ==
    ASSUME NEW mods \in [Name -> Module \cup {NoModule}],
           NEW order \in SetToSeqs(Present(mods)), order # <<>>
    PROVE  Listing(order, mods) \in Listings
  <1> DEFINE l == Listing(order, mods)
             n == Len(order)
  <1>1. /\ order \in Seq(Name) /\ n \in 1 .. Cardinality(Name) /\ DOMAIN order = 1 .. n
        /\ \A i \in 1 .. n : order[i] \in Present(mods)
        /\ \A i, j \in 1 .. n : i # j => order[i] # order[j]
    BY OrderOfPresent
  <1>2. \A i \in 1 .. n : order[i] \in Name /\ mods[order[i]] \in Module
    BY <1>1 DEF Present
  <1>3. \A i \in 1 .. n : mods[order[i]].spec \in Spec
    BY <1>2 DEF Module
  <1>4. l = [i \in 1 .. n |-> [name |-> order[i], spec |-> mods[order[i]].spec]]
    BY <1>1 DEF Listing
  <1>5. l \in [1 .. n -> Item]
    BY <1>2, <1>3, <1>4 DEF Item
  <1>6. \A i, j \in DOMAIN l : i # j => l[i].name # l[j].name
    BY <1>1, <1>4
  <1> QED
    BY <1>1, <1>5, <1>6 DEF Listings

\* In whatever order a finite set is listed, all of it is listed.
LEMMA OrderListsAll ==
    ASSUME NEW S, IsFiniteSet(S), NEW order \in SetToSeqs(S)
    PROVE  Range(order) = S
  <1> DEFINE D == 1 .. Cardinality(S)
  <1>1. Cardinality(S) \in Nat
    BY FS_CardinalityType
  <1>2. order \in [D -> S] /\ \A i, j \in D : i # j => order[i] # order[j]
    BY DEF SetToSeqs
  <1>3. order \in Injection(D, S)
    BY <1>2 DEF Injection, IsInjective
  <1>4. Cardinality(D) = Cardinality(S)
    BY <1>1, FS_Interval
  <1>5. order \in Surjection(D, S)
    BY <1>3, <1>4, FS_Injection
  <1> QED
    BY <1>2, <1>5 DEF Range, Surjection

\* In whichever orders a cache is listed, what is built is the same.
LEMMA SameBuild ==
    ASSUME NEW mods \in [Name -> Module \cup {NoModule}], Present(mods) # {},
           NEW order \in SetToSeqs(Present(mods)), NEW other \in SetToSeqs(Present(mods))
    PROVE  LET built == Build(Listing(order, mods))
               again == Build(Listing(other, mods))
           IN built.ready = again.ready /\ built.reason = again.reason /\ built.hash = again.hash
  <1> DEFINE S == Present(mods)
  <1>1. IsFiniteSet(S) /\ Cardinality(S) # 0
    BY NameAssumption, FS_Subset, FS_EmptySet DEF Present
  <1>2. order \in Seq(Name) /\ order # <<>> /\ other \in Seq(Name) /\ other # <<>>
    BY <1>1, OrderOfPresent
  <1>3. Listing(order, mods) \in Listings /\ Listing(other, mods) \in Listings
    BY <1>2, ListingIsListing
  <1>4. Range(order) = S /\ Range(other) = S
    BY <1>1, OrderListsAll
  <1>5. ASSUME NEW o \in Seq(Name)
        PROVE  Range(Listing(o, mods)) = {[name |-> n, spec |-> mods[n].spec] : n \in Range(o)}
    BY DEF Range, Listing
  <1>6. Range(Listing(order, mods)) = Range(Listing(other, mods))
    BY <1>2, <1>4, <1>5
  <1> QED
    BY <1>3, <1>6, BuildOrderAssumption

\* What the run decides before its first call is a verdict, and it goes on
\* to publish only with a URL.
LEMMA PreparedVerdict ==
    ASSUME NEW l \in Listings, NEW s
    PROVE  LET v == Prepare(l, s)
           IN /\ v \in Verdict
              /\ v.ready <=> v.hash # None
              /\ v.ready => s.url # None
  <1> DEFINE v == Prepare(l, s)
  <1>1. CASE ~Build(l).ready \/ s.url # None
    BY <1>1, BuildTypeAssumption DEF Prepare, SettingsComplete
  <1>2. CASE Build(l).ready /\ s.url = None
    <2>1. v = Failed("ModelPublishFailed", "OPENFGA_API_URL is required")
      BY <1>2 DEF Prepare, SettingsComplete
    <2> QED
      BY <2>1, FailedIsVerdict DEF Reason, Message
  <1> QED
    BY <1>1, <1>2

-----------------------------------------------------------------------------
(* Type correctness.  First the pieces that several actions share.         *)

\* A write of a module keeps the types at the API server.
LEMMA WriteModuleTyped ==
    ASSUME ServerOK, NEW n \in Name, NEW obj \in Module \cup {NoModule}, WriteModule(n, obj)
    PROVE  ServerOK'
  <1>1. modules' \in [Name -> Module \cup {NoModule}]
    BY DEF ServerOK, WriteModule
  <1> DEFINE Event == [name : Name, obj : Module \cup {NoModule}]
             event == [name |-> n, obj |-> obj]
  <1>2. event \in Event
    OBVIOUS
  <1>3. modWatch' = modWatch \/ modWatch' = Append(modWatch, event)
    BY DEF WriteModule
  <1>4. modWatch \in Seq(Event)
    BY DEF ServerOK
  <1> HIDE DEF Event, event
  <1>5. modWatch' \in Seq(Event)
    BY <1>2, <1>3, <1>4
  <1> QED
    BY <1>1, <1>5 DEF ServerOK, WriteModule, Event

\* So does a write of the Secret.
LEMMA WriteSecretTyped ==
    ASSUME ServerOK, NEW obj \in Secret \cup {NoSecret}, WriteSecret(obj)
    PROVE  ServerOK'
  BY DEF ServerOK, WriteSecret

\* The worker's locals stay typed when it turns to the statuses,
LEMMA ReportTyped ==
    ASSUME WorkerOK, pc \notin {"idle", "deleteSecret"},
           NEW v \in Verdict, v.ready <=> v.hash # None, Report(v)
    PROVE  WorkerOK'
  BY DEF WorkerOK, Report

\* and when Reconcile returns.
LEMMA ReturnTyped ==
    ASSUME WorkerOK, ManagerOK, pc # "idle", NEW e, Return(e)
    PROVE  WorkerOK' /\ queue' \subseteq Name \cup {SecretKey}
  <1>1. NoVerdict \in Verdict /\ (NoVerdict.ready <=> NoVerdict.hash # None)
    BY FixedVerdicts
  <1>2. key \in Name \cup {SecretKey}
    BY DEF WorkerOK
  <1>3. WorkerOK'
    BY <1>1 DEF WorkerOK, Return
  <1> QED
    BY <1>2, <1>3 DEF ManagerOK, Return

\* A configuration that parses has the fields of one.
LEMMA ConfigTyped ==
    ASSUME NEW s \in Secret \cup {NoSecret}, HasConfig(s)
    PROVE  s \in Secret /\ s.data \in Config
  BY DEF HasConfig, Secret

\* The store a publication goes to is a store or still to be made.
LEMMA StoreForTyped ==
    ASSUME NEW s \in Secret \cup {NoSecret}, NEW env \in Settings
    PROVE  StoreFor(s, env) \in StoreId \cup {None}
  <1>1. env.store \in StoreId \cup {None}
    BY SettingsAssumption DEF Setting
  <1>2. HasConfig(s) => s.data.store \in StoreId
    BY ConfigTyped DEF Config
  <1> QED
    BY <1>1, <1>2 DEF StoreFor, StoreIDFromSecret

\* Which of the identifiers that nobody names OpenFGA gives makes no
\* difference, nor what else it keeps; so what is proved of a step holds of
\* these two, also where others than this manager name identifiers.
FreshCreate ==
    \E new, kept : /\ StoresSeen \subseteq kept /\ (StoreId \ kept # {} => new \in StoreId \ kept)
                   /\ CreateStoreAs(new, kept)

FreshWrite ==
    \E new, kept : /\ ModelsSeen \subseteq kept /\ (ModelId \ kept # {} => new \in ModelId \ kept)
                   /\ WriteModelAs(new, kept)

FreshNext ==
    \/ ListAndBuild \/ DeleteSecret \/ GetSecret \/ FreshCreate \/ FreshWrite \/ ApplySecret \/ PatchStatus
    \/ DeliverModule \/ DeliverSecret \/ Environment

\* Every step of the controller is such a step.
LEMMA NextIsFresh == [Next]_vars => [FreshNext]_vars
  <1>1. /\ StoreId \ StoresSeen # {} => NewStore \in StoreId \ StoresSeen
        /\ ModelId \ ModelsSeen # {} => NewModel \in ModelId \ ModelsSeen
    BY DEF NewStore, NewModel
  <1>2. CreateStore => FreshCreate
    BY <1>1 DEF CreateStore, FreshCreate
  <1>3. WriteModel => FreshWrite
    BY <1>1 DEF WriteModel, FreshWrite
  <1> QED
    BY <1>2, <1>3 DEF Next, Worker, FreshNext

\* What ApplySecret writes is a Secret.
LEMMA NewSecretTyped ==
    ASSUME ManagerOK, WorkerOK, pc = "applySecret"
    PROVE  NewSecret \in Secret /\ verdict.hash \in Hash /\ HasConfig(NewSecret)
  <1>1. verdict.hash \in Hash
    BY DEF WorkerOK, Verdict
  <1>2. storeID \in StoreId /\ modelID \in ModelId
    BY DEF WorkerOK
  <1>3. settings.url \in Url /\ settings.token \in Token \cup {None}
    BY SettingsAssumption DEF ManagerOK, WorkerOK, Setting
  <1>4. New(settings, storeID, modelID) \in Config
    BY <1>2, <1>3 DEF New, Config
  <1>5. NewSecret \in Secret
    BY <1>1, <1>4 DEF NewSecret, Secret
  <1>6. NewSecret.data = New(settings, storeID, modelID)
    BY DEF NewSecret
  <1> QED
    BY <1>1, <1>4, <1>5, <1>6, DistinctAssumption DEF HasConfig

\* A patched status is a status.
LEMMA PatchedTyped ==
    ASSUME NEW obj \in Module, NEW base \in Module, NEW item \in [name : Name, gen : Nat],
           verdict \in Verdict
    PROVE  Patched(obj, base, item) \in Module
  <1> DEFINE cond == [ready |-> verdict.ready, reason |-> verdict.reason,
                      msg |-> verdict.msg, ogen |-> item.gen]
  <1>1. cond \in Condition
    BY DEF Verdict, Condition
  <1>2. verdict.hash \in Hash \cup {None}
    BY DEF Verdict
  <1> DEFINE hash == IF base.hash = verdict.hash THEN obj.hash ELSE verdict.hash
             newCond == IF base.cond = cond THEN obj.cond ELSE cond
  <1>3. hash \in Hash \cup {None} /\ newCond \in Condition \cup {NoCondition}
    BY <1>1, <1>2 DEF Module
  <1>4. Patched(obj, base, item) = [obj EXCEPT !.hash = hash, !.cond = newCond]
    BY DEF Patched
  <1> HIDE DEF hash, newCond
  <1> QED
    BY <1>3, <1>4 DEF Module


\* A worker's step stays within the bounds.
LEMMA SpentTyped ==
    ASSUME SpentOK, published' \subseteq Hash, UNCHANGED ops, NoFault \/ Fault
    PROVE  SpentOK'
  BY BoundsAssumption DEF SpentOK, NoFault, Fault

\* The worker has listed modules.
LEMMA HeadTyped ==
    ASSUME WorkerOK, pc = "patchStatus"
    PROVE  /\ Head(items) \in [name : Name, gen : Nat]
           /\ Len(items) > 1 => Tail(items) # <<>>
                                /\ Tail(items) \in Seq([name : Name, gen : Nat])
  <1> DEFINE Entry == [name : Name, gen : Nat]
  <1>1. items \in Seq(Entry) /\ items # <<>>
    BY DEF WorkerOK
  <1> HIDE DEF Entry
  <1>2. Head(items) \in Entry /\ Tail(items) \in Seq(Entry) /\ Len(Tail(items)) = Len(items) - 1
    BY <1>1
  <1>3. Len(items) \in Nat
    BY <1>1
  <1>4. Len(items) > 1 => Tail(items) # <<>>
    <2> DEFINE rest == Tail(items)
    <2>1. Len(rest) = Len(items) - 1
      BY <1>2
    <2> HIDE DEF rest
    <2>2. rest = <<>> => Len(rest) = 0
      OBVIOUS
    <2>3. Len(items) > 1 => rest # <<>>
      BY <2>1, <2>2, <1>3
    <2> QED
      BY <2>3 DEF rest
  <1> QED
    BY <1>2, <1>4 DEF Entry

\* A user creates, changes or deletes one module; a change raises its
\* generation and keeps its status.
LEMMA UserWrites ==
    ASSUME ServerOK, CreateModule \/ UpdateModule \/ RemoveModule
    PROVE  \E n \in Name, obj \in Module \cup {NoModule} :
              /\ WriteModule(n, obj) /\ obj # modules[n]
              /\ \/ obj = NoModule
                 \/ obj.gen = 1 /\ obj.cond = NoCondition
                 \/ /\ n \in Present(modules) /\ modules[n].gen < MaxGen
                    /\ obj.gen = modules[n].gen + 1 /\ obj.cond = modules[n].cond
  <1>1. CASE CreateModule
    <2> PICK n \in Name \ Present(modules), sp \in Spec : WriteModule(n, Created(sp))
      BY <1>1 DEF CreateModule
    <2>1. Created(sp) \in Module /\ Created(sp).gen = 1 /\ Created(sp).cond = NoCondition
      BY DEF Created, Module
    <2>2. Created(sp) # modules[n]
      BY <2>1, DistinctAssumption DEF Present
    <2> QED
      BY <2>1, <2>2
  <1>2. CASE UpdateModule
    <2> PICK n \in Present(modules), sp \in Spec :
           /\ modules[n].spec # sp /\ modules[n].gen < MaxGen
           /\ WriteModule(n, [modules[n] EXCEPT !.spec = sp, !.gen = @ + 1])
      BY <1>2 DEF UpdateModule
    <2> DEFINE obj == modules[n]
               gen == obj.gen + 1
               new == [obj EXCEPT !.spec = sp, !.gen = gen]
    <2>1. n \in Name /\ obj \in Module /\ obj = modules[n]
      BY DEF Present, ServerOK
    <2>2. gen = obj.gen + 1 /\ gen \in Nat /\ obj.spec # sp
      BY <2>1 DEF Module
    <2>3. WriteModule(n, new)
      OBVIOUS
    <2> HIDE DEF gen, obj
    <2>4. new \in Module /\ new.spec = sp /\ new.gen = gen /\ new.cond = obj.cond
      BY <2>1, <2>2 DEF Module
    <2> HIDE DEF new
    <2>5. new # obj
      BY <2>2, <2>4
    <2> QED
      BY <2>1, <2>2, <2>3, <2>4, <2>5
  <1>3. CASE RemoveModule
    BY <1>3 DEF RemoveModule, Present
  <1> QED
    BY <1>1, <1>2, <1>3

\* Whoever else writes the Secret takes the model away.
LEMMA UserEdits ==
    ASSUME ServerOK, RemoveSecret \/ EditSecret
    PROVE  \E obj \in Secret \cup {NoSecret} :
              WriteSecret(obj) /\ (HasConfig(obj) => obj.data.model = None)
  <1>1. CASE RemoveSecret
    BY <1>1 DEF RemoveSecret, HasConfig
  <1>2. CASE EditSecret
    <2> DEFINE blank == [secret.data EXCEPT !.model = None]
    <2> PICK d \in {NoData, blank} : WriteSecret([secret EXCEPT !.data = d])
      BY <1>2 DEF EditSecret
    <2>1. secret \in Secret /\ secret.data \in Config
      BY <1>2, ConfigTyped DEF EditSecret, ServerOK
    <2>2. blank \in Config /\ blank.model = None
      BY <2>1 DEF Config
    <2> HIDE DEF blank
    <2>3. [secret EXCEPT !.data = d] \in Secret /\ [secret EXCEPT !.data = d].data = d
      BY <2>1, <2>2 DEF Secret
    <2> QED
      BY <2>2, <2>3 DEF HasConfig
  <1> QED
    BY <1>1, <1>2

\* The initial states are well typed.
LEMMA InitTyped == Init => TypeOK
  <1> SUFFICES ASSUME Init PROVE TypeOK
    OBVIOUS
  <1>1. ServerOK
    BY DEF Init, ServerOK
  <1>2. ManagerOK
    BY DEF Init, ManagerOK
  <1>3. NoVerdict \in Verdict /\ ~NoVerdict.ready /\ NoVerdict.hash = None
    BY FixedVerdicts
  <1>4. WorkerOK
    BY <1>3 DEF Init, WorkerOK
  <1>5. \A s \in Settings : s.store \in StoreId => s.url \in Url \cup {None}
    BY SettingsAssumption DEF Setting
  <1>6. \A i \in StoreId : (\E s \in Settings : s.store = i) =>
           (CHOOSE s \in Settings : s.store = i).url \in Url \cup {None}
    BY <1>5
  <1>7. OpenFGAOK
    BY <1>6 DEF Init, OpenFGAOK
  <1>8. SpentOK
    BY BoundsAssumption DEF Init, SpentOK
  <1> QED
    BY <1>1, <1>2, <1>4, <1>7, <1>8 DEF TypeOK

\* Every step keeps the types.
LEMMA NextTyped == TypeOK /\ [FreshNext]_vars => TypeOK'
  <1> SUFFICES ASSUME TypeOK, [FreshNext]_vars PROVE TypeOK'
    OBVIOUS
  <1> USE DEF TypeOK
  <1>1. CASE ListAndBuild
    <2> PICK k \in queue, order \in SetToSeqs(Present(modCache)) :
          /\ key' = k /\ queue' = queue \ {k}
          /\ items' = [i \in DOMAIN order |->
                         [name |-> order[i], gen |-> modCache[order[i]].gen]]
          /\ \/ order = <<>> /\ pc' = "deleteSecret" /\ verdict' = NoVerdict
             \/ /\ order # <<>>
                /\ verdict' = Prepare(Listing(order, modCache), settings)
                /\ pc' = IF verdict'.ready THEN "getSecret" ELSE "patchStatus"
      BY <1>1 DEF ListAndBuild
    <2>1. order \in Seq(Name) /\ \A i \in DOMAIN order : order[i] \in Present(modCache)
      BY OrderOfPresent
    <2>2. \A i \in DOMAIN order : order[i] \in Name /\ modCache[order[i]] \in Module
      BY <2>1 DEF Present, ManagerOK
    <2>3. \A i \in DOMAIN order : modCache[order[i]].gen \in Nat
      BY <2>2 DEF Module
    <2>4. items' \in Seq([name : Name, gen : Nat]) /\ Len(items') = Len(order)
      <3> DEFINE Listed(i) == [name |-> order[i], gen |-> modCache[order[i]].gen]
                 Entry == [name : Name, gen : Nat]
      <3>1. \A i \in DOMAIN order : Listed(i) \in Entry
        BY <2>2, <2>3
      <3>2. items' = [i \in 1 .. Len(order) |-> Listed(i)] /\ DOMAIN order = 1 .. Len(order)
        BY <2>1
      <3> HIDE DEF Listed, Entry
      <3>3. items' \in Seq(Entry) /\ Len(items') = Len(order)
        BY <2>1, <3>1, <3>2
      <3> QED
        BY <3>3 DEF Entry
    <2>5. items' = <<>> <=> order = <<>>
      BY <2>1, <2>4
    <2>6. key' \in Name \cup {SecretKey} /\ key' # None
      BY DistinctAssumption DEF ManagerOK
    <2>7. /\ verdict' \in Verdict
          /\ verdict'.ready <=> verdict'.hash # None
          /\ verdict'.ready => order # <<>> /\ settings.url # None
      <3>1. CASE order = <<>>
        BY <3>1, FixedVerdicts
      <3>2. CASE order # <<>>
        BY <3>2, ListingIsListing, PreparedVerdict DEF ManagerOK
      <3> QED
        BY <3>1, <3>2
    <2>8. UNCHANGED <<server, caches, settings, existing, storeID, modelID, openfga, published, ops, faults>>
      BY <1>1 DEF ListAndBuild
    <2>9. WorkerOK'
      <3>1. pc' \in {"deleteSecret", "getSecret", "patchStatus"}
            /\ (pc' = "deleteSecret" <=> order = <<>>) /\ (pc' = "getSecret" => verdict'.ready)
        OBVIOUS
      <3> QED
        BY <2>4, <2>5, <2>6, <2>7, <2>8, <3>1 DEF WorkerOK
    <2>10. ServerOK' /\ ManagerOK' /\ OpenFGAOK' /\ SpentOK'
      BY <2>8 DEF server, caches, openfga, ServerOK, ManagerOK, OpenFGAOK, SpentOK
    <2> QED
      BY <2>9, <2>10
  <1>2. CASE DeleteSecret
    <2>1. WriteSecret(NoSecret) \/ UNCHANGED server
      BY <1>2 DEF DeleteSecret
    <2>2. ServerOK'
      BY <2>1, WriteSecretTyped DEF ServerOK, server
    <2>3. PICK e \in BOOLEAN : Return(e)
      BY <1>2 DEF DeleteSecret
    <2>4. WorkerOK' /\ queue' \subseteq Name \cup {SecretKey}
      BY <1>2, <2>3, ReturnTyped DEF DeleteSecret
    <2>5. ManagerOK' /\ OpenFGAOK'
      BY <1>2, <2>4 DEF DeleteSecret, caches, openfga, ManagerOK, OpenFGAOK
    <2>6. SpentOK'
      BY <1>2, SpentTyped DEF DeleteSecret, SpentOK
    <2> QED
      BY <2>2, <2>4, <2>5, <2>6
  <1>3. CASE GetSecret
    <2>1. ServerOK' /\ ManagerOK' /\ OpenFGAOK' /\ SpentOK'
      BY <1>3 DEF GetSecret, Report, server, caches, openfga, ServerOK, ManagerOK, OpenFGAOK, SpentOK
    <2>2. CASE Published(secCache, verdict.hash, settings) /\ Report(verdict)
      BY <1>3, <2>1, <2>2, ReportTyped DEF GetSecret, WorkerOK
    <2>3. CASE /\ existing' = secCache
               /\ storeID' = StoreFor(secCache, settings)
               /\ pc' = IF storeID' = None THEN "createStore" ELSE "writeModel"
               /\ UNCHANGED <<key, items, verdict, modelID, queue>>
      <3>1. storeID' \in StoreId \cup {None} /\ existing' \in Secret \cup {NoSecret}
        BY <2>3, StoreForTyped DEF ManagerOK
      <3> QED
        BY <1>3, <2>1, <2>3, <3>1 DEF GetSecret, caches, WorkerOK
    <2> QED
      BY <1>3, <2>2, <2>3 DEF GetSecret
  <1>4. CASE FreshCreate
    <2> PICK new, kept : /\ StoresSeen \subseteq kept /\ (StoreId \ kept # {} => new \in StoreId \ kept)
                         /\ CreateStoreAs(new, kept)
      BY <1>4 DEF FreshCreate
    <2>1. ServerOK' /\ ManagerOK' /\ SpentOK'
      BY BoundsAssumption
      DEF CreateStoreAs, Report, server, caches, ServerOK, ManagerOK, SpentOK, NoFault, Fault
    <2>2. CASE Report(PublishFailed) /\ UNCHANGED stores
      <3>1. WorkerOK'
        BY <2>2, ReportTyped, FixedVerdicts DEF CreateStoreAs
      <3> QED
        BY <2>1, <2>2, <3>1 DEF CreateStoreAs, OpenFGAOK
    <2>3. CASE /\ StoreId \ kept # {}
               /\ stores' = [s \in StoreId |-> IF s = new THEN settings.url
                                          ELSE IF s \in kept THEN stores[s] ELSE None]
               /\ storeID' = new /\ pc' = "writeModel"
               /\ UNCHANGED <<key, items, verdict, existing, modelID, queue>>
      <3>1. new \in StoreId /\ new # None
        BY <2>3, DistinctAssumption
      <3>2. settings.url \in Url
        BY SettingsAssumption DEF CreateStoreAs, ManagerOK, WorkerOK, Setting
      <3>3. stores' \in [StoreId -> Url \cup {None}]
        BY <2>3, <3>2 DEF OpenFGAOK
      <3>4. OpenFGAOK'
        BY <3>3 DEF CreateStoreAs, OpenFGAOK
      <3>5. WorkerOK'
        BY <2>3, <3>1 DEF CreateStoreAs, WorkerOK, caches
      <3> QED
        BY <2>1, <3>4, <3>5
    <2> QED
      BY <2>2, <2>3 DEF CreateStoreAs
  <1>5. CASE FreshWrite
    <2> PICK new, kept : /\ ModelsSeen \subseteq kept /\ (ModelId \ kept # {} => new \in ModelId \ kept)
                         /\ WriteModelAs(new, kept)
      BY <1>5 DEF FreshWrite
    <2>1. ServerOK' /\ ManagerOK' /\ SpentOK'
      BY BoundsAssumption
      DEF WriteModelAs, Report, server, caches, ServerOK, ManagerOK, SpentOK, NoFault, Fault
    <2>2. CASE Report(PublishFailed) /\ UNCHANGED models
      <3>1. WorkerOK'
        BY <2>2, ReportTyped, FixedVerdicts DEF WriteModelAs
      <3> QED
        BY <2>1, <2>2, <3>1 DEF WriteModelAs, OpenFGAOK
    <2>3. CASE /\ ModelId \ kept # {}
               /\ models' = [m \in ModelId |->
                    IF m = new
                    THEN [url |-> settings.url, store |-> storeID, hash |-> verdict.hash]
                    ELSE IF m \in kept THEN models[m] ELSE None]
               /\ modelID' = new /\ pc' = "applySecret"
               /\ UNCHANGED <<key, items, verdict, existing, storeID, queue>>
      <3>1. new \in ModelId /\ new # None
        BY <2>3, DistinctAssumption
      <3>2. settings.url \in Url /\ storeID \in StoreId
        BY SettingsAssumption DEF WriteModelAs, ManagerOK, WorkerOK, Setting
      <3>3. verdict.hash \in Hash
        BY DEF WriteModelAs, WorkerOK, Verdict
      <3>4. [url |-> settings.url, store |-> storeID, hash |-> verdict.hash] \in Stored
        BY <3>2, <3>3 DEF Stored
      <3>5. models' \in [ModelId -> Stored \cup {None}]
        BY <2>3, <3>4 DEF OpenFGAOK
      <3>6. OpenFGAOK'
        BY <3>5 DEF WriteModelAs, OpenFGAOK
      <3>7. WorkerOK'
        BY <2>3, <3>1 DEF WriteModelAs, WorkerOK, caches
      <3> QED
        BY <2>1, <3>6, <3>7
    <2> QED
      BY <2>2, <2>3 DEF WriteModelAs
  <1>6. CASE ApplySecret
    <2>1. NewSecret \in Secret /\ verdict.hash \in Hash
      BY <1>6, NewSecretTyped DEF ApplySecret
    <2>2. WriteSecret(NewSecret) \/ UNCHANGED server
      BY <1>6 DEF ApplySecret
    <2>3. ServerOK'
      BY <2>1, <2>2, WriteSecretTyped DEF ServerOK, server
    <2>4. Report(verdict) \/ Report(ApplyFailed)
      BY <1>6 DEF ApplySecret
    <2>5. WorkerOK'
      BY <1>6, <2>4, ReportTyped, FixedVerdicts DEF ApplySecret, WorkerOK
    <2>6. published' \subseteq Hash
      BY <1>6, <2>1 DEF ApplySecret, SpentOK
    <2>7. ManagerOK' /\ OpenFGAOK' /\ SpentOK'
      BY <1>6, <2>4, <2>6, BoundsAssumption
      DEF ApplySecret, Report, caches, openfga, ManagerOK, OpenFGAOK, SpentOK, NoFault, Fault
    <2> QED
      BY <2>3, <2>5, <2>7
  <1>7. CASE PatchStatus
    <2> DEFINE item == Head(items)
               base == modCache[item.name]
               obj == modules[item.name]
    <2>1. pc = "patchStatus"
      BY <1>7 DEF PatchStatus
    <2>2. item \in [name : Name, gen : Nat]
      BY <2>1, HeadTyped
    <2>3. base \in Module \cup {NoModule} /\ obj \in Module \cup {NoModule}
      BY <2>2 DEF ManagerOK, ServerOK
    <2>4. ServerOK'
      <3>1. CASE base # NoModule /\ obj # NoModule /\ WriteModule(item.name, Patched(obj, base, item))
        <4>1. Patched(obj, base, item) \in Module
          BY <2>2, <2>3, <3>1, PatchedTyped DEF WorkerOK
        <4> QED
          BY <2>2, <3>1, <4>1, WriteModuleTyped
      <3>2. CASE UNCHANGED server
        BY <3>2 DEF server, ServerOK
      <3> QED
        BY <1>7, <3>1, <3>2 DEF PatchStatus
    <2>5. WorkerOK' /\ queue' \subseteq Name \cup {SecretKey}
      <3>1. ASSUME NEW e, Return(e)
            PROVE  WorkerOK' /\ queue' \subseteq Name \cup {SecretKey}
        BY <1>7, <3>1, ReturnTyped DEF PatchStatus
      <3>2. CASE /\ Len(items) > 1 /\ items' = Tail(items)
                 /\ UNCHANGED <<pc, key, verdict, existing, storeID, modelID, queue>>
        <4>1. items' \in Seq([name : Name, gen : Nat]) /\ items' # <<>>
          BY <2>1, <3>2, HeadTyped
        <4> QED
          BY <1>7, <3>2, <4>1 DEF PatchStatus, WorkerOK, ManagerOK
      <3> QED
        BY <1>7, <3>1, <3>2 DEF PatchStatus, PatchedOne
    <2>6. ManagerOK' /\ OpenFGAOK'
      BY <1>7, <2>5 DEF PatchStatus, caches, openfga, ManagerOK, OpenFGAOK
    <2>7. SpentOK'
      BY <1>7, SpentTyped DEF PatchStatus, SpentOK
    <2> QED
      BY <2>4, <2>5, <2>6, <2>7
  <1>8. CASE DeliverModule
    <2> DEFINE Event == [name : Name, obj : Module \cup {NoModule}]
               e == Head(modWatch)
    <2>1. modWatch \in Seq(Event) /\ modWatch # <<>>
      BY <1>8 DEF DeliverModule, ServerOK
    <2> HIDE DEF Event
    <2>2. e \in Event /\ Tail(modWatch) \in Seq(Event)
      BY <2>1
    <2> USE DEF Event
    <2>3. modCache' \in [Name -> Module \cup {NoModule}] /\ queue' \subseteq Name \cup {SecretKey}
      BY <1>8, <2>2 DEF DeliverModule, ManagerOK
    <2>4. ServerOK'
      BY <1>8, <2>2 DEF DeliverModule, ServerOK
    <2>5. ManagerOK'
      BY <1>8, <2>3 DEF DeliverModule, ManagerOK
    <2>6. WorkerOK' /\ OpenFGAOK' /\ SpentOK'
      BY <1>8 DEF DeliverModule, locals, openfga, WorkerOK, OpenFGAOK, SpentOK
    <2> QED
      BY <2>4, <2>5, <2>6
  <1>9. CASE DeliverSecret
    <2>1. Head(secWatch) \in Secret \cup {NoSecret} /\ Tail(secWatch) \in Seq(Secret \cup {NoSecret})
      BY <1>9 DEF DeliverSecret, ServerOK
    <2>2. ServerOK'
      BY <1>9, <2>1 DEF DeliverSecret, ServerOK
    <2>3. ManagerOK'
      BY <1>9, <2>1 DEF DeliverSecret, ManagerOK
    <2>4. WorkerOK' /\ OpenFGAOK' /\ SpentOK'
      BY <1>9 DEF DeliverSecret, locals, openfga, WorkerOK, OpenFGAOK, SpentOK
    <2> QED
      BY <2>2, <2>3, <2>4
  <1>10. ASSUME UserStep
         PROVE  ManagerOK' /\ WorkerOK' /\ OpenFGAOK' /\ SpentOK'
    <2>1. SpentOK'
      BY <1>10, BoundsAssumption DEF UserStep, Op, SpentOK
    <2> QED
      BY <1>10, <2>1 DEF UserStep, caches, locals, openfga, ManagerOK, WorkerOK, OpenFGAOK
  <1>11. CASE CreateModule
    <2>1. PICK n \in Name, sp \in Spec : WriteModule(n, Created(sp))
      BY <1>11 DEF CreateModule
    <2>2. Created(sp) \in Module
      BY DEF Created, Module
    <2> QED
      BY <1>10, <1>11, <2>1, <2>2, WriteModuleTyped DEF CreateModule
  <1>12. CASE UpdateModule
    <2>1. PICK n \in Present(modules), sp \in Spec :
             WriteModule(n, [modules[n] EXCEPT !.spec = sp, !.gen = @ + 1])
      BY <1>12 DEF UpdateModule
    <2>2. n \in Name /\ modules[n] \in Module
      BY DEF Present, ServerOK
    <2> DEFINE gen == modules[n].gen + 1
    <2>3. gen \in Nat
      BY <2>2 DEF Module
    <2> HIDE DEF gen
    <2>4. [modules[n] EXCEPT !.spec = sp, !.gen = gen] \in Module
      BY <2>2, <2>3 DEF Module
    <2>5. [modules[n] EXCEPT !.spec = sp, !.gen = @ + 1] \in Module
      BY <2>4 DEF gen
    <2> QED
      BY <1>10, <1>12, <2>1, <2>2, <2>5, WriteModuleTyped DEF UpdateModule
  <1>13. CASE RemoveModule
    <2>1. PICK n \in Name : WriteModule(n, NoModule)
      BY <1>13 DEF RemoveModule, Present
    <2> QED
      BY <1>10, <1>13, <2>1, WriteModuleTyped DEF RemoveModule
  <1>14. CASE RemoveSecret
    BY <1>10, <1>14, WriteSecretTyped DEF RemoveSecret
  <1>15. CASE EditSecret
    <2>1. secret \in Secret /\ secret.data \in Config
      BY <1>15, ConfigTyped DEF EditSecret, ServerOK
    <2>2. [secret.data EXCEPT !.model = None] \in Config
      BY <2>1 DEF Config
    <2>3. \A d \in {NoData, [secret.data EXCEPT !.model = None]} :
             [secret EXCEPT !.data = d] \in Secret
      BY <2>1, <2>2 DEF Secret
    <2> QED
      BY <1>10, <1>15, <2>3, WriteSecretTyped DEF EditSecret
  <1>16. CASE Restart
    <2>1. ServerOK'
      BY <1>16 DEF Restart, ServerOK
    <2>2. ManagerOK'
      BY <1>16 DEF Restart, ServerOK, ManagerOK, Present
    <2>3. NoVerdict \in Verdict /\ (NoVerdict.ready <=> NoVerdict.hash # None)
      BY FixedVerdicts
    <2>4. WorkerOK'
      BY <1>16, <2>3 DEF Restart, WorkerOK
    <2>5. OpenFGAOK' /\ SpentOK'
      BY <1>16, BoundsAssumption DEF Restart, Op, openfga, OpenFGAOK, SpentOK
    <2> QED
      BY <2>1, <2>2, <2>4, <2>5
  <1>17. CASE UNCHANGED vars
    BY <1>17 DEF vars, server, caches, locals, openfga,
                 ServerOK, ManagerOK, WorkerOK, OpenFGAOK, SpentOK
  <1> QED
    BY <1>1, <1>2, <1>3, <1>4, <1>5, <1>6, <1>7, <1>8, <1>9, <1>11, <1>12, <1>13, <1>14, <1>15,
       <1>16, <1>17
    DEF FreshNext, Environment

\* The controller is well typed: TypeOK of the runs, for all instances.
THEOREM TypeCorrect == System => []TypeOK
  BY InitTyped, NextTyped, NextIsFresh, PTL DEF System


-----------------------------------------------------------------------------
(* The Secret tells the truth.  SecretFaithful is inductive once the model *)
(* that has been written and is about to be named is described as well.    *)

FaithfulInv ==
    /\ SecretFaithful
    /\ pc = "applySecret" =>
          models[modelID] = [url |-> settings.url, store |-> storeID, hash |-> verdict.hash]

\* A step that leaves the Secret and the models alone, or removes the Secret,
\* and does not get the worker to ApplySecret, keeps the invariant.
LEMMA FaithfulKept ==
    ASSUME FaithfulInv, secret' \in {secret, NoSecret}, UNCHANGED models,
           pc' # "applySecret" \/ UNCHANGED <<pc, settings, locals>>
    PROVE  FaithfulInv'
  BY DEF FaithfulInv, SecretFaithful, Faithful, HasConfig, locals

\* Every step keeps the invariant of the Secret's truth.
LEMMA FaithfulStep == TypeOK /\ FaithfulInv /\ [FreshNext]_vars => FaithfulInv'
  <1> SUFFICES ASSUME TypeOK, FaithfulInv, [FreshNext]_vars PROVE FaithfulInv'
    OBVIOUS
  <1>1. CASE ListAndBuild
    BY <1>1, FaithfulKept DEF ListAndBuild, server, openfga
  <1>2. CASE DeleteSecret
    BY <1>2, FaithfulKept DEF DeleteSecret, WriteSecret, Return, server, openfga
  <1>3. CASE GetSecret
    <2>1. pc' # "applySecret"
      BY <1>3 DEF GetSecret, Report
    <2> QED
      BY <1>3, <2>1, FaithfulKept DEF GetSecret, server, openfga
  <1>4. CASE FreshCreate
    <2> PICK new, kept : /\ StoresSeen \subseteq kept /\ (StoreId \ kept # {} => new \in StoreId \ kept)
                         /\ CreateStoreAs(new, kept)
      BY <1>4 DEF FreshCreate
    <2>1. pc' # "applySecret"
      BY DEF CreateStoreAs, Report
    <2> QED
      BY <2>1, FaithfulKept DEF CreateStoreAs, server
  <1>5. CASE FreshWrite
    <2> PICK new, kept : /\ ModelsSeen \subseteq kept /\ (ModelId \ kept # {} => new \in ModelId \ kept)
                         /\ WriteModelAs(new, kept)
      BY <1>5 DEF FreshWrite
    <2>1. CASE Report(PublishFailed) /\ UNCHANGED models
      BY <2>1, FaithfulKept DEF WriteModelAs, Report, server
    <2>2. CASE /\ ModelId \ kept # {}
               /\ models' = [m \in ModelId |->
                    IF m = new
                    THEN [url |-> settings.url, store |-> storeID, hash |-> verdict.hash]
                    ELSE IF m \in kept THEN models[m] ELSE None]
               /\ modelID' = new
               /\ UNCHANGED <<storeID, verdict>>
      <3>1. UNCHANGED <<secret, settings>>
        BY DEF WriteModelAs, server
      <3>2. new \in ModelId /\ new \notin ModelsSeen
        BY <2>2
      <3>3. models'[modelID'] = [url |-> settings.url, store |-> storeID, hash |-> verdict.hash]
        BY <2>2, <3>2
      <3>4. ASSUME HasConfig(secret), secret.data.model # None
            PROVE  models'[secret.data.model] = models[secret.data.model]
        <4>1. secret.data \in ConfigsSeen
          BY <3>4 DEF ConfigsSeen
        <4>2. secret.data.model \in ModelsSeen
          BY <4>1 DEF ModelsSeen
        <4>3. secret.data.model \in ModelId
          BY <3>4, ConfigTyped DEF Config, TypeOK, ServerOK
        <4> QED
          BY <2>2, <3>2, <4>2, <4>3
      <3>5. SecretFaithful'
        BY <3>1, <3>4 DEF FaithfulInv, SecretFaithful, Faithful, HasConfig
      <3> QED
        BY <2>2, <3>1, <3>3, <3>5 DEF FaithfulInv
    <2> QED
      BY <2>1, <2>2 DEF WriteModelAs
  <1>6. CASE ApplySecret
    <2>1. pc = "applySecret" /\ pc' # "applySecret" /\ UNCHANGED models
      BY <1>6 DEF ApplySecret, Report, openfga
    <2>2. CASE secret' = NewSecret
      BY <2>1, <2>2 DEF FaithfulInv, SecretFaithful, Faithful, HasConfig, NewSecret, New
    <2>3. CASE UNCHANGED server
      BY <2>1, <2>3, FaithfulKept DEF server
    <2> QED
      BY <1>6, <2>2, <2>3 DEF ApplySecret, WriteSecret
  <1>7. CASE PatchStatus
    <2>1. pc = "patchStatus" /\ UNCHANGED <<secret, models>>
      BY <1>7 DEF PatchStatus, WriteModule, server, openfga
    <2>2. pc' # "applySecret"
      BY <1>7, <2>1 DEF PatchStatus, PatchedOne, Return
    <2> QED
      BY <2>1, <2>2, FaithfulKept
  <1>8. CASE DeliverModule
    BY <1>8, FaithfulKept DEF DeliverModule, locals, openfga
  <1>9. CASE DeliverSecret
    BY <1>9, FaithfulKept DEF DeliverSecret, locals, openfga
  <1>10. CASE CreateModule \/ UpdateModule \/ RemoveModule
    <2>1. UNCHANGED secret
      BY <1>10 DEF CreateModule, UpdateModule, RemoveModule, WriteModule
    <2>2. UserStep
      BY <1>10 DEF CreateModule, UpdateModule, RemoveModule
    <2> QED
      BY <2>1, <2>2, FaithfulKept DEF UserStep, locals, openfga
  <1>11. CASE RemoveSecret
    BY <1>11, FaithfulKept DEF RemoveSecret, WriteSecret, UserStep, locals, openfga
  <1>12. CASE EditSecret
    <2>1. PICK d \in {NoData, [secret.data EXCEPT !.model = None]} :
             secret' = [secret EXCEPT !.data = d]
      BY <1>12 DEF EditSecret, WriteSecret
    <2>2. secret \in Secret /\ secret.data \in Config
      BY <1>12, ConfigTyped DEF EditSecret, TypeOK, ServerOK
    <2>3. secret'.data = d
      BY <2>1, <2>2 DEF Secret
    <2>4. d = NoData \/ d.model = None
      BY <2>2 DEF Config
    <2>5. SecretFaithful'
      BY <2>3, <2>4 DEF SecretFaithful, Faithful, HasConfig
    <2> QED
      BY <1>12, <2>5 DEF FaithfulInv, EditSecret, UserStep, locals, openfga
  <1>13. CASE Restart
    BY <1>13, FaithfulKept DEF Restart, openfga
  <1>14. CASE UNCHANGED vars
    BY <1>14, FaithfulKept DEF vars, server, locals, openfga
  <1> QED
    BY <1>1, <1>2, <1>3, <1>4, <1>5, <1>6, <1>7, <1>8, <1>9, <1>10, <1>11, <1>12, <1>13, <1>14
    DEF FreshNext, Environment

\* The Secret always names a model that OpenFGA has where the Secret says,
\* and whose hash is the Secret's: SecretFaithful of the runs.
THEOREM SecretIsFaithful == System => []SecretFaithful
  <1>1. Init => FaithfulInv
    BY DEF Init, FaithfulInv, SecretFaithful, Faithful, HasConfig
  <1>2. FaithfulInv => SecretFaithful
    BY DEF FaithfulInv
  <1> QED
    BY <1>1, <1>2, FaithfulStep, NextIsFresh, TypeCorrect, PTL DEF System


-----------------------------------------------------------------------------
(* Nothing is reported before it is published.  Inductive once it covers   *)
(* every copy of the Secret that the worker may come to trust (the cache   *)
(* and the events that will fill it), and the verdict on its way into the  *)
(* statuses.                                                               *)

Known(s) == s = NoSecret \/ s.hash \in published

PublishedInv ==
    /\ ReadyWasPublished
    /\ Known(secret) /\ Known(secCache)
    /\ \A i \in 1 .. Len(secWatch) : Known(secWatch[i])
    /\ pc = "patchStatus" /\ verdict.ready => verdict.hash \in published

\* Once published, a hash stays published.
LEMMA PublishedGrows == [FreshNext]_vars => published \subseteq published'
  BY DEF FreshNext, Environment, vars, ListAndBuild, DeleteSecret, GetSecret, FreshCreate, CreateStoreAs,
         FreshWrite, WriteModelAs, ApplySecret, PatchStatus, DeliverModule, DeliverSecret, CreateModule,
         UpdateModule, RemoveModule, RemoveSecret, EditSecret, UserStep, Restart

\* A write of the Secret adds to the stream only what is known.
LEMMA KnownWrite ==
    ASSUME ServerOK, NEW obj \in Secret \cup {NoSecret}, WriteSecret(obj),
           published \subseteq published', obj = NoSecret \/ obj.hash \in published',
           PublishedInv
    PROVE  /\ Known(secret)'
           /\ \A i \in 1 .. Len(secWatch') : Known(secWatch[i])'
  <1>1. Known(secret)'
    BY DEF WriteSecret, Known
  <1>2. secWatch' = secWatch \/ secWatch' = Append(secWatch, obj)
    BY DEF WriteSecret
  <1>3. secWatch \in Seq(Secret \cup {NoSecret})
    BY DEF ServerOK
  <1>4. \A i \in 1 .. Len(secWatch) : secWatch[i] = NoSecret \/ secWatch[i].hash \in published'
    BY DEF PublishedInv, Known
  <1>5. \A i \in 1 .. Len(secWatch') : secWatch'[i] = NoSecret \/ secWatch'[i].hash \in published'
    <2>1. CASE secWatch' = secWatch
      BY <1>4, <2>1
    <2>2. CASE secWatch' = Append(secWatch, obj)
      <3> SUFFICES ASSUME NEW i \in 1 .. Len(secWatch')
                   PROVE  secWatch'[i] = NoSecret \/ secWatch'[i].hash \in published'
        OBVIOUS
      <3>1. Len(secWatch') = Len(secWatch) + 1 /\ Len(secWatch) \in Nat
        BY <1>3, <2>2
      <3>2. CASE i = Len(secWatch) + 1
        BY <1>3, <2>2, <3>2
      <3>3. CASE i \in 1 .. Len(secWatch)
        <4>1. secWatch'[i] = secWatch[i]
          BY <1>3, <2>2, <3>3
        <4> QED
          BY <1>4, <3>3, <4>1
      <3> QED
        BY <3>1, <3>2, <3>3
    <2> QED
      BY <1>2, <2>1, <2>2
  <1> QED
    BY <1>1, <1>5 DEF Known

\* A step that leaves the Secret and its copies alone keeps what is known.
LEMMA KnownKept ==
    ASSUME PublishedInv, published \subseteq published', UNCHANGED <<secret, secCache, secWatch>>
    PROVE  /\ Known(secret)' /\ Known(secCache)'
           /\ \A i \in 1 .. Len(secWatch') : Known(secWatch[i])'
  BY DEF PublishedInv, Known

\* A step that leaves the modules alone keeps ReadyWasPublished.
LEMMA ReadyKept ==
    ASSUME PublishedInv, published \subseteq published', UNCHANGED modules
    PROVE  ReadyWasPublished'
  BY DEF PublishedInv, ReadyWasPublished, Present

\* A write of a module keeps it if the module that is written is covered.
LEMMA ReadyWrite ==
    ASSUME ServerOK, PublishedInv, UNCHANGED published, NEW n \in Name, NEW obj, WriteModule(n, obj),
           obj # NoModule =>
              /\ obj.hash # None => obj.hash \in published
              /\ obj.cond # NoCondition /\ obj.cond.ready => published # {}
    PROVE  ReadyWasPublished'
  <1>1. \A m \in Name : modules'[m] = IF m = n THEN obj ELSE modules[m]
    BY DEF ServerOK, WriteModule
  <1> QED
    BY <1>1 DEF PublishedInv, ReadyWasPublished, Present


\* Every step keeps the invariant of what has been published.
LEMMA PublishedStep == TypeOK /\ PublishedInv /\ [FreshNext]_vars => PublishedInv'
  <1> SUFFICES ASSUME TypeOK, PublishedInv, [FreshNext]_vars PROVE PublishedInv'
    OBVIOUS
  <1>0. published \subseteq published' /\ ServerOK
    BY PublishedGrows DEF TypeOK
  <1>1. CASE ListAndBuild
    <2>1. pc' = "patchStatus" => ~verdict'.ready
      BY <1>1 DEF ListAndBuild
    <2>2. UNCHANGED <<modules, secret, secCache, secWatch>>
      BY <1>1 DEF ListAndBuild, server, caches
    <2> QED
      BY <1>0, <2>1, <2>2, KnownKept, ReadyKept DEF PublishedInv
  <1>2. CASE DeleteSecret
    <2>1. pc' = "idle" /\ UNCHANGED <<modules, secCache>>
      BY <1>2 DEF DeleteSecret, WriteSecret, Return, server, caches
    <2>2. CASE WriteSecret(NoSecret)
      BY <1>0, <2>1, <2>2, KnownWrite, ReadyKept DEF PublishedInv, Known
    <2>3. CASE UNCHANGED server
      BY <1>0, <2>1, <2>3, KnownKept, ReadyKept DEF PublishedInv, server
    <2> QED
      BY <1>2, <2>2, <2>3 DEF DeleteSecret
  <1>3. CASE GetSecret
    <2>1. UNCHANGED <<modules, secret, secCache, secWatch>>
      BY <1>3 DEF GetSecret, server, caches
    <2>2. pc' = "patchStatus" => verdict'.hash \in published'
      <3>1. pc' = "patchStatus" => Published(secCache, verdict.hash, settings) /\ verdict' = verdict
        BY <1>3 DEF GetSecret, Report
      <3>2. Published(secCache, verdict.hash, settings) => verdict.hash \in published
        BY DEF Published, HasConfig, PublishedInv, Known
      <3> QED
        BY <1>0, <3>1, <3>2
    <2> QED
      BY <1>0, <2>1, <2>2, KnownKept, ReadyKept DEF PublishedInv
  <1>4. CASE FreshCreate \/ FreshWrite
    <2>1. UNCHANGED <<modules, secret, secCache, secWatch>>
      BY <1>4 DEF FreshCreate, CreateStoreAs, FreshWrite, WriteModelAs, server, caches
    <2>2. pc' = "patchStatus" => ~verdict'.ready
      BY <1>4, FixedVerdicts DEF FreshCreate, CreateStoreAs, FreshWrite, WriteModelAs, Report
    <2> QED
      BY <1>0, <2>1, <2>2, KnownKept, ReadyKept DEF PublishedInv
  <1>5. CASE ApplySecret
    <2>1. UNCHANGED <<modules, secCache>>
      BY <1>5 DEF ApplySecret, WriteSecret, server, caches
    <2>2. CASE /\ WriteSecret(NewSecret) /\ published' = published \cup {verdict.hash}
               /\ Report(verdict) \/ Report(ApplyFailed)
      <3>1. NewSecret \in Secret /\ NewSecret.hash \in published'
        BY <1>5, <2>2, NewSecretTyped DEF ApplySecret, TypeOK, NewSecret
      <3>2. pc' = "patchStatus" /\ verdict'.ready => verdict'.hash \in published'
        BY <2>2, FixedVerdicts DEF Report
      <3> QED
        BY <1>0, <2>1, <2>2, <3>1, <3>2, KnownWrite, ReadyKept DEF PublishedInv, Known
    <2>3. CASE Report(ApplyFailed) /\ UNCHANGED <<server, published>>
      <3>1. ~verdict'.ready
        BY <2>3, FixedVerdicts DEF Report
      <3> QED
        BY <1>0, <2>1, <2>3, <3>1, KnownKept, ReadyKept DEF PublishedInv, server
    <2> QED
      BY <1>5, <2>2, <2>3 DEF ApplySecret
  <1>6. CASE PatchStatus
    <2> DEFINE item == Head(items)
               base == modCache[item.name]
               obj == modules[item.name]
    <2>1. pc = "patchStatus" /\ UNCHANGED <<secret, secCache, secWatch, published>>
      BY <1>6 DEF PatchStatus, WriteModule, server, caches
    <2>2. pc' = "patchStatus" => verdict' = verdict
      BY <1>6 DEF PatchStatus, PatchedOne, Return
    <2>3. item.name \in Name /\ item \in [name : Name, gen : Nat]
      BY <2>1, HeadTyped DEF TypeOK
    <2>4. ReadyWasPublished'
      <3>1. CASE UNCHANGED server
        BY <1>0, <3>1, ReadyKept DEF server
      <3>2. CASE base # NoModule /\ obj # NoModule /\ WriteModule(item.name, Patched(obj, base, item))
        <4>1. obj \in Module /\ base \in Module
          BY <2>3, <3>2 DEF TypeOK, ServerOK, ManagerOK
        <4>2. verdict.hash # None => verdict.ready /\ verdict.hash \in published
          BY <2>1 DEF PublishedInv, TypeOK, WorkerOK
        <4>3. verdict.ready => published # {}
          BY <2>1 DEF PublishedInv
        <4>4. /\ obj.hash # None => obj.hash \in published
              /\ obj.cond # NoCondition /\ obj.cond.ready => published # {}
          BY <2>3, <3>2 DEF PublishedInv, ReadyWasPublished, Present
        <4> DEFINE new == Patched(obj, base, item)
        <4>5. new.hash \in {obj.hash, verdict.hash}
          BY <4>1 DEF Patched, Module
        <4>6. new.cond = obj.cond \/ new.cond.ready = verdict.ready
          BY <4>1 DEF Patched, Module
        <4> HIDE DEF new
        <4>7. /\ new.hash # None => new.hash \in published
              /\ new.cond # NoCondition /\ new.cond.ready => published # {}
          BY <4>2, <4>3, <4>4, <4>5, <4>6
        <4> QED
          BY <1>0, <2>1, <2>3, <3>2, <4>7, ReadyWrite DEF new
      <3> QED
        BY <1>6, <3>1, <3>2 DEF PatchStatus
    <2> QED
      BY <1>0, <2>1, <2>2, <2>4, KnownKept DEF PublishedInv
  <1>7. CASE DeliverModule
    <2>1. UNCHANGED <<modules, secret, secCache, secWatch, pc, verdict>>
      BY <1>7 DEF DeliverModule, locals
    <2> QED
      BY <1>0, <2>1, KnownKept, ReadyKept DEF PublishedInv
  <1>8. CASE DeliverSecret
    <2>1. UNCHANGED <<modules, secret, pc, verdict, published>>
      BY <1>8 DEF DeliverSecret, locals
    <2>2. secWatch \in Seq(Secret \cup {NoSecret}) /\ secWatch # <<>>
          /\ secCache' = secWatch[1] /\ secWatch' = Tail(secWatch)
      BY <1>8 DEF DeliverSecret, TypeOK, ServerOK
    <2>3. Len(secWatch) \in Nat /\ Len(secWatch) >= 1 /\ Len(secWatch') = Len(secWatch) - 1
      BY <2>2
    <2>4. \A i \in 1 .. Len(secWatch') : secWatch'[i] = secWatch[i + 1] /\ i + 1 \in 1 .. Len(secWatch)
      BY <2>2, <2>3
    <2>5. Known(secCache)' /\ \A i \in 1 .. Len(secWatch') : Known(secWatch[i])'
      BY <2>1, <2>2, <2>3, <2>4 DEF PublishedInv, Known
    <2> QED
      BY <1>0, <2>1, <2>5, ReadyKept DEF PublishedInv, Known
  <1>9. CASE CreateModule \/ UpdateModule \/ RemoveModule
    <2>1. UserStep /\ UNCHANGED <<secret, secWatch>>
      BY <1>9 DEF CreateModule, UpdateModule, RemoveModule, WriteModule
    <2>2. UNCHANGED <<secCache, pc, verdict, published>>
      BY <2>1 DEF UserStep, caches, locals
    <2>3. ReadyWasPublished'
      <3>1. CASE CreateModule
        <4>1. PICK n \in Name, sp \in Spec : WriteModule(n, Created(sp))
          BY <3>1 DEF CreateModule
        <4> QED
          BY <1>0, <2>2, <4>1, ReadyWrite DEF Created
      <3>2. CASE UpdateModule
        <4>1. PICK n \in Present(modules), sp \in Spec :
                 WriteModule(n, [modules[n] EXCEPT !.spec = sp, !.gen = @ + 1])
          BY <3>2 DEF UpdateModule
        <4>2. n \in Name /\ modules[n] \in Module /\ n \in Present(modules)
          BY DEF Present, TypeOK, ServerOK
        <4> DEFINE new == [modules[n] EXCEPT !.spec = sp, !.gen = @ + 1]
        <4>3. new.hash = modules[n].hash /\ new.cond = modules[n].cond
          BY <4>2 DEF Module
        <4> HIDE DEF new
        <4>4. /\ new.hash # None => new.hash \in published
              /\ new.cond # NoCondition /\ new.cond.ready => published # {}
          BY <4>2, <4>3 DEF PublishedInv, ReadyWasPublished
        <4> QED
          BY <1>0, <2>2, <4>1, <4>2, <4>4, ReadyWrite DEF new
      <3>3. CASE RemoveModule
        <4>1. PICK n \in Name : WriteModule(n, NoModule)
          BY <3>3 DEF RemoveModule, Present
        <4> QED
          BY <1>0, <2>2, <4>1, ReadyWrite
      <3> QED
        BY <1>9, <3>1, <3>2, <3>3
    <2> QED
      BY <1>0, <2>1, <2>2, <2>3, KnownKept DEF PublishedInv
  <1>10. CASE RemoveSecret \/ EditSecret
    <2>1. PICK obj \in Secret \cup {NoSecret} :
             WriteSecret(obj) /\ (obj = NoSecret \/ (secret # NoSecret /\ obj.hash = secret.hash))
      <3>1. CASE RemoveSecret
        BY <3>1 DEF RemoveSecret
      <3>2. CASE EditSecret
        <4>1. PICK d \in {NoData, [secret.data EXCEPT !.model = None]} :
                 WriteSecret([secret EXCEPT !.data = d])
          BY <3>2 DEF EditSecret
        <4>2. secret \in Secret /\ secret.data \in Config /\ secret # NoSecret
          BY <3>2, ConfigTyped DEF EditSecret, HasConfig, TypeOK, ServerOK
        <4>3. [secret.data EXCEPT !.model = None] \in Config
          BY <4>2 DEF Config
        <4>4. [secret EXCEPT !.data = d] \in Secret /\ [secret EXCEPT !.data = d].hash = secret.hash
          BY <4>2, <4>3 DEF Secret
        <4> QED
          BY <4>1, <4>2, <4>4
      <3> QED
        BY <1>10, <3>1, <3>2
    <2>2. UserStep
      BY <1>10 DEF RemoveSecret, EditSecret
    <2>3. UNCHANGED <<modules, secCache, pc, verdict, published>>
      BY <2>1, <2>2 DEF WriteSecret, UserStep, caches, locals
    <2>4. obj = NoSecret \/ obj.hash \in published'
      BY <1>0, <2>1 DEF PublishedInv, Known
    <2> QED
      BY <1>0, <2>1, <2>3, <2>4, KnownWrite, ReadyKept DEF PublishedInv, Known
  <1>11. CASE Restart
    <2>1. /\ UNCHANGED <<modules, secret, published>>
          /\ pc' = "idle" /\ secCache' = secret /\ secWatch' = <<>>
      BY <1>11 DEF Restart
    <2> QED
      BY <1>0, <2>1, ReadyKept DEF PublishedInv, Known
  <1>12. CASE UNCHANGED vars
    <2>1. UNCHANGED <<modules, secret, secCache, secWatch, pc, verdict>>
      BY <1>12 DEF vars, server, caches, locals
    <2> QED
      BY <1>0, <2>1, KnownKept, ReadyKept DEF PublishedInv
  <1> QED
    BY <1>1, <1>2, <1>3, <1>4, <1>5, <1>6, <1>7, <1>8, <1>9, <1>10, <1>11, <1>12
    DEF FreshNext, Environment

\* No status ever shows a hash, or Ready, before a Secret has carried a
\* model: ReadyWasPublished of the runs.
THEOREM NothingReadyUnpublished == System => []ReadyWasPublished
  <1>1. Init => PublishedInv
    BY DEF Init, PublishedInv, ReadyWasPublished, Present, Known
  <1>2. PublishedInv => ReadyWasPublished
    BY DEF PublishedInv
  <1> QED
    BY <1>1, <1>2, PublishedStep, NextIsFresh, TypeCorrect, PTL DEF System

-----------------------------------------------------------------------------
(* The store a Secret names is carried over.  Inductive: between the read  *)
(* of the Secret and its write, the worker's store is the one of the       *)
(* Secret it read, and it does not make another.                           *)

ChosenInv ==
    /\ pc \in {"createStore", "writeModel", "applySecret"}
    /\ HasConfig(existing) /\ existing.data.url = settings.url /\ settings.store = None
    => pc # "createStore" /\ storeID = existing.data.store

\* Every step keeps the store that was chosen.
LEMMA ChosenStep == TypeOK /\ ChosenInv /\ [FreshNext]_vars => ChosenInv'
  <1> SUFFICES ASSUME TypeOK, ChosenInv, [FreshNext]_vars PROVE ChosenInv'
    OBVIOUS
  <1>1. CASE GetSecret
    <2>1. UNCHANGED settings
      BY <1>1 DEF GetSecret
    <2>2. CASE Report(verdict)
      BY <2>2 DEF Report, ChosenInv
    <2>3. CASE /\ existing' = secCache
               /\ storeID' = StoreFor(secCache, settings)
               /\ pc' = IF storeID' = None THEN "createStore" ELSE "writeModel"
      <3> SUFFICES ASSUME HasConfig(secCache), secCache.data.url = settings.url,
                          settings.store = None
                   PROVE  pc' # "createStore" /\ storeID' = secCache.data.store
        BY <2>1, <2>3 DEF ChosenInv
      <3>1. secCache.data.store \in StoreId
        BY ConfigTyped DEF TypeOK, ManagerOK, Config
      <3>2. storeID' = secCache.data.store
        BY <2>3 DEF StoreFor, StoreIDFromSecret
      <3> QED
        BY <2>3, <3>1, <3>2, DistinctAssumption
    <2> QED
      BY <1>1, <2>2, <2>3 DEF GetSecret
  <1>2. CASE FreshCreate
    BY <1>2 DEF FreshCreate, CreateStoreAs, Report, ChosenInv
  <1>3. CASE FreshWrite
    BY <1>3 DEF FreshWrite, WriteModelAs, Report, ChosenInv
  <1>4. CASE ListAndBuild
    BY <1>4 DEF ListAndBuild, ChosenInv
  <1>5. CASE DeleteSecret \/ PatchStatus
    <2>1. pc' \in {"idle", "patchStatus"}
      BY <1>5 DEF DeleteSecret, PatchStatus, PatchedOne, Return
    <2> QED
      BY <2>1 DEF ChosenInv
  <1>6. CASE ApplySecret
    BY <1>6 DEF ApplySecret, Report, ChosenInv
  <1>7. CASE Restart
    BY <1>7 DEF Restart, ChosenInv
  <1>8. CASE DeliverModule \/ DeliverSecret \/ CreateModule \/ UpdateModule \/ RemoveModule
             \/ RemoveSecret \/ EditSecret \/ UNCHANGED vars
    <2>1. UNCHANGED <<pc, existing, storeID, settings>>
      BY <1>8 DEF DeliverModule, DeliverSecret, CreateModule, UpdateModule, RemoveModule,
                  RemoveSecret, EditSecret, UserStep, locals, vars
    <2> QED
      BY <2>1 DEF ChosenInv
  <1> QED
    BY <1>1, <1>2, <1>3, <1>4, <1>5, <1>6, <1>7, <1>8 DEF FreshNext, Environment

\* A Secret that is still the one the store was chosen from is replaced by
\* one with its store: SameSecretSameStore of the runs.
THEOREM StoreIsCarriedOver == System => SameSecretSameStore
  <1> DEFINE Carried ==
        ApplySecret /\ secret' # secret /\ secret = existing /\ HasConfig(secret)
        /\ secret.data.url = settings.url /\ settings.store = None
          => secret'.data.store = secret.data.store
  <1>1. Init => ChosenInv
    BY DEF Init, ChosenInv
  <1>2. ChosenInv => Carried
    <2> SUFFICES ASSUME ChosenInv, ApplySecret, secret' # secret, secret = existing,
                        HasConfig(secret), secret.data.url = settings.url, settings.store = None
                 PROVE  secret'.data.store = secret.data.store
      OBVIOUS
    <2>1. pc = "applySecret" /\ secret' = NewSecret
      BY DEF ApplySecret, WriteSecret, server
    <2>2. storeID = secret.data.store
      BY <2>1 DEF ChosenInv
    <2> QED
      BY <2>1, <2>2 DEF NewSecret, New
  <1>3. System => [][Carried]_vars
    <2>1. ChosenInv /\ [Next]_vars => [Carried]_vars
      BY <1>2
    <2> HIDE DEF Carried
    <2> QED
      BY <1>1, <2>1, ChosenStep, NextIsFresh, TypeCorrect, PTL DEF System
  <1> QED
    BY <1>3 DEF SameSecretSameStore
=============================================================================
