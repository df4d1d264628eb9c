------------------------- MODULE ConvergenceProofs -------------------------
(***************************************************************************)
(* No wake-up is lost: a controller with nothing left to do has nothing    *)
(* left to repair, for every set of names, specifications, settings,       *)
(* stores and models, every build and every bound.                         *)
(*                                                                         *)
(* In two parts.  What the controller can see, the Secret and the modules  *)
(* at the API server, is as it should be when it comes to rest, whatever   *)
(* OpenFGA holds (CalmInv).  That OpenFGA holds what the Secret says is    *)
(* SecretIsFaithful, and StoreKept.                                        *)
(***************************************************************************)
EXTENDS ReconcilerProofs

-----------------------------------------------------------------------------
(* The invariant.  An event under way, or a key in the queue, stands for   *)
(* everything that a cache or a run has missed.                            *)

\* The last event under way for an object shows it as it is; the cache of an
\* object without events does.
CachesFollow ==
    /\ \A n \in Name :
          (\A i \in 1 .. Len(modWatch) : modWatch[i].name # n) => modCache[n] = modules[n]
    /\ \A i \in 1 .. Len(modWatch) :
          (\A j \in i + 1 .. Len(modWatch) : modWatch[j].name # modWatch[i].name)
             => modWatch[i].obj = modules[modWatch[i].name]
    /\ IF secWatch = <<>> THEN secCache = secret ELSE secWatch[Len(secWatch)] = secret

\* A store that the environment names is the one that is published to.
StoreFixed ==
    settings.store # None =>
        /\ pc # "createStore"
        /\ pc \in {"writeModel", "applySecret"} => storeID = settings.store

\* The run is going to report that it has published a model.
Succeeding ==
    \/ pc \in {"getSecret", "createStore", "writeModel", "applySecret"}
    \/ pc = "patchStatus" /\ verdict.ready

\* The build of the modules as they are.
Built == Build(Listing(SetToSeq(Present(modules)), modules))

\* The verdict is the one on these modules.
VerdictCurrent ==
    /\ Present(modules) # {} /\ settings.url # None
    /\ Built.ready /\ verdict.hash = Built.hash /\ verdict.reason = Built.reason

\* A status says v, about the current generation of its module.
ReportedOf(n, v) ==
    /\ modules[n].hash = v.hash
    /\ modules[n].cond # NoCondition
    /\ modules[n].cond.ready = v.ready
    /\ modules[n].cond.reason = v.reason
    /\ modules[n].cond.ogen = modules[n].gen

\* Every module's status is still to be patched, at its generation, or says
\* what the run reports.
ItemsCurrent ==
    /\ \A i \in 1 .. Len(items) :
          items[i].name \in Present(modules) /\ items[i].gen = modules[items[i].name].gen
    /\ \A n \in Present(modules) :
          \/ \E i \in 1 .. Len(items) : items[i].name = n
          \/ pc = "patchStatus" /\ ReportedOf(n, verdict)

\* Nothing that the run has not seen of the modules is waiting.
Settled == queue = {} /\ modWatch = <<>>

\* So the run is about the modules as they are, and the Secret names a model
\* for them, unless an event of it is under way.
RunCurrent ==
    Settled =>
       /\ pc = "deleteSecret" => Present(modules) = {}
       /\ Succeeding => VerdictCurrent /\ ItemsCurrent
       /\ pc = "patchStatus" /\ verdict.ready /\ secWatch = <<>> =>
             Published(secret, verdict.hash, settings)

\* The cluster as far as the controller can see it: the Secret names some
\* model for the current build, and the statuses say so; or they say why
\* nothing is published.
Shown ==
    IF Present(modules) = {} THEN secret = NoSecret
    ELSE LET v == Prepare(Listing(SetToSeq(Present(modules)), modules), settings)
         IN /\ v.ready => Published(secret, v.hash, settings)
            /\ Reported(v)

QuietMeansShown == Quiet => Shown

CalmInv == QuietMeansShown /\ CachesFollow /\ StoreFixed /\ RunCurrent

\* A store that is named, or about to be, is not forgotten.
StoreKept ==
    /\ HasConfig(secret) /\ secret.data.model # None => stores[secret.data.store] = secret.data.url
    /\ pc = "applySecret" => stores[storeID] = settings.url

-----------------------------------------------------------------------------
(* The caches.                                                             *)

\* A write of a module is followed by its event.
LEMMA ModulesFollow ==
    ASSUME ServerOK, CachesFollow, NEW n \in Name, NEW obj \in Module \cup {NoModule},
           WriteModule(n, obj), UNCHANGED caches
    PROVE  CachesFollow'
  <1> DEFINE Event == [name : Name, obj : Module \cup {NoModule}]
             event == [name |-> n, obj |-> obj]
  <1>1. /\ modWatch \in Seq(Event) /\ UNCHANGED <<secret, secWatch, secCache, modCache>>
        /\ \A m \in Name : modules'[m] = IF m = n THEN obj ELSE modules[m]
    BY DEF ServerOK, WriteModule, caches
  <1>2. IF secWatch' = <<>> THEN secCache' = secret' ELSE secWatch'[Len(secWatch')] = secret'
    BY <1>1 DEF CachesFollow
  <1>3. CASE obj = modules[n]
    <2>1. UNCHANGED <<modules, modWatch>>
      BY <1>3 DEF ServerOK, WriteModule
    <2> QED
      BY <1>1, <2>1 DEF CachesFollow
  <1>4. CASE obj # modules[n]
    <2>1. event \in Event /\ event.name = n /\ event.obj = obj
      OBVIOUS
    <2>2. modWatch' = Append(modWatch, event)
      BY <1>4 DEF WriteModule
    <2> HIDE DEF event
    <2>3. /\ Len(modWatch) \in Nat /\ Len(modWatch') = Len(modWatch) + 1
          /\ modWatch'[Len(modWatch) + 1] = event
          /\ \A i \in 1 .. Len(modWatch) : modWatch'[i] = modWatch[i] /\ modWatch[i].name \in Name
      <3>1. \A e \in Event : e.name \in Name
        OBVIOUS
      <3> HIDE DEF Event
      <3> QED
        BY <1>1, <2>1, <2>2, <3>1
    <2>4. ASSUME NEW m \in Name, \A i \in 1 .. Len(modWatch') : modWatch'[i].name # m
          PROVE  modCache'[m] = modules'[m]
      <3>1. m # n
        BY <2>1, <2>3, <2>4
      <3>2. \A i \in 1 .. Len(modWatch) : modWatch[i].name # m
        BY <2>3, <2>4
      <3> QED
        BY <1>1, <3>1, <3>2 DEF CachesFollow
    <2>5. ASSUME NEW i \in 1 .. Len(modWatch'),
                 \A j \in i + 1 .. Len(modWatch') : modWatch'[j].name # modWatch'[i].name
          PROVE  modWatch'[i].obj = modules'[modWatch'[i].name]
      <3>1. CASE i = Len(modWatch) + 1
        BY <1>1, <2>1, <2>3, <3>1
      <3>2. CASE i \in 1 .. Len(modWatch)
        <4>1. modWatch'[Len(modWatch) + 1].name # modWatch'[i].name
          BY <2>3, <2>5, <3>2
        <4>2. modWatch'[i] = modWatch[i] /\ modWatch[i].name # n
          BY <2>1, <2>3, <3>2, <4>1
        <4>3. \A j \in i + 1 .. Len(modWatch) : modWatch[j].name # modWatch[i].name
          BY <2>3, <2>5, <3>2
        <4> QED
          BY <1>1, <2>3, <3>2, <4>2, <4>3 DEF CachesFollow
      <3> QED
        BY <2>3, <3>1, <3>2
    <2> QED
      BY <1>2, <2>4, <2>5 DEF CachesFollow
  <1> QED
    BY <1>3, <1>4

\* So is a write of the Secret.
LEMMA SecretFollows ==
    ASSUME ServerOK, CachesFollow, NEW obj \in Secret \cup {NoSecret}, WriteSecret(obj), UNCHANGED caches
    PROVE  /\ CachesFollow'
           /\ secWatch' = <<>> => UNCHANGED <<secret, secWatch>>
  <1>1. UNCHANGED <<modules, modWatch, modCache, secCache>> /\ secret' = obj
    BY DEF WriteSecret, caches
  <1>2. CASE obj = secret
    BY <1>1, <1>2 DEF WriteSecret, CachesFollow
  <1>3. CASE obj # secret
    <2>1. secWatch' = Append(secWatch, obj) /\ secWatch \in Seq(Secret \cup {NoSecret})
      BY <1>3 DEF WriteSecret, ServerOK
    <2>2. Len(secWatch') = Len(secWatch) + 1 /\ secWatch'[Len(secWatch')] = obj /\ secWatch' # <<>>
      BY <2>1
    <2> QED
      BY <1>1, <2>2 DEF CachesFollow
  <1> QED
    BY <1>2, <1>3

\* Without events under way the caches show everything.
LEMMA NothingUnderWay ==
    ASSUME ServerOK, ManagerOK, CachesFollow
    PROVE  /\ modWatch = <<>> => modCache = modules
           /\ secWatch = <<>> => secCache = secret
  <1>1. ASSUME modWatch = <<>> PROVE modCache = modules
    <2>1. \A n \in Name : modCache[n] = modules[n]
      BY <1>1 DEF CachesFollow
    <2> QED
      BY <2>1 DEF ServerOK, ManagerOK
  <1> QED
    BY <1>1 DEF CachesFollow

\* Every step keeps the caches following.
LEMMA FollowStep == TypeOK /\ CachesFollow /\ [FreshNext]_vars => CachesFollow'
  <1> SUFFICES ASSUME TypeOK, CachesFollow, [FreshNext]_vars PROVE CachesFollow'
    OBVIOUS
  <1> USE DEF TypeOK
  <1>1. CASE UNCHANGED <<server, caches>>
    BY <1>1 DEF CachesFollow, server, caches
  <1>2. CASE UNCHANGED caches /\ \E n \in Name, obj \in Module \cup {NoModule} : WriteModule(n, obj)
    BY <1>2, ModulesFollow
  <1>3. CASE UNCHANGED caches /\ \E obj \in Secret \cup {NoSecret} : WriteSecret(obj)
    BY <1>3, SecretFollows
  <1>4. CASE DeliverModule
    <2> DEFINE Event == [name : Name, obj : Module \cup {NoModule}]
               e == Head(modWatch)
    <2>1. /\ UNCHANGED <<modules, secret, secWatch, secCache>>
          /\ modWatch # <<>> /\ modWatch' = Tail(modWatch)
          /\ modCache' = [modCache EXCEPT ![e.name] = e.obj]
      BY <1>4 DEF DeliverModule
    <2>2. modWatch \in Seq(Event) /\ modCache \in [Name -> Module \cup {NoModule}]
      BY DEF ServerOK, ManagerOK
    <2> HIDE DEF Event
    <2>3. /\ Len(modWatch) \in Nat /\ Len(modWatch) >= 1 /\ Len(modWatch') = Len(modWatch) - 1
          /\ e = modWatch[1] /\ e \in Event
          /\ \A i \in 1 .. Len(modWatch) - 1 : modWatch'[i] = modWatch[i + 1]
      BY <2>1, <2>2
    <2> HIDE DEF e
    <2>4. ASSUME NEW m \in Name, \A i \in 1 .. Len(modWatch') : modWatch'[i].name # m
          PROVE  modCache'[m] = modules'[m]
      <3>1. \A i \in 2 .. Len(modWatch) : modWatch[i].name # m
        <4> TAKE i \in 2 .. Len(modWatch)
        <4>1. i - 1 \in 1 .. Len(modWatch) - 1 /\ (i - 1) + 1 = i
          BY <2>3
        <4> QED
          BY <2>3, <2>4, <4>1
      <3>2. CASE m = e.name
        <4>1. 1 \in 1 .. Len(modWatch) /\ \A j \in 1 + 1 .. Len(modWatch) : modWatch[j].name # modWatch[1].name
          BY <2>3, <3>1, <3>2
        <4>2. e.obj = modules[m]
          BY <2>3, <3>2, <4>1 DEF CachesFollow
        <4> QED
          BY <2>1, <2>2, <3>2, <4>2
      <3>3. CASE m # e.name
        <4>1. \A i \in 1 .. Len(modWatch) : modWatch[i].name # m
          BY <2>3, <3>1, <3>3
        <4> QED
          BY <2>1, <2>2, <3>3, <4>1 DEF CachesFollow
      <3> QED
        BY <3>2, <3>3
    <2>5. ASSUME NEW i \in 1 .. Len(modWatch'),
                 \A j \in i + 1 .. Len(modWatch') : modWatch'[j].name # modWatch'[i].name
          PROVE  modWatch'[i].obj = modules'[modWatch'[i].name]
      <3>1. i + 1 \in 1 .. Len(modWatch) /\ modWatch'[i] = modWatch[i + 1]
        BY <2>3
      <3>2. \A j \in i + 1 + 1 .. Len(modWatch) : modWatch[j].name # modWatch[i + 1].name
        <4> TAKE j \in i + 1 + 1 .. Len(modWatch)
        <4>1. j - 1 \in i + 1 .. Len(modWatch') /\ modWatch'[j - 1] = modWatch[j]
          BY <2>3
        <4> QED
          BY <2>5, <3>1, <4>1
      <3> QED
        BY <2>1, <3>1, <3>2 DEF CachesFollow
    <2> QED
      BY <2>1, <2>4, <2>5 DEF CachesFollow
  <1>5. CASE DeliverSecret
    <2>1. /\ UNCHANGED <<modules, secret, modWatch, modCache>>
          /\ secWatch # <<>> /\ secCache' = Head(secWatch) /\ secWatch' = Tail(secWatch)
          /\ secWatch \in Seq(Secret \cup {NoSecret})
      BY <1>5 DEF DeliverSecret, ServerOK
    <2>2. /\ Len(secWatch) \in Nat /\ Len(secWatch) >= 1 /\ Len(secWatch') = Len(secWatch) - 1
          /\ Head(secWatch) = secWatch[1] /\ (secWatch' = <<>> <=> Len(secWatch) = 1)
          /\ \A i \in 1 .. Len(secWatch) - 1 : secWatch'[i] = secWatch[i + 1]
      <3>1. Len(secWatch) \in Nat /\ Len(secWatch) # 0
        BY <2>1
      <3>2. secWatch' \in Seq(Secret \cup {NoSecret}) /\ Len(secWatch') = Len(secWatch) - 1
        BY <2>1
      <3>3. secWatch' = <<>> <=> Len(secWatch') = 0
        BY <3>2
      <3> QED
        BY <2>1, <3>1, <3>2, <3>3
    <2>3. secWatch[Len(secWatch)] = secret
      BY <2>1 DEF CachesFollow
    <2>4. IF secWatch' = <<>> THEN secCache' = secret' ELSE secWatch'[Len(secWatch')] = secret'
      BY <2>1, <2>2, <2>3
    <2> QED
      BY <2>1, <2>4 DEF CachesFollow
  <1>6. CASE Restart
    BY <1>6 DEF Restart, CachesFollow
  <1>7. CASE ListAndBuild \/ GetSecret \/ FreshCreate \/ FreshWrite \/ UNCHANGED vars
    BY <1>1, <1>7 DEF ListAndBuild, GetSecret, FreshCreate, CreateStoreAs, FreshWrite, WriteModelAs, vars
  <1>8. CASE DeleteSecret
    BY <1>1, <1>3, <1>8 DEF DeleteSecret
  <1>9. CASE ApplySecret
    <2>1. NewSecret \in Secret
      BY <1>9, NewSecretTyped DEF ApplySecret
    <2> QED
      BY <1>1, <1>3, <1>9, <2>1 DEF ApplySecret
  <1>10. CASE PatchStatus
    <2> DEFINE item == Head(items)
               new == Patched(modules[item.name], modCache[item.name], item)
    <2>1. UNCHANGED caches
      BY <1>10 DEF PatchStatus
    <2>2. \/ UNCHANGED server
          \/ modules[item.name] # NoModule /\ modCache[item.name] # NoModule /\ WriteModule(item.name, new)
      BY <1>10 DEF PatchStatus
    <2>3. item \in [name : Name, gen : Nat]
      BY <1>10, HeadTyped DEF PatchStatus
    <2>4. modules[item.name] # NoModule /\ modCache[item.name] # NoModule => new \in Module
      <3>1. item.name \in Name
        BY <2>3
      <3> QED
        BY <2>3, <3>1, PatchedTyped DEF ServerOK, ManagerOK, WorkerOK
    <2> QED
      BY <1>1, <1>2, <2>1, <2>2, <2>3, <2>4
  <1>11. CASE CreateModule \/ UpdateModule \/ RemoveModule
    <2>1. UNCHANGED caches
      BY <1>11 DEF CreateModule, UpdateModule, RemoveModule, UserStep
    <2>2. PICK n \in Name, obj \in Module \cup {NoModule} : WriteModule(n, obj)
      BY <1>11, UserWrites
    <2> QED
      BY <1>2, <2>1, <2>2
  <1>12. CASE RemoveSecret \/ EditSecret
    <2>1. UNCHANGED caches
      BY <1>12 DEF RemoveSecret, EditSecret, UserStep
    <2>2. PICK obj \in Secret \cup {NoSecret} : WriteSecret(obj)
      BY <1>12, UserEdits
    <2> QED
      BY <1>3, <2>1, <2>2
  <1> QED
    BY <1>4, <1>5, <1>6, <1>7, <1>8, <1>9, <1>10, <1>11, <1>12 DEF FreshNext, Environment

-----------------------------------------------------------------------------
(* The stores.                                                             *)

\* What is known of them stays, unless the worker takes its next step.
LEMMA StoresStay ==
    ASSUME StoreKept, UNCHANGED stores,
           secret' = secret \/ (HasConfig(secret') => secret'.data.model = None),
           pc' # "applySecret" \/ UNCHANGED <<pc, settings, storeID>>
    PROVE  StoreKept'
  BY DEF StoreKept, HasConfig

\* Every step keeps the stores that are named.
LEMMA StoreStep == TypeOK /\ StoreKept /\ [FreshNext]_vars => StoreKept'
  <1> SUFFICES ASSUME TypeOK, StoreKept, [FreshNext]_vars PROVE StoreKept'
    OBVIOUS
  <1>1. CASE ListAndBuild \/ GetSecret
    BY <1>1, StoresStay DEF ListAndBuild, GetSecret, Report, server, openfga
  <1>2. CASE DeleteSecret
    BY <1>2, StoresStay DEF DeleteSecret, WriteSecret, Return, server, openfga, HasConfig
  <1>3. CASE FreshCreate
    <2> PICK new, kept : /\ StoresSeen \subseteq kept /\ (StoreId \ kept # {} => new \in StoreId \ kept)
                         /\ CreateStoreAs(new, kept)
      BY <1>3 DEF FreshCreate
    <2>1. UNCHANGED secret /\ pc' # "applySecret"
      BY DEF CreateStoreAs, Report, server
    <2>2. CASE UNCHANGED stores
      BY <2>1, <2>2, StoresStay
    <2>3. CASE /\ StoreId \ kept # {}
               /\ stores' = [s \in StoreId |-> IF s = new THEN settings.url
                                               ELSE IF s \in kept THEN stores[s] ELSE None]
      <3>1. HasConfig(secret) => secret.data.store \in StoresSeen /\ secret.data.store \in StoreId
        BY ConfigTyped DEF StoresSeen, ConfigsSeen, TypeOK, ServerOK, Config
      <3>2. HasConfig(secret) => stores'[secret.data.store] = stores[secret.data.store]
        BY <2>3, <3>1
      <3> QED
        BY <2>1, <3>2 DEF StoreKept, HasConfig
    <2> QED
      BY <2>2, <2>3 DEF CreateStoreAs
  <1>4. CASE FreshWrite
    <2> PICK new, kept : WriteModelAs(new, kept)
      BY <1>4 DEF FreshWrite
    <2>1. UNCHANGED <<secret, stores, settings>>
      BY DEF WriteModelAs, server
    <2>2. \/ pc' = "patchStatus"
          \/ stores[storeID] = settings.url /\ UNCHANGED storeID
      BY DEF WriteModelAs, Report
    <2> QED
      BY <2>1, <2>2 DEF StoreKept, HasConfig
  <1>5. CASE ApplySecret
    <2>1. pc = "applySecret" /\ pc' = "patchStatus" /\ UNCHANGED <<stores, settings>>
      BY <1>5 DEF ApplySecret, Report, openfga
    <2>2. CASE UNCHANGED secret
      BY <2>1, <2>2, StoresStay
    <2>3. CASE secret' = NewSecret
      <3>1. secret'.data.store = storeID /\ secret'.data.url = settings.url
        BY <2>3 DEF NewSecret, New
      <3> QED
        BY <2>1, <3>1 DEF StoreKept, HasConfig
    <2> QED
      BY <1>5, <2>2, <2>3 DEF ApplySecret, WriteSecret, server
  <1>6. CASE PatchStatus
    <2>1. UNCHANGED <<secret, stores>> /\ pc = "patchStatus" /\ pc' \in {"idle", "patchStatus"}
      BY <1>6 DEF PatchStatus, PatchedOne, WriteModule, Return, server, openfga
    <2> QED
      BY <2>1, StoresStay
  <1>7. CASE DeliverModule \/ DeliverSecret
    BY <1>7, StoresStay DEF DeliverModule, DeliverSecret, locals, openfga
  <1>8. CASE CreateModule \/ UpdateModule \/ RemoveModule
    <2>1. UNCHANGED secret /\ UserStep
      BY <1>8 DEF CreateModule, UpdateModule, RemoveModule, WriteModule
    <2> QED
      BY <2>1, StoresStay DEF UserStep, locals, openfga
  <1>9. CASE RemoveSecret \/ EditSecret
    <2>1. UserStep /\ ServerOK
      BY <1>9 DEF RemoveSecret, EditSecret, TypeOK
    <2>2. HasConfig(secret') => secret'.data.model = None
      BY <1>9, <2>1, UserEdits DEF WriteSecret
    <2> QED
      BY <2>1, <2>2, StoresStay DEF UserStep, locals, openfga
  <1>10. CASE Restart
    BY <1>10, StoresStay DEF Restart, openfga
  <1>11. CASE UNCHANGED vars
    BY <1>11, StoresStay DEF vars, server, locals, openfga
  <1> QED
    BY <1>1, <1>2, <1>3, <1>4, <1>5, <1>6, <1>7, <1>8, <1>9, <1>10, <1>11 DEF FreshNext, Environment

-----------------------------------------------------------------------------
(* The runs.                                                               *)

\* A finite set is listed by SetToSeq in one of its orders.
LEMMA ChosenOrder ==
    ASSUME NEW S, IsFiniteSet(S)
    PROVE  SetToSeq(S) \in SetToSeqs(S)
  <1> DEFINE D == 1 .. Cardinality(S)
  <1>1. PICK f \in Bijection(D, S) : TRUE
    BY FS_CardinalityType DEF ExistsBijection
  <1>2. f \in [D -> S] /\ IsInjective(f)
    BY <1>1 DEF Bijection, Injection
  <1>3. SetToSeq(S) \in [D -> S] /\ IsInjective(SetToSeq(S))
    BY <1>2 DEF SetToSeq
  <1> QED
    BY <1>3 DEF SetToSeqs, IsInjective

\* The build of the modules as they are is a verdict, and the same in every
\* order of listing.
LEMMA BuiltTyped ==
    ASSUME ServerOK, Present(modules) # {}
    PROVE  /\ Built \in Verdict
           /\ \A order \in SetToSeqs(Present(modules)) :
                 LET built == Build(Listing(order, modules))
                 IN built.ready = Built.ready /\ built.reason = Built.reason /\ built.hash = Built.hash
  <1> DEFINE S == Present(modules)
             chosen == SetToSeq(S)
  <1>1. IsFiniteSet(S) /\ Cardinality(S) # 0
    BY NameAssumption, FS_Subset, FS_EmptySet DEF Present
  <1>2. chosen \in SetToSeqs(S)
    BY <1>1, ChosenOrder
  <1> HIDE DEF chosen
  <1>3. chosen # <<>>
    BY <1>1, <1>2, OrderOfPresent
  <1>4. Listing(chosen, modules) \in Listings
    BY <1>2, <1>3, ListingIsListing DEF ServerOK
  <1>5. Built = Build(Listing(chosen, modules))
    BY DEF Built, chosen
  <1>6. Built \in Verdict
    BY <1>4, <1>5, BuildTypeAssumption
  <1> QED
    BY <1>2, <1>5, <1>6, SameBuild DEF ServerOK

\* It depends on nothing else.
LEMMA BuiltStays == UNCHANGED modules => UNCHANGED Built /\ Present(modules') = Present(modules)
  BY DEF Built, Present, Listing

\* While something is waiting, nothing is claimed.
LEMMA Waiting ==
    ASSUME queue' # {} \/ modWatch' # <<>>
    PROVE  RunCurrent' /\ QuietMeansShown'
  BY DEF RunCurrent, Settled, QuietMeansShown, Quiet

\* While the run that succeeds goes on, what is claimed of it stays.
LEMMA RunGoesOn ==
    ASSUME RunCurrent, UNCHANGED <<modules, modWatch, queue, settings, verdict, items>>,
           pc \in {"getSecret", "createStore", "writeModel", "applySecret"},
           pc' \in {"getSecret", "createStore", "writeModel", "applySecret", "patchStatus"},
           pc' = "patchStatus" /\ secWatch' = <<>> => Published(secret, verdict.hash, settings)'
    PROVE  RunCurrent' /\ QuietMeansShown'
  <1>1. QuietMeansShown'
    BY DEF QuietMeansShown, Quiet
  <1>2. ASSUME Settled, VerdictCurrent, ItemsCurrent PROVE VerdictCurrent' /\ ItemsCurrent'
    <2>1. VerdictCurrent'
      BY <1>2, BuiltStays DEF VerdictCurrent
    <2>2. ItemsCurrent'
      BY <1>2, BuiltStays DEF ItemsCurrent
    <2> QED
      BY <2>1, <2>2
  <1>3. RunCurrent'
    BY <1>2 DEF RunCurrent, Settled, Succeeding
  <1> QED
    BY <1>1, <1>3

\* Nothing is claimed of a run that is going to fail.
LEMMA RunFails ==
    ASSUME pc' = "patchStatus", ~verdict'.ready
    PROVE  RunCurrent' /\ QuietMeansShown'
  BY DEF RunCurrent, Succeeding, QuietMeansShown, Quiet

\* When the last status is patched, the cluster is as it should be.
LEMMA RunEnds ==
    ASSUME TypeOK, pc = "patchStatus", verdict.ready, VerdictCurrent,
           Published(secret, verdict.hash, settings),
           \A n \in Present(modules) : ReportedOf(n, verdict)
    PROVE  Shown
  <1>1. /\ Built \in Verdict /\ Built.ready /\ Present(modules) # {}
        /\ verdict.hash = Built.hash /\ verdict.reason = Built.reason /\ settings.url # None
    BY BuiltTyped DEF VerdictCurrent, TypeOK
  <1>2. Prepare(Listing(SetToSeq(Present(modules)), modules), settings) = Built
    BY <1>1 DEF Prepare, Built, SettingsComplete
  <1>3. verdict.ready = Built.ready
    BY <1>1 DEF TypeOK, WorkerOK, Verdict
  <1>4. Reported(Built)
    BY <1>1, <1>3 DEF Reported, ReportedOf
  <1> QED
    BY <1>1, <1>2, <1>4 DEF Shown

\* A cluster that stays is as it should be if it was.
LEMMA ShownStays ==
    ASSUME UNCHANGED <<modules, secret, settings>>
    PROVE  Shown <=> Shown'
  BY DEF Shown, Present, Listing, Prepare, Reported, Published, HasConfig

\* A step beside the worker and the queue, and perhaps another event of the
\* Secret, leave everything claimed.
LEMMA ClaimsStay ==
    ASSUME RunCurrent, QuietMeansShown,
           UNCHANGED <<modules, modWatch, queue, settings, pc, verdict, items>>,
           secWatch' = <<>> => UNCHANGED <<secret, secWatch>>
    PROVE  RunCurrent' /\ QuietMeansShown'
  <1>1. UNCHANGED <<Settled, Succeeding, VerdictCurrent>>
    BY BuiltStays DEF Settled, Succeeding, VerdictCurrent
  <1>2. UNCHANGED ItemsCurrent
    <2>1. ASSUME NEW n PROVE ReportedOf(n, verdict)' <=> ReportedOf(n, verdict)
      BY DEF ReportedOf
    <2> QED
      BY <2>1, BuiltStays DEF ItemsCurrent
  <1>3. secWatch' = <<>> => UNCHANGED Published(secret, verdict.hash, settings)
    BY DEF Published, HasConfig
  <1>4. RunCurrent'
    BY <1>1, <1>2, <1>3, BuiltStays DEF RunCurrent
  <1>5. QuietMeansShown'
    BY ShownStays DEF QuietMeansShown, Quiet
  <1> QED
    BY <1>4, <1>5

\* Every step keeps the store that the environment names the one published to.
LEMMA FixedStep == TypeOK /\ StoreFixed /\ [FreshNext]_vars => StoreFixed'
  <1> SUFFICES ASSUME TypeOK, StoreFixed, [FreshNext]_vars PROVE StoreFixed'
    OBVIOUS
  <1>1. CASE GetSecret
    BY <1>1 DEF GetSecret, Report, StoreFor, StoreFixed
  <1>2. CASE ListAndBuild \/ FreshCreate \/ FreshWrite \/ ApplySecret
    BY <1>2 DEF ListAndBuild, FreshCreate, CreateStoreAs, FreshWrite, WriteModelAs, ApplySecret, Report, StoreFixed
  <1>3. CASE DeleteSecret \/ PatchStatus
    <2>1. pc' \in {"idle", "patchStatus"}
      BY <1>3 DEF DeleteSecret, PatchStatus, PatchedOne, Return
    <2> QED
      BY <2>1 DEF StoreFixed
  <1>4. CASE Restart
    BY <1>4 DEF Restart, StoreFixed
  <1>5. CASE DeliverModule \/ DeliverSecret \/ CreateModule \/ UpdateModule \/ RemoveModule
             \/ RemoveSecret \/ EditSecret \/ UNCHANGED vars
    <2>1. UNCHANGED <<pc, storeID, settings>>
      BY <1>5 DEF DeliverModule, DeliverSecret, CreateModule, UpdateModule, RemoveModule,
                  RemoveSecret, EditSecret, UserStep, locals, vars
    <2> QED
      BY <2>1 DEF StoreFixed
  <1> QED
    BY <1>1, <1>2, <1>3, <1>4, <1>5 DEF FreshNext, Environment

\* Every step keeps what is claimed of the runs, and of the time between
\* them.
LEMMA RunStep ==
    TypeOK /\ CalmInv /\ [FreshNext]_vars => RunCurrent' /\ QuietMeansShown'
  <1> SUFFICES ASSUME TypeOK, CalmInv, [FreshNext]_vars
               PROVE  RunCurrent' /\ QuietMeansShown'
    OBVIOUS
  <1>0. /\ QuietMeansShown /\ CachesFollow /\ StoreFixed /\ RunCurrent
        /\ ServerOK /\ ManagerOK /\ WorkerOK
    BY DEF CalmInv, TypeOK
  <1>1. CASE ListAndBuild
    <2> PICK k \in queue, order \in SetToSeqs(Present(modCache)) :
          /\ items' = [i \in DOMAIN order |->
                         [name |-> order[i], gen |-> modCache[order[i]].gen]]
          /\ \/ order = <<>> /\ pc' = "deleteSecret"
             \/ /\ order # <<>>
                /\ verdict' = Prepare(Listing(order, modCache), settings)
                /\ pc' = IF verdict'.ready THEN "getSecret" ELSE "patchStatus"
      BY <1>1 DEF ListAndBuild
    <2>1. UNCHANGED <<modules, modWatch, settings>>
      BY <1>1 DEF ListAndBuild, server
    <2>2. CASE modWatch # <<>>
      BY <2>1, <2>2, Waiting
    <2>3. CASE pc' = "patchStatus"
      BY <2>3, RunFails
    <2>4. CASE order = <<>> /\ pc' = "deleteSecret" /\ modWatch = <<>>
      <3>1. modCache = modules
        BY <1>0, <2>4, NothingUnderWay
      <3>2. IsFiniteSet(Present(modules)) /\ Cardinality(Present(modules)) = 0
        BY <2>4, <3>1, NameAssumption, FS_Subset, OrderOfPresent DEF Present
      <3>3. Present(modules) = {} /\ Present(modules') = Present(modules)
        BY <2>1, <3>2, FS_EmptySet, BuiltStays
      <3> QED
        BY <2>4, <3>3 DEF RunCurrent, Succeeding, QuietMeansShown, Quiet
    <2>5. CASE order # <<>> /\ pc' = "getSecret" /\ modWatch = <<>>
      <3> DEFINE built == Build(Listing(order, modules))
      <3>1. modCache = modules
        BY <1>0, <2>5, NothingUnderWay
      <3>2. verdict' = Prepare(Listing(order, modules), settings) /\ verdict'.ready
        BY <2>5, <3>1
      <3>3. Listing(order, modules) \in Listings
        BY <1>0, <2>5, <3>1, ListingIsListing DEF ServerOK
      <3>4. settings.url # None /\ verdict' = built
        BY <3>2, <3>3, PreparedVerdict DEF Prepare, SettingsComplete
      <3>5. order \in Seq(Name) /\ \A i \in DOMAIN order : order[i] \in Present(modules)
        BY <3>1, OrderOfPresent
      <3>6. Range(order) = Present(modules) /\ Present(modules) # {}
        <4>1. IsFiniteSet(Present(modules))
          BY NameAssumption, FS_Subset DEF Present
        <4> QED
          BY <2>5, <3>1, <3>5, <4>1, OrderListsAll
      <3>7. built.ready = Built.ready /\ built.hash = Built.hash /\ built.reason = Built.reason
        BY <1>0, <3>1, <3>6, BuiltTyped
      <3> HIDE DEF built
      <3>8. VerdictCurrent'
        BY <2>1, <3>2, <3>4, <3>6, <3>7, BuiltStays DEF VerdictCurrent
      <3>9. ASSUME NEW i \in DOMAIN order
            PROVE  items'[i].name = order[i] /\ items'[i].gen = modules[order[i]].gen
        BY <3>1
      <3>10. Len(items') = Len(order) /\ DOMAIN order = 1 .. Len(order)
        BY <3>5
      <3>11. ItemsCurrent'
        <4>1. \A i \in 1 .. Len(items') :
                 items'[i].name \in Present(modules) /\ items'[i].gen = modules[items'[i].name].gen
          BY <3>5, <3>9, <3>10
        <4>2. \A n \in Present(modules) : \E i \in 1 .. Len(items') : items'[i].name = n
          BY <3>6, <3>9, <3>10 DEF Range
        <4> QED
          BY <2>1, <4>1, <4>2, BuiltStays DEF ItemsCurrent
      <3> QED
        BY <2>5, <3>8, <3>11 DEF RunCurrent, QuietMeansShown, Quiet
    <2> QED
      BY <2>2, <2>3, <2>4, <2>5, RunFails
  <1>2. CASE DeleteSecret
    <2>1. CASE Return(TRUE)
      BY <2>1, Waiting DEF Return
    <2>2. CASE WriteSecret(NoSecret) /\ Return(FALSE)
      <3>1. /\ pc = "deleteSecret" /\ pc' = "idle" /\ secret' = NoSecret
            /\ UNCHANGED <<modules, modWatch, queue>>
        BY <1>2, <2>2 DEF DeleteSecret, WriteSecret, Return
      <3>2. Settled => Present(modules') = {}
        BY <1>0, <3>1, BuiltStays DEF RunCurrent
      <3>3. QuietMeansShown'
        BY <3>1, <3>2 DEF QuietMeansShown, Quiet, Settled, Shown
      <3> QED
        BY <3>1, <3>3 DEF RunCurrent, Succeeding
    <2> QED
      BY <1>2, <2>1, <2>2 DEF DeleteSecret
  <1>3. CASE GetSecret
    <2>1. /\ UNCHANGED <<modules, modWatch, secWatch, secret, queue, settings, verdict, items, models>>
          /\ pc = "getSecret" /\ pc' \in {"createStore", "writeModel", "patchStatus"}
          /\ pc' = "patchStatus" => Published(secCache, verdict.hash, settings)
      BY <1>3 DEF GetSecret, Report, server, openfga
    <2>2. ASSUME pc' = "patchStatus", secWatch = <<>> PROVE Published(secret, verdict.hash, settings)'
      <3>1. Published(secret, verdict.hash, settings)
        BY <1>0, <2>1, <2>2, NothingUnderWay
      <3> QED
        BY <2>1, <3>1 DEF Published, HasConfig
    <2> QED
      BY <1>0, <2>1, <2>2, RunGoesOn
  <1>4. CASE FreshCreate \/ FreshWrite
    <2>1. /\ UNCHANGED <<modules, modWatch, queue, settings>>
          /\ pc \in {"createStore", "writeModel"}
          /\ \/ pc' \in {"writeModel", "applySecret"} /\ UNCHANGED <<verdict, items>>
             \/ pc' = "patchStatus" /\ verdict' = PublishFailed
      BY <1>4 DEF FreshCreate, CreateStoreAs, FreshWrite, WriteModelAs, Report, server
    <2> QED
      BY <1>0, <2>1, RunGoesOn, RunFails, FixedVerdicts
  <1>5. CASE ApplySecret
    <2>1. UNCHANGED <<modules, modWatch, queue, settings, items, caches>> /\ pc = "applySecret"
          /\ pc' = "patchStatus"
      BY <1>5 DEF ApplySecret, WriteSecret, Report, server
    <2>2. CASE verdict' = ApplyFailed
      BY <2>1, <2>2, RunFails, FixedVerdicts
    <2>3. CASE verdict' = verdict /\ WriteSecret(NewSecret)
      <3>1. /\ HasConfig(NewSecret) /\ NewSecret.hash = verdict.hash
            /\ NewSecret.data = New(settings, storeID, modelID)
        BY <1>0, <2>1, NewSecretTyped DEF NewSecret
      <3>2. storeID # None /\ modelID # None /\ (settings.store # None => storeID = settings.store)
        BY <1>0, <2>1 DEF WorkerOK, StoreFixed
      <3>3. Published(NewSecret, verdict.hash, settings)
        BY <3>1, <3>2 DEF Published, New, CredentialsMatch
      <3>4. Published(secret, verdict.hash, settings)'
        BY <2>1, <2>3, <3>3 DEF WriteSecret, Published, HasConfig
      <3> QED
        BY <1>0, <2>1, <2>3, <3>4, RunGoesOn
    <2> QED
      BY <1>5, <2>2, <2>3 DEF ApplySecret, Report
  <1>6. CASE PatchStatus
    <2> DEFINE item == Head(items)
               new == Patched(modules[item.name], modCache[item.name], item)
    <2>1. CASE Return(TRUE)
      BY <2>1, Waiting DEF Return
    <2>2. CASE PatchedOne /\ modules[item.name] # NoModule /\ WriteModule(item.name, new)
      <3>1. pc = "patchStatus" /\ UNCHANGED <<secret, secWatch, settings, models, stores>>
        BY <1>6, <2>2 DEF PatchStatus, WriteModule, openfga
      <3>2. CASE modWatch' # <<>> \/ queue' # {}
        BY <3>2, Waiting
      <3>3. CASE ~verdict.ready /\ Len(items) > 1
        BY <2>2, <3>1, <3>3, RunFails DEF PatchedOne
      <3>4. CASE ~verdict.ready /\ ~(Len(items) > 1)
        BY <2>2, <3>4, Waiting DEF PatchedOne, Return
      <3>5. CASE modWatch' = <<>> /\ queue' = {} /\ verdict.ready
        <4>1. /\ item = items[1] /\ 1 \in 1 .. Len(items) /\ item.name \in Name
              /\ items \in Seq([name : Name, gen : Nat])
          BY <1>0, <3>1, HeadTyped DEF WorkerOK
        <4>2. UNCHANGED modules /\ modWatch = <<>> /\ new = modules[item.name]
          <5>1. new = modules[item.name]
            <6>1. ASSUME new # modules[item.name] PROVE FALSE
              <7> DEFINE Event == [name : Name, obj : Module \cup {NoModule}]
                         event == [name |-> item.name, obj |-> new]
              <7>1. modWatch' = Append(modWatch, event)
                BY <2>2, <6>1 DEF WriteModule
              <7>2. modWatch \in Seq(Event)
                BY <1>0 DEF ServerOK
              <7> HIDE DEF event, Event
              <7>3. modWatch' # <<>>
                BY <7>1, <7>2
              <7> QED
                BY <3>5, <7>3
            <6> QED
              BY <6>1
          <5>2. modWatch' = modWatch /\ modules' = [modules EXCEPT ![item.name] = modules[item.name]]
            BY <2>2, <5>1 DEF WriteModule
          <5> QED
            BY <1>0, <3>5, <5>1, <5>2 DEF ServerOK
        <4>3. queue = {} /\ UNCHANGED queue
          BY <2>2, <3>5 DEF PatchedOne, Return
        <4>4. Settled /\ VerdictCurrent /\ ItemsCurrent
          BY <1>0, <3>1, <3>5, <4>2, <4>3 DEF RunCurrent, Settled, Succeeding
        <4>5. secWatch = <<>> => Published(secret, verdict.hash, settings)
          BY <1>0, <3>1, <3>5, <4>4 DEF RunCurrent
        <4>6. ReportedOf(item.name, verdict)
          <5> DEFINE obj == modules[item.name]
                     cond == [ready |-> verdict.ready, reason |-> verdict.reason,
                              msg |-> verdict.msg, ogen |-> item.gen]
          <5>1. obj \in Module /\ item.gen = obj.gen
            BY <1>0, <2>2, <4>1, <4>4 DEF ServerOK, ItemsCurrent
          <5>2. modCache[item.name] = obj
            BY <1>0, <4>2, NothingUnderWay
          <5>3. cond \in Condition
            <6>1. verdict \in Verdict /\ item.gen \in Nat
              BY <1>0, <5>1 DEF WorkerOK, Module
            <6> HIDE DEF item
            <6> QED
              BY <6>1 DEF Verdict, Condition
          <5>4. /\ cond.ready = verdict.ready /\ cond.reason = verdict.reason /\ cond.ogen = item.gen
            OBVIOUS
          <5>5. Patched(obj, obj, item).hash = verdict.hash /\ Patched(obj, obj, item).cond = cond
            <6> HIDE DEF obj, item
            <6> QED
              BY <5>1 DEF Patched, Module
          <5>6. obj.hash = verdict.hash /\ obj.cond = cond
            BY <4>2, <5>2, <5>5
          <5>7. cond # NoCondition
            BY <5>3, DistinctAssumption
          <5> HIDE DEF cond
          <5> QED
            BY <5>1, <5>4, <5>6, <5>7 DEF ReportedOf
        <4>7. CASE Len(items) > 1
          <5>1. items' = Tail(items) /\ UNCHANGED <<pc, verdict>>
            BY <2>2, <4>7 DEF PatchedOne
          <5>2. /\ Len(items') = Len(items) - 1 /\ Len(items) \in Nat
                /\ \A i \in 1 .. Len(items) - 1 : items'[i] = items[i + 1]
            BY <4>1, <4>7, <5>1
          <5>3. \A i \in 1 .. Len(items') : items'[i].name \in Present(modules)
                                            /\ items'[i].gen = modules[items'[i].name].gen
            BY <4>4, <5>2 DEF ItemsCurrent
          <5>4. ASSUME NEW n \in Present(modules)
                PROVE  (\E i \in 1 .. Len(items') : items'[i].name = n) \/ ReportedOf(n, verdict)
            <6>1. CASE \E i \in 1 .. Len(items) : items[i].name = n
              <7> PICK i \in 1 .. Len(items) : items[i].name = n
                BY <6>1
              <7>1. CASE i = 1
                BY <4>1, <4>6, <7>1
              <7>2. CASE i # 1
                <8>1. i - 1 \in 1 .. Len(items') /\ items'[i - 1] = items[i]
                  BY <5>2, <7>2
                <8> QED
                  BY <8>1
              <7> QED
                BY <7>1, <7>2
            <6> QED
              BY <4>4, <6>1 DEF ItemsCurrent
          <5>5. ASSUME NEW n PROVE ReportedOf(n, verdict)' <=> ReportedOf(n, verdict)
            BY <4>2, <5>1 DEF ReportedOf
          <5>6. ItemsCurrent'
            BY <3>1, <4>2, <5>1, <5>3, <5>4, <5>5, BuiltStays DEF ItemsCurrent
          <5>7. VerdictCurrent'
            BY <3>1, <4>2, <4>4, <5>1, BuiltStays DEF VerdictCurrent
          <5>8. secWatch' = <<>> => Published(secret, verdict.hash, settings)'
            BY <3>1, <4>5, <5>1 DEF Published, HasConfig
          <5> QED
            BY <3>1, <5>1, <5>6, <5>7, <5>8 DEF RunCurrent, QuietMeansShown, Quiet
        <4>8. CASE ~(Len(items) > 1)
          <5>1. pc' = "idle"
            BY <2>2, <4>8 DEF PatchedOne, Return
          <5>2. \A n \in Present(modules) : ReportedOf(n, verdict)
            <6>1. 1 .. Len(items) = {1}
              BY <4>1, <4>8
            <6> QED
              BY <4>1, <4>4, <4>6, <6>1 DEF ItemsCurrent
          <5>3. secWatch = <<>> => Shown
            BY <1>0, <3>1, <3>5, <4>4, <4>5, <5>2, RunEnds
          <5>4. QuietMeansShown'
            BY <3>1, <4>2, <5>3, ShownStays DEF QuietMeansShown, Quiet
          <5> QED
            BY <5>1, <5>4 DEF RunCurrent, Succeeding
        <4> QED
          BY <4>7, <4>8
      <3> QED
        BY <3>2, <3>3, <3>4, <3>5
    <2> QED
      BY <1>6, <2>1, <2>2 DEF PatchStatus
  <1>7. CASE DeliverModule \/ DeliverSecret
    BY <1>7, Waiting DEF DeliverModule, DeliverSecret
  <1>8. CASE CreateModule \/ UpdateModule \/ RemoveModule
    <2> DEFINE Event == [name : Name, obj : Module \cup {NoModule}]
    <2> PICK n \in Name, obj \in Module \cup {NoModule} : WriteModule(n, obj) /\ obj # modules[n]
      BY <1>0, <1>8, UserWrites
    <2> DEFINE event == [name |-> n, obj |-> obj]
    <2>1. modWatch' = Append(modWatch, event) /\ event \in Event /\ modWatch \in Seq(Event)
      BY <1>0 DEF WriteModule, ServerOK
    <2> HIDE DEF event, Event
    <2>2. modWatch' # <<>>
      BY <2>1
    <2> QED
      BY <2>2, Waiting
  <1>9. CASE RemoveSecret \/ EditSecret
    <2>1. UserStep
      BY <1>9 DEF RemoveSecret, EditSecret
    <2>2. UNCHANGED <<caches, modules, modWatch, queue, settings, pc, verdict, items>>
      BY <1>9, <2>1 DEF RemoveSecret, EditSecret, UserStep, WriteSecret, locals, openfga
    <2>3. secWatch' = <<>> => UNCHANGED <<secret, secWatch>>
      BY <1>0, <1>9, <2>2, UserEdits, SecretFollows
    <2> QED
      BY <1>0, <2>2, <2>3, ClaimsStay
  <1>10. CASE Restart
    <2>1. /\ pc' = "idle" /\ UNCHANGED <<modules, secret>>
          /\ queue' = Present(modules) \cup (IF secret = NoSecret THEN {} ELSE {SecretKey})
      BY <1>10 DEF Restart
    <2>2. queue' = {} => Present(modules') = {} /\ secret' = NoSecret
      BY <2>1, BuiltStays
    <2> QED
      BY <2>1, <2>2 DEF RunCurrent, Succeeding, QuietMeansShown, Quiet, Shown
  <1>11. CASE UNCHANGED vars
    <2>1. UNCHANGED <<modules, secret, secWatch, modWatch, queue, settings, pc, verdict, items, models, stores>>
      BY <1>11 DEF vars, server, locals, openfga
    <2> QED
      BY <1>0, <2>1, ClaimsStay
  <1> QED
    BY <1>1, <1>2, <1>3, <1>4, <1>5, <1>6, <1>7, <1>8, <1>9, <1>10, <1>11 DEF FreshNext, Environment

\* So what the controller can see is as it should be whenever it rests.
LEMMA CalmStep == TypeOK /\ CalmInv /\ [FreshNext]_vars => CalmInv'
  BY FollowStep, FixedStep, RunStep DEF CalmInv

LEMMA CalmFirst == Init => CalmInv
  BY DEF Init, CalmInv, QuietMeansShown, Shown, Present, CachesFollow, StoreFixed, RunCurrent, Succeeding

\* What OpenFGA holds is then as it should be too.
LEMMA ShownConverged ==
    ASSUME ServerOK, Shown, SecretFaithful, StoreKept
    PROVE  Converged
  <1> DEFINE v == Prepare(Listing(SetToSeq(Present(modules)), modules), settings)
  <1>1. CASE Present(modules) = {}
    BY <1>1 DEF Shown, Converged
  <1>2. CASE Present(modules) # {} /\ ~v.ready
    <2>1. Wanted = v
      BY <1>2 DEF Wanted
    <2> QED
      BY <1>2, <2>1 DEF Shown, Converged
  <1>3. CASE Present(modules) # {} /\ v.ready
    <2>1. Published(secret, v.hash, settings) /\ Reported(v)
      BY <1>3 DEF Shown
    <2>2. Serves(v.hash)
      BY <2>1 DEF Published, CredentialsMatch, Serves, SecretFaithful, Faithful
    <2>3. settings.store # None => stores[settings.store] = settings.url
      BY <2>2 DEF Serves, StoreKept
    <2>4. Wanted = v
      BY <2>3 DEF Wanted
    <2> QED
      BY <1>3, <2>1, <2>2, <2>4 DEF Converged
  <1> QED
    BY <1>1, <1>2, <1>3

\* No wake-up is lost: events merged into one key, runs on stale caches,
\* conflicts, statuses patched against a stale base and restarts all leave
\* something in the queue or under way as long as the cluster is not as it
\* should be.
THEOREM NoWakeupLost == System => []QuietMeansConverged
  <1>1. Init => StoreKept
    BY DEF Init, StoreKept, HasConfig
  <1>2. TypeOK /\ SecretFaithful /\ CalmInv /\ StoreKept => QuietMeansConverged
    BY ShownConverged DEF CalmInv, QuietMeansShown, QuietMeansConverged, TypeOK
  <1> QED
    BY <1>1, <1>2, CalmFirst, CalmStep, StoreStep, NextIsFresh, TypeCorrect, SecretIsFaithful, PTL DEF System
=============================================================================
