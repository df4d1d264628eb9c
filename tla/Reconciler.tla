----------------------------- MODULE Reconciler -----------------------------
(***************************************************************************)
(* The authorization-module controller: one manager process, the API       *)
(* server it watches and writes to, and the OpenFGA instances it publishes *)
(* models to.                                                              *)
(*                                                                         *)
(* The controller reads through the manager's client, so every Get and     *)
(* List is answered by an informer cache.  Each of the two caches (modules *)
(* and Secrets) is filled by a watch stream of its own: the API server     *)
(* appends an event for every change, and an event is delivered some time  *)
(* later, when it updates the cache and queues a key.  Writes go straight  *)
(* to the API server.  One worker takes the keys; what it does does not    *)
(* depend on the key, it compiles all modules every time.                  *)
(***************************************************************************)
EXTENDS ClientConfig, Integers, Sequences, FiniteSets, SequencesExt

CONSTANTS
    Name,        \* names of AuthorizationModules, namespace included
    Spec,        \* specifications a module may be given
    SecretKey,   \* the key that the Secret's events queue
    NoModule,    \* the module does not exist
    NoCondition, \* a status without the condition Ready
    Url,         \* OpenFGA API URLs
    Token,       \* API tokens
    StoreId,     \* identifiers OpenFGA gives to stores
    ModelId,     \* identifiers OpenFGA gives to authorization models
    Hash,        \* hashes of compiled models
    Settings,    \* the environments a manager process may be started with
    BuildError,  \* messages a failing build may have
    Build(_),    \* Compile, Hash, MarshalWriteRequest and ParseWriteRequest
    MaxOps,      \* bound: what users do to modules and Secret, and restarts
    MaxFaults,   \* bound: calls to OpenFGA or to the API server that fail
    MaxGen,      \* bound: generation of a module
    MaxLag       \* bound: events under way on one watch stream

Reason == {"", "ModelPublished", "ModelCompileFailed", "ModelHashFailed",
           "ModelValidationFailed", "ModelPublishFailed", "ClientConfigWriteFailed"}
Message == BuildError \cup {"", "Authorization model published", "OPENFGA_API_URL is required",
                            "OpenFGA call failed", "Secret write failed"}

\* What a reconcile run reports in every status: the condition Ready, and
\* the hash of the published model (None in every failure).
Verdict == [ready : BOOLEAN, reason : Reason, msg : Message, hash : Hash \cup {None}]

\* patchFailure and patchPublishedStatuses.
Failed(reason, msg) == [ready |-> FALSE, reason |-> reason, msg |-> msg, hash |-> None]
Succeeded(hash) == [ready |-> TRUE, reason |-> "ModelPublished",
                    msg |-> "Authorization model published", hash |-> hash]

Condition == [ready : BOOLEAN, reason : Reason, msg : Message, ogen : Nat]
Module == [gen : Nat, spec : Spec, hash : Hash \cup {None}, cond : Condition \cup {NoCondition}]
Config == [url : Url, token : Token \cup {None}, store : StoreId, model : ModelId \cup {None}]
Secret == [hash : Hash, data : Config \cup {NoData}]
Setting == [url : Url \cup {None}, token : Token \cup {None}, store : StoreId \cup {None}]
Stored == [url : Url, store : StoreId, hash : Hash]  \* a model inside OpenFGA

Item == [name : Name, spec : Spec]
\* What a cache may list: modules in some order, no name twice.
Listings ==
    {l \in UNION {[1 .. n -> Item] : n \in 1 .. Cardinality(Name)} :
        \A i, j \in DOMAIN l : i # j => l[i].name # l[j].name}

ASSUME NameAssumption == IsFiniteSet(Name)
ASSUME DistinctAssumption ==
    /\ None \notin Name /\ None # SecretKey
    /\ None \notin Hash \cup StoreId \cup ModelId \cup Url
    /\ NoModule \notin Module
    /\ NoCondition \notin Condition
    /\ NoSecret \notin Secret
    /\ NoData \notin Config
ASSUME SettingsAssumption == Settings \subseteq Setting
ASSUME BoundsAssumption == {MaxOps, MaxFaults, MaxGen, MaxLag} \subseteq Nat
\* A build either fails or yields the hash of a model; in which order the
\* cache lists the modules changes at most the message of a failure.
ASSUME BuildTypeAssumption ==
    \A l \in Listings : Build(l) \in Verdict /\ (Build(l).ready <=> Build(l).hash # None)
ASSUME BuildOrderAssumption ==
    \A l, m \in Listings : Range(l) = Range(m) => Build(l).ready = Build(m).ready
                                                  /\ Build(l).hash = Build(m).hash
                                                  /\ Build(l).reason = Build(m).reason

VARIABLES
    modules,   \* API server: the AuthorizationModules
    secret,    \* API server: the client configuration Secret
    modWatch,  \* module events not delivered yet, oldest first
    secWatch,  \* Secret events not delivered yet, oldest first
    modCache,  \* manager: informer cache of modules
    secCache,  \* manager: informer cache of the Secret
    queue,     \* manager: keys waiting in the workqueue, back-off included
    settings,  \* manager: the environment the process was started with
    pc,        \* worker: the call it makes next
    key,       \* worker: the key it holds
    items,     \* worker: listed modules whose status is still to be patched
    verdict,   \* worker: what it is going to report
    existing,  \* worker: the Secret it read before it published
    storeID,   \* worker: the store it publishes to
    modelID,   \* worker: the model it published
    stores,    \* OpenFGA: the URL each store lives at
    models,    \* OpenFGA: the models
    published, \* history: hashes some write of the Secret has carried
    ops, faults \* spent budgets

server == <<modules, secret, modWatch, secWatch>>
caches == <<modCache, secCache>>
locals == <<key, items, verdict, existing, storeID, modelID>>
openfga == <<stores, models>>
vars == <<server, caches, queue, settings, pc, locals, openfga, published, ops, faults>>

NoVerdict == Failed("", "")

Present(mods) == {n \in Name : mods[n] # NoModule}

\* A module as it is created: generation 1 and an empty status.
Created(spec) == [gen |-> 1, spec |-> spec, hash |-> None, cond |-> NoCondition]

Listing(order, mods) ==
    [i \in DOMAIN order |-> [name |-> order[i], spec |-> mods[order[i]].spec]]

\* The run up to its first remote call: the build, then the environment.
Prepare(listing, s) ==
    IF ~Build(listing).ready \/ SettingsComplete(s) THEN Build(listing)
    ELSE Failed("ModelPublishFailed", "OPENFGA_API_URL is required")

(***************************************************************************)
(* OpenFGA never gives an identifier twice.  The model keeps what OpenFGA  *)
(* holds only under identifiers that a configuration, the environment or   *)
(* the worker still names, and a new identifier is one that none of them   *)
(* names; which one makes no difference, so it is chosen.                  *)
(***************************************************************************)
ConfigsSeen ==
    {s.data : s \in {t \in {secret, secCache, existing} \cup Range(secWatch) : HasConfig(t)}}

ModelsSeen == {c.model : c \in ConfigsSeen} \cup {modelID}

StoresSeen == {c.store : c \in ConfigsSeen} \cup {storeID} \cup {s.store : s \in Settings}

NewStore == CHOOSE s \in StoreId : s \notin StoresSeen
NewModel == CHOOSE m \in ModelId : m \notin ModelsSeen

-----------------------------------------------------------------------------
(* Writes at the API server.  A write that changes nothing has no event.   *)

WriteModule(n, obj) ==
    /\ modules' = [modules EXCEPT ![n] = obj]
    /\ IF obj = modules[n] THEN UNCHANGED modWatch
       ELSE /\ Len(modWatch) < MaxLag
            /\ modWatch' = Append(modWatch, [name |-> n, obj |-> obj])
    /\ UNCHANGED <<secret, secWatch>>

WriteSecret(obj) ==
    /\ secret' = obj
    /\ IF obj = secret THEN UNCHANGED secWatch
       ELSE /\ Len(secWatch) < MaxLag
            /\ secWatch' = Append(secWatch, obj)
    /\ UNCHANGED <<modules, modWatch>>

\* A call that fails for reasons of its own: an outage, a timeout, a lost
\* response.
Fault == faults < MaxFaults /\ faults' = faults + 1
NoFault == UNCHANGED faults

-----------------------------------------------------------------------------
(* The worker.                                                             *)

\* Turn to the statuses of the listed modules, to report v.
Report(v) ==
    /\ pc' = "patchStatus"
    /\ verdict' = v
    /\ existing' = NoSecret /\ storeID' = None /\ modelID' = None
    /\ UNCHANGED <<key, items, queue>>

\* Mutant of Return: an error is logged and not returned.
ReturnWithoutRetry(error) ==
    /\ pc' = "idle" /\ UNCHANGED queue
    /\ key' = None /\ items' = <<>> /\ verdict' = NoVerdict
    /\ existing' = NoSecret /\ storeID' = None /\ modelID' = None

\* Reconcile returns; with an error its key is queued again.
Return(error) ==
    /\ pc' = "idle"
    /\ queue' = IF error THEN queue \cup {key} ELSE queue
    /\ key' = None /\ items' = <<>> /\ verdict' = NoVerdict
    /\ existing' = NoSecret /\ storeID' = None /\ modelID' = None

\* Take a key, list the cache (in any order) and build the model.
ListAndBuild ==
    /\ pc = "idle"
    /\ \E k \in queue, order \in SetToSeqs(Present(modCache)) :
          /\ queue' = queue \ {k}
          /\ key' = k
          /\ items' = [i \in DOMAIN order |->
                         [name |-> order[i], gen |-> modCache[order[i]].gen]]
          /\ \/ /\ order = <<>>
                /\ pc' = "deleteSecret"
                /\ verdict' = NoVerdict
             \/ /\ order # <<>>
                /\ verdict' = Prepare(Listing(order, modCache), settings)
                /\ pc' = IF verdict'.ready THEN "getSecret" ELSE "patchStatus"
    /\ UNCHANGED <<server, caches, settings, existing, storeID, modelID, openfga, published, ops, faults>>

\* No module is left: delete the Secret, whatever version of it there is.
DeleteSecret ==
    /\ pc = "deleteSecret"
    /\ \/ WriteSecret(NoSecret) /\ Return(FALSE) /\ NoFault
       \/ WriteSecret(NoSecret) /\ Return(TRUE) /\ Fault
       \/ UNCHANGED server /\ Return(TRUE) /\ Fault
    /\ UNCHANGED <<caches, settings, openfga, published, ops>>

\* Read the Secret (from the cache).  If it names the model already, only
\* the statuses are left to patch; otherwise choose the store.
GetSecret ==
    /\ pc = "getSecret"
    /\ \/ /\ Published(secCache, verdict.hash, settings)
          /\ Report(verdict)
       \/ /\ ~Published(secCache, verdict.hash, settings)
          /\ existing' = secCache
          /\ storeID' = StoreFor(secCache, settings)
          /\ pc' = IF storeID' = None THEN "createStore" ELSE "writeModel"
          /\ UNCHANGED <<key, items, verdict, modelID, queue>>
    /\ UNCHANGED <<server, caches, settings, openfga, published, ops, faults>>

\* Mutant of PublishFailed: the failure is reported with the model's hash.
PublishFailedWithHash == [verdict EXCEPT !.ready = FALSE, !.reason = "ModelPublishFailed"]

PublishFailed == Failed("ModelPublishFailed", "OpenFGA call failed")

\* Publish without a store: a new one is made, under the identifier new.
\* Of the others only those in kept are still named by anybody.
CreateStoreAs(new, kept) ==
    /\ pc = "createStore"
    /\ \/ /\ StoreId \ kept # {}
          /\ stores' = [s \in StoreId |-> IF s = new THEN settings.url
                                          ELSE IF s \in kept THEN stores[s] ELSE None]
          /\ storeID' = new
          /\ pc' = "writeModel"
          /\ NoFault
          /\ UNCHANGED <<key, items, verdict, existing, modelID, queue>>
       \/ Report(PublishFailed) /\ Fault /\ UNCHANGED stores
    /\ UNCHANGED <<server, caches, settings, models, published, ops>>

CreateStore == CreateStoreAs(NewStore, StoresSeen)

\* OpenFGA refuses a model for a store it does not have.
WriteModelAs(new, kept) ==
    /\ pc = "writeModel"
    /\ \/ /\ stores[storeID] = settings.url
          /\ ModelId \ kept # {}
          /\ models' = [m \in ModelId |->
               IF m = new
               THEN [url |-> settings.url, store |-> storeID, hash |-> verdict.hash]
               ELSE IF m \in kept THEN models[m] ELSE None]
          /\ modelID' = new
          /\ pc' = "applySecret"
          /\ NoFault
          /\ UNCHANGED <<key, items, verdict, existing, storeID, queue>>
       \/ stores[storeID] # settings.url /\ Report(PublishFailed) /\ NoFault /\ UNCHANGED models
       \/ Report(PublishFailed) /\ Fault /\ UNCHANGED models
    /\ UNCHANGED <<server, caches, settings, stores, published, ops>>

WriteModel == WriteModelAs(NewModel, ModelsSeen)

\* Mutant of ApplyFailed: the error is dropped.
ApplyFailureIgnored == verdict

ApplyFailed == Failed("ClientConfigWriteFailed", "Secret write failed")

\* CreateOrUpdate reads the cache again: a Secret it does not find there is
\* created, one it finds is updated at the version the cache has, which is
\* the server's version when no event is under way.
ApplyAccepted == IF secCache = NoSecret THEN secret = NoSecret
                                        ELSE secret # NoSecret /\ secWatch = <<>>

\* Mutant of NewSecret: a Secret that exists keeps its annotation.
NewSecretOldHash ==
    [hash |-> IF secCache = NoSecret THEN verdict.hash ELSE secCache.hash,
     data |-> New(settings, storeID, modelID)]

NewSecret == [hash |-> verdict.hash, data |-> New(settings, storeID, modelID)]

ApplySecret ==
    /\ pc = "applySecret"
    /\ \/ /\ ApplyAccepted
          /\ WriteSecret(NewSecret)
          /\ published' = published \cup {verdict.hash}
          /\ \/ Report(verdict) /\ NoFault
             \/ Report(ApplyFailed) /\ Fault
       \/ /\ (~ApplyAccepted /\ NoFault) \/ Fault
          /\ Report(ApplyFailed)
          /\ UNCHANGED <<server, published>>
    /\ UNCHANGED <<caches, settings, openfga, ops>>

\* Mutant of Patched: the generation is the one the module has by now.
PatchedAsRead(obj, base, item) ==
    LET cond == [ready |-> verdict.ready, reason |-> verdict.reason,
                 msg |-> verdict.msg, ogen |-> base.gen]
    IN [obj EXCEPT !.hash = IF base.hash = verdict.hash THEN @ ELSE verdict.hash,
                   !.cond = IF base.cond = cond THEN @ ELSE cond]

\* What the merge patch of a status makes of the server's object: a field
\* is sent only if the wanted value is not the cached one.
Patched(obj, base, item) ==
    LET cond == [ready |-> verdict.ready, reason |-> verdict.reason,
                 msg |-> verdict.msg, ogen |-> item.gen]
    IN [obj EXCEPT !.hash = IF base.hash = verdict.hash THEN @ ELSE verdict.hash,
                   !.cond = IF base.cond = cond THEN @ ELSE cond]

\* Mutant of PatchedOne: the loop returns after its first module.
FirstPatchedOnly == Return(~verdict.ready)

\* The status of one listed module was patched: go on, or return the error
\* that a failure is reported with.
PatchedOne ==
    IF Len(items) > 1
    THEN /\ items' = Tail(items)
         /\ UNCHANGED <<pc, key, verdict, existing, storeID, modelID, queue>>
    ELSE Return(~verdict.ready)

\* Patch the status of the next listed module.  The first that fails ends
\* the run with an error.
PatchStatus ==
    /\ pc = "patchStatus"
    /\ LET item == Head(items)
           base == modCache[item.name]
           obj  == modules[item.name]
       IN \/ /\ base # NoModule /\ obj # NoModule
             /\ WriteModule(item.name, Patched(obj, base, item))
             /\ \/ PatchedOne /\ NoFault
                \/ Return(TRUE) /\ Fault
          \/ /\ ((base = NoModule \/ obj = NoModule) /\ NoFault) \/ Fault
             /\ Return(TRUE)
             /\ UNCHANGED server
    /\ UNCHANGED <<caches, settings, openfga, published, ops>>

Worker == ListAndBuild \/ DeleteSecret \/ GetSecret \/ CreateStore \/ WriteModel
          \/ ApplySecret \/ PatchStatus

-----------------------------------------------------------------------------
(* The informers.                                                          *)

\* Every module event queues the module's own key.
DeliverModule ==
    /\ modWatch # <<>>
    /\ LET e == Head(modWatch)
       IN /\ modCache' = [modCache EXCEPT ![e.name] = e.obj]
          /\ queue' = queue \cup {e.name}
    /\ modWatch' = Tail(modWatch)
    /\ UNCHANGED <<modules, secret, secWatch, secCache, settings, pc, locals, openfga, published, ops, faults>>

\* Mutant of DeliverSecret: the Secret is not watched, its cache is only kept.
DeliverSecretUnwatched ==
    /\ secWatch # <<>>
    /\ secCache' = Head(secWatch)
    /\ secWatch' = Tail(secWatch)
    /\ UNCHANGED <<modules, secret, modWatch, modCache, queue, settings, pc, locals, openfga, published, ops, faults>>

DeliverSecret ==
    /\ secWatch # <<>>
    /\ secCache' = Head(secWatch)
    /\ queue' = queue \cup {SecretKey}
    /\ secWatch' = Tail(secWatch)
    /\ UNCHANGED <<modules, secret, modWatch, modCache, settings, pc, locals, openfga, published, ops, faults>>

-----------------------------------------------------------------------------
(* Users and the cluster.                                                  *)

Op == ops < MaxOps /\ ops' = ops + 1

UserStep == Op /\ UNCHANGED <<caches, queue, settings, pc, locals, openfga, published, faults>>

CreateModule ==
    /\ \E n \in Name \ Present(modules), sp \in Spec : WriteModule(n, Created(sp))
    /\ UserStep

\* A change of the specification raises the generation.
UpdateModule ==
    /\ \E n \in Present(modules), sp \in Spec :
          /\ modules[n].spec # sp
          /\ modules[n].gen < MaxGen
          /\ WriteModule(n, [modules[n] EXCEPT !.spec = sp, !.gen = @ + 1])
    /\ UserStep

RemoveModule ==
    /\ \E n \in Present(modules) : WriteModule(n, NoModule)
    /\ UserStep

RemoveSecret ==
    /\ secret # NoSecret
    /\ WriteSecret(NoSecret)
    /\ UserStep

\* Somebody empties the configuration, or blanks the model in it.
EditSecret ==
    /\ HasConfig(secret)
    /\ \E d \in {NoData, [secret.data EXCEPT !.model = None]} :
          WriteSecret([secret EXCEPT !.data = d])
    /\ UserStep

\* Mutant of Restart: the worker starts before the cache of modules is filled.
RestartUnsynced ==
    /\ Op
    /\ modCache' = [n \in Name |-> NoModule] /\ secCache' = secret
    /\ modWatch' = <<>> /\ secWatch' = <<>>
    /\ queue' = Present(modules) \cup (IF secret = NoSecret THEN {} ELSE {SecretKey})
    /\ settings' \in Settings
    /\ pc' = "idle"
    /\ key' = None /\ items' = <<>> /\ verdict' = NoVerdict
    /\ existing' = NoSecret /\ storeID' = None /\ modelID' = None
    /\ UNCHANGED <<modules, secret, openfga, published, faults>>

\* The manager dies at any point and a new one starts: its caches are filled
\* by fresh lists, and every object found queues its key.
Restart ==
    /\ Op
    /\ modCache' = modules /\ secCache' = secret
    /\ modWatch' = <<>> /\ secWatch' = <<>>
    /\ queue' = Present(modules) \cup (IF secret = NoSecret THEN {} ELSE {SecretKey})
    /\ settings' \in Settings
    /\ pc' = "idle"
    /\ key' = None /\ items' = <<>> /\ verdict' = NoVerdict
    /\ existing' = NoSecret /\ storeID' = None /\ modelID' = None
    /\ UNCHANGED <<modules, secret, openfga, published, faults>>

Environment == CreateModule \/ UpdateModule \/ RemoveModule \/ RemoveSecret \/ EditSecret \/ Restart

-----------------------------------------------------------------------------
\* A fresh cluster.  A store named in an environment exists, at the URL of
\* one of the environments that name it.
Init ==
    /\ modules = [n \in Name |-> NoModule] /\ modCache = modules
    /\ secret = NoSecret /\ secCache = NoSecret
    /\ modWatch = <<>> /\ secWatch = <<>>
    /\ queue = {}
    /\ settings \in Settings
    /\ pc = "idle"
    /\ key = None /\ items = <<>> /\ verdict = NoVerdict
    /\ existing = NoSecret /\ storeID = None /\ modelID = None
    /\ stores = [i \in StoreId |->
         IF \E s \in Settings : s.store = i THEN (CHOOSE s \in Settings : s.store = i).url ELSE None]
    /\ models = [m \in ModelId |-> None]
    /\ published = {}
    /\ ops = 0 /\ faults = 0

Next == Worker \/ DeliverModule \/ DeliverSecret \/ Environment

\* The worker, once it has a key and the lag allows its write, goes on, and
\* the informers deliver.  Nobody has to use the system.
Fairness == WF_vars(Worker) /\ WF_vars(DeliverModule) /\ WF_vars(DeliverSecret)

System == Init /\ [][Next]_vars
FairSystem == System /\ Fairness
-----------------------------------------------------------------------------
(* What the controller promises.                                           *)

ServerOK ==
    /\ modules \in [Name -> Module \cup {NoModule}]
    /\ modWatch \in Seq([name : Name, obj : Module \cup {NoModule}])
    /\ secret \in Secret \cup {NoSecret}
    /\ secWatch \in Seq(Secret \cup {NoSecret})

ManagerOK ==
    /\ modCache \in [Name -> Module \cup {NoModule}]
    /\ secCache \in Secret \cup {NoSecret}
    /\ queue \subseteq Name \cup {SecretKey}
    /\ settings \in Settings

WorkerOK ==
    /\ pc \in {"idle", "deleteSecret", "getSecret", "createStore", "writeModel",
               "applySecret", "patchStatus"}
    /\ key \in Name \cup {SecretKey, None}
    /\ key = None <=> pc = "idle"
    /\ items \in Seq([name : Name, gen : Nat])
    /\ items = <<>> <=> pc \in {"idle", "deleteSecret"}
    /\ verdict \in Verdict
    /\ verdict.ready <=> verdict.hash # None
    /\ pc \in {"getSecret", "createStore", "writeModel", "applySecret"} =>
          verdict.ready /\ settings.url # None
    /\ existing \in Secret \cup {NoSecret}
    /\ storeID \in StoreId \cup {None}
    /\ pc \in {"writeModel", "applySecret"} => storeID # None
    /\ modelID \in ModelId \cup {None}
    /\ pc = "applySecret" => modelID # None

OpenFGAOK ==
    /\ stores \in [StoreId -> Url \cup {None}]
    /\ models \in [ModelId -> Stored \cup {None}]

SpentOK == published \subseteq Hash /\ ops \in 0 .. MaxOps /\ faults \in 0 .. MaxFaults

\* Every variable holds a value of its kind, and the worker's locals are set
\* as far as the run has come: it holds a key unless it is idle, has modules
\* to report to, and never writes a model without a store or a Secret
\* without a model.
TypeOK == ServerOK /\ ManagerOK /\ WorkerOK /\ OpenFGAOK /\ SpentOK

\* A Secret that names a model tells the truth about it: OpenFGA has that
\* model, at the Secret's URL and in its store, and it is the model whose
\* hash the Secret is annotated with.  The model was written under settings
\* and a listing read many steps before the Secret (Publish, then
\* applyOpenFGAClientConfigSecret), with restarts and failures in between.
Faithful(s) ==
    HasConfig(s) /\ s.data.model # None =>
        models[s.data.model] = [url |-> s.data.url, store |-> s.data.store, hash |-> s.hash]

SecretFaithful == Faithful(secret)

\* No module is reported Ready, or given an observed hash, for a model whose
\* configuration no write of the Secret has ever carried: clients could read
\* a model hash off a status before they could use the model.
ReadyWasPublished ==
    \A n \in Present(modules) :
        /\ modules[n].hash # None => modules[n].hash \in published
        /\ modules[n].cond # NoCondition /\ modules[n].cond.ready => published # {}

\* Nothing is left to do: no key waits and no event is under way.
Quiet == pc = "idle" /\ queue = {} /\ modWatch = <<>> /\ secWatch = <<>>

\* The verdict on the modules as they are at the server.  Nothing can be
\* published to a store that the environment names and OpenFGA does not have.
Wanted ==
    LET v == Prepare(Listing(SetToSeq(Present(modules)), modules), settings)
    IN IF v.ready /\ settings.store # None /\ stores[settings.store] # settings.url
       THEN PublishFailed ELSE v

\* Clients that follow the Secret reach the model with this hash: where the
\* manager publishes now, in the store it is told to use, and OpenFGA has it.
Serves(hash) ==
    /\ HasConfig(secret) /\ secret.hash = hash
    /\ LET c == secret.data
       IN /\ c.url = settings.url /\ c.token = settings.token
          /\ settings.store \in {None, c.store}
          /\ c.model # None
          /\ models[c.model] = [url |-> c.url, store |-> c.store, hash |-> hash]

\* Every status says v, about the current generation of its module.
Reported(v) ==
    \A n \in Present(modules) :
        /\ modules[n].hash = v.hash
        /\ modules[n].cond # NoCondition
        /\ modules[n].cond.ready = v.ready
        /\ modules[n].cond.reason = v.reason
        /\ modules[n].cond.ogen = modules[n].gen

\* What the controller is for.  Without modules there is no Secret.
\* Otherwise every status says what the build of the current modules says,
\* about the current generation, and if it says Ready then the Secret serves
\* that model.
Converged ==
    IF Present(modules) = {} THEN secret = NoSecret
    ELSE /\ Wanted.ready => Serves(Wanted.hash)
         /\ Reported(Wanted)

\* No wake-up is lost: a controller with nothing left to do has nothing left
\* to repair.  Events merged into one key, runs on stale caches, conflicts,
\* statuses patched against a stale base and restarts all leave something in
\* the queue or under way as long as the cluster is not as it should be.
QuietMeansConverged == Quiet => Converged

\* Replacing a Secret that is the one the store was chosen from keeps its
\* store, as long as the URL stays and the environment names no store
\* (storeIDFromSecret): clients' tuples live in that store.
SameSecretSameStore ==
    [][ApplySecret /\ secret' # secret /\ secret = existing /\ HasConfig(secret)
       /\ secret.data.url = settings.url /\ settings.store = None
          => secret'.data.store = secret.data.store]_vars

\* Once users stop and calls stop failing, the cluster becomes as it should
\* be and stays so.
EventuallyConverges == <>[]Converged

\* And then the controller rests, unless what it reports is a failure, which
\* it retries: every write it makes is an event that wakes it, so a run that
\* finds something to write each time would keep it busy for ever, with all
\* as it should be.
EventuallyRests == <>[](Quiet \/ (Present(modules) # {} /\ ~Wanted.ready))

(* What tests of the controller say, and a cached client does not keep.    *)

\* "should reuse the store ID from an existing client configuration Secret":
\* a Secret that names a store at the current URL is never replaced by one
\* that names another store, unless the environment asks for it.
StoreReused ==
    [][ApplySecret /\ secret' # secret /\ HasConfig(secret)
       /\ secret.data.url = settings.url /\ settings.store = None
          => secret'.data.store = secret.data.store]_vars

\* "should skip publishing when the output Secret already has the current
\* model hash": no model is written while the Secret names one already.
PublishedOnce ==
    [][WriteModel /\ modelID' # None => ~Published(secret, verdict.hash, settings)]_vars

\* "should mark modules not ready when compilation fails": a status that is
\* not Ready carries no hash.
NotReadyHasNoHash ==
    \A n \in Present(modules) :
        modules[n].cond # NoCondition /\ ~modules[n].cond.ready => modules[n].hash = None
=============================================================================
