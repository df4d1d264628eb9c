# Verification of authz-operator

authz-operator watches `AuthorizationModule` objects, compiles all of them into one OpenFGA
authorization model, publishes that model to an OpenFGA store and writes a Secret from which clients
learn store and model. This directory models the operator in TLA+: TLC checks small instances, and
TLAPS proves for all of them every safety property the instances are checked for, and that the
controller implements an abstract specification of what its clients are promised.

## Inventory

| component | state | operations | interacts with |
|---|---|---|---|
| reconciler, `internal/controller/authorizationmodule_controller.go` | workqueue, locals of the run in progress | `Reconcile`, `publishAuthorizationModel`, `patchStatuses`, apply and delete the Secret | informer caches (reads), API server (writes), publisher |
| publisher, `internal/controller/openfga_publisher.go` | none | `Publish`: create a store if none is given, write the model | OpenFGA |
| client configuration, `internal/openfgaconfig/config.go` and the Secret helpers of the reconciler | the Secret | `New`, `Marshal`, `publishedModelFromSecret`, `storeIDFromSecret` | clients mount it |
| compiler, `internal/model/compiler.go` | none (pure) | `Compile`, `Hash`, `MarshalWriteRequest`, `ParseWriteRequest`, `Validate` | OpenFGA's `typesystem` |
| manager, `cmd/main.go` | environment, caches, queue | start, stop | controller-runtime, leases |
| API types, `api/v1` | specs, statuses | CRD validation, generated deep copies | API server, informer caches |
| API server, OpenFGA (external) | objects, watch streams; stores, models | create, update, patch, delete; create store, write model | everything |

What is hard here:

- every read of the reconciler is answered by an informer cache, and modules and Secrets are two
  caches filled by two independent watch streams, while its writes go to the API server;
- a run makes up to four kinds of remote calls; each can fail, or succeed with its response lost,
  and the process can die between any two;
- what a run decides at its start is applied to objects that have changed in the meantime
  (`CreateOrUpdate` on a Secret, merge patches of statuses);
- all events are merged into keys, and the controller does not poll: a wake-up that is lost is not
  made up for (before the caches' resync, every ten hours by default, which the model leaves out);
- the environment (URL, token, store) changes over restarts under a Secret that stays;
- two managers may work at once, during a change of leader or without leader election, and nothing
  in a call tells them apart;
- the Secret is the only record of the store, and the controller never asks OpenFGA whether what it
  names is still there;
- a status is changed in place, in a copy of the cache's object that is compared with another copy;
- modules refer to each other, are listed in no fixed order, and come and go one by one.

What makes each component correct: the reconciler ends with statuses and Secret that say what the
build of the current modules says, never shows a hash that was not published, and never writes a
Secret that lies about its model; a store, once chosen, is kept, since the clients' tuples are in
it; the compiler's output is independent of the order of its input, complete, and isolates the
modules from each other.

## Modules

- **`ClientConfig`**: the Secret's configuration and the questions `publishedModelFromSecret`,
  `storeIDFromSecret` and `credentialsMatch` ask of it.
- **`Reconciler`** (extends it): the manager, the API server, the watch streams and OpenFGA.
- **`MCReconciler`**: instances of it with an abstract compiler.
- **`Publication`**: an abstract specification, what clients that follow the Secret are promised.
- **`Publishing`** (extends `Reconciler`): the controller with a history of the modules' versions,
  and the refinement mapping to `Publication`; **`MCPublishing`**: its instances.
- **`Leaders`** (extends `Reconciler`): two managers over one API server and one OpenFGA;
  **`MCLeaders`**: its instance.
- **`DataLoss`** (extends `Reconciler`): an OpenFGA that loses stores, and identifiers that are
  replaced; **`MCDataLoss`**: its instance.
- **`StatusPatch`**: one module's status, with `DeepCopy`, `setCondition` and the merge patch on a
  heap; **`MCStatusPatch`**: its instance.
- **`ModelCompiler`**: `Compile` as pure operators, and what `Validate` asks of a model.
- **`ApiSchema`**: what the API server admits as a specification.
- **`ModuleEditing`** (extends both): users that edit a listing, with the compiler's properties;
  **`MCModelCompiler`**: its instance.
- **`MCSystem`**: `Publishing`, and with it the `Reconciler`, with its `Build` made from `ModelCompiler`.
- Theorems and their proofs, each module about the one it is named after: **`ReconcilerProofs`**;
  **`ConvergenceProofs`** (extends it): that no wake-up is lost; **`PublishingProofs`** (extends
  `Publishing` and `ConvergenceProofs`): that the controller implements `Publication`, and what its
  statuses tell; **`DataLossProofs`**
  (extends `ConvergenceProofs`); **`SharedProofs`** (extends `ConvergenceProofs`): what a manager can
  rely on while others write to the same API server and OpenFGA; **`LeadersProofs`** (extends it);
  **`CompilerProofs`** (about `ModuleEditing`); **`StatusPatchProofs`**.

Operators called mutants in their comments are faulty forms of the definition that follows them. No
specification uses them. Each stands for a bug that some property of some run would find
(`PROJECT.json` says which).

### Reconciler and the code

The variable `pc` names the call that the worker makes next; one action is the code from one remote
call to the next.

| action | code (`authorizationmodule_controller.go` unless named) |
|---|---|
| `ListAndBuild` | `Reconcile`, 66-119: take a key, list, compile, hash, validate, read the environment |
| `DeleteSecret` | 89-95, 225-236 |
| `GetSecret` | 121-145: cached read, `publishedModelFromSecret`, choice of the store |
| `CreateStore`, `WriteModel` | `Publish`, `openfga_publisher.go` 67-98 |
| `ApplySecret` | 151-157, 195-223: `CreateOrUpdate` |
| `PatchStatus` | one iteration of `patchStatuses`, 249-285 |
| `DeliverModule`, `DeliverSecret` | `SetupWithManager`, 373-391, with the caches and the queue of controller-runtime |
| `Restart` | `main.go` 157-204 |
| `CreateModule`, `UpdateModule`, `RemoveModule`, `RemoveSecret`, `EditSecret` | users; external |

Abstractions, and why they lose nothing that the properties tell apart:

- *Cached read and write in one step.* `ApplySecret` and `PatchStatus` each read the cache and
  write. Between the two, users may change the server and informers may change the cache. What is
  written depends on the cached value at the read, and what becomes of it on the server's value at
  the write, so such a behaviour ends as the one in which the users' changes come just before the
  step and the deliveries just after it: a Secret that was read at an old version conflicts in both.
- *Resource versions.* A cached Secret has the server's version exactly when no event is under way
  on its stream; `ApplyAccepted` says so. A status patch carries no version and never conflicts.
- *The workqueue.* A set of keys: controller-runtime merges equal keys, and runs one worker
  (`MaxConcurrentReconciles` is not set). A key that waits for its back-off is in the set. A key
  that is added while it is held is queued again.
- *Merge patches.* A field is sent if the wanted value differs from the cached one. The conditions
  are one list, replaced as a whole; `LastTransitionTime` changes only along with the fields kept.
- *Identifiers.* OpenFGA never repeats one. What the model remembers of OpenFGA is restricted to
  identifiers that somebody still names, and a fresh one is chosen among the others: without this
  the identifiers, and with them the states, would grow with every retry. Orphaned stores and models
  exist, but no property can name them.
- *Lost responses.* A fault of a write at the API server may leave the write done. A fault of a call
  to OpenFGA leaves at most an orphan, so the model records nothing.
- *Time* (`published-at`), labels, logging and the store's name are left out. Every publication has
  a new model identifier, so a write of the Secret is always a change, as with the time.
- *Reads do not fail.* A `Get` or `List` is answered by a cache that is filled before the worker
  starts. After a restart the two caches are listed one after the other; what changes in between is,
  in the model, an event of the stream whose list came first.
- `EditSecret` empties the configuration or blanks its model; `DataLoss` replaces identifiers by
  other well-formed ones.

### The modules built on Reconciler

`Publishing` adds history variables that no action reads: `past`, the sequence of versions of all
modules (specifications and generations, without statuses), and for each place a version travels
through (`modAt` for the events under way, `cachedAt`, `listedAt`, `shownAt`) the number of the
version there. `damaged` says that somebody other than the operator took away what the Secret
showed. `Publication` sees `past`, `shownAt`, `damaged` and the hash that clients read from the
Secret, and allows three steps: a new version, a Secret that shows the model of a version not older
than the last one shown (or disappears, for a version without modules), and damage. An action of
`Reconciler` is taken along with what it does to the history, so the behaviours are the same.

`Leaders` is `Reconciler` for the leader and an `INSTANCE` of it for the former leader, over the
same `modules`, `secret`, `stores` and `models`. What one of them, or a user, writes is an event on
the streams of both (`FeedFormer`, `FeedLeader`). `Takeover` is `Restart` that leaves the old
process, with its caches, queue and worker, where it was; `Exit` is its end (`main.go` 68-70,
157-204: when a lease cannot be renewed `mgr.Start` returns an error and `main` exits). Two replicas
without `--leader-elect` are a takeover in the first state with no exit. Nothing is claimed about
there being only one manager whose calls have an effect: a former leader with an empty listing
deletes a Secret that its successor has written (225-236 deletes whatever Secret there is), and the
successor hears of it.

`DataLoss` adds `LoseStore` (a store and its models vanish) and `ReplaceIds` (other well-formed
identifiers in the Secret) to the users' actions. Neither makes the Secret look unpublished to
`publishedModelFromSecret`, so `Converged` cannot be asked of the controller; `Trusted` is what it
can know, and deleting the Secret is the repair. The history variable `suspect` says whether there
was damage after the last repair. A removal during a run does not count as a repair: that run may
create a Secret again with the store it took from the old one.

### StatusPatch and the code

| action or operator | code |
|---|---|
| `DeepCopy`, `DeepCopyList`, `SpecSlots`, `EntrySlices`, `StatusSlots` | `zz_generated.deepcopy.go`: which maps and slices get new memory |
| `Judge` | the verdict of a run, controller 168-193 |
| `Prepare` | `patchStatus` 249-257: cached read (a deep copy), `DeepCopy` as the original, the caller's change, `setCondition` in place |
| `Patch` | 255-259: the difference of the two copies, sent as a merge patch |
| `Deliver` | the informer replaces the object in the cache; nothing is changed in place there |
| `Update`, `OthersReport`, `Tick` | users, another writer of conditions, the clock; external |

Maps and slices have names, slots: `topology` is one, the resources of its entry `k` another. The
heap is a sequence of blocks with contents for some slots, and a variable refers, for each slot that
is not nil, to the block that has its contents; assignment copies the references, a generated
`DeepCopy` makes a block for what it copies and keeps the other references. The plain fields need no
memory. When a patch has been sent the heap is reduced to what the cache refers to. The module says what
`Reconciler` takes for granted in `PatchStatus`: that the patch carries the difference between what
was read and the verdict.

### The compiler and the schema

`ModelCompiler` keeps the order of passes and checks, since the first error is the one reported.
Relation names are numbers in the order of `sort.Strings`; the texts of errors are kinds.
The sorts of the output (125-133, 341, 356) are left out: type definitions, relations and what may be
written directly are functions and sets, and `Hash` is a function of these, so a forgotten sort
would not show.
`ApiSchema` says which specifications the validation markers of `api/v1` let through: plain names
where there is a pattern, non-empty lists where there is a minimum. Keys of maps have no marker.

## Runs

Bounds: `MaxOps` counts user operations and restarts, `MaxFaults` failed calls, `MaxGen` the
generation, `MaxLag` the events that one watch stream may be behind. Stores and models (six each)
are more than anybody names at a time, so they never run out. `CHECK_DEADLOCK FALSE` in each,
because the system stops when the users' budget is spent and all is quiet.

| run | instance | shows |
|---|---|---|
| `safety` | two modules, one environment, 2 operations, 1 fault, lag 2 | `TypeOK`, `SecretFaithful`, `ReadyWasPublished`, `QuietMeansConverged`, `SameSecretSameStore` |
| `restarts` | one module, two environments (URL and token differ), 3 operations, 1 fault, lag 1 | `SecretFaithful`, `QuietMeansConverged`, `SameSecretSameStore`, `ConditionWasTrue`, `PublishesVersions` over changes of the environment |
| `liveness` | one module, five environments, 2 operations, 1 fault, lag 2 | `EventuallyConverges`, `EventuallyRests` |
| `system` | two modules out of three specifications, real compiler, 2 operations, lag 2 | `SecretFaithful`, `QuietMeansConverged`, `ConditionWasTrue`, `PublishesVersions`, `EventuallyConverges`, listings that do not compile included |
| `leaders` | one module, one environment, 2 operations or takeovers, lag 1, from a published cluster | `SecretFaithful`, `ReadyWasPublished`, `QuietMeansConverged` with two managers |
| `data_loss` | one published module, two environments (one fixes the store), 2 operations or damages, lag 1 | `QuietMeansTrusted`, `RemovalRepairs`, `EventuallySettles` |
| `statuses` | one module, bare or with every map and slice, generation 2, clock 2, lag 2, one foreign condition | `TypeOK`, `CopiesAreDeep`, `CacheUntouched`, `PatchSaysVerdict`, `SettledStatusStays`, `TransitionTimesGrow` |
| `compiler` | two modules, five edits | `OrderIndependent`, `NoLooseEnds`, `Isolated`, `CyclesNeedRoles`, `RefusedBeyondSchema` |
| `store_reused`, `published_once`, `torn_status`, `predecessor` | as small (`predecessor`: one module, 3 operations, no fault) | a violation each, see below |

Two modules are enough for conflicts between modules, for a first status that is patched and a
second that is not, and for listings in either order. Two operations with one fault give a second
run on stale caches of either kind; lag 2 lets the two writes of a run (Secret and status) or the
events of two modules be under way together. The third operation of `restarts` allows create,
restart elsewhere and back, or edit in between, and delete and create again during a run; its lag of
1 still lets a Secret event and a module event be under way together, on their two streams.
Specifications are symmetric in the safety runs: the abstract build only compares them. The runs
with liveness use no symmetry. Longer error histories only repeat: after a failed call the worker is
idle with its key queued, as it is after any other.

`leaders` and `data_loss` start from `PublishedInit`, a state that the controller comes to rest
in after one module was published; so both operations are left for what the run is about, a takeover
and a user's change, or a damage and its repair. In `leaders` the Secret's key has the module's name
(a module may have the Secret's namespaced name), which makes one key of two; and its `VIEW` leaves
out what OpenFGA holds under identifiers that neither manager, nor the Secret or an event, names: no
action and no property looks it up.

In `statuses` a clock with two values tells a transition's time from an older one, and two
generations with lag 2 let a patch, a user's update and a foreign condition overlap.

Five edits of a listing reach a module with topology, role and permission and a second module, or
two permissions that refer to each other; every edit may be malformed.

### The properties

- `SecretFaithful`: the model that the Secret names is in OpenFGA, at the Secret's URL, in its
  store, with its hash.
- `ReadyWasPublished`: no status shows a hash, or Ready, that was not published to clients first.
- `QuietMeansConverged`: when no key waits and no event is under way, then `Converged`: without
  modules no Secret, otherwise every status is the verdict on the current modules, at the current
  generation, and a Secret serves the model if the verdict is good. This is how lost wake-ups show.
- `SameSecretSameStore`: a Secret that is replaced while it is the one that was read keeps its
  store.
- `EventuallyConverges`: `<>[]Converged`. `EventuallyRests`: then the controller rests too, unless it
  has a failure to report. Each of its writes is an event that wakes it, so a Secret that is never
  good enough would keep it writing for ever with all as it should be.
- `PublishesVersions`: `Publishing` implements `Publication`. The Secret carries the model of one
  version of all modules, never a mixture, and clients are only taken to later versions.
- `ConditionWasTrue`: every condition tells what one version of the modules came to, in which its
  module had the generation that the condition names: the reason the build of that version has, or,
  for a version that builds, Ready after its hash was published, or one of the two reasons that
  publishing fails for. The module may have changed between the listing and the patch. If it was
  deleted and created again, the condition may be about its predecessor, but then an event of the
  new one is under way, or its key is queued or held.
- `QuietMeansTrusted`: with stores lost and identifiers replaced at any time, a controller with
  nothing left to do leaves a Secret and statuses that agree with each other, and it never comes to
  rest on a failed publication.
- `RemovalRepairs`: after the damaged Secret was deleted, quiet means converged again, also where a
  cache or an event under way still has the damaged one.
- `EventuallySettles`: such a cluster settles, `Converged` if it was repaired, and otherwise on what
  the controller can know, or on reporting for ever that a publication to the lost store fails.
- `CopiesAreDeep`, `CacheUntouched`: the copies share no memory with each other or the cache, and
  only events change the cache. `PatchSaysVerdict`: a patch from an up-to-date object makes the
  status the verdict and leaves others' conditions alone. `SettledStatusStays`: a status that says
  the verdict is not written again, at any later time, so the controller does not wake itself up.
  `TransitionTimesGrow`: a Ready condition that changes its status gets no time from before its last
  change, unless the cache showed a status that the condition had left since.
- `RefusedBeyondSchema`: of what the API server admits, the compiler refuses only what the schema
  cannot say (names of relations, references between specifications).
- `NoLooseEnds`: what a relation of an accepted model is computed from exists, what it is reached
  through is a direct relation to types that each define the relation wanted there, and a topology
  relation points to types that exist. Subjects are the exception: `Compile` does not look up their
  type's name or their relation (`TestCompile` expects `group#member` to be accepted with a `group`
  that has no relations), and `Validate` refuses them later. The property says that nothing else
  leads nowhere.
- `OrderIndependent`, `Isolated`, `CyclesNeedRoles`: see `ModuleEditing`.

### Fairness

`FairSystem` assumes weak fairness of the worker as a whole and of each delivery. One goroutine runs
the worker; it takes a key when there is one (back-off is finite and the queue hands out keys in
order), and its calls return or time out. Informers deliver what the API server sends. `data_loss`
has the same fairness. Nothing is assumed of users, of restarts or of faults, and it is their bounds
that make them stop. As long as a listing does not compile, the URL is missing, or OpenFGA does not
have the store that the environment names, the worker goes on for ever: it returns the error, so its
key is queued again. `EventuallyConverges` holds there too, about reason, hash and generation of
each status; the message may follow the order in which the cache lists the modules.

### Disagreements found

- `StoreReused`: the test *should reuse the store ID from an existing client configuration Secret*
  (`authorizationmodule_controller_test.go:165`) uses a client without a cache. With the manager's
  client, a run that begins before the event of the first Secret arrives makes another store; if the
  event arrives before its `CreateOrUpdate`, the update is accepted and clients move to an empty
  store.
- `PublishedOnce`: *should skip publishing when the output Secret already has the current model
  hash* (test, 147); in the same way a stale cache publishes the model twice.
- `NotReadyHasNoHash`: the tests (219, 234) expect an empty hash in a status that is not ready; a
  merge patch against a stale cached module leaves the old hash next to Ready=False. The event of
  that patch starts the run that repairs it, so `QuietMeansConverged` holds.
- `ConditionIsOfInstance`: the custom resource says of a condition that its `observedGeneration` is
  *the .metadata.generation that the condition was set based upon*
  (`authz.erli.ng_authorizationmodules.yaml:177-179`). Statuses are patched by name and the patch
  carries no uid (controller 255-258, 263): a module that is deleted and created again while the
  worker is about to patch has generation 1 like its predecessor and gets the predecessor's Ready and
  hash as its own. `ConditionWasTrue` says for how long.

Two more, which no run is spent on. A permission is *derived from roles or other permissions*
(`authorizationmodule_types.go:39`), but it is found by another only if it sorts earlier
(`CompiledBefore`; compiler 245, 322). And *lastTransitionTime is the last time the condition
transitioned from one status to another* (`authz.erli.ng_authorizationmodules.yaml:164`), but
`setCondition` keeps the time of the cached condition when the status is the same there (controller
277-278): from a stale cache, a patch may turn the server's True into False with the time of an
earlier False. `TransitionTimesGrow` says that this is the only way to set a time back.

## Proofs

The theorems assume of the constants what the modules name as their assumptions. In `Reconciler`:
names are finitely many, the values that stand for nothing are different from the others, settings
are settings, bounds are natural numbers, a build of a listing is a verdict with a hash if and only
if it is good (`BuildTypeAssumption`), and the order of the listing changes at most the message of a
failure (`BuildOrderAssumption`). `MCSystem` shows that the compiler is such a build on its instance;
that the order makes no difference to what `Compile` accepts and returns is `ModelIsDeterministic`,
for all listings. In `Publishing`: a module can have a generation at all, and what is listed of a
module is not the value for no module. In `ModelCompiler` and `ModuleEditing`: no kind of error is
the value for no error, and edits write topology relations, roles and permissions. In `ApiSchema`:
names that match the pattern are names OpenFGA takes. In `StatusPatch`: the bounds are numbers and
the shapes of modules have the slots of a specification. The theorems of `ReconcilerProofs` do not
use `BuildOrderAssumption`; those built on `ConvergenceProofs` do, because two runs may list the same
modules in two orders.

### Controller

The steps are proved about `FreshNext`, which is `Next` but for OpenFGA's identifiers: any that
nobody names, where `Reconciler` chooses one. `Leaders` and `DataLoss` take such steps as well.

| theorem | inductive invariant |
|---|---|
| `TypeCorrect`: `System => []TypeOK` | `TypeOK` itself, which says how far the locals are set at each `pc`; without that a step could write a Secret without a model |
| `SecretIsFaithful`: `System => []SecretFaithful` | `FaithfulInv`: also, at `applySecret`, that the model just written is in OpenFGA where the settings and the worker's store say, with the verdict's hash. A fresh identifier is one that the Secret does not name, so a new model never overwrites the Secret's |
| `NothingReadyUnpublished`: `System => []ReadyWasPublished` | `PublishedInv`: the hash of the Secret, of its cached copy and of every copy under way is published, and so is a good verdict at `patchStatus`. The worker trusts the cached copy, so the stream that fills it belongs to the invariant |
| `StoreIsCarriedOver`: `System => SameSecretSameStore` | `ChosenInv`: from the read of the Secret to its write the worker's store is the one that Secret names |
| `NoWakeupLost`: `System => []QuietMeansConverged` | `CalmInv`: the last event of an object shows it as it is, and the cache of an object without events does (`CachesFollow`); if no key waits and no module event is under way, the run in progress is about the modules as they are, each of them is still to be patched or already says the verdict, and at `patchStatus` the Secret names a model for them unless an event of it is under way (`RunCurrent`); the store is the one the environment fixes (`StoreFixed`); so at rest all that the controller can see is as it should be (`QuietMeansShown`). With `SecretFaithful` and `StoreKept` (OpenFGA has the stores that are named) that is `Converged`. A key in the queue or an event stands for everything that a run may have missed |
| `VersionsArePublished`: `HistorySystem => PublishesVersions` | `HistoryOK`: the versions are ordered from the Secret over the listing and the cache to the events; each event leads from the version before it to its own, the last to the current one; the verdict is the one on the version listed. Under it every step is a step of `Publication` or stutters there |
| `ConditionsWereTrue`: `HistorySystem => []ConditionWasTrue` | `ToldInv` and `OwnInv`, on top of `HistoryOK`, `PublishedInv` and `CachesFollow`. `ToldInv`: the items of a run have the generations of the version listed, and the verdict is what that version builds to, or a failure to publish it. `OwnInv`: a module that is not awaited is the one that its condition, the run in progress and its cached copy are about. The event of a creation stays under way until it is delivered, then its key waits, and the run that takes the key lists the new module (`CreationsTold`); a run that ends with an error queues its key again, which is where `Awaited` comes from when a patch fails |

### Damage

| theorem | inductive invariant |
|---|---|
| `RestIsTrusted`: `LossSystem => []QuietMeansTrusted` | `CalmInv` alone: none of its parts is about what OpenFGA holds, and a replaced Secret comes with its event |
| `RemovalIsEnough`: `LossSystem => []RemovalRepairs` | `WholeInv`: without suspicion `FaithfulInv` and `StoreKept` hold. With no Secret and no run in progress they claim nothing, which is why the removal of the Secret establishes them; later a run gets to `applySecret` only with a model it has just written to a store that OpenFGA has, whatever a stale cached Secret names |

### Two managers

What is known of one manager splits into what is true of the API server and OpenFGA, which both
share (`Truthful`), and what it knows of its own caches and its run. `Meanwhile` says what a step of
somebody else may do: change one object, with the event of it on this manager's stream, and leave
alone every store and model that this manager, the Secret or an event names. Under `Meanwhile` the
second part survives, and the first is the other manager's to keep. `LeadersProofs` takes these
lemmas twice, for the leader and, as `FormerP`, for the former leader's variables; a lemma of an
instance needs its assumptions, which are the leader's (`SameAssumptions`).

| theorem | inductive invariant |
|---|---|
| `LeadersStayFaithful`: `LeadersSystem => []SecretFaithful`, `LeadersReportWhatTheyPublished`: `[]ReadyWasPublished`, `LeadersConverge`: `[]QuietMeansConverged` | `LeadersInv`: `ManagerInv` (`TypeOK`, `FaithfulInv`, `PublishedInv`, `StoreKept`) and `CalmInv` of the leader, and `ManagerInv` of the former leader while it lingers. A takeover hands the leader's part of it to the former leader. That identifiers are fresh to both managers (`FreshToBoth`) is what keeps the one's new model from being the one the other is about to name |

### Statuses

| theorem | inductive invariant |
|---|---|
| `StatusTyped`: `Statuses => []TypeOK`, `CopiesShareNothing`: `[]CopiesAreDeep`, `CacheIsUntouched`: `CacheUntouched`, `PatchCarriesVerdict`: `PatchSaysVerdict`, `SettledIsLeftAlone`: `SettledStatusStays`, `TimesAreNotSetBack`: `TransitionTimesGrow` | `CopyInv`: what the API server and its events say has one condition of a type at most (`Served`), so has the cache's variable, whose references lead to contents that exist (`Remembered`); the locals are set as far as the worker is (`Localized`); and while a patch is under way the variable to compare with says what was read, the changed one says that with the verdict (`Prepared`). The lemmas say of each generated function that it keeps what a variable says and where its copy's blocks are. For the times also `TimeInv`: no Ready condition of the server, the events, the cache or a prepared patch has a time to come, and a prepared patch sets no time back that it may not |

### Compiler

The lemmas are about any sequence of well-formed modules, of any length, and are not by induction:
the passes are written as functions from positions to errors, of which the first is reported
(`FirstOf`), and a listing is accepted if none of them has one (`AcceptedIff`). The invariant of the
theorems is only that users edit such a sequence (`Listed`).

| theorem | argument |
|---|---|
| `ModelIsDeterministic`: `Editing => []OrderIndependent` | acceptance and the definitions are about the set of modules; an accepted listing has no two modules for one resource, so the set determines which module defines it |
| `ModelIsClosed`: `Editing => []NoLooseEnds` | each reference in a definition but a subject is one that a check of the third pass has looked up in what the second has found; a subject's type, if it has a name, is a type of the model, and its relation is there if a module defines it |
| `ModulesAreIsolated`: `Editing => []Isolated` | a resource's definition depends on the module that defines it alone, and appending a module to an accepted listing leaves that module in place |
| `OnlyRolesMakeCycles`: `Editing => []CyclesNeedRoles` | the order in which permissions are compiled ranks the relations: each is computed from lower ones |
| `SchemaIsEnforced`: `Editing => []RefusedBeyondSchema` | each kind of error that the schema excludes has a check that admitted modules pass |

### Only model-checked

The liveness properties, `EventuallyConverges`, `EventuallyRests` and `EventuallySettles`: weak fairness is about
`ENABLED`, which is out of the prover's reach here. That the build of `MCSystem`, with what
`Validate` asks of a model and the hash, is a verdict of the kind `BuildTypeAssumption` says. The
properties of the runs that expect a violation do not hold.

## Not modelled

Kustomize manifests, flags, TLS, metrics and probes, build scripts and tests; the back-off's delays;
leases as objects (a takeover may happen at any time, which is all a lease leaves open). Two
managers that overlap have the same environment in the `leaders` run. In `data_loss` a run that is
in progress while the Secret is deleted may create a Secret that names lost data; `RemovalRepairs`
does not count such a removal. The order in which a cache lists modules is a new choice in every run
(an indexer is a Go map), so that the message of a rejected listing may change from run to run for
ever, each change being a patch and an event; no property is about this message, and
`EventuallyRests` asks nothing of a listing that is rejected.

A stale, empty listing deletes the Secret while there are modules (89-95), and the store's identifier
goes with it: the next publication makes a new store, and the clients' tuples stay in the old one. No
property asks that this does not happen. The cluster counts as `Converged` with the new store, and
`PublishesVersions` allows clients to be shown an old version without modules for a while; the code
keeps no other record of the store and promises none.

That OpenFGA refuses a model for a store that it does not have is an assumption about OpenFGA
(`WriteModel`). `Stuck`, and with it `EventuallySettles`, rests on it, and so does `Converged` where the
environment names a store that OpenFGA does not have.

## Plan

1. `Reconciler` with its compiler: the controller's core, its caches, failures and restarts (done).
2. `Leaders`, `Publication` with `Publishing`, `DataLoss`, `StatusPatch`, `ApiSchema` (done).
3. The safety properties of all of them, and the compiler's for listings of any length (proved).
4. Both assumptions about `Build` as theorems about a build made of `Compile`, `Valid` and an
   injective hash, so that the controller's theorems hold of this compiler without them; and
   `ConditionWasTrue` and `SameSecretSameStore` with two managers.
5. What a compiled model means: who reaches a relation, against a definition by the modules'
   specifications.
