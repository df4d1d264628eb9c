---------------------------- MODULE SharedProofs ----------------------------
(***************************************************************************)
(* What a manager can rely on while others write to the same API server    *)
(* and to the same OpenFGA, for every set of names, stores, models and     *)
(* settings, every build and every bound.                                  *)
(*                                                                         *)
(* What is known of the server and of OpenFGA (Truthful) is known by all   *)
(* of them; what a manager knows of its own run and caches survives the    *)
(* steps of the others (Meanwhile), since each change at the server comes  *)
(* with an event, and OpenFGA repeats no identifier that anybody names.    *)
(***************************************************************************)
EXTENDS ConvergenceProofs

\* What is true of the server and of OpenFGA, whoever asks.
Truthful ==
    /\ OpenFGAOK /\ SpentOK
    /\ SecretFaithful /\ ReadyWasPublished /\ Known(secret)
    /\ HasConfig(secret) /\ secret.data.model # None => stores[secret.data.store] = secret.data.url

\* The invariants of the controller's proofs, but for those of convergence.
ManagerInv == TypeOK /\ FaithfulInv /\ PublishedInv /\ StoreKept

\* What a step may write to the API server.
Writes ==
    \/ UNCHANGED server
    \/ \E n \in Name, obj \in Module \cup {NoModule} : WriteModule(n, obj)
    \/ \E obj \in Secret \cup {NoSecret} : WriteSecret(obj)

\* A step of somebody else.
Meanwhile ==
    /\ UNCHANGED <<caches, queue, settings, pc, locals>>
    /\ Writes
    /\ published \subseteq published'
    /\ \A s \in StoreId : s \in StoresSeen => stores'[s] = stores[s]
    /\ \A m \in ModelId : m \in ModelsSeen => models'[m] = models[m]

\* The steps of a worker beside which others name stores and models.
WorkAmong(storesSeen, modelsSeen) ==
    \/ ListAndBuild \/ DeleteSecret \/ GetSecret \/ ApplySecret \/ PatchStatus
    \/ \E new : /\ StoreId \ storesSeen # {} => new \in StoreId \ storesSeen
                /\ CreateStoreAs(new, storesSeen)
    \/ \E new : /\ ModelId \ modelsSeen # {} => new \in ModelId \ modelsSeen
                /\ WriteModelAs(new, modelsSeen)

UsersWrite == CreateModule \/ UpdateModule \/ RemoveModule \/ RemoveSecret \/ EditSecret

-----------------------------------------------------------------------------
(* A manager's own steps.                                                  *)

\* A worker whose new identifiers are new to others too takes steps that the
\* proofs about one manager cover.
LEMMA OwnWork ==
    ASSUME NEW s, NEW m, StoresSeen \subseteq s, ModelsSeen \subseteq m, WorkAmong(s, m)
    PROVE  FreshNext
  BY DEF WorkAmong, FreshNext, FreshCreate, FreshWrite

\* They keep all that is known.
LEMMA ManagerStep == ManagerInv /\ [FreshNext]_vars => ManagerInv'
  BY NextTyped, FaithfulStep, PublishedStep, StoreStep DEF ManagerInv

\* All that is true of the server and of OpenFGA is part of what a manager
\* can rely on.
LEMMA ManagerTruthful == ManagerInv => Truthful
  BY DEF ManagerInv, Truthful, TypeOK, FaithfulInv, PublishedInv, StoreKept

\* They write one module, or the Secret.
LEMMA WorkWrites ==
    ASSUME TypeOK, NEW s, NEW m, WorkAmong(s, m) \/ UsersWrite
    PROVE  Writes
  <1> USE DEF TypeOK
  <1>1. CASE ListAndBuild \/ GetSecret \/ (\E new : CreateStoreAs(new, s)) \/ (\E new : WriteModelAs(new, m))
    BY <1>1 DEF ListAndBuild, GetSecret, CreateStoreAs, WriteModelAs, Writes
  <1>2. CASE DeleteSecret
    BY <1>2 DEF DeleteSecret, Writes
  <1>3. CASE ApplySecret
    <2>1. NewSecret \in Secret
      BY <1>3, NewSecretTyped DEF ApplySecret
    <2> QED
      BY <1>3, <2>1 DEF ApplySecret, Writes
  <1>4. CASE PatchStatus
    <2> DEFINE item == Head(items)
               new == Patched(modules[item.name], modCache[item.name], item)
    <2>1. \/ UNCHANGED server
          \/ modules[item.name] # NoModule /\ modCache[item.name] # NoModule /\ WriteModule(item.name, new)
      BY <1>4 DEF PatchStatus
    <2>2. item \in [name : Name, gen : Nat]
      BY <1>4, HeadTyped DEF PatchStatus
    <2>3. modules[item.name] # NoModule /\ modCache[item.name] # NoModule => new \in Module
      <3>1. item.name \in Name
        BY <2>2
      <3> QED
        BY <2>2, <3>1, PatchedTyped DEF ServerOK, ManagerOK, WorkerOK
    <2> QED
      BY <2>1, <2>2, <2>3 DEF Writes
  <1>5. CASE CreateModule \/ UpdateModule \/ RemoveModule
    BY <1>5, UserWrites DEF Writes
  <1>6. CASE RemoveSecret \/ EditSecret
    BY <1>6, UserEdits DEF Writes
  <1> QED
    BY <1>1, <1>2, <1>3, <1>4, <1>5, <1>6 DEF WorkAmong, UsersWrite

\* OpenFGA keeps what anybody names, and what was published stays so.
LEMMA WorkKeeps ==
    ASSUME NEW s, NEW m, WorkAmong(s, m) \/ UsersWrite
    PROVE  /\ published \subseteq published'
           /\ \A i \in StoreId \cap s : stores'[i] = stores[i]
           /\ \A i \in ModelId \cap m : models'[i] = models[i]
  <1>1. CASE ListAndBuild \/ DeleteSecret \/ GetSecret \/ ApplySecret \/ PatchStatus
    BY <1>1 DEF ListAndBuild, DeleteSecret, GetSecret, ApplySecret, PatchStatus, openfga
  <1>2. ASSUME NEW new, StoreId \ s # {} => new \in StoreId \ s, CreateStoreAs(new, s)
        PROVE  /\ UNCHANGED <<published, models>>
               /\ \A i \in StoreId \cap s : stores'[i] = stores[i]
    BY <1>2 DEF CreateStoreAs
  <1>3. ASSUME NEW new, ModelId \ m # {} => new \in ModelId \ m, WriteModelAs(new, m)
        PROVE  /\ UNCHANGED <<published, stores>>
               /\ \A i \in ModelId \cap m : models'[i] = models[i]
    BY <1>3 DEF WriteModelAs
  <1>4. CASE UsersWrite
    BY <1>4 DEF UsersWrite, CreateModule, UpdateModule, RemoveModule, RemoveSecret, EditSecret, UserStep, openfga
  <1> QED
    BY <1>1, <1>2, <1>3, <1>4 DEF WorkAmong

-----------------------------------------------------------------------------
(* The steps of others.                                                    *)

\* A step of somebody else leaves what a manager can rely on, if the server
\* and OpenFGA are still as they should be: its run is about identifiers that
\* OpenFGA keeps, and each copy of the Secret on its way is a known one.
LEMMA MeanwhileManager == ManagerInv /\ Meanwhile /\ Truthful' => ManagerInv'
  <1> SUFFICES ASSUME ManagerInv, Meanwhile, Truthful' PROVE ManagerInv'
    OBVIOUS
  <1>0. TypeOK /\ FaithfulInv /\ PublishedInv /\ StoreKept
        /\ ServerOK /\ ManagerOK /\ WorkerOK
    BY DEF ManagerInv, TypeOK
  <1>1. /\ UNCHANGED <<modCache, secCache, queue, settings, pc, key, items, verdict, existing, storeID, modelID>>
        /\ published \subseteq published'
    BY DEF Meanwhile, caches, locals
  <1>2. TypeOK'
    <2>1. ServerOK'
      <3>1. CASE UNCHANGED server
        BY <1>0, <3>1 DEF ServerOK, server
      <3> QED
        BY <1>0, <3>1, WriteModuleTyped, WriteSecretTyped DEF Meanwhile, Writes
    <2>2. ManagerOK' /\ WorkerOK'
      BY <1>0, <1>1 DEF ManagerOK, WorkerOK
    <2> QED
      BY <2>1, <2>2 DEF TypeOK, Truthful
  <1>3. FaithfulInv'
    <2>1. pc = "applySecret" => modelID \in ModelId /\ modelID \in ModelsSeen
      BY <1>0 DEF WorkerOK, ModelsSeen
    <2>2. pc = "applySecret" => models'[modelID] = models[modelID]
      BY <2>1 DEF Meanwhile
    <2> QED
      BY <1>0, <1>1, <2>2 DEF FaithfulInv, Truthful
  <1>4. StoreKept'
    <2>1. pc = "applySecret" => storeID \in StoreId /\ storeID \in StoresSeen
      BY <1>0 DEF WorkerOK, StoresSeen
    <2>2. pc = "applySecret" => stores'[storeID] = stores[storeID]
      BY <2>1 DEF Meanwhile
    <2> QED
      BY <1>0, <1>1, <2>2 DEF StoreKept, Truthful
  <1>5. PublishedInv'
    <2>1. ReadyWasPublished' /\ Known(secret)'
      BY DEF Truthful
    <2>2. Known(secCache)'
      BY <1>0, <1>1 DEF PublishedInv, Known
    <2>3. \A i \in 1 .. Len(secWatch') : Known(secWatch[i])'
      <3>1. CASE UNCHANGED secWatch
        BY <1>0, <1>1, <3>1 DEF PublishedInv, Known
      <3>2. ASSUME NEW obj \in Secret \cup {NoSecret}, WriteSecret(obj)
            PROVE  \A i \in 1 .. Len(secWatch') : Known(secWatch[i])'
        <4>1. obj = NoSecret \/ obj.hash \in published'
          BY <2>1, <3>2 DEF WriteSecret, Known
        <4> QED
          BY <1>0, <1>1, <3>2, <4>1, KnownWrite
      <3> QED
        BY <3>1, <3>2 DEF Meanwhile, Writes, server, WriteModule
    <2>4. pc' = "patchStatus" /\ verdict'.ready => verdict'.hash \in published'
      BY <1>0, <1>1 DEF PublishedInv
    <2> QED
      BY <2>1, <2>2, <2>3, <2>4 DEF PublishedInv
  <1> QED
    BY <1>2, <1>3, <1>4, <1>5 DEF ManagerInv

\* Nor does it make a resting manager's view wrong: what it changes comes with
\* an event, and a manager that waits for an event does not rest.
LEMMA MeanwhileCalm == TypeOK /\ CalmInv /\ Meanwhile => CalmInv'
  <1> SUFFICES ASSUME TypeOK, CalmInv, Meanwhile PROVE CalmInv'
    OBVIOUS
  <1>0. QuietMeansShown /\ CachesFollow /\ StoreFixed /\ RunCurrent /\ ServerOK
    BY DEF CalmInv, TypeOK
  <1>1. UNCHANGED <<caches, modCache, secCache, queue, settings, pc, verdict, items, storeID>>
    BY DEF Meanwhile, caches, locals
  <1>2. StoreFixed'
    BY <1>0, <1>1 DEF StoreFixed
  <1>3. CASE UNCHANGED server
    <2>1. UNCHANGED <<modules, secret, modWatch, secWatch>>
      BY <1>3 DEF server
    <2>2. CachesFollow'
      BY <1>0, <1>1, <2>1 DEF CachesFollow
    <2> QED
      BY <1>0, <1>1, <1>2, <2>1, <2>2, ClaimsStay DEF CalmInv
  <1>4. ASSUME NEW n \in Name, NEW obj \in Module \cup {NoModule}, WriteModule(n, obj)
        PROVE  CalmInv'
    <2>1. CachesFollow'
      BY <1>0, <1>1, <1>4, ModulesFollow
    <2>2. CASE obj = modules[n]
      <3>1. UNCHANGED <<modules, secret, modWatch, secWatch>>
        BY <1>0, <1>4, <2>2 DEF WriteModule, ServerOK
      <3> QED
        BY <1>0, <1>1, <1>2, <2>1, <3>1, ClaimsStay DEF CalmInv
    <2>3. CASE obj # modules[n]
      <3> DEFINE Event == [name : Name, obj : Module \cup {NoModule}]
                 event == [name |-> n, obj |-> obj]
      <3>1. modWatch' = Append(modWatch, event) /\ event \in Event /\ modWatch \in Seq(Event)
        BY <1>0, <1>4, <2>3 DEF WriteModule, ServerOK
      <3> HIDE DEF event, Event
      <3>2. modWatch' # <<>>
        BY <3>1
      <3> QED
        BY <1>2, <2>1, <3>2, Waiting DEF CalmInv
    <2> QED
      BY <2>2, <2>3
  <1>5. ASSUME NEW obj \in Secret \cup {NoSecret}, WriteSecret(obj)
        PROVE  CalmInv'
    <2>1. CachesFollow' /\ (secWatch' = <<>> => UNCHANGED <<secret, secWatch>>)
      BY <1>0, <1>1, <1>5, SecretFollows
    <2>2. UNCHANGED <<modules, modWatch>>
      BY <1>5 DEF WriteSecret
    <2> QED
      BY <1>0, <1>1, <1>2, <2>1, <2>2, ClaimsStay DEF CalmInv
  <1> QED
    BY <1>3, <1>4, <1>5 DEF Meanwhile, Writes
=============================================================================
