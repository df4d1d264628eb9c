--------------------------- MODULE DataLossProofs ---------------------------
(***************************************************************************)
(* The controller where OpenFGA loses stores and the identifiers in the    *)
(* Secret are replaced: what it still keeps, and what removing the Secret  *)
(* gives back, for every set of names, stores, models and settings, every  *)
(* build and every bound.                                                  *)
(*                                                                         *)
(* Damage leaves what the controller can see as it would be without it, so *)
(* CalmInv survives it.  What it takes away is that OpenFGA holds what the *)
(* Secret says.  Nothing but the Secret and a run in progress tells the    *)
(* controller of a model, so with neither the damage is forgotten.         *)
(***************************************************************************)
EXTENDS DataLoss, ConvergenceProofs

\* Since the last repair OpenFGA holds what the Secret and the run name.
WholeInv == ~suspect => FaithfulInv /\ StoreKept

-----------------------------------------------------------------------------
(* The damage.                                                             *)

\* The other steps are the controller's own.
LEMMA OtherSteps ==
    ASSUME TypeOK, [LossNext]_lossVars
    PROVE  \/ [FreshNext]_vars /\ (UNCHANGED suspect \/ (RemoveSecret /\ (~suspect' => ~suspect \/ pc = "idle")))
           \/ LoseStore
           \/ ReplaceIds
  <1>1. CASE Repair
    BY <1>1, NextIsFresh DEF Repair, Next, Environment
  <1>2. CASE Undisturbed
    BY <1>2, NextIsFresh DEF Undisturbed, Next, Environment
  <1>3. CASE UNCHANGED lossVars
    BY <1>3 DEF lossVars
  <1> QED
    BY <1>1, <1>2, <1>3 DEF LossNext

\* A store that is lost takes nothing away from the controller's own state.
LEMMA LossTyped ==
    ASSUME TypeOK, LoseStore
    PROVE  TypeOK'
  <1>1. UNCHANGED <<server, caches, queue, settings, pc, locals, published, faults>> /\ Op
    BY DEF LoseStore
  <1>2. ServerOK' /\ ManagerOK' /\ WorkerOK'
    BY <1>1 DEF TypeOK, ServerOK, ManagerOK, WorkerOK, server, caches, locals
  <1>3. OpenFGAOK'
    BY DEF LoseStore, TypeOK, OpenFGAOK
  <1>4. SpentOK'
    BY <1>1, BoundsAssumption DEF TypeOK, SpentOK, Op
  <1> QED
    BY <1>2, <1>3, <1>4 DEF TypeOK

\* New identifiers are written to the Secret like any edit of it.
LEMMA ReplacedTyped ==
    ASSUME TypeOK, ReplaceIds
    PROVE  /\ \E obj \in Secret : WriteSecret(obj) /\ obj # secret
           /\ UserStep
           /\ TypeOK'
  <1> PICK i \in StoreId, m \in ModelId :
        WriteSecret([secret EXCEPT !.data.store = i, !.data.model = m]) /\ secret' # secret
    BY DEF ReplaceIds
  <1> DEFINE obj == [secret EXCEPT !.data.store = i, !.data.model = m]
  <1>1. HasConfig(secret) /\ UserStep
    BY DEF ReplaceIds
  <1>2. secret \in Secret /\ secret.data \in Config
    BY <1>1, ConfigTyped DEF TypeOK, ServerOK
  <1>3. PICK data : data = [[secret.data EXCEPT !.store = i] EXCEPT !.model = m]
    OBVIOUS
  <1>4. obj \in Secret
    <2>1. data \in Config
      BY <1>2, <1>3 DEF Config
    <2>2. obj = [secret EXCEPT !.data = data]
      BY <1>2, <1>3 DEF Secret
    <2> QED
      BY <1>2, <2>1, <2>2 DEF Secret
  <1> HIDE DEF obj
  <1>5. WriteSecret(obj) /\ obj # secret
    <2>1. WriteSecret(obj)
      BY DEF obj
    <2> QED
      BY <2>1 DEF WriteSecret
  <1>6. ServerOK'
    BY <1>4, <1>5, WriteSecretTyped DEF TypeOK
  <1>7. ManagerOK' /\ WorkerOK' /\ OpenFGAOK'
    BY <1>1 DEF TypeOK, ManagerOK, WorkerOK, OpenFGAOK, UserStep, caches, locals, openfga
  <1>8. SpentOK'
    BY <1>1, BoundsAssumption DEF TypeOK, SpentOK, UserStep, Op
  <1> QED
    BY <1>1, <1>4, <1>5, <1>6, <1>7, <1>8 DEF TypeOK

\* Every step keeps the types, damage included.
LEMMA LossNextTyped == TypeOK /\ [LossNext]_lossVars => TypeOK'
  BY OtherSteps, NextTyped, LossTyped, ReplacedTyped

\* The controller of this module starts like the other, without damage.
LEMMA LossTypeCorrect == LossSystem => []TypeOK
  <1>1. LossInit => TypeOK
    BY InitTyped DEF LossInit
  <1> QED
    BY <1>1, LossNextTyped, PTL DEF LossSystem

-----------------------------------------------------------------------------
(* What damage leaves as it was.                                           *)

LEMMA LossCalmStep == TypeOK /\ CalmInv /\ [LossNext]_lossVars => CalmInv'
  <1> SUFFICES ASSUME TypeOK, CalmInv, [LossNext]_lossVars PROVE CalmInv'
    OBVIOUS
  <1>0. QuietMeansShown /\ CachesFollow /\ StoreFixed /\ RunCurrent /\ ServerOK
    BY DEF CalmInv, TypeOK
  <1>1. CASE [FreshNext]_vars
    BY <1>1, CalmStep
  <1>2. CASE LoseStore
    <2>1. UNCHANGED <<modules, secret, modWatch, secWatch, modCache, secCache,
                      queue, settings, pc, verdict, items, storeID>>
      BY <1>2 DEF LoseStore, server, caches, locals
    <2>2. CachesFollow' /\ StoreFixed'
      BY <1>0, <2>1 DEF CachesFollow, StoreFixed
    <2> QED
      BY <1>0, <2>1, <2>2, ClaimsStay DEF CalmInv
  <1>3. CASE ReplaceIds
    <2> PICK obj \in Secret : WriteSecret(obj)
      BY <1>3, ReplacedTyped
    <2>1. UNCHANGED <<caches, modules, modWatch, queue, settings, pc, verdict, items, storeID>>
      BY <1>3 DEF ReplaceIds, UserStep, WriteSecret, locals
    <2>2. CachesFollow' /\ (secWatch' = <<>> => UNCHANGED <<secret, secWatch>>)
      BY <1>0, <2>1, SecretFollows
    <2>3. StoreFixed'
      BY <1>0, <2>1 DEF StoreFixed
    <2> QED
      BY <1>0, <2>1, <2>2, <2>3, ClaimsStay DEF CalmInv
  <1> QED
    BY <1>1, <1>2, <1>3, OtherSteps

\* Whatever OpenFGA loses and whatever is done to the identifiers, a
\* controller that rests leaves a Secret and statuses that agree with each
\* other and with the modules: QuietMeansTrusted of the run.
THEOREM RestIsTrusted == LossSystem => []QuietMeansTrusted
  <1>1. LossInit => CalmInv
    BY CalmFirst DEF LossInit
  <1>2. Shown => Trusted
    BY DEF Shown, Trusted, Intended
  <1>3. CalmInv => QuietMeansTrusted
    BY <1>2 DEF CalmInv, QuietMeansShown, QuietMeansTrusted
  <1> QED
    BY <1>1, <1>3, LossCalmStep, LossTypeCorrect, PTL DEF LossSystem

-----------------------------------------------------------------------------
(* What removing the Secret gives back.                                    *)

\* With no Secret and no run in progress nothing is claimed of OpenFGA.
LEMMA WholeStep == TypeOK /\ WholeInv /\ [LossNext]_lossVars => WholeInv'
  <1> SUFFICES ASSUME TypeOK, WholeInv, [LossNext]_lossVars, ~suspect'
               PROVE  FaithfulInv' /\ StoreKept'
    BY DEF WholeInv
  <1>1. ~LoseStore /\ ~ReplaceIds
    BY DEF LoseStore, ReplaceIds
  <1>2. CASE ~suspect
    BY <1>1, <1>2, OtherSteps, FaithfulStep, StoreStep DEF WholeInv
  <1>3. CASE suspect
    <2>1. RemoveSecret /\ pc = "idle"
      BY <1>1, <1>3, OtherSteps
    <2>2. secret' = NoSecret /\ pc' = "idle"
      BY <2>1 DEF RemoveSecret, WriteSecret, UserStep
    <2> QED
      BY <2>2 DEF FaithfulInv, SecretFaithful, Faithful, StoreKept, HasConfig
  <1> QED
    BY <1>2, <1>3

\* After the Secret was removed, and until the next damage, a controller that
\* rests has the cluster as it should be, OpenFGA included, whatever stale
\* caches and events under way still named when it was removed:
\* RemovalRepairs of the run.
THEOREM RemovalIsEnough == LossSystem => []RemovalRepairs
  <1>1. LossInit => CalmInv /\ WholeInv
    BY CalmFirst DEF LossInit, Init, WholeInv, FaithfulInv, SecretFaithful, Faithful, StoreKept, HasConfig
  <1>2. TypeOK /\ CalmInv /\ WholeInv => RemovalRepairs
    BY ShownConverged DEF CalmInv, QuietMeansShown, WholeInv, FaithfulInv, RemovalRepairs, TypeOK
  <1> QED
    BY <1>1, <1>2, LossCalmStep, WholeStep, LossTypeCorrect, PTL DEF LossSystem
=============================================================================
