------------------------------ MODULE DataLoss ------------------------------
(***************************************************************************)
(* The controller where OpenFGA loses stores and somebody replaces the     *)
(* identifiers in the Secret by other well-formed ones.                    *)
(*                                                                         *)
(* The controller never asks OpenFGA whether what the Secret names is      *)
(* there: it compares the hash annotation, and takes the store's           *)
(* identifier from the Secret (or from the environment).  So damage of     *)
(* this kind is not repaired while the Secret is there; deleting the       *)
(* Secret is the repair.                                                   *)
(***************************************************************************)
EXTENDS Reconciler

VARIABLE suspect \* history: was there damage after the last repair?

lossVars == <<vars, suspect>>

\* Somebody deletes a store, or an OpenFGA without persistence restarts; the
\* models in the store go with it.
LoseStore ==
    /\ \E i \in StoreId :
          /\ stores[i] # None
          /\ stores' = [stores EXCEPT ![i] = None]
          /\ models' = [m \in ModelId |->
                          IF models[m] # None /\ models[m].store = i THEN None ELSE models[m]]
    /\ Op
    /\ suspect' = TRUE
    /\ UNCHANGED <<server, caches, queue, settings, pc, locals, published, faults>>

\* Somebody edits the identifiers in the Secret; the new ones may exist.
ReplaceIds ==
    /\ HasConfig(secret)
    /\ \E i \in StoreId, m \in ModelId :
          /\ i \in {secret.data.store, NewStore} \cup {s \in StoreId : stores[s] # None}
          /\ m \in {secret.data.model, NewModel} \cup {k \in ModelId : models[k] # None}
          /\ WriteSecret([secret EXCEPT !.data.store = i, !.data.model = m])
          /\ secret' # secret
    /\ UserStep
    /\ suspect' = TRUE

\* The Secret is deleted.  That repairs the damage, unless a run is in
\* progress: it may still create a Secret that names what it published
\* before the damage.
Repair ==
    /\ RemoveSecret
    /\ suspect' = IF pc = "idle" THEN FALSE ELSE suspect

Undisturbed ==
    /\ \/ Worker \/ DeliverModule \/ DeliverSecret
       \/ CreateModule \/ UpdateModule \/ RemoveModule \/ EditSecret \/ Restart
    /\ UNCHANGED suspect

LossNext == LoseStore \/ ReplaceIds \/ Repair \/ Undisturbed

LossInit == Init /\ suspect = FALSE
LossSystem == LossInit /\ [][LossNext]_lossVars
-----------------------------------------------------------------------------
\* What the controller can know of the modules as they are at the server:
\* the build and the environment.
Intended == Prepare(Listing(SetToSeq(Present(modules)), modules), settings)

\* The cluster is as it should be as far as the API server can tell: the
\* Secret names some model for the current hash, and the statuses say so.
\* If there is nothing to publish they say why.
Trusted ==
    IF Present(modules) = {} THEN secret = NoSecret
    ELSE /\ Intended.ready => Published(secret, Intended.hash, settings)
         /\ Reported(Intended)

\* The store that a publication would go to is gone: the Secret does not
\* name a model for the current hash, and every status says that publishing
\* failed.  This rests on OpenFGA refusing a model for a store that it does
\* not have, as WriteModel assumes; the code does not ask.
Stuck ==
    /\ Present(modules) # {} /\ Intended.ready
    /\ ~Published(secret, Intended.hash, settings)
    /\ StoreFor(secret, settings) # None
    /\ stores[StoreFor(secret, settings)] # settings.url
    /\ Reported(PublishFailed)

\* Whatever OpenFGA loses and whatever is done to the identifiers, at any
\* point of a run: a controller with nothing left to do leaves a Secret and
\* statuses that agree with each other and with the current modules, and it
\* never goes to rest on a failed publication.
QuietMeansTrusted == Quiet => Trusted

\* Deleting the Secret repairs all of it: after that, and until the next
\* damage, a controller with nothing left to do has the cluster as it should
\* be, what clients find in OpenFGA included, also where a cache, an event
\* under way or a run that began later on the stale cache still has the
\* Secret that was damaged.
RemovalRepairs == Quiet /\ ~suspect => Converged

\* Once users stop and calls stop failing, a damaged cluster settles for good
\* on what the controller can know, or on reporting that publishing fails;
\* one that was repaired after the last damage becomes as it should be.
EventuallySettles == <>[](IF suspect THEN Trusted \/ Stuck ELSE Converged)
=============================================================================
