----------------------------- MODULE MCDataLoss -----------------------------
(***************************************************************************)
(* Small instances of the controller with data loss; the specifications,   *)
(* the build and the environments are those of MCReconciler.               *)
(***************************************************************************)
EXTENDS MCReconciler, DataLoss

\* The store is the Secret's, or fixed by the environment.
StoreSettings == {s \in AllSettings : s.url = u1}

\* From a cluster where one module is published.
RestingInit == PublishedInit /\ suspect = FALSE
RestingSystem == RestingInit /\ [][LossNext]_lossVars
RestingFairSystem == RestingSystem /\ Fairness
=============================================================================
