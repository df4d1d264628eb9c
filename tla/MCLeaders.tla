------------------------------ MODULE MCLeaders ------------------------------
(***************************************************************************)
(* Small instances of a change of leader; the specifications, the build    *)
(* and the environments are those of MCReconciler.                         *)
(***************************************************************************)
EXTENDS MCReconciler, Leaders

\* From a cluster where one module is published, so that a takeover can meet
\* any one change: deleting the Secret makes both managers create one.
OverlapInit == PublishedInit /\ lingering = FALSE /\ FormerInit
OverlapSystem == OverlapInit /\ [][LeadersNext]_leadersVars

\* What OpenFGA holds under identifiers that nobody names any more tells
\* states apart for nothing: no action and no property can look it up.
Named(f, ids) == [i \in DOMAIN f |-> IF i \in ids THEN f[i] ELSE None]
View == <<server, leaderVars, formerVars, lingering, published, ops, faults,
          Named(stores, AllStoresSeen), Named(models, AllModelsSeen)>>
=============================================================================
