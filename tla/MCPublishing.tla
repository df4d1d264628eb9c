---------------------------- MODULE MCPublishing ----------------------------
(***************************************************************************)
(* Small instances of the controller with its history; the specifications, *)
(* the build and the environments are those of MCReconciler.               *)
(***************************************************************************)
EXTENDS MCReconciler, Publishing
=============================================================================
