---------------------------- MODULE Publication ----------------------------
(***************************************************************************)
(* What clients that follow the configuration Secret are promised.  The    *)
(* set of modules goes through a sequence of versions.  Clients are shown  *)
(* the model of one version at a time, never a mixture, and from one       *)
(* version they are only taken to a later one, although it need not be the *)
(* latest.  Nothing is shown where the version shown has no modules, or    *)
(* where somebody damaged the Secret; the operator itself never takes away *)
(* what a version with modules has shown, except for a later version.      *)
(***************************************************************************)
EXTENDS Integers, Sequences, SequencesExt

CONSTANTS
    Snapshot, \* sets of modules, with their specifications and generations
    Empty,    \* the snapshot without modules, which has no model
    Nothing,  \* no model
    Model(_)  \* the hash of a snapshot's model, or Nothing

VARIABLES
    past,    \* the versions of the modules; the last one is the current
    shown,   \* the version whose model the operator showed last
    carried, \* the hash that clients read
    damaged  \* has somebody taken away what was shown?

pvars == <<past, shown, carried, damaged>>

PublicationInit ==
    /\ past = <<Empty>>
    /\ shown = 1
    /\ carried = Nothing
    /\ damaged = FALSE

\* A user creates, changes or deletes a module.
Change ==
    /\ past' = Append(past, Last(past'))
    /\ Last(past') \in Snapshot
    /\ UNCHANGED <<shown, carried, damaged>>

\* The operator shows a version: its model if it has one, nothing if it has
\* no modules.  A version that does not build is never shown.
Show ==
    /\ UNCHANGED past
    /\ shown' \in shown .. Len(past)
    /\ carried' = Model(past[shown'])
    /\ past[shown'] = Empty \/ carried' # Nothing
    /\ damaged' = FALSE

\* Somebody else deletes or empties the Secret.
Damage ==
    /\ carried' = Nothing
    /\ damaged' = TRUE
    /\ UNCHANGED <<past, shown>>

PublicationNext == Change \/ Show \/ Damage

PublicationSpec == PublicationInit /\ [][PublicationNext]_pvars
=============================================================================
