----------------------------- MODULE Publishing -----------------------------
(***************************************************************************)
(* The controller with a history of the modules' versions, and how it      *)
(* implements Publication.                                                 *)
(*                                                                         *)
(* The history variables only observe: they number the versions of the     *)
(* modules and remember which of them the cache, the events under way, the *)
(* worker's listing and the Secret come from.                              *)
(***************************************************************************)
EXTENDS Reconciler

ASSUME GenerationAssumption == MaxGen > 0
ASSUME SeenAssumption == NoModule \notin [spec : Spec, gen : Nat]

VARIABLES
    past,     \* history: the versions of the modules so far
    modAt,    \* history: for each event in modWatch, the version it leads to
    cachedAt, \* history: the version that the cache of modules has
    listedAt, \* history: the version that the worker listed last
    shownAt,  \* history: the version that the last write of the Secret was for
    damaged   \* history: did a user take away what that write has shown?

history == <<past, modAt, cachedAt, listedAt, shownAt, damaged>>
allVars == <<vars, history>>

\* What a listing reads of a module.
Seen(obj) == IF obj = NoModule THEN NoModule ELSE [spec |-> obj.spec, gen |-> obj.gen]
Version(mods) == [n \in Name |-> Seen(mods[n])]

NoModules == [n \in Name |-> NoModule]
Versions == [Name -> [spec : Spec, gen : 1 .. MaxGen] \cup {NoModule}]

\* The verdict on each version with modules; in which order they are listed
\* makes no difference to what is used of it.
VerdictsOn ==
    {[version |-> v,
      verdict |-> Build(Listing(CHOOSE order \in SetToSeqs(Present(v)) : TRUE, v))] :
        v \in Versions \ {NoModules}}
BuildOf(version) == (CHOOSE r \in VerdictsOn : r.version = version).verdict

ModelOf(version) == IF Present(version) = {} THEN None ELSE BuildOf(version).hash

\* The hash that clients of a Secret read, if it leads them to a model.
Carried(s) == IF HasConfig(s) /\ s.data.model # None THEN s.hash ELSE None

Current == Len(past)

-----------------------------------------------------------------------------
HistoryInit ==
    /\ Init
    /\ past = <<Version(modules)>>
    /\ modAt = <<>>
    /\ cachedAt = 1 /\ listedAt = 1 /\ shownAt = 1
    /\ damaged = FALSE

Lists ==
    /\ ListAndBuild
    /\ listedAt' = cachedAt
    /\ UNCHANGED <<past, modAt, cachedAt, shownAt, damaged>>

\* Calls that touch neither the modules nor the Secret.
Publishes ==
    /\ GetSecret \/ CreateStore \/ WriteModel
    /\ UNCHANGED history

\* The worker's writes of the Secret; one that is refused, or finds nothing
\* to delete, shows nothing.
WritesSecret ==
    /\ DeleteSecret \/ ApplySecret
    /\ IF secret' = secret THEN UNCHANGED <<shownAt, damaged>>
       ELSE shownAt' = listedAt /\ damaged' = FALSE
    /\ UNCHANGED <<past, modAt, cachedAt, listedAt>>

\* A status patch leads to no new version.
PatchesStatus ==
    /\ PatchStatus
    /\ modAt' = IF modWatch' = modWatch THEN modAt ELSE Append(modAt, Current)
    /\ UNCHANGED <<past, cachedAt, listedAt, shownAt, damaged>>

DeliversModule ==
    /\ DeliverModule
    /\ cachedAt' = Head(modAt)
    /\ modAt' = Tail(modAt)
    /\ UNCHANGED <<past, listedAt, shownAt, damaged>>

DeliversSecret == DeliverSecret /\ UNCHANGED history

ChangesModules ==
    /\ CreateModule \/ UpdateModule \/ RemoveModule
    /\ past' = Append(past, Version(modules'))
    /\ modAt' = Append(modAt, Current + 1)
    /\ UNCHANGED <<cachedAt, listedAt, shownAt, damaged>>

DamagesSecret ==
    /\ RemoveSecret \/ EditSecret
    /\ damaged' = TRUE
    /\ UNCHANGED <<past, modAt, cachedAt, listedAt, shownAt>>

Restarts ==
    /\ Restart
    /\ cachedAt' = Current
    /\ modAt' = <<>>
    /\ UNCHANGED <<past, listedAt, shownAt, damaged>>

HistoryNext ==
    Lists \/ Publishes \/ WritesSecret \/ PatchesStatus \/ DeliversModule
    \/ DeliversSecret \/ ChangesModules \/ DamagesSecret \/ Restarts

HistorySystem == HistoryInit /\ [][HistoryNext]_allVars
-----------------------------------------------------------------------------
Promise == INSTANCE Publication
           WITH Snapshot <- Versions, Empty <- NoModules, Nothing <- None,
                Model <- ModelOf, shown <- shownAt, carried <- Carried(secret)

\* The controller keeps the promise: through caches that lag, lost
\* responses, restarts and retries, the Secret carries the model of one
\* version of all the modules, and is only ever replaced, or deleted, for a
\* later one.
PublishesVersions == Promise!PublicationSpec

\* A condition tells what a build came to: what it built to, if a good model
\* was published then, or that a good model could not be published.
Says(c, build) ==
    \/ /\ c.ready = build.ready /\ c.reason = build.reason
       /\ c.ready => build.hash \in published
    \/ /\ build.ready /\ ~c.ready
       /\ c.reason \in {"ModelPublishFailed", "ClientConfigWriteFailed"}

\* The module n of version v is the one there is now: it was not removed since.
SameInstance(n, v) == \A w \in v .. Current : past[w][n] # NoModule

\* A wake-up for the module n is under way, waits, or is being worked off.
Awaited(n) == n \in queue \cup {key} \/ \E i \in DOMAIN modWatch : modWatch[i].name = n

\* Every condition tells what the build of one version of the modules came
\* to, never of a mixture, and its generation is the one that its module had
\* in that version, although modules may change between the listing and the
\* patch.  A module that was deleted and created again may be given the
\* condition of its predecessor, since statuses are patched by name; it keeps
\* that condition only as long as a wake-up of its own is to come.
ConditionWasTrue ==
    \A n \in Present(modules) :
        LET c == modules[n].cond
        IN c # NoCondition =>
             \E v \in DOMAIN past :
                /\ past[v][n] # NoModule /\ past[v][n].gen = c.ogen
                /\ Says(c, BuildOf(past[v]))
                /\ SameInstance(n, v) \/ Awaited(n)

\* What the custom resource says of conditions, and a patch by name does not
\* keep: "observedGeneration represents the .metadata.generation that the
\* condition was set based upon".  A condition with the generation that its
\* module has was set for this module, not for an earlier one of its name.
ConditionIsOfInstance ==
    \A n \in Present(modules) :
        LET c == modules[n].cond
        IN c # NoCondition /\ c.ogen = modules[n].gen =>
             \E v \in DOMAIN past :
                /\ SameInstance(n, v) /\ past[v][n].gen = c.ogen
                /\ Says(c, BuildOf(past[v]))
=============================================================================
