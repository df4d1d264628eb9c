---------------------------- MODULE MCReconciler ----------------------------
(***************************************************************************)
(* Small instances of the controller.  A specification is the resource its *)
(* module defines; two modules that define one resource do not compile,    *)
(* and the message depends on which of them is listed first.               *)
(***************************************************************************)
EXTENDS Reconciler

CONSTANTS a, b,   \* names of modules
          u1, u2, \* URLs
          t1,     \* a token
          s1,     \* a store
          m1      \* a model

MCHash == {{x, y} : x, y \in Spec}

MCBuildError == {"defined by both a and b", "defined by both b and a"}

MCBuild(listing) ==
    IF \E i, j \in DOMAIN listing : i # j /\ listing[i].spec = listing[j].spec
    THEN Failed("ModelCompileFailed",
                IF listing[1].name = a THEN "defined by both a and b" ELSE "defined by both b and a")
    ELSE Succeeded({listing[i].spec : i \in DOMAIN listing})

\* The environment of config/manager, without OPENFGA_STORE_ID and token.
OneSetting == {[url |-> u1, token |-> None, store |-> None]}

\* A second OpenFGA, with a token.
TwoSettings == OneSetting \cup {[url |-> u2, token |-> t1, store |-> None]}

\* A store fixed by the environment, which is left there when the URL
\* changes, and no OPENFGA_API_URL at all.
AllSettings == TwoSettings \cup {[url |-> u1, token |-> None, store |-> s1],
                                 [url |-> u2, token |-> None, store |-> s1],
                                 [url |-> None, token |-> None, store |-> None]}

\* A state that the controller comes to rest in: one module,
\* published for u1.
PublishedInit ==
    /\ Cardinality(Name) = 1
    /\ \E sp \in Spec :
          /\ modules = [n \in Name |->
                [gen |-> 1, spec |-> sp, hash |-> {sp},
                 cond |-> [ready |-> TRUE, reason |-> "ModelPublished",
                           msg |-> "Authorization model published", ogen |-> 1]]]
          /\ secret = [hash |-> {sp}, data |-> New([url |-> u1, token |-> None], s1, m1)]
          /\ models = [m \in ModelId |->
                IF m = m1 THEN [url |-> u1, store |-> s1, hash |-> {sp}] ELSE None]
          /\ published = {{sp}}
    /\ stores = [s \in StoreId |-> IF s = s1 THEN u1 ELSE None]
    /\ modCache = modules /\ secCache = secret
    /\ modWatch = <<>> /\ secWatch = <<>>
    /\ queue = {}
    /\ settings \in {s \in Settings : s.url = u1}
    /\ pc = "idle"
    /\ key = None /\ items = <<>> /\ verdict = NoVerdict
    /\ existing = NoSecret /\ storeID = None /\ modelID = None
    /\ ops = 0 /\ faults = 0

\* Nothing tells the two specifications apart.
SpecSymmetry == Permutations(Spec)
=============================================================================
