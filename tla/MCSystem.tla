------------------------------ MODULE MCSystem ------------------------------
(***************************************************************************)
(* The controller together with the compiler: what is built is what        *)
(* ModelCompiler makes of the listed specifications, checked as Validate   *)
(* checks it.                                                              *)
(*                                                                         *)
(* "project" is a resource with a role, "file" inherits that role from its *)
(* project, and "loop" defines project as well, with a role and a          *)
(* permission that are computed from each other.  Alone or together they   *)
(* compile, are refused by the compiler, or are refused by the validator.  *)
(***************************************************************************)
EXTENDS Publishing

CONSTANTS NoResource, u1

Compiler == INSTANCE ModelCompiler WITH BadName <- {}

User == [type |-> "user", relation |-> 0]

SpecOf ==
    [project |-> [resource |-> "project", topology |-> <<>>, permissions |-> <<>>,
                  roles |-> 2 :> [subjects |-> {User}, inherited |-> <<>>]],
     file |-> [resource |-> "file", topology |-> 1 :> {"project"}, permissions |-> <<>>,
               roles |-> 2 :> [subjects |-> {}, inherited |-> <<[via |-> 1, relation |-> 2]>>]],
     loop |-> [resource |-> "project", topology |-> <<>>, permissions |-> 3 :> <<2>>,
               roles |-> 2 :> [subjects |-> {User}, inherited |-> <<[via |-> 0, relation |-> 3]>>]]]

Compiled(l) == Compiler!Compile([i \in DOMAIN l |-> [name |-> l[i].name, spec |-> SpecOf[l[i].spec]]])

\* The hash is a SHA-256, taken not to collide: each model that can be
\* compiled has a number of its own.
ModelSeq == SetToSeq({Compiled(l).model : l \in {m \in Listings : Compiled(m).ok}})
SystemHash == DOMAIN ModelSeq
HashOf(model) == CHOOSE h \in SystemHash : ModelSeq[h] = model

SystemError == {"invalid model"} \cup {Compiled(l).kind : l \in {m \in Listings : ~Compiled(m).ok}}

SystemVerdict(l) ==
    LET c == Compiled(l)
    IN IF ~c.ok THEN Failed("ModelCompileFailed", c.kind)
       ELSE IF ~Compiler!Valid(c.model) THEN Failed("ModelValidationFailed", "invalid model")
       ELSE Succeeded(HashOf(c.model))

\* The verdicts, worked out once: what @@ yields is a table.
Verdicts == <<>> @@ [l \in Listings |-> SystemVerdict(l)]
SystemBuild(l) == Verdicts[l]

\* With fairness, and the history of versions.
FairHistorySystem == HistorySystem /\ Fairness

SystemSettings == {[url |-> u1, token |-> None, store |-> None]}
=============================================================================
