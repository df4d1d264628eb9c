------------------------------ MODULE ApiSchema ------------------------------
(***************************************************************************)
(* What the API server admits as the specification of an                   *)
(* AuthorizationModule: the validation markers of the API types, which     *)
(* controller-gen turns into the CustomResourceDefinition.                 *)
(*                                                                         *)
(* A list that is absent and optional is the empty one here.  The schema   *)
(* says nothing about the keys of topology, roles and permissions, nor     *)
(* about what a permission refers to.                                      *)
(***************************************************************************)
EXTENDS ModelCompiler

CONSTANT Plain \* relation names that match ^[a-z][a-z0-9_]*$

ASSUME PlainAssumption == 0 \notin Plain /\ Plain \cap BadName = {}

\* The name of a resource or type that is given matches the pattern.
AdmittedType(type) == type # NoResource

AdmittedTopology(resources) == resources # {} /\ \A r \in resources : AdmittedType(r)

AdmittedSubject(subject) == AdmittedType(subject.type) /\ subject.relation \in Plain \cup {0}

\* Mutant of AdmittedInherited: the markers of relation are forgotten.
AdmittedVia(inherited) == inherited.via \in Plain \cup {0}

AdmittedInherited(inherited) == inherited.relation \in Plain /\ inherited.via \in Plain \cup {0}

\* Neither list is required, and nothing says that one of them has to be there.
AdmittedRole(role) ==
    /\ \A s \in role.subjects : AdmittedSubject(s)
    /\ \A k \in DOMAIN role.inherited : AdmittedInherited(role.inherited[k])

AdmittedPermission(anyOf) == anyOf # <<>>

Admitted(spec) ==
    /\ AdmittedType(spec.resource)
    /\ \A t \in DOMAIN spec.topology : AdmittedTopology(spec.topology[t])
    /\ \A r \in DOMAIN spec.roles : AdmittedRole(spec.roles[r])
    /\ \A p \in DOMAIN spec.permissions : AdmittedPermission(spec.permissions[p])
=============================================================================
