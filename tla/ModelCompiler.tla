--------------------------- MODULE ModelCompiler ----------------------------
(***************************************************************************)
(* model.Compile: one OpenFGA authorization model from the specifications  *)
(* of all modules.                                                         *)
(*                                                                         *)
(* A relation name is a number, its rank in the order of sort.Strings; 0   *)
(* is the empty string, and BadName are the names with a '#'.  A listing   *)
(* is a sequence of [name, spec] with                                      *)
(*                                                                         *)
(*   spec = [resource, topology, roles, permissions]                       *)
(*     topology    relation -> the set of resources it may point to        *)
(*     roles       relation -> [subjects, inherited]: a set of             *)
(*                 [type, relation] and a sequence of [via, relation]      *)
(*     permissions relation -> the sequence anyOf of relations             *)
(*                                                                         *)
(* Resources and subjects are sorted by the compiler, so sets stand for    *)
(* them; inherited and anyOf keep their order.                             *)
(***************************************************************************)
EXTENDS Integers, Sequences, FiniteSets, SequencesExt

CONSTANTS None,       \* no error
          NoResource, \* the empty name of a resource or a type
          BadName     \* relation names that contain a '#'

\* An accepted listing has a model, another the first error found.
Accepted(model) == [ok |-> TRUE, model |-> model]
Rejected(kind, module) == [ok |-> FALSE, kind |-> kind, module |-> module]

\* What a listing may be rejected for.
Error == {"resource required", "duplicate resource", "invalid name", "name conflict",
          "empty topology", "empty role", "inherits unknown relation", "unknown topology relation",
          "resource does not define relation", "empty permission",
          "permission references unknown relation"}

ASSUME NoneAssumption == None \notin Error

ValidName(relation) == relation # 0 /\ relation \notin BadName

\* Errors by the number of a name or of a place in a list, None where there
\* is none: names are gone through in sorted order, lists from the front, and
\* the first error is returned.
Passed(errors) == \A x \in DOMAIN errors : errors[x] = None

FirstAt(errors) ==
    CHOOSE x \in DOMAIN errors : errors[x] # None /\ \A y \in DOMAIN errors : y < x => errors[y] = None

FirstOf(errors) == IF Passed(errors) THEN None ELSE errors[FirstAt(errors)]

\* The relations a module defines, whatever their kind.
RelationNames(spec) == DOMAIN spec.topology \cup DOMAIN spec.roles \cup DOMAIN spec.permissions

\* Mutant of RelationsOf: the last module is forgotten.
RelationsOfOthers(listing, resource) ==
    UNION {RelationNames(listing[i].spec) :
             i \in {j \in 1 .. Len(listing) - 1 : listing[j].spec.resource = resource}}

\* relationNamesByResource of the whole listing, at one resource.
RelationsOf(listing, resource) ==
    UNION {RelationNames(listing[i].spec) : i \in {j \in DOMAIN listing : listing[j].spec.resource = resource}}

\* Every type the model defines: the modules' resources, and whatever their
\* subjects and topologies mention.
Mentioned(spec) ==
    {spec.resource} \cup (UNION {spec.topology[t] : t \in DOMAIN spec.topology})
    \cup {u.type : u \in {v \in UNION {spec.roles[r].subjects : r \in DOMAIN spec.roles} : v.type # NoResource}}

Types(listing) == UNION {Mentioned(listing[i].spec) : i \in DOMAIN listing}

-----------------------------------------------------------------------------
(* The checks, each on one module.  None means that the check passes.      *)

\* Mutant of ResourceError: duplicates are not looked for.
ResourceNamed(listing, i) ==
    IF listing[i].spec.resource = NoResource THEN "resource required" ELSE None

\* The first pass: the resource is named and nobody has defined it before.
ResourceError(listing, i) ==
    LET resource == listing[i].spec.resource
    IN IF resource = NoResource THEN "resource required"
       ELSE IF \E j \in 1 .. i - 1 : listing[j].spec.resource = resource THEN "duplicate resource"
       ELSE None

\* The second pass: names are well formed, and a role takes no name of the
\* topology, a permission none of the topology and the roles.
NameError(spec) ==
    LET Check(names, earlier) ==
            FirstOf([n \in names |-> IF ~ValidName(n) THEN "invalid name"
                                     ELSE IF n \in earlier THEN "name conflict" ELSE None])
    IN FirstOf(<<Check(DOMAIN spec.topology, {}),
                 Check(DOMAIN spec.roles, DOMAIN spec.topology),
                 Check(DOMAIN spec.permissions, DOMAIN spec.topology \cup DOMAIN spec.roles)>>)

\* Mutant of InheritedError: one resource with the relation is enough.
InheritedFromSome(listing, spec, inherited) ==
    IF inherited.via = 0
    THEN IF inherited.relation \in RelationsOf(listing, spec.resource) THEN None
         ELSE "inherits unknown relation"
    ELSE IF inherited.via \notin DOMAIN spec.topology THEN "unknown topology relation"
    ELSE IF \E r \in spec.topology[inherited.via] : inherited.relation \in RelationsOf(listing, r)
    THEN None ELSE "resource does not define relation"

\* One inherited relation of a role: on the resource itself, or on every
\* resource that the topology relation via points to.
InheritedError(listing, spec, inherited) ==
    IF ~ValidName(inherited.relation) THEN "invalid name"
    ELSE IF inherited.via = 0
    THEN IF inherited.relation \in RelationsOf(listing, spec.resource) THEN None
         ELSE "inherits unknown relation"
    ELSE IF ~ValidName(inherited.via) THEN "invalid name"
    ELSE IF inherited.via \notin DOMAIN spec.topology THEN "unknown topology relation"
    ELSE IF \A r \in spec.topology[inherited.via] : inherited.relation \in RelationsOf(listing, r)
    THEN None ELSE "resource does not define relation"

RoleError(listing, spec, role) ==
    IF role.subjects = {} /\ role.inherited = <<>> THEN "empty role"
    ELSE FirstOf([k \in DOMAIN role.inherited |-> InheritedError(listing, spec, role.inherited[k])])

\* Mutant of CompiledBefore: any relation of the module will do.
AnyRelation(spec, permission) == RelationNames(spec)

\* What a permission may refer to: the compiler looks it up among the
\* relations compiled so far, where permissions come last and in order.
CompiledBefore(spec, permission) ==
    DOMAIN spec.topology \cup DOMAIN spec.roles
    \cup {p \in DOMAIN spec.permissions : p < permission}

PermissionError(spec, permission) ==
    LET anyOf == spec.permissions[permission]
    IN IF anyOf = <<>> THEN "empty permission"
       ELSE IF Range(anyOf) \subseteq CompiledBefore(spec, permission) THEN None
       ELSE "permission references unknown relation"

TopologyError(resources) == IF resources = {} THEN "empty topology" ELSE None

\* The third pass: compileModule.
BodyError(listing, spec) ==
    FirstOf(<<FirstOf([n \in DOMAIN spec.topology |-> TopologyError(spec.topology[n])]),
              FirstOf([n \in DOMAIN spec.roles |-> RoleError(listing, spec, spec.roles[n])]),
              FirstOf([n \in DOMAIN spec.permissions |-> PermissionError(spec, n)])>>)

-----------------------------------------------------------------------------
(* The compiled relations.  A userset is the sequence of what it unites.   *)

This == [op |-> "this"]
Computed(relation) == [op |-> "computed", relation |-> relation]
TupleTo(via, relation) == [op |-> "tupleTo", via |-> via, relation |-> relation]

CompileInherited(inherited) ==
    IF inherited.via = 0 THEN Computed(inherited.relation)
                         ELSE TupleTo(inherited.via, inherited.relation)

CompileRole(role) ==
    (IF role.subjects = {} THEN <<>> ELSE <<This>>)
    \o [k \in DOMAIN role.inherited |-> CompileInherited(role.inherited[k])]

CompilePermission(anyOf) == [k \in DOMAIN anyOf |-> Computed(anyOf[k])]

\* The relations of a type definition, and the types and usersets that may
\* be written directly (the metadata).
TypeDefinition(spec) ==
    [relations |-> [n \in RelationNames(spec) |->
                      IF n \in DOMAIN spec.topology THEN <<This>>
                      ELSE IF n \in DOMAIN spec.roles THEN CompileRole(spec.roles[n])
                      ELSE CompilePermission(spec.permissions[n])],
     direct |-> [n \in DOMAIN spec.topology
                       \cup {r \in DOMAIN spec.roles : spec.roles[r].subjects # {}} |->
                   IF n \in DOMAIN spec.topology
                   THEN {[type |-> t, relation |-> 0] : t \in spec.topology[n]}
                   ELSE spec.roles[n].subjects]]

\* A type that is only mentioned has no relations.
EmptyType == [relations |-> <<>>, direct |-> <<>>]

\* The type definitions, by type.
Definitions(listing) ==
    [t \in Types(listing) |->
       IF \E i \in DOMAIN listing : listing[i].spec.resource = t
       THEN TypeDefinition((CHOOSE m \in Range(listing) : m.spec.resource = t).spec)
       ELSE EmptyType]

\* Each pass goes through all modules before the next begins.
Compile(listing) ==
    LET Pass(errors) == IF Passed(errors) THEN <<>>
                        ELSE <<Rejected(FirstOf(errors), listing[FirstAt(errors)].name)>>
        errors == Pass([i \in DOMAIN listing |-> ResourceError(listing, i)])
                  \o Pass([i \in DOMAIN listing |-> NameError(listing[i].spec)])
                  \o Pass([i \in DOMAIN listing |-> BodyError(listing, listing[i].spec)])
    IN IF errors # <<>> THEN Head(errors) ELSE Accepted(Definitions(listing))

-----------------------------------------------------------------------------
(* What typesystem.NewAndValidate, called by Validate, asks of a model.    *)

\* All pairs of a type and one of its relations.
Relations(defs) == UNION {{<<t, n>> : n \in DOMAIN defs[t].relations} : t \in DOMAIN defs}

\* What a pair is computed from on the object itself.
ComputedFrom(defs, pair) ==
    {<<pair[1], child.relation>> :
       child \in {c \in Range(defs[pair[1]].relations[pair[2]]) : c.op = "computed"}}

\* No relation is computed from itself: some ranking puts every relation
\* above those it is computed from.
Acyclic(defs) ==
    \E rank \in [Relations(defs) -> 1 .. Cardinality(Relations(defs))] :
        \A p \in Relations(defs) : \A q \in ComputedFrom(defs, p) : rank[q] < rank[p]

\* Given pairs that somebody can have, the pairs that one step more gives.
Entered(defs, S) ==
    {p \in Relations(defs) : \E child \in Range(defs[p[1]].relations[p[2]]) :
        \/ /\ child.op = "this"
           /\ \E u \in defs[p[1]].direct[p[2]] : u.relation = 0 \/ <<u.type, u.relation>> \in S
        \/ child.op = "computed" /\ <<p[1], child.relation>> \in S
        \/ /\ child.op = "tupleTo"
           /\ \E u \in defs[p[1]].direct[child.via] : <<u.type, child.relation>> \in S}

\* What may be written directly, u, is of a type and of a relation that exist.
Defined(u, defs) == u.type \in DOMAIN defs /\ (u.relation = 0 \/ u.relation \in DOMAIN defs[u.type].relations)

\* What may be written directly exists, no relation is computed from itself,
\* and each can be entered from some type.
Valid(defs) ==
    /\ \A t \in DOMAIN defs : \A n \in DOMAIN defs[t].direct : \A u \in defs[t].direct[n] : Defined(u, defs)
    /\ Acyclic(defs)
    /\ \A S \in SUBSET Relations(defs) : Entered(defs, S) \subseteq S => S = Relations(defs)
=============================================================================
