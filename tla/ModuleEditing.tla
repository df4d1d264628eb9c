--------------------------- MODULE ModuleEditing ----------------------------
(***************************************************************************)
(* Users add modules and write topology relations, roles and permissions   *)
(* into them, well formed or not; what the compiler makes of every listing *)
(* that comes of it.                                                       *)
(***************************************************************************)
EXTENDS ApiSchema

CONSTANTS
    Type,            \* names of resources and types, NoResource included
    TopologyEdits,   \* the topology relations users may write: name, resources
    RoleEdits,       \* the roles: name, role
    PermissionEdits, \* the permissions: name, anyOf
    MaxModules,      \* bound: modules
    MaxEdits         \* bound: edits

Role == [subjects : SUBSET [type : Type, relation : Nat],
         inherited : Seq([via : Nat, relation : Nat])]

ASSUME EditsAssumption ==
    /\ TopologyEdits \subseteq [name : Nat, resources : SUBSET Type]
    /\ RoleEdits \subseteq [name : Nat, role : Role]
    /\ PermissionEdits \subseteq [name : Nat, anyOf : Seq(Nat)]

VARIABLES listing, edits

Add(resource) ==
    /\ Len(listing) < MaxModules
    /\ listing' = Append(listing,
         [name |-> Len(listing) + 1,
          spec |-> [resource |-> resource, topology |-> <<>>, roles |-> <<>>, permissions |-> <<>>]])

Write(i, spec) == listing' = [listing EXCEPT ![i] = [@ EXCEPT !.spec = spec]]

Put(f, x, y) == [z \in DOMAIN f \cup {x} |-> IF z = x THEN y ELSE f[z]]

\* An edit gives an unused name of one kind a meaning.
WriteTopology(i, e) ==
    LET spec == listing[i].spec
    IN /\ e.name \notin DOMAIN spec.topology
       /\ Write(i, [spec EXCEPT !.topology = Put(@, e.name, e.resources)])

WriteRole(i, e) ==
    LET spec == listing[i].spec
    IN /\ e.name \notin DOMAIN spec.roles
       /\ Write(i, [spec EXCEPT !.roles = Put(@, e.name, e.role)])

WritePermission(i, e) ==
    LET spec == listing[i].spec
    IN /\ e.name \notin DOMAIN spec.permissions
       /\ Write(i, [spec EXCEPT !.permissions = Put(@, e.name, e.anyOf)])

Edit ==
    \/ \E resource \in Type : Add(resource)
    \/ \E i \in DOMAIN listing :
          \/ \E e \in TopologyEdits : WriteTopology(i, e)
          \/ \E e \in RoleEdits : WriteRole(i, e)
          \/ \E e \in PermissionEdits : WritePermission(i, e)

Init == listing = <<>> /\ edits = 0
Next == edits < MaxEdits /\ edits' = edits + 1 /\ Edit
Editing == Init /\ [][Next]_<<listing, edits>>

-----------------------------------------------------------------------------
result == Compile(listing)

\* The same modules in any other order give the same model, and are refused
\* if these are: the cache lists modules in no fixed order, and a hash that
\* moved with it would republish for ever ("Compile builds one deterministic
\* OpenFGA authorization model from module specs").  This is about what the
\* model says; that the code also sorts what it writes down is not in it.
OrderIndependent ==
    \A p \in Bijection(DOMAIN listing, DOMAIN listing) :
        LET other == Compile([i \in DOMAIN listing |-> listing[p[i]]])
        IN other.ok = result.ok /\ (result.ok => other.model = result.model)

\* What a relation is computed from exists on the type; what it is reached
\* through is a direct relation, to types that each define the relation
\* wanted there.
Closed(def, model) ==
    \A n \in DOMAIN def.relations : \A c \in Range(def.relations[n]) :
          /\ c.op = "this" => n \in DOMAIN def.direct
          /\ c.op = "computed" => c.relation \in DOMAIN def.relations
          /\ c.op = "tupleTo" =>
                /\ def.relations[c.via] = <<This>>
                /\ \A u \in def.direct[c.via] :
                      u.relation = 0 /\ c.relation \in DOMAIN model[u.type].relations

\* What Compile does not look up: that a subject names a type, and that
\* somebody defines the relation it names there.
Unresolved(u, modules) ==
    u.type = NoResource \/ (u.relation # 0 /\ u.relation \notin RelationsOf(modules, u.type))

\* The module that defines the type t wrote u as a subject of its role n.
Subject(u, n, t, modules) ==
    \E i \in DOMAIN modules : LET spec == modules[i].spec
        IN spec.resource = t /\ n \in DOMAIN spec.roles /\ u \in spec.roles[n].subjects

\* The only references of an accepted model that lead nowhere are subjects
\* as users wrote them ("group#member" where no module gives group any
\* relation compiles), which are left to Validate.  Whatever else a relation
\* is computed from, is reached through or may point to exists in the model,
\* across modules, and three passes over all of them are to ensure it.
NoLooseEnds ==
    result.ok => \A t \in DOMAIN result.model :
        LET def == result.model[t]
        IN /\ Closed(def, result.model)
           /\ \A n \in DOMAIN def.direct : \A u \in def.direct[n] :
                 Defined(u, result.model) \/ (Unresolved(u, listing) /\ Subject(u, n, t, listing))

\* A module never changes what another module's resource means: if the
\* others compile without it, its arrival leaves their definitions alone.
Isolated ==
    result.ok =>
        \A k \in DOMAIN listing :
            LET others == RemoveAt(listing, k)
                before == Compile(others)
            IN before.ok => \A i \in DOMAIN others :
                   LET r == others[i].spec.resource IN result.model[r] = before.model[r]

\* Permissions by themselves never make a model that OpenFGA would refuse as
\* cyclic: only an inherited role can close a cycle.
CyclesNeedRoles ==
    result.ok /\ (\A i \in DOMAIN listing : \A r \in DOMAIN listing[i].spec.roles :
                     \A k \in DOMAIN listing[i].spec.roles[r].inherited :
                        listing[i].spec.roles[r].inherited[k].via # 0)
        => Acyclic(result.model)

\* The schema and the compiler agree on what a module is.  Modules that the
\* API server has admitted are refused for what the schema cannot say (a
\* malformed key, a name that is taken, a role that grants nothing, a
\* reference that leads nowhere), never for what it does say; so a user
\* learns of it when writing the module, and not by a status of every module.
RefusedBeyondSchema ==
    result.ok \/ (\E i \in DOMAIN listing : ~Admitted(listing[i].spec))
    \/ /\ result.kind \notin {"resource required", "empty topology", "empty permission"}
       /\ result.kind = "invalid name" =>
             \E i \in DOMAIN listing : \E n \in RelationNames(listing[i].spec) : ~ValidName(n)
=============================================================================
