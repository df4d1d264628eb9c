--------------------------- MODULE MCModelCompiler --------------------------
(***************************************************************************)
(* A small instance of the compiler and its users.                         *)
(*                                                                         *)
(* Relation names: 1 is a topology name, 2 a role's, 3 and 4 permissions', *)
(* 5 has a '#', 6 has a capital letter, 0 is the empty name; a role may be *)
(* called 1, a permission 2.                                               *)
(***************************************************************************)
EXTENDS ModuleEditing

MCType == {"project", "file", "user", NoResource}

User == [type |-> "user", relation |-> 0]
Member == [type |-> "project", relation |-> 2]
Nobody == [type |-> NoResource, relation |-> 0]
Same(relation) == [via |-> 0, relation |-> relation]
Via(relation) == [via |-> 1, relation |-> relation]

RoleOf(subjects, inherited) == [subjects |-> subjects, inherited |-> inherited]
Roles == {RoleOf({}, <<>>), RoleOf({User}, <<>>), RoleOf({Member}, <<>>), RoleOf({Nobody}, <<>>),
          RoleOf({}, <<Same(3)>>), RoleOf({}, <<Same(6)>>), RoleOf({}, <<Via(2)>>),
          RoleOf({User}, <<Via(3), Same(3)>>), RoleOf({User}, <<Same(5)>>)}

MCTopologyEdits ==
    [name : {1}, resources : {{}, {"project"}, {"project", "file"}, {NoResource}}]
MCRoleEdits ==
    [name : {2}, role : Roles] \cup [name : {1}, role : {RoleOf({User}, <<>>)}]
MCPermissionEdits ==
    [name : {3, 4}, anyOf : {<<>>, <<2>>, <<4>>, <<3, 1>>}]
    \cup [name : {0, 2, 5, 6}, anyOf : {<<4>>}]
=============================================================================
