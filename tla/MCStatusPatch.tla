---------------------------- MODULE MCStatusPatch ----------------------------
(***************************************************************************)
(* Small instances of a module and its status.                             *)
(***************************************************************************)
EXTENDS StatusPatch

\* A module with nothing but a resource, and one with every map and slice;
\* a map's content are its keys.
MCShape ==
    {<<>>,
     <<"topology">> :> {"parent"} @@ <<"topology", "parent", "resources">> :> <<"project">>
     @@ <<"roles">> :> {"owner"} @@ <<"roles", "owner", "subjects">> :> <<"user">>
     @@ <<"roles", "owner", "inherited">> :> <<"parent owner">>
     @@ <<"permissions">> :> {"read"} @@ <<"permissions", "read", "anyOf">> :> <<"owner">>}
=============================================================================
