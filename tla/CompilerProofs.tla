--------------------------- MODULE CompilerProofs ---------------------------
(***************************************************************************)
(* The compiler, for every listing of modules: what is accepted, that the  *)
(* order of the listing makes no difference, that modules leave each other *)
(* alone, that an accepted model has no loose ends, and that a module the  *)
(* API server admits is refused only for what the schema cannot say.       *)
(*                                                                         *)
(* The lemmas are about any listing of Modules, of any length; the         *)
(* theorems are those lemmas about the listing that users edit.            *)
(***************************************************************************)
EXTENDS ModuleEditing, FiniteSetTheorems, FunctionTheorems, SequenceTheorems, WellFoundedInduction, TLAPS

\* A map from names to values in S, as it is written in a specification.
Table(S) == UNION {[D -> S] : D \in {E \in SUBSET Nat : IsFiniteSet(E)}}

Specification == [resource : Type, topology : Table(SUBSET Type), roles : Table(Role),
                  permissions : Table(Seq(Nat))]

Modules == [name : Nat, spec : Specification]

-----------------------------------------------------------------------------
(* The first error.                                                        *)

\* A set of numbers has a least one.
LEMMA LeastNumber ==
    ASSUME NEW S \in SUBSET Nat, S # {}
    PROVE  \E x \in S : \A y \in S : x <= y
  <1>1. PICK x \in S : \A y \in S : ~ (<<y, x>> \in OpToRel(<, Nat))
    BY NatLessThanWellFounded, WFMin
  <1>2. \A y \in S : ~ (y < x)
    BY <1>1 DEF OpToRel
  <1> QED
    BY <1>2

\* Errors found in order are reported if there are any, and what is reported
\* is one of them.
LEMMA FirstIsOne ==
    ASSUME NEW errors, DOMAIN errors \subseteq Nat
    PROVE  /\ FirstOf(errors) = None <=> Passed(errors)
           /\ ~Passed(errors) => /\ FirstAt(errors) \in DOMAIN errors
                                 /\ FirstOf(errors) = errors[FirstAt(errors)]
                                 /\ FirstOf(errors) # None
  <1> DEFINE wrong == {x \in DOMAIN errors : errors[x] # None}
  <1>1. CASE Passed(errors)
    BY <1>1 DEF FirstOf
  <1>2. CASE ~Passed(errors)
    <2>1. wrong # {} /\ wrong \in SUBSET Nat
      BY <1>2 DEF Passed
    <2>2. PICK x \in wrong : \A y \in wrong : x <= y
      BY <2>1, LeastNumber
    <2>3. \A y \in DOMAIN errors : y < x => errors[y] = None
      BY <2>2
    <2>4. FirstAt(errors) \in DOMAIN errors /\ errors[FirstAt(errors)] # None
      BY <2>3 DEF FirstAt
    <2> QED
      BY <1>2, <2>4 DEF FirstOf
  <1> QED
    BY <1>1, <1>2

\* Three groups of errors pass together.
LEMMA ThreePass ==
    ASSUME NEW a, NEW b, NEW c
    PROVE  /\ FirstOf(<<a, b, c>>) = None <=> a = None /\ b = None /\ c = None
           /\ FirstOf(<<a, b, c>>) \in {None, a, b, c}
  <1> DEFINE errors == <<a, b, c>>
  <1>1. DOMAIN errors = 1 .. 3 /\ errors[1] = a /\ errors[2] = b /\ errors[3] = c
    OBVIOUS
  <1>2. DOMAIN errors \subseteq Nat /\ (\A x \in DOMAIN errors : x = 1 \/ x = 2 \/ x = 3)
    BY <1>1
  <1> HIDE DEF errors
  <1>3. Passed(errors) <=> a = None /\ b = None /\ c = None
    BY <1>1, <1>2 DEF Passed
  <1>4. FirstOf(errors) \in {None, a, b, c}
    BY <1>1, <1>2, FirstIsOne DEF FirstOf
  <1> QED
    BY <1>2, <1>3, <1>4, FirstIsOne DEF errors

-----------------------------------------------------------------------------
(* What is accepted.                                                       *)

\* The three passes, without the order of their errors.
Resourceful(l) ==
    /\ \A i \in DOMAIN l : l[i].spec.resource # NoResource
    /\ \A i, j \in DOMAIN l : i # j => l[i].spec.resource # l[j].spec.resource

Sound(l) ==
    /\ Resourceful(l)
    /\ \A i \in DOMAIN l : NameError(l[i].spec) = None /\ BodyError(l, l[i].spec) = None

WellNamed(spec) ==
    /\ \A n \in RelationNames(spec) : ValidName(n)
    /\ DOMAIN spec.roles \cap DOMAIN spec.topology = {}
    /\ DOMAIN spec.permissions \cap (DOMAIN spec.topology \cup DOMAIN spec.roles) = {}

\* What an inherited relation may be.
Inheritable(l, spec, inherited) ==
    /\ ValidName(inherited.relation)
    /\ inherited.via = 0 => inherited.relation \in RelationsOf(l, spec.resource)
    /\ inherited.via # 0 =>
          /\ ValidName(inherited.via)
          /\ inherited.via \in DOMAIN spec.topology
          /\ \A r \in spec.topology[inherited.via] : inherited.relation \in RelationsOf(l, r)

WellFilled(l, spec) ==
    /\ \A r \in DOMAIN spec.roles : \A k \in DOMAIN spec.roles[r].inherited :
          Inheritable(l, spec, spec.roles[r].inherited[k])
    /\ \A p \in DOMAIN spec.permissions : Range(spec.permissions[p]) \subseteq CompiledBefore(spec, p)

\* A table has names for its keys,
LEMMA TableTyped ==
    ASSUME NEW S, NEW f \in Table(S)
    PROVE  DOMAIN f \subseteq Nat /\ IsFiniteSet(DOMAIN f) /\ \A x \in DOMAIN f : f[x] \in S
  BY DEF Table

\* and a specification has tables.
LEMMA SpecTyped ==
    ASSUME NEW spec \in Specification
    PROVE  /\ RelationNames(spec) \subseteq Nat /\ IsFiniteSet(RelationNames(spec))
           /\ DOMAIN spec.topology \subseteq Nat /\ DOMAIN spec.roles \subseteq Nat
           /\ DOMAIN spec.permissions \subseteq Nat
           /\ \A n \in DOMAIN spec.topology : spec.topology[n] \subseteq Type
           /\ \A r \in DOMAIN spec.roles :
                 spec.roles[r] \in Role /\ DOMAIN spec.roles[r].inherited \subseteq Nat
           /\ \A p \in DOMAIN spec.permissions : spec.permissions[p] \in Seq(Nat)
  <1>1. spec.topology \in Table(SUBSET Type) /\ spec.roles \in Table(Role) /\ spec.permissions \in Table(Seq(Nat))
    BY DEF Specification
  <1>2. ASSUME NEW role \in Role PROVE DOMAIN role.inherited \subseteq Nat
    <2>1. role.inherited \in Seq([via : Nat, relation : Nat])
      BY DEF Role
    <2> QED
      BY <2>1
  <1>3. IsFiniteSet(RelationNames(spec))
    BY <1>1, TableTyped, FS_Union DEF RelationNames
  <1> QED
    BY <1>1, <1>2, <1>3, TableTyped DEF RelationNames

\* The compiler accepts the listings that no pass finds an error in.
LEMMA AcceptedIff ==
    ASSUME NEW l \in Seq(Modules)
    PROVE  /\ Compile(l).ok <=> Sound(l)
           /\ Compile(l).ok \in BOOLEAN
           /\ Compile(l).ok => Compile(l).model = Definitions(l)
  <1> DEFINE resources == [i \in DOMAIN l |-> ResourceError(l, i)]
             names == [i \in DOMAIN l |-> NameError(l[i].spec)]
             bodies == [i \in DOMAIN l |-> BodyError(l, l[i].spec)]
             Pass(errors) == IF Passed(errors) THEN <<>>
                             ELSE <<Rejected(FirstOf(errors), l[FirstAt(errors)].name)>>
             found == Pass(resources) \o Pass(names) \o Pass(bodies)
  <1>1. Compile(l) = IF found # <<>> THEN Head(found) ELSE Accepted(Definitions(l))
    BY DEF Compile
  <1>2. \A e : Pass(e) = <<>> <=> Passed(e)
    OBVIOUS
  <1>3. \A e : Pass(e) = <<>> \/ \E k, m : Pass(e) = <<Rejected(k, m)>>
    OBVIOUS
  <1>4. Passed(resources) <=> Resourceful(l)
    <2>1. DOMAIN l = 1 .. Len(l) /\ Len(l) \in Nat
      OBVIOUS
    <2>2. ASSUME NEW i \in DOMAIN l
          PROVE  ResourceError(l, i) = None <=>
                    /\ l[i].spec.resource # NoResource
                    /\ \A j \in 1 .. i - 1 : l[j].spec.resource # l[i].spec.resource
      BY NoneAssumption DEF ResourceError, Error
    <2>3. Passed(resources) <=> \A i \in DOMAIN l : ResourceError(l, i) = None
      BY DEF Passed
    <2>4. ASSUME \A i \in DOMAIN l : \A j \in 1 .. i - 1 : l[j].spec.resource # l[i].spec.resource,
                 NEW i \in DOMAIN l, NEW j \in DOMAIN l, i # j
          PROVE  l[i].spec.resource # l[j].spec.resource
      <3>1. i \in 1 .. j - 1 \/ j \in 1 .. i - 1
        BY <2>1, <2>4
      <3> QED
        BY <2>4, <3>1
    <2>5. ASSUME NEW i \in DOMAIN l, NEW j \in 1 .. i - 1
          PROVE  j \in DOMAIN l /\ j # i
      BY <2>1
    <2> HIDE DEF resources
    <2> QED
      BY <2>2, <2>3, <2>4, <2>5 DEF Resourceful
  <1>5. /\ Passed(names) <=> \A i \in DOMAIN l : NameError(l[i].spec) = None
        /\ Passed(bodies) <=> \A i \in DOMAIN l : BodyError(l, l[i].spec) = None
    BY DEF Passed
  <1>6. found = <<>> <=> Sound(l)
    <2> HIDE DEF resources, names, bodies
    <2>1. found = <<>> <=> Pass(resources) = <<>> /\ Pass(names) = <<>> /\ Pass(bodies) = <<>>
      BY <1>3
    <2> QED
      BY <1>2, <1>4, <1>5, <2>1 DEF Sound
  <1>7. found # <<>> => \E k, m : Head(found) = Rejected(k, m)
    <2> HIDE DEF resources, names, bodies
    <2> QED
      BY <1>3
  <1> HIDE DEF found
  <1>8. CASE found = <<>>
    <2>1. Compile(l) = Accepted(Definitions(l))
      BY <1>1, <1>8
    <2>2. Compile(l).ok = TRUE /\ Compile(l).model = Definitions(l)
      BY <2>1 DEF Accepted
    <2> QED
      BY <1>6, <1>8, <2>2
  <1>9. CASE found # <<>>
    <2> PICK k, m : Compile(l) = Rejected(k, m)
      BY <1>1, <1>7, <1>9
    <2>1. Compile(l).ok = FALSE
      BY DEF Rejected
    <2> QED
      BY <1>6, <1>9, <2>1
  <1> QED
    BY <1>8, <1>9

\* What the second pass accepts,
LEMMA NamesIff ==
    ASSUME NEW spec \in Specification
    PROVE  NameError(spec) = None <=> WellNamed(spec)
  <1> DEFINE Of(names, earlier) ==
               [n \in names |-> IF ~ValidName(n) THEN "invalid name"
                                ELSE IF n \in earlier THEN "name conflict" ELSE None]
             t == DOMAIN spec.topology
             r == DOMAIN spec.roles
             p == DOMAIN spec.permissions
  <1>1. ASSUME NEW names \in SUBSET Nat, NEW earlier
        PROVE  FirstOf(Of(names, earlier)) = None
                  <=> \A n \in names : ValidName(n) /\ n \notin earlier
    <2> DEFINE errors == Of(names, earlier)
    <2>1. Passed(errors) <=> \A n \in names : ValidName(n) /\ n \notin earlier
      BY NoneAssumption DEF Passed, Error
    <2>2. DOMAIN errors \subseteq Nat
      OBVIOUS
    <2> HIDE DEF errors
    <2>3. FirstOf(errors) = None <=> Passed(errors)
      BY <2>2, FirstIsOne
    <2> QED
      BY <2>1, <2>3 DEF errors
  <1>2. NameError(spec) = FirstOf(<<FirstOf(Of(t, {})), FirstOf(Of(r, t)), FirstOf(Of(p, t \cup r))>>)
    BY DEF NameError
  <1>3. t \in SUBSET Nat /\ r \in SUBSET Nat /\ p \in SUBSET Nat
    BY SpecTyped
  <1>4. RelationNames(spec) = t \cup r \cup p
    BY DEF RelationNames
  <1> HIDE DEF Of
  <1>5. NameError(spec) = None <=>
           FirstOf(Of(t, {})) = None /\ FirstOf(Of(r, t)) = None /\ FirstOf(Of(p, t \cup r)) = None
    BY <1>2, ThreePass
  <1>6. /\ FirstOf(Of(t, {})) = None <=> \A n \in t : ValidName(n)
        /\ FirstOf(Of(r, t)) = None <=> \A n \in r : ValidName(n) /\ n \notin t
        /\ FirstOf(Of(p, t \cup r)) = None <=> \A n \in p : ValidName(n) /\ n \notin t \cup r
    BY <1>1, <1>3
  <1> QED
    BY <1>4, <1>5, <1>6 DEF WellNamed

\* what makes an inherited relation pass,
LEMMA InheritedIff ==
    ASSUME NEW l, NEW spec, NEW inherited
    PROVE  InheritedError(l, spec, inherited) = None <=> Inheritable(l, spec, inherited)
  BY NoneAssumption DEF InheritedError, Inheritable, Error, ValidName

\* and what the third pass lets through.
LEMMA BodyPasses ==
    ASSUME NEW l, NEW spec \in Specification
    PROVE  BodyError(l, spec) = None <=>
             /\ \A n \in DOMAIN spec.topology : TopologyError(spec.topology[n]) = None
             /\ \A r \in DOMAIN spec.roles : RoleError(l, spec, spec.roles[r]) = None
             /\ \A p \in DOMAIN spec.permissions : PermissionError(spec, p) = None
  <1> DEFINE t == [n \in DOMAIN spec.topology |-> TopologyError(spec.topology[n])]
             r == [n \in DOMAIN spec.roles |-> RoleError(l, spec, spec.roles[n])]
             p == [n \in DOMAIN spec.permissions |-> PermissionError(spec, n)]
  <1>1. DOMAIN t \subseteq Nat /\ DOMAIN r \subseteq Nat /\ DOMAIN p \subseteq Nat
    BY SpecTyped
  <1>2. /\ Passed(t) <=> \A n \in DOMAIN spec.topology : TopologyError(spec.topology[n]) = None
        /\ Passed(r) <=> \A n \in DOMAIN spec.roles : RoleError(l, spec, spec.roles[n]) = None
        /\ Passed(p) <=> \A n \in DOMAIN spec.permissions : PermissionError(spec, n) = None
    BY DEF Passed
  <1>3. BodyError(l, spec) = FirstOf(<<FirstOf(t), FirstOf(r), FirstOf(p)>>)
    BY DEF BodyError
  <1> HIDE DEF t, r, p
  <1>4. /\ FirstOf(t) = None <=> Passed(t)
        /\ FirstOf(r) = None <=> Passed(r)
        /\ FirstOf(p) = None <=> Passed(p)
    BY <1>1, FirstIsOne
  <1>5. BodyError(l, spec) = None <=> FirstOf(t) = None /\ FirstOf(r) = None /\ FirstOf(p) = None
    BY <1>3, ThreePass
  <1> QED
    BY <1>2, <1>4, <1>5

LEMMA RoleIff ==
    ASSUME NEW l, NEW spec, NEW role \in Role
    PROVE  RoleError(l, spec, role) = None <=>
             /\ role.subjects # {} \/ role.inherited # <<>>
             /\ \A k \in DOMAIN role.inherited : Inheritable(l, spec, role.inherited[k])
  <1> DEFINE errors == [k \in DOMAIN role.inherited |-> InheritedError(l, spec, role.inherited[k])]
  <1>1. role.inherited \in Seq([via : Nat, relation : Nat])
    BY DEF Role
  <1>2. DOMAIN errors \subseteq Nat
    BY <1>1
  <1>3. Passed(errors) <=> \A k \in DOMAIN role.inherited : InheritedError(l, spec, role.inherited[k]) = None
    BY DEF Passed
  <1>4. RoleError(l, spec, role) =
          IF role.subjects = {} /\ role.inherited = <<>> THEN "empty role" ELSE FirstOf(errors)
    BY DEF RoleError
  <1> HIDE DEF errors
  <1>5. FirstOf(errors) = None <=> Passed(errors)
    BY <1>2, FirstIsOne
  <1>6. None # "empty role"
    BY NoneAssumption DEF Error
  <1> QED
    BY <1>3, <1>4, <1>5, <1>6, InheritedIff

LEMMA BodyFilled ==
    ASSUME NEW l, NEW spec \in Specification, BodyError(l, spec) = None
    PROVE  WellFilled(l, spec)
  <1>1. \A r \in DOMAIN spec.roles : \A k \in DOMAIN spec.roles[r].inherited :
           Inheritable(l, spec, spec.roles[r].inherited[k])
    BY BodyPasses, SpecTyped, RoleIff
  <1>2. ASSUME NEW p \in DOMAIN spec.permissions
        PROVE  Range(spec.permissions[p]) \subseteq CompiledBefore(spec, p)
    <2>1. PermissionError(spec, p) = None
      BY BodyPasses
    <2> QED
      BY <2>1, NoneAssumption DEF PermissionError, Error
  <1> QED
    BY <1>1, <1>2 DEF WellFilled

-----------------------------------------------------------------------------
(* What a listing means, whatever its order.                               *)

LEMMA SameModules ==
    ASSUME NEW l, NEW m, Range(l) = Range(m)
    PROVE  /\ \A r : RelationsOf(l, r) = RelationsOf(m, r)
           /\ Types(l) = Types(m)
           /\ \A r : (\E i \in DOMAIN l : l[i].spec.resource = r)
                        <=> (\E i \in DOMAIN m : m[i].spec.resource = r)
  <1>1. /\ \A i \in DOMAIN l : \E j \in DOMAIN m : m[j] = l[i]
        /\ \A j \in DOMAIN m : \E i \in DOMAIN l : l[i] = m[j]
    <2>1. \A x : (x \in Range(l) <=> \E i \in DOMAIN l : x = l[i])
                 /\ (x \in Range(m) <=> \E j \in DOMAIN m : x = m[j])
      BY DEF Range
    <2> QED
      BY <2>1
  <1>2. ASSUME NEW r PROVE RelationsOf(l, r) = RelationsOf(m, r)
    <2>1. ASSUME NEW x
          PROVE  /\ x \in RelationsOf(l, r) <=> \E i \in DOMAIN l :
                       l[i].spec.resource = r /\ x \in RelationNames(l[i].spec)
                 /\ x \in RelationsOf(m, r) <=> \E i \in DOMAIN m :
                       m[i].spec.resource = r /\ x \in RelationNames(m[i].spec)
      BY DEF RelationsOf
    <2> QED
      BY <1>1, <2>1
  <1>3. {l[i].spec : i \in DOMAIN l} = {m[i].spec : i \in DOMAIN m}
    BY <1>1
  <1>4. Types(l) = Types(m)
    BY <1>3 DEF Types
  <1> QED
    BY <1>1, <1>2, <1>4

\* The definitions depend on nothing else,
LEMMA SameDefinitions ==
    ASSUME NEW l, NEW m, Range(l) = Range(m)
    PROVE  Definitions(l) = Definitions(m)
  BY SameModules DEF Definitions

\* nor does what a pass over the bodies finds.
LEMMA SameBodyError ==
    ASSUME NEW l, NEW m, NEW spec, \A r : RelationsOf(l, r) = RelationsOf(m, r)
    PROVE  BodyError(l, spec) = BodyError(m, spec)
  <1>1. ASSUME NEW inherited
        PROVE  InheritedError(l, spec, inherited) = InheritedError(m, spec, inherited)
    <2>1. inherited.relation \in RelationsOf(l, spec.resource)
             <=> inherited.relation \in RelationsOf(m, spec.resource)
      OBVIOUS
    <2>2. (\A r \in spec.topology[inherited.via] : inherited.relation \in RelationsOf(l, r))
             <=> (\A r \in spec.topology[inherited.via] : inherited.relation \in RelationsOf(m, r))
      OBVIOUS
    <2> QED
      BY <2>1, <2>2, Zenon DEF InheritedError
  <1>2. ASSUME NEW role PROVE RoleError(l, spec, role) = RoleError(m, spec, role)
    BY <1>1 DEF RoleError
  <1> QED
    BY <1>2 DEF BodyError

\* A resource has the relations of the module that defines it, and its
\* definition.
LEMMA ModuleDefines ==
    ASSUME NEW l, Resourceful(l), NEW i \in DOMAIN l
    PROVE  /\ RelationsOf(l, l[i].spec.resource) = RelationNames(l[i].spec)
           /\ l[i].spec.resource \in Types(l)
           /\ Definitions(l)[l[i].spec.resource] = TypeDefinition(l[i].spec)
  <1> DEFINE r == l[i].spec.resource
  <1>1. \A j \in DOMAIN l : l[j].spec.resource = r => j = i
    BY DEF Resourceful
  <1>2. RelationsOf(l, r) = RelationNames(l[i].spec)
    <2>1. {j \in DOMAIN l : l[j].spec.resource = r} = {i}
      BY <1>1
    <2> QED
      BY <2>1 DEF RelationsOf
  <1>3. r \in Types(l)
    <2>1. Mentioned(l[i].spec) \subseteq Types(l)
      BY DEF Types
    <2>2. r \in Mentioned(l[i].spec)
      BY DEF Mentioned
    <2> QED
      BY <2>1, <2>2
  <1>4. (CHOOSE m \in Range(l) : m.spec.resource = r) = l[i]
    <2>1. l[i] \in Range(l) /\ \A m \in Range(l) : m.spec.resource = r => m = l[i]
      BY <1>1 DEF Range
    <2> QED
      BY <2>1
  <1>5. Definitions(l)[r] = TypeDefinition(l[i].spec)
    BY <1>3, <1>4 DEF Definitions
  <1> QED
    BY <1>2, <1>3, <1>5

-----------------------------------------------------------------------------
(* The properties, each for any listing.                                   *)

\* In every order the same modules are accepted, as the same model.
LEMMA OrderMakesNoDifference ==
    ASSUME NEW l \in Seq(Modules), NEW p \in Bijection(DOMAIN l, DOMAIN l)
    PROVE  LET other == Compile([i \in DOMAIN l |-> l[p[i]]])
           IN other.ok = Compile(l).ok /\ (Compile(l).ok => other.model = Compile(l).model)
  <1> DEFINE m == [i \in DOMAIN l |-> l[p[i]]]
  <1>1. /\ p \in [DOMAIN l -> DOMAIN l]
        /\ \A i, j \in DOMAIN l : p[i] = p[j] => i = j
        /\ \A j \in DOMAIN l : \E i \in DOMAIN l : p[i] = j
    BY DEF Bijection, Injection, Surjection, IsInjective
  <1>2. DOMAIN m = DOMAIN l /\ DOMAIN l = 1 .. Len(l) /\ Len(l) \in Nat
        /\ \A i \in DOMAIN l : m[i] = l[p[i]] /\ p[i] \in DOMAIN l
    BY <1>1
  <1>3. m \in Seq(Modules)
    BY <1>2
  <1> HIDE DEF m
  <1>4. Range(l) = Range(m)
    <2>1. \A x : (\E i \in DOMAIN l : x = l[i]) <=> (\E j \in DOMAIN m : x = m[j])
      BY <1>1, <1>2
    <2> QED
      BY <2>1 DEF Range
  <1>5. \A s : BodyError(l, s) = BodyError(m, s)
    BY <1>4, SameModules, SameBodyError
  <1>6. Sound(m) <=> Sound(l)
    <2>1. Resourceful(m) <=> Resourceful(l)
      <3>1. ASSUME Resourceful(l) PROVE Resourceful(m)
        <4>1. ASSUME NEW i \in DOMAIN m, NEW j \in DOMAIN m, i # j
              PROVE  m[i].spec.resource # m[j].spec.resource
          <5>1. p[i] # p[j] /\ p[i] \in DOMAIN l /\ p[j] \in DOMAIN l
            BY <1>1, <1>2, <4>1
          <5> QED
            BY <1>2, <3>1, <5>1 DEF Resourceful
        <4>2. ASSUME NEW i \in DOMAIN m PROVE m[i].spec.resource # NoResource
          BY <1>2, <3>1 DEF Resourceful
        <4> QED
          BY <4>1, <4>2 DEF Resourceful
      <3>2. ASSUME Resourceful(m), NEW i \in DOMAIN l, NEW j \in DOMAIN l, i # j
            PROVE  l[i].spec.resource # NoResource /\ l[i].spec.resource # l[j].spec.resource
        <4> PICK a \in DOMAIN l, b \in DOMAIN l : p[a] = i /\ p[b] = j
          BY <1>1
        <4> QED
          BY <1>2, <3>2 DEF Resourceful
      <3>3. ASSUME Resourceful(m), NEW i \in DOMAIN l PROVE l[i].spec.resource # NoResource
        BY <1>1, <1>2, <3>3 DEF Resourceful
      <3> QED
        BY <3>1, <3>2, <3>3 DEF Resourceful
    <2>2. (\A i \in DOMAIN l : NameError(l[i].spec) = None /\ BodyError(l, l[i].spec) = None)
             <=> (\A i \in DOMAIN m : NameError(m[i].spec) = None /\ BodyError(m, m[i].spec) = None)
      BY <1>1, <1>2, <1>5
    <2> QED
      BY <2>1, <2>2 DEF Sound
  <1>7. Definitions(l) = Definitions(m)
    BY <1>4, SameDefinitions
  <1>8. /\ Compile(m).ok = Compile(l).ok
        /\ Compile(l).ok => Compile(m).model = Compile(l).model
    BY <1>3, <1>6, <1>7, AcceptedIff
  <1> QED
    BY <1>8 DEF m

\* Without one of the modules, the others that are accepted mean the same.
LEMMA OthersMeanTheSame ==
    ASSUME NEW l \in Seq(Modules), Compile(l).ok, NEW k \in DOMAIN l, Compile(RemoveAt(l, k)).ok,
           NEW i \in DOMAIN RemoveAt(l, k)
    PROVE  LET r == RemoveAt(l, k)[i].spec.resource
           IN Compile(l).model[r] = Compile(RemoveAt(l, k)).model[r]
  <1> DEFINE others == RemoveAt(l, k)
  <1>1. others = SubSeq(l, 1, k - 1) \o SubSeq(l, k + 1, Len(l))
    BY DEF RemoveAt
  <1>2. /\ k \in 1 .. Len(l) /\ Len(l) \in Nat /\ DOMAIN l = 1 .. Len(l)
    OBVIOUS
  <1>3. /\ others \in Seq(Modules) /\ Len(others) = Len(l) - 1
        /\ \A j \in 1 .. Len(others) : others[j] = IF j < k THEN l[j] ELSE l[j + 1]
    <2> DEFINE before == SubSeq(l, 1, k - 1)
               after == SubSeq(l, k + 1, Len(l))
    <2>0. \A j \in 1 .. Len(l) : l[j] \in Modules
      OBVIOUS
    <2>1. before \in Seq(Modules) /\ Len(before) = k - 1 /\ \A j \in 1 .. k - 1 : before[j] = l[j]
      <3>1. \A j \in 1 .. k - 1 : l[j] \in Modules
        BY <1>2, <2>0
      <3> QED
        BY <1>2, <3>1, SubSeqProperties
    <2>2. after \in Seq(Modules) /\ Len(after) = Len(l) - k /\ \A j \in 1 .. Len(l) - k : after[j] = l[k + j]
      <3>1. \A j \in k + 1 .. Len(l) : l[j] \in Modules
        BY <1>2, <2>0
      <3> DEFINE m == k + 1
      <3>2. /\ SubSeq(l, m, Len(l)) \in Seq(Modules)
            /\ Len(SubSeq(l, m, Len(l))) = IF m <= Len(l) THEN Len(l) - m + 1 ELSE 0
            /\ \A h \in 1 .. Len(l) - m + 1 : SubSeq(l, m, Len(l))[h] = l[m + h - 1]
        <4>1. m \in Int /\ Len(l) \in Int /\ \A j \in m .. Len(l) : l[j] \in Modules
          BY <1>2, <3>1
        <4> HIDE DEF m
        <4> QED
          BY <4>1, SubSeqProperties
      <3>3. ASSUME NEW j \in 1 .. Len(l) - k PROVE j \in 1 .. Len(l) - m + 1 /\ m + j - 1 = k + j
        BY <1>2
      <3> QED
        BY <1>2, <3>2, <3>3
    <2> HIDE DEF before, after
    <2>3. others = before \o after
      BY <1>1 DEF before, after
    <2> HIDE DEF others
    <2>4. others \in Seq(Modules) /\ Len(others) = Len(before) + Len(after)
          /\ \A j \in 1 .. Len(before) + Len(after) :
                others[j] = IF j <= Len(before) THEN before[j] ELSE after[j - Len(before)]
      BY <2>1, <2>2, <2>3, ConcatProperties
    <2>5. Len(others) = Len(l) - 1
      BY <1>2, <2>1, <2>2, <2>4
    <2>6. ASSUME NEW j \in 1 .. Len(others) PROVE others[j] = IF j < k THEN l[j] ELSE l[j + 1]
      <3>1. CASE j < k
        BY <1>2, <2>1, <2>4, <2>5, <3>1
      <3>2. CASE ~(j < k)
        <4>0. /\ j \in 1 .. Len(before) + Len(after) /\ ~(j <= Len(before)) /\ Len(before) = k - 1
              /\ j - (k - 1) \in 1 .. Len(l) - k
          BY <1>2, <2>1, <2>2, <2>5, <3>2
        <4>1. others[j] = after[j - (k - 1)] /\ j - (k - 1) \in 1 .. Len(l) - k
          BY <2>4, <4>0
        <4>2. after[j - (k - 1)] = l[k + (j - (k - 1))] /\ k + (j - (k - 1)) = j + 1
          BY <1>2, <2>2, <4>1
        <4> QED
          BY <3>2, <4>1, <4>2
      <3> QED
        BY <3>1, <3>2
    <2> QED
      BY <2>4, <2>5, <2>6
  <1> HIDE DEF others
  <1>4. PICK j \in DOMAIN l : others[i] = l[j]
    BY <1>2, <1>3 DEF others
  <1>5. Resourceful(l) /\ Resourceful(others)
    BY <1>3, AcceptedIff DEF Sound, others
  <1>6. Definitions(l)[others[i].spec.resource] = Definitions(others)[others[i].spec.resource]
    BY <1>4, <1>5, ModuleDefines DEF others
  <1> QED
    BY <1>3, <1>6, AcceptedIff DEF others

\* The relations of a definition: those of the topology are direct, roles
\* are compiled from their inherited relations, permissions from others.
LEMMA DefinedRelations ==
    ASSUME NEW spec \in Specification, WellNamed(spec)
    PROVE  LET def == TypeDefinition(spec)
           IN /\ DOMAIN def.relations = RelationNames(spec)
              /\ DOMAIN def.direct = DOMAIN spec.topology
                                     \cup {r \in DOMAIN spec.roles : spec.roles[r].subjects # {}}
              /\ \A n \in DOMAIN spec.topology :
                    /\ def.relations[n] = <<This>>
                    /\ def.direct[n] = {[type |-> t, relation |-> 0] : t \in spec.topology[n]}
              /\ \A r \in DOMAIN spec.roles :
                    /\ def.relations[r] = CompileRole(spec.roles[r])
                    /\ spec.roles[r].subjects # {} => def.direct[r] = spec.roles[r].subjects
              /\ \A p \in DOMAIN spec.permissions :
                    def.relations[p] = CompilePermission(spec.permissions[p])
  <1> DEFINE names == DOMAIN spec.topology
                      \cup {r \in DOMAIN spec.roles : spec.roles[r].subjects # {}}
             relations == [n \in RelationNames(spec) |->
                            IF n \in DOMAIN spec.topology THEN <<This>>
                            ELSE IF n \in DOMAIN spec.roles THEN CompileRole(spec.roles[n])
                            ELSE CompilePermission(spec.permissions[n])]
             direct == [n \in names |-> IF n \in DOMAIN spec.topology
                                        THEN {[type |-> t, relation |-> 0] : t \in spec.topology[n]}
                                        ELSE spec.roles[n].subjects]
  <1>1. TypeDefinition(spec).relations = relations /\ TypeDefinition(spec).direct = direct
    BY DEF TypeDefinition
  <1>2. /\ \A n \in DOMAIN spec.topology : n \in RelationNames(spec) /\ n \in names
        /\ \A r \in DOMAIN spec.roles : r \in RelationNames(spec) /\ r \notin DOMAIN spec.topology
        /\ \A p \in DOMAIN spec.permissions :
              p \in RelationNames(spec) /\ p \notin DOMAIN spec.topology /\ p \notin DOMAIN spec.roles
    BY DEF WellNamed, RelationNames
  <1>3. DOMAIN relations = RelationNames(spec) /\ DOMAIN direct = names
    OBVIOUS
  <1>4. ASSUME NEW n \in DOMAIN spec.topology
        PROVE  relations[n] = <<This>> /\ direct[n] = {[type |-> t, relation |-> 0] : t \in spec.topology[n]}
    BY <1>2
  <1>5. ASSUME NEW r \in DOMAIN spec.roles
        PROVE  /\ relations[r] = CompileRole(spec.roles[r])
               /\ spec.roles[r].subjects # {} => direct[r] = spec.roles[r].subjects
    BY <1>2
  <1>6. ASSUME NEW p \in DOMAIN spec.permissions
        PROVE  relations[p] = CompilePermission(spec.permissions[p])
    BY <1>2
  <1> HIDE DEF relations, direct
  <1> QED
    BY <1>1, <1>3, <1>4, <1>5, <1>6

\* What a role is compiled from.
LEMMA RoleParts ==
    ASSUME NEW role \in Role, NEW c \in Range(CompileRole(role))
    PROVE  \/ c = This /\ role.subjects # {}
           \/ \E k \in DOMAIN role.inherited : c = CompileInherited(role.inherited[k])
  <1> DEFINE first == IF role.subjects = {} THEN <<>> ELSE <<This>>
             rest == [k \in DOMAIN role.inherited |-> CompileInherited(role.inherited[k])]
             S == {This} \cup {CompileInherited(role.inherited[k]) : k \in DOMAIN role.inherited}
  <1>1. role.inherited \in Seq([via : Nat, relation : Nat])
    BY DEF Role
  <1>2. first \in Seq(S) /\ \A i \in DOMAIN first : first[i] = This /\ role.subjects # {}
    <2>1. CASE role.subjects = {}
      BY <2>1
    <2>2. CASE role.subjects # {}
      <3>1. first = <<This>> /\ This \in S
        BY <2>2
      <3> HIDE DEF S
      <3> QED
        BY <2>2, <3>1
    <2> QED
      BY <2>1, <2>2
  <1>4. rest \in Seq(S) /\ \A k \in DOMAIN rest :
           k \in DOMAIN role.inherited /\ rest[k] = CompileInherited(role.inherited[k])
    <2>1. DOMAIN role.inherited = 1 .. Len(role.inherited) /\ Len(role.inherited) \in Nat
      BY <1>1
    <2>2. rest \in [1 .. Len(role.inherited) -> S]
      BY <2>1
    <2>3. rest \in Seq(S)
      <3> HIDE DEF rest, S
      <3> QED
        BY <2>1, <2>2
    <2> QED
      BY <2>3
  <1>3. CompileRole(role) = first \o rest
    BY DEF CompileRole
  <1> HIDE DEF first, rest, S
  <1> PICK i \in DOMAIN (first \o rest) : c = (first \o rest)[i]
    BY <1>3 DEF Range
  <1>5. (\E j \in DOMAIN first : c = first[j]) \/ (\E k \in DOMAIN rest : c = rest[k])
    BY <1>2, <1>4, ConcatProperties
  <1> QED
    BY <1>2, <1>4, <1>5

\* And a permission.
LEMMA PermissionParts ==
    ASSUME NEW anyOf \in Seq(Nat), NEW c \in Range(CompilePermission(anyOf))
    PROVE  \E n \in Range(anyOf) : c = Computed(n)
  BY DEF CompilePermission, Range

\* Every type is one that no module defines, or that of some module.
LEMMA DefinedTypes ==
    ASSUME NEW l \in Seq(Modules), Resourceful(l), NEW t \in Types(l)
    PROVE  \/ Definitions(l)[t] = EmptyType
           \/ \E i \in DOMAIN l : /\ l[i].spec.resource = t
                                  /\ Definitions(l)[t] = TypeDefinition(l[i].spec)
  <1>1. CASE \E i \in DOMAIN l : l[i].spec.resource = t
    BY <1>1, ModuleDefines
  <1>2. CASE ~ \E i \in DOMAIN l : l[i].spec.resource = t
    BY <1>2 DEF Definitions
  <1> QED
    BY <1>1, <1>2

\* What an accepted specification mentions is a type, if it has a name.
LEMMA MentionedTypes ==
    ASSUME NEW l, NEW i \in DOMAIN l
    PROVE  /\ \A n \in DOMAIN l[i].spec.topology : l[i].spec.topology[n] \subseteq Types(l)
           /\ \A r \in DOMAIN l[i].spec.roles : \A u \in l[i].spec.roles[r].subjects :
                 u.type \in Types(l) \cup {NoResource}
  <1> DEFINE s == l[i].spec
  <1>1. Mentioned(s) \subseteq Types(l)
    BY DEF Types
  <1> HIDE DEF s
  <1>2. ASSUME NEW n \in DOMAIN s.topology, NEW x \in s.topology[n]
        PROVE  x \in Mentioned(s)
    <2>1. x \in UNION {s.topology[t] : t \in DOMAIN s.topology}
      OBVIOUS
    <2> QED
      BY <2>1 DEF Mentioned
  <1>3. ASSUME NEW r \in DOMAIN s.roles, NEW u \in s.roles[r].subjects, u.type # NoResource
        PROVE  u.type \in Mentioned(s)
    <2>1. u \in UNION {s.roles[q].subjects : q \in DOMAIN s.roles}
      OBVIOUS
    <2> QED
      BY <1>3, <2>1 DEF Mentioned
  <1> QED
    BY <1>1, <1>2, <1>3 DEF s

\* An accepted listing has no loose ends but its subjects.
LEMMA EndsMeet ==
    ASSUME NEW l \in Seq(Modules), Sound(l), NEW t \in Types(l)
    PROVE  /\ Closed(Definitions(l)[t], Definitions(l))
           /\ \A n \in DOMAIN Definitions(l)[t].direct : \A u \in Definitions(l)[t].direct[n] :
                 Defined(u, Definitions(l)) \/ (Unresolved(u, l) /\ Subject(u, n, t, l))
  <1> DEFINE defs == Definitions(l)
  <1>1. DOMAIN defs = Types(l) /\ Resourceful(l)
    BY DEF Definitions, Sound
  <1> HIDE DEF defs
  <1>2. CASE defs[t] = EmptyType
    <2>1. DOMAIN EmptyType.relations = {} /\ DOMAIN EmptyType.direct = {}
      BY DEF EmptyType
    <2> QED
      BY <1>2, <2>1 DEF Closed, defs
  <1>3. ASSUME NEW i \in DOMAIN l, l[i].spec.resource = t, defs[t] = TypeDefinition(l[i].spec)
        PROVE  /\ Closed(defs[t], defs)
               /\ \A n \in DOMAIN defs[t].direct : \A u \in defs[t].direct[n] :
                     Defined(u, defs) \/ (Unresolved(u, l) /\ Subject(u, n, t, l))
    <2> DEFINE s == l[i].spec
               def == TypeDefinition(s)
               user(n) == [type |-> n, relation |-> 0]
    <2>1. s \in Specification
      <3>1. l[i] \in Modules
        OBVIOUS
      <3> QED
        BY <3>1 DEF Modules
    <2>2. WellNamed(s) /\ WellFilled(l, s) /\ s.resource \in Types(l)
      BY <1>1, <2>1, NamesIff, BodyFilled, ModuleDefines DEF Sound
    <2>3. /\ \A n \in DOMAIN s.topology : s.topology[n] \subseteq Types(l)
          /\ \A r \in DOMAIN s.roles : \A u \in s.roles[r].subjects : u.type \in Types(l) \cup {NoResource}
      BY MentionedTypes
    <2>4. \A r : \A n \in RelationsOf(l, r) : n \in DOMAIN defs[r].relations
      <3> SUFFICES ASSUME NEW r, NEW n \in RelationsOf(l, r)
                   PROVE  n \in DOMAIN defs[r].relations
        OBVIOUS
      <3>1. PICK j \in DOMAIN l : l[j].spec.resource = r /\ n \in RelationNames(l[j].spec)
        BY DEF RelationsOf
      <3>2. defs[r] = TypeDefinition(l[j].spec)
        BY <1>1, <3>1, ModuleDefines DEF defs
      <3> QED
        BY <3>1, <3>2 DEF TypeDefinition
    <2>5. /\ DOMAIN def.relations = RelationNames(s)
          /\ DOMAIN def.direct = DOMAIN s.topology \cup {r \in DOMAIN s.roles : s.roles[r].subjects # {}}
          /\ \A n \in DOMAIN s.topology :
                def.relations[n] = <<This>> /\ def.direct[n] = {user(x) : x \in s.topology[n]}
          /\ \A r \in DOMAIN s.roles :
                /\ def.relations[r] = CompileRole(s.roles[r])
                /\ s.roles[r].subjects # {} => def.direct[r] = s.roles[r].subjects
          /\ \A p \in DOMAIN s.permissions : def.relations[p] = CompilePermission(s.permissions[p])
      BY <2>1, <2>2, DefinedRelations
    <2>6. RelationsOf(l, s.resource) = RelationNames(s)
      BY <1>1, ModuleDefines
    <2>7. ASSUME NEW n \in DOMAIN def.direct, NEW u \in def.direct[n]
          PROVE  Defined(u, defs) \/ (Unresolved(u, l) /\ Subject(u, n, t, l))
      <3>1. CASE n \in DOMAIN s.topology
        <4> PICK x \in s.topology[n] : u = user(x)
          BY <2>5, <2>7, <3>1
        <4>1. u.type = x /\ u.relation = 0 /\ x \in Types(l)
          BY <2>3, <3>1
        <4> QED
          BY <1>1, <4>1 DEF Defined
      <3>2. CASE n \in DOMAIN s.roles /\ n \notin DOMAIN s.topology
        <4>1. u \in s.roles[n].subjects
          BY <2>5, <2>7, <3>2
        <4>2. Subject(u, n, t, l)
          BY <1>3, <3>2, <4>1 DEF Subject
        <4>3. u.type # NoResource => u.type \in DOMAIN defs
          BY <1>1, <2>3, <3>2, <4>1
        <4>4. u.relation \in RelationsOf(l, u.type) => u.relation \in DOMAIN defs[u.type].relations
          BY <2>4
        <4> QED
          BY <4>2, <4>3, <4>4 DEF Defined, Unresolved
      <3> QED
        BY <2>5, <2>7, <3>1, <3>2
    <2> HIDE DEF def
    <2>8. ASSUME NEW n \in DOMAIN def.relations, NEW c \in Range(def.relations[n])
          PROVE  /\ c.op = "this" => n \in DOMAIN def.direct
                 /\ c.op = "computed" => c.relation \in DOMAIN def.relations
                 /\ c.op = "tupleTo" =>
                       /\ def.relations[c.via] = <<This>>
                       /\ \A u \in def.direct[c.via] :
                             u.relation = 0 /\ c.relation \in DOMAIN defs[u.type].relations
      <3>1. CASE n \in DOMAIN s.topology
        <4>1. c = This
          BY <2>5, <2>8, <3>1 DEF Range
        <4> QED
          BY <2>5, <3>1, <4>1 DEF This
      <3>2. CASE n \in DOMAIN s.roles
        <4>1. s.roles[n] \in Role /\ c \in Range(CompileRole(s.roles[n]))
          BY <2>1, <2>5, <2>8, <3>2, SpecTyped
        <4>2. CASE c = This /\ s.roles[n].subjects # {}
          BY <2>5, <3>2, <4>2 DEF This
        <4>3. ASSUME NEW k \in DOMAIN s.roles[n].inherited, c = CompileInherited(s.roles[n].inherited[k])
              PROVE  /\ c.op = "this" => n \in DOMAIN def.direct
                     /\ c.op = "computed" => c.relation \in DOMAIN def.relations
                     /\ c.op = "tupleTo" =>
                           /\ def.relations[c.via] = <<This>>
                           /\ \A u \in def.direct[c.via] :
                                 u.relation = 0 /\ c.relation \in DOMAIN defs[u.type].relations
          <5> DEFINE inherited == s.roles[n].inherited[k]
          <5>1. Inheritable(l, s, inherited)
            BY <2>2, <3>2 DEF WellFilled
          <5>2. CASE inherited.via = 0
            <6>1. c = Computed(inherited.relation) /\ inherited.relation \in RelationNames(s)
              BY <2>6, <4>3, <5>1, <5>2 DEF CompileInherited, Inheritable
            <6> QED
              BY <2>5, <6>1 DEF Computed
          <5>3. CASE inherited.via # 0
            <6> DEFINE via == inherited.via
            <6>1. /\ c = TupleTo(via, inherited.relation) /\ via \in DOMAIN s.topology
                  /\ \A r \in s.topology[via] : inherited.relation \in RelationsOf(l, r)
              BY <4>3, <5>1, <5>3 DEF CompileInherited, Inheritable
            <6>2. c.op = "tupleTo" /\ c.via = via /\ c.relation = inherited.relation
              BY <6>1 DEF TupleTo
            <6> HIDE DEF inherited
            <6>3. def.relations[via] = <<This>> /\ def.direct[via] = {user(x) : x \in s.topology[via]}
              BY <2>5, <6>1
            <6>4. ASSUME NEW u \in def.direct[via]
                  PROVE  u.relation = 0 /\ inherited.relation \in DOMAIN defs[u.type].relations
              <7> PICK x \in s.topology[via] : u = user(x)
                BY <6>3, <6>4
              <7>1. u.relation = 0 /\ u.type = x
                OBVIOUS
              <7> QED
                BY <2>4, <6>1, <7>1
            <6> QED
              BY <6>2, <6>3, <6>4
          <5> QED
            BY <5>2, <5>3
        <4> QED
          BY <4>1, <4>2, <4>3, RoleParts
      <3>3. CASE n \in DOMAIN s.permissions
        <4>1. s.permissions[n] \in Seq(Nat) /\ c \in Range(CompilePermission(s.permissions[n]))
          BY <2>1, <2>5, <2>8, <3>3, SpecTyped
        <4>2. PICK x \in Range(s.permissions[n]) : c = Computed(x)
          BY <4>1, PermissionParts
        <4>3. x \in RelationNames(s)
          BY <2>2, <3>3 DEF WellFilled, CompiledBefore, RelationNames
        <4> QED
          BY <2>5, <4>2, <4>3 DEF Computed
      <3> QED
        BY <2>5, <2>8, <3>1, <3>2, <3>3 DEF RelationNames
    <2> QED
      BY <1>3, <2>7, <2>8 DEF Closed, def
  <1> QED
    BY <1>1, <1>2, <1>3, DefinedTypes DEF defs

-----------------------------------------------------------------------------
(* Permissions by themselves make no cycle.                                *)

\* No role takes over a relation of its own resource.
NoInheritance(l) ==
    \A i \in DOMAIN l : \A r \in DOMAIN l[i].spec.roles :
        \A k \in DOMAIN l[i].spec.roles[r].inherited : l[i].spec.roles[r].inherited[k].via # 0

\* The relations of an accepted model are finitely many.
LEMMA FiniteRelations ==
    ASSUME NEW l \in Seq(Modules), Resourceful(l)
    PROVE  IsFiniteSet(Relations(Definitions(l)))
  <1> DEFINE defs == Definitions(l)
             Of(i) == {<<l[i].spec.resource, n>> : n \in RelationNames(l[i].spec)}
             every == UNION {Of(i) : i \in DOMAIN l}
  <1>1. IsFiniteSet(every)
    <2>1. ASSUME NEW i \in DOMAIN l PROVE IsFiniteSet(Of(i))
      <3>1. l[i].spec \in Specification
        <4>1. l[i] \in Modules
          OBVIOUS
        <4> QED
          BY <4>1 DEF Modules
      <3> DEFINE S == RelationNames(l[i].spec)
                 f == [n \in S |-> <<l[i].spec.resource, n>>]
      <3>2. IsFiniteSet(S)
        BY <3>1, SpecTyped
      <3>3. f \in Surjection(S, Of(i))
        BY DEF Surjection
      <3> QED
        BY <3>2, <3>3, FS_Surjection
    <2>2. IsFiniteSet({Of(i) : i \in DOMAIN l})
      <3> DEFINE f == [i \in DOMAIN l |-> Of(i)]
      <3>1. IsFiniteSet(DOMAIN l)
        <4>1. DOMAIN l = 1 .. Len(l) /\ Len(l) \in Nat
          OBVIOUS
        <4> QED
          BY <4>1, FS_Interval
      <3>2. f \in Surjection(DOMAIN l, {Of(i) : i \in DOMAIN l})
        <4> HIDE DEF Of
        <4> QED
          BY DEF Surjection
      <3> QED
        BY <3>1, <3>2, FS_Surjection
    <2> HIDE DEF Of
    <2> QED
      BY <2>1, <2>2, FS_UNION
  <1>2. Relations(defs) \subseteq every
    <2> SUFFICES ASSUME NEW t \in DOMAIN defs, NEW n \in DOMAIN defs[t].relations
                 PROVE  <<t, n>> \in every
      BY DEF Relations
    <2>1. t \in Types(l)
      BY DEF Definitions
    <2>2. defs[t] # EmptyType
      BY DEF EmptyType
    <2>3. PICK i \in DOMAIN l : l[i].spec.resource = t /\ defs[t] = TypeDefinition(l[i].spec)
      BY <2>1, <2>2, DefinedTypes
    <2>4. DOMAIN defs[t].relations = RelationNames(l[i].spec)
      BY <2>3 DEF TypeDefinition
    <2>5. <<t, n>> \in Of(i)
      BY <2>3, <2>4
    <2> HIDE DEF Of
    <2> QED
      BY <2>5
  <1> QED
    BY <1>1, <1>2, FS_Subset

\* The relations of the resource of a module.
LEMMA RelationsOfModule ==
    ASSUME NEW l \in Seq(Modules), Resourceful(l), NEW p \in Relations(Definitions(l))
    PROVE  \E i \in DOMAIN l : /\ p = <<l[i].spec.resource, p[2]>>
                               /\ p[2] \in RelationNames(l[i].spec)
                               /\ Definitions(l)[p[1]] = TypeDefinition(l[i].spec)
                               /\ l[i].spec \in Specification
  <1> DEFINE defs == Definitions(l)
  <1> PICK t \in DOMAIN defs : \E n \in DOMAIN defs[t].relations : p = <<t, n>>
    BY DEF Relations
  <1> PICK n \in DOMAIN defs[t].relations : p = <<t, n>>
    OBVIOUS
  <1>1. t \in Types(l) /\ defs[t] # EmptyType
    BY DEF Definitions, EmptyType
  <1> PICK i \in DOMAIN l : l[i].spec.resource = t /\ defs[t] = TypeDefinition(l[i].spec)
    BY <1>1, DefinedTypes
  <1>2. DOMAIN defs[t].relations = RelationNames(l[i].spec)
    BY DEF TypeDefinition
  <1>3. l[i].spec \in Specification
    <2>1. l[i] \in Modules
      OBVIOUS
    <2> QED
      BY <2>1 DEF Modules
  <1> QED
    BY <1>2, <1>3

\* What a relation is computed from, where nothing is inherited: it is a
\* permission, and the other is none or comes before it.
LEMMA ComputedBefore ==
    ASSUME NEW l \in Seq(Modules), Sound(l), NoInheritance(l), NEW p \in Relations(Definitions(l)),
           NEW q \in ComputedFrom(Definitions(l), p)
    PROVE  \E i \in DOMAIN l :
              /\ p = <<l[i].spec.resource, p[2]>> /\ q = <<l[i].spec.resource, q[2]>>
              /\ q \in Relations(Definitions(l))
              /\ p[2] \in DOMAIN l[i].spec.permissions
              /\ q[2] \in CompiledBefore(l[i].spec, p[2])
  <1> DEFINE defs == Definitions(l)
  <1>1. PICK c \in Range(defs[p[1]].relations[p[2]]) : c.op = "computed" /\ q = <<p[1], c.relation>>
    BY DEF ComputedFrom
  <1>2. Resourceful(l)
    BY DEF Sound
  <1> PICK i \in DOMAIN l : /\ p = <<l[i].spec.resource, p[2]>>
                            /\ p[2] \in RelationNames(l[i].spec)
                            /\ defs[p[1]] = TypeDefinition(l[i].spec)
                            /\ l[i].spec \in Specification
    BY <1>2, RelationsOfModule
  <1> DEFINE s == l[i].spec
             n == p[2]
             def == TypeDefinition(s)
  <1>3. WellNamed(s) /\ WellFilled(l, s)
    BY NamesIff, BodyFilled DEF Sound
  <1>4. /\ \A x \in DOMAIN s.topology : def.relations[x] = <<This>>
        /\ \A x \in DOMAIN s.roles : def.relations[x] = CompileRole(s.roles[x])
        /\ \A x \in DOMAIN s.permissions : def.relations[x] = CompilePermission(s.permissions[x])
        /\ DOMAIN def.relations = RelationNames(s)
    BY <1>3, DefinedRelations
  <1>5. c \in Range(def.relations[n])
    BY <1>1
  <1> HIDE DEF def
  <1>6. CASE n \in DOMAIN s.topology
    <2>1. c = This
      BY <1>4, <1>5, <1>6 DEF Range
    <2> QED
      BY <1>1, <2>1 DEF This
  <1>7. CASE n \in DOMAIN s.roles
    <2>1. s.roles[n] \in Role /\ c \in Range(CompileRole(s.roles[n]))
      BY <1>4, <1>5, <1>7, SpecTyped
    <2>2. c # This
      BY <1>1 DEF This
    <2>3. PICK k \in DOMAIN s.roles[n].inherited : c = CompileInherited(s.roles[n].inherited[k])
      BY <2>1, <2>2, RoleParts
    <2>4. s.roles[n].inherited[k].via # 0
      BY <1>7 DEF NoInheritance
    <2>5. c.op = "tupleTo"
      BY <2>3, <2>4 DEF CompileInherited, TupleTo
    <2> QED
      BY <1>1, <2>5
  <1>8. CASE n \in DOMAIN s.permissions
    <2>1. s.permissions[n] \in Seq(Nat) /\ c \in Range(CompilePermission(s.permissions[n]))
      BY <1>4, <1>5, <1>8, SpecTyped
    <2>2. PICK x \in Range(s.permissions[n]) : c = Computed(x)
      BY <2>1, PermissionParts
    <2>3. c.relation = x
      BY <2>2 DEF Computed
    <2>4. x \in CompiledBefore(s, n)
      BY <1>3, <1>8 DEF WellFilled
    <2>5. x \in RelationNames(s)
      BY <2>4 DEF CompiledBefore, RelationNames
    <2>6. s.resource \in DOMAIN defs /\ p[1] = s.resource
      <3>1. s.resource \in Types(l)
        BY <1>2, ModuleDefines
      <3>2. DOMAIN defs = Types(l)
        BY DEF Definitions
      <3>3. p[1] = s.resource
        <4> DEFINE r == s.resource
        <4>1. p = <<r, p[2]>>
          OBVIOUS
        <4> HIDE DEF r
        <4> QED
          BY <4>1 DEF r
      <3> QED
        BY <3>1, <3>2, <3>3
    <2>7. q = <<s.resource, x>> /\ x \in DOMAIN defs[s.resource].relations
      BY <1>1, <1>4, <2>3, <2>5, <2>6 DEF def
    <2>8. q \in Relations(defs)
      BY <2>6, <2>7 DEF Relations
    <2> QED
      BY <1>8, <2>4, <2>7, <2>8
  <1> QED
    BY <1>6, <1>7, <1>8 DEF RelationNames

\* So the permissions can be ranked by how many relations come before them.
LEMMA PermissionsMakeNoCycle ==
    ASSUME NEW l \in Seq(Modules), Sound(l), NoInheritance(l)
    PROVE  Acyclic(Definitions(l))
  <1> DEFINE defs == Definitions(l)
             P == Relations(defs)
             IsPermission(p) == \E i \in DOMAIN l :
                                   l[i].spec.resource = p[1] /\ p[2] \in DOMAIN l[i].spec.permissions
             Below(p) == {q \in P : /\ IsPermission(p) /\ q[1] = p[1]
                                    /\ ~IsPermission(q) \/ q[2] < p[2]}
             rank == [p \in P |-> Cardinality(Below(p)) + 1]
  <1>1. Resourceful(l) /\ IsFiniteSet(P) /\ Cardinality(P) \in Nat
    BY FiniteRelations, FS_CardinalityType DEF Sound
  <1>2. \A p \in P : p[2] \in Nat
    BY <1>1, RelationsOfModule, SpecTyped
  <1>3. ASSUME NEW p \in P
        PROVE  /\ IsFiniteSet(Below(p)) /\ Cardinality(Below(p)) \in Nat
               /\ p \notin Below(p) /\ Below(p) \subseteq P
               /\ Cardinality(Below(p)) < Cardinality(P)
    <2>1. Below(p) \subseteq P /\ p \notin Below(p)
      BY <1>2
    <2> HIDE DEF Below, P
    <2>2. IsFiniteSet(Below(p)) /\ Cardinality(Below(p)) <= Cardinality(P) /\ Cardinality(Below(p)) # Cardinality(P)
      BY <1>1, <1>3, <2>1, FS_Subset
    <2>3. Cardinality(Below(p)) \in Nat
      BY <2>2, FS_CardinalityType
    <2> QED
      BY <1>1, <2>1, <2>2, <2>3
  <1>4. ASSUME NEW p \in P, NEW q \in ComputedFrom(defs, p)
        PROVE  q \in P /\ Cardinality(Below(q)) < Cardinality(Below(p))
    <2> PICK i \in DOMAIN l : /\ p = <<l[i].spec.resource, p[2]>> /\ q = <<l[i].spec.resource, q[2]>>
                              /\ q \in P
                              /\ p[2] \in DOMAIN l[i].spec.permissions
                              /\ q[2] \in CompiledBefore(l[i].spec, p[2])
      BY ComputedBefore
    <2> DEFINE s == l[i].spec
    <2>1. s \in Specification /\ WellNamed(s)
      <3>1. l[i] \in Modules
        OBVIOUS
      <3> QED
        BY <3>1, NamesIff DEF Modules, Sound
    <2>2. IsPermission(p) /\ q[1] = p[1]
      OBVIOUS
    <2>3. IsPermission(q) => q[2] < p[2]
      <3> SUFFICES ASSUME NEW j \in DOMAIN l, l[j].spec.resource = q[1], q[2] \in DOMAIN l[j].spec.permissions
                   PROVE  q[2] < p[2]
        OBVIOUS
      <3>1. j = i
        BY <1>1 DEF Resourceful
      <3> QED
        BY <2>1, <3>1 DEF WellNamed, CompiledBefore
    <2>4. q \in Below(p)
      BY <2>2, <2>3
    <2>5. Below(q) \subseteq Below(p)
      <3> SUFFICES ASSUME NEW r \in Below(q) PROVE r \in Below(p)
        OBVIOUS
      <3>1. r \in P /\ IsPermission(q) /\ r[1] = q[1] /\ (~IsPermission(r) \/ r[2] < q[2])
        OBVIOUS
      <3> HIDE DEF IsPermission
      <3>2. r[2] \in Nat /\ q[2] \in Nat /\ p[2] \in Nat
        BY <1>2, <3>1
      <3> QED
        BY <2>2, <2>3, <3>1, <3>2
    <2> HIDE DEF Below, P
    <2>6. q \notin Below(q) /\ IsFiniteSet(Below(p)) /\ Cardinality(Below(p)) \in Nat /\ Cardinality(Below(q)) \in Nat
      BY <1>3, <1>4
    <2>7. Cardinality(Below(q)) <= Cardinality(Below(p)) /\ Cardinality(Below(q)) # Cardinality(Below(p))
      BY <2>4, <2>5, <2>6, FS_Subset
    <2> QED
      BY <2>6, <2>7
  <1> HIDE DEF Below, P
  <1>5. rank \in [P -> 1 .. Cardinality(P)]
    BY <1>1, <1>3
  <1>6. \A p \in P : \A q \in ComputedFrom(defs, p) : rank[q] < rank[p]
    BY <1>3, <1>4
  <1> QED
    BY <1>5, <1>6 DEF Acyclic, P

-----------------------------------------------------------------------------
(* What an admitted module is refused for.                                 *)

\* What is reported is one of the errors found.
LEMMA FirstIsAmong ==
    ASSUME NEW errors, DOMAIN errors \subseteq Nat, NEW S, None \in S,
           \A x \in DOMAIN errors : errors[x] \in S
    PROVE  FirstOf(errors) \in S
  BY FirstIsOne DEF FirstOf

\* A listing that is refused has a module that one of the passes refuses.
LEMMA RefusedBySome ==
    ASSUME NEW l \in Seq(Modules), ~Compile(l).ok
    PROVE  \E i \in DOMAIN l :
              /\ Compile(l).kind \in {ResourceError(l, i), NameError(l[i].spec), BodyError(l, l[i].spec)}
              /\ Compile(l).kind # None
  <1> DEFINE resources == [i \in DOMAIN l |-> ResourceError(l, i)]
             names == [i \in DOMAIN l |-> NameError(l[i].spec)]
             bodies == [i \in DOMAIN l |-> BodyError(l, l[i].spec)]
             Pass(errors) == IF Passed(errors) THEN <<>>
                             ELSE <<Rejected(FirstOf(errors), l[FirstAt(errors)].name)>>
             found == Pass(resources) \o Pass(names) \o Pass(bodies)
             Found(e) == ~Passed(e) /\ Compile(l).kind = FirstOf(e)
  <1>1. Compile(l) = IF found # <<>> THEN Head(found) ELSE Accepted(Definitions(l))
    BY DEF Compile
  <1>2. DOMAIN resources = DOMAIN l /\ DOMAIN names = DOMAIN l /\ DOMAIN bodies = DOMAIN l
    OBVIOUS
  <1>3. DOMAIN l \subseteq Nat
    OBVIOUS
  <1>4. /\ \A i \in DOMAIN l : resources[i] = ResourceError(l, i)
        /\ \A i \in DOMAIN l : names[i] = NameError(l[i].spec)
        /\ \A i \in DOMAIN l : bodies[i] = BodyError(l, l[i].spec)
    OBVIOUS
  <1> HIDE DEF resources, names, bodies
  <1>5. found # <<>>
    BY <1>1 DEF Accepted
  <1>6. \A e : \/ Passed(e) /\ Pass(e) = <<>>
               \/ ~Passed(e) /\ Pass(e) = <<Rejected(FirstOf(e), l[FirstAt(e)].name)>>
    OBVIOUS
  <1>7. PICK e \in {resources, names, bodies} :
           ~Passed(e) /\ Head(found) = Rejected(FirstOf(e), l[FirstAt(e)].name)
    <2>1. CASE ~Passed(resources)
      BY <1>6, <2>1
    <2>2. CASE Passed(resources) /\ ~Passed(names)
      BY <1>6, <2>2
    <2>3. CASE Passed(resources) /\ Passed(names)
      BY <1>5, <1>6, <2>3
    <2> QED
      BY <2>1, <2>2, <2>3
  <1>8. Compile(l).kind = FirstOf(e)
    BY <1>1, <1>5, <1>7 DEF Rejected
  <1>9. FirstAt(e) \in DOMAIN l /\ FirstOf(e) = e[FirstAt(e)] /\ FirstOf(e) # None
    BY <1>2, <1>3, <1>7, FirstIsOne
  <1>10. e[FirstAt(e)] \in {ResourceError(l, FirstAt(e)), NameError(l[FirstAt(e)].spec),
                            BodyError(l, l[FirstAt(e)].spec)}
    BY <1>4, <1>9
  <1> QED
    BY <1>8, <1>9, <1>10

\* The second pass minds names only.
LEMMA NameErrors ==
    ASSUME NEW spec \in Specification
    PROVE  /\ NameError(spec) \in {None, "invalid name", "name conflict"}
           /\ (\A n \in RelationNames(spec) : ValidName(n)) => NameError(spec) \in {None, "name conflict"}
  <1> DEFINE Of(names, earlier) ==
               [n \in names |-> IF ~ValidName(n) THEN "invalid name"
                                ELSE IF n \in earlier THEN "name conflict" ELSE None]
             t == DOMAIN spec.topology
             r == DOMAIN spec.roles
             p == DOMAIN spec.permissions
  <1>1. ASSUME NEW names \in SUBSET Nat, NEW earlier
        PROVE  /\ FirstOf(Of(names, earlier)) \in {None, "invalid name", "name conflict"}
               /\ (\A n \in names : ValidName(n)) => FirstOf(Of(names, earlier)) \in {None, "name conflict"}
    <2> DEFINE errors == Of(names, earlier)
               S == {None, "invalid name", "name conflict"}
               T == {None, "name conflict"}
    <2>1. DOMAIN errors \subseteq Nat /\ \A x \in DOMAIN errors : errors[x] \in S
      OBVIOUS
    <2>2. (\A n \in names : ValidName(n)) => \A x \in DOMAIN errors : errors[x] \in T
      OBVIOUS
    <2>3. None \in S /\ None \in T
      OBVIOUS
    <2> HIDE DEF errors, S, T
    <2>4. FirstOf(errors) \in S
      BY <2>1, <2>3, FirstIsAmong
    <2>5. (\A n \in names : ValidName(n)) => FirstOf(errors) \in T
      BY <2>1, <2>2, <2>3, FirstIsAmong
    <2> QED
      BY <2>4, <2>5 DEF errors, S, T
  <1>2. NameError(spec) = FirstOf(<<FirstOf(Of(t, {})), FirstOf(Of(r, t)), FirstOf(Of(p, t \cup r))>>)
    BY DEF NameError
  <1>3. t \in SUBSET Nat /\ r \in SUBSET Nat /\ p \in SUBSET Nat
    BY SpecTyped
  <1> HIDE DEF Of
  <1>4. NameError(spec) \in {None, FirstOf(Of(t, {})), FirstOf(Of(r, t)), FirstOf(Of(p, t \cup r))}
    BY <1>2, ThreePass
  <1> QED
    BY <1>1, <1>3, <1>4 DEF RelationNames

\* The third pass finds in an admitted specification only what the schema
\* does not say.
LEMMA BodyErrors ==
    ASSUME NEW l, NEW spec \in Specification, Admitted(spec)
    PROVE  BodyError(l, spec) \in
             {None, "empty role", "inherits unknown relation", "unknown topology relation",
              "resource does not define relation", "permission references unknown relation"}
  <1> DEFINE S == {None, "empty role", "inherits unknown relation", "unknown topology relation",
                   "resource does not define relation", "permission references unknown relation"}
             t == [n \in DOMAIN spec.topology |-> TopologyError(spec.topology[n])]
             r == [n \in DOMAIN spec.roles |-> RoleError(l, spec, spec.roles[n])]
             p == [n \in DOMAIN spec.permissions |-> PermissionError(spec, n)]
  <1>1. DOMAIN t \subseteq Nat /\ DOMAIN r \subseteq Nat /\ DOMAIN p \subseteq Nat
    BY SpecTyped
  <1>2. \A n \in DOMAIN spec.topology : t[n] \in S
    BY DEF Admitted, AdmittedTopology, TopologyError
  <1>3. ASSUME NEW n \in DOMAIN spec.roles PROVE r[n] \in S
    <2> DEFINE role == spec.roles[n]
               errors == [k \in DOMAIN role.inherited |-> InheritedError(l, spec, role.inherited[k])]
    <2>1. role \in Role /\ AdmittedRole(role) /\ DOMAIN errors \subseteq Nat
      BY SpecTyped DEF Admitted
    <2>2. ASSUME NEW k \in DOMAIN role.inherited PROVE InheritedError(l, spec, role.inherited[k]) \in S
      <3>1. AdmittedInherited(role.inherited[k])
        BY <2>1 DEF AdmittedRole
      <3>2. ValidName(role.inherited[k].relation)
            /\ (role.inherited[k].via # 0 => ValidName(role.inherited[k].via))
        BY <3>1, PlainAssumption DEF AdmittedInherited, ValidName
      <3> QED
        BY <3>2 DEF InheritedError
    <2>3. FirstOf(errors) \in S
      <3>1. None \in S /\ \A k \in DOMAIN errors : errors[k] \in S
        BY <2>2
      <3> HIDE DEF errors, S
      <3> QED
        BY <2>1, <3>1, FirstIsAmong
    <2>4. r[n] = RoleError(l, spec, role)
      OBVIOUS
    <2> HIDE DEF r
    <2> QED
      BY <2>3, <2>4 DEF RoleError
  <1>4. ASSUME NEW n \in DOMAIN spec.permissions PROVE p[n] \in S
    BY DEF Admitted, AdmittedPermission, PermissionError
  <1>5. BodyError(l, spec) = FirstOf(<<FirstOf(t), FirstOf(r), FirstOf(p)>>)
    BY DEF BodyError
  <1>6. DOMAIN t = DOMAIN spec.topology /\ DOMAIN r = DOMAIN spec.roles /\ DOMAIN p = DOMAIN spec.permissions
    OBVIOUS
  <1> HIDE DEF t, r, p
  <1>7. FirstOf(t) \in S /\ FirstOf(r) \in S /\ FirstOf(p) \in S
    BY <1>1, <1>2, <1>3, <1>4, <1>6, FirstIsAmong
  <1>8. None \in S
    OBVIOUS
  <1> HIDE DEF S
  <1>9. BodyError(l, spec) \in S
    BY <1>5, <1>7, <1>8, ThreePass
  <1> QED
    BY <1>9 DEF S

\* Admitted modules are not refused for what the schema does say.
LEMMA RefusedForMore ==
    ASSUME listing \in Seq(Modules)
    PROVE  RefusedBeyondSchema
  <1> SUFFICES ASSUME ~result.ok, \A i \in DOMAIN listing : Admitted(listing[i].spec)
               PROVE  /\ result.kind \notin {"resource required", "empty topology", "empty permission"}
                      /\ result.kind = "invalid name" =>
                            \E i \in DOMAIN listing : \E n \in RelationNames(listing[i].spec) : ~ValidName(n)
    BY DEF RefusedBeyondSchema
  <1> DEFINE kind == result.kind
  <1> PICK i \in DOMAIN listing :
             /\ kind \in {ResourceError(listing, i), NameError(listing[i].spec), BodyError(listing, listing[i].spec)}
             /\ kind # None
    BY RefusedBySome DEF result
  <1> DEFINE spec == listing[i].spec
  <1>1. spec \in Specification /\ Admitted(spec)
    <2>1. listing[i] \in Modules
      OBVIOUS
    <2> QED
      BY <2>1 DEF Modules
  <1>2. ResourceError(listing, i) \in {None, "duplicate resource"}
    BY <1>1 DEF ResourceError, Admitted, AdmittedType
  <1>3. NameError(spec) \in {None, "invalid name", "name conflict"}
        /\ ((\A n \in RelationNames(spec) : ValidName(n)) => NameError(spec) \in {None, "name conflict"})
    BY <1>1, NameErrors
  <1>4. BodyError(listing, spec) \in
             {None, "empty role", "inherits unknown relation", "unknown topology relation",
              "resource does not define relation", "permission references unknown relation"}
    BY <1>1, BodyErrors
  <1> HIDE DEF kind
  <1>5. kind \notin {"resource required", "empty topology", "empty permission"}
    BY <1>2, <1>3, <1>4
  <1>6. kind = "invalid name" => \E n \in RelationNames(spec) : ~ValidName(n)
    BY <1>2, <1>3, <1>4
  <1> QED
    BY <1>5, <1>6 DEF kind

-----------------------------------------------------------------------------
(* The listings that users make.                                           *)

\* A table with one more entry is a table.
LEMMA PutTyped ==
    ASSUME NEW S, NEW f \in Table(S), NEW x \in Nat, NEW y \in S
    PROVE  Put(f, x, y) \in Table(S)
  <1>1. PICK D \in SUBSET Nat : IsFiniteSet(D) /\ f \in [D -> S]
    BY DEF Table
  <1>2. IsFiniteSet(D \cup {x}) /\ D \cup {x} \in SUBSET Nat
    BY <1>1, FS_AddElement
  <1>3. Put(f, x, y) \in [D \cup {x} -> S]
    BY <1>1 DEF Put
  <1> QED
    BY <1>2, <1>3 DEF Table

\* So is the empty one.
LEMMA EmptyTable ==
    ASSUME NEW S
    PROVE  <<>> \in Table(S)
  <1>1. <<>> \in [{} -> S] /\ IsFiniteSet({}) /\ {} \in SUBSET Nat
    BY FS_EmptySet
  <1> QED
    BY <1>1 DEF Table

Listed == listing \in Seq(Modules)

\* Every edit makes a listing of modules.
LEMMA EditListed ==
    ASSUME Listed, [Next]_<<listing, edits>>
    PROVE  Listed'
  <1> USE DEF Listed
  <1>2. listing \in Seq(Modules) /\ [Next]_<<listing, edits>>
    OBVIOUS
  <1>3. listing' \in Seq(Modules)
    <2>1. ASSUME NEW resource \in Type, Add(resource) PROVE listing' \in Seq(Modules)
      <3> DEFINE spec == [resource |-> resource, topology |-> <<>>, roles |-> <<>>, permissions |-> <<>>]
                 module == [name |-> Len(listing) + 1, spec |-> spec]
      <3>1. spec \in Specification
        BY EmptyTable DEF Specification
      <3> HIDE DEF spec
      <3>2. module \in Modules
        BY <1>2, <3>1 DEF Modules
      <3>3. listing' = Append(listing, module)
        BY <2>1 DEF Add, spec
      <3> HIDE DEF module
      <3> QED
        BY <1>2, <3>2, <3>3
    <2>2. ASSUME NEW i \in DOMAIN listing, NEW spec \in Specification, Write(i, spec)
          PROVE  listing' \in Seq(Modules)
      <3> DEFINE module == [listing[i] EXCEPT !.spec = spec]
      <3>1. listing[i] \in Modules
        BY <1>2
      <3>2. module \in Modules
        BY <3>1 DEF Modules
      <3>3. listing' = [listing EXCEPT ![i] = module]
        BY <2>2 DEF Write
      <3> HIDE DEF module
      <3> QED
        BY <1>2, <3>2, <3>3
    <2>3. \A i \in DOMAIN listing : listing[i].spec \in Specification
      <3>1. \A i \in DOMAIN listing : listing[i] \in Modules
        BY <1>2
      <3> QED
        BY <3>1 DEF Modules
    <2>4. ASSUME NEW i \in DOMAIN listing, NEW e \in TopologyEdits, WriteTopology(i, e)
          PROVE  listing' \in Seq(Modules)
      <3> DEFINE spec == listing[i].spec
                 put == Put(spec.topology, e.name, e.resources)
      <3>1. spec \in Specification /\ e.name \in Nat /\ e.resources \in SUBSET Type
        BY <2>3, EditsAssumption
      <3> HIDE DEF spec
      <3>2. put \in Table(SUBSET Type)
        BY <3>1, PutTyped DEF Specification
      <3> HIDE DEF put
      <3>3. [spec EXCEPT !.topology = put] \in Specification
        BY <3>1, <3>2 DEF Specification
      <3>4. Write(i, [spec EXCEPT !.topology = put])
        BY <2>4 DEF WriteTopology, spec, put
      <3> QED
        BY <2>2, <3>3, <3>4
    <2>5. ASSUME NEW i \in DOMAIN listing, NEW e \in RoleEdits, WriteRole(i, e)
          PROVE  listing' \in Seq(Modules)
      <3> DEFINE spec == listing[i].spec
                 put == Put(spec.roles, e.name, e.role)
      <3>1. spec \in Specification /\ e.name \in Nat /\ e.role \in Role
        BY <2>3, EditsAssumption
      <3> HIDE DEF spec
      <3>2. put \in Table(Role)
        BY <3>1, PutTyped DEF Specification
      <3> HIDE DEF put
      <3>3. [spec EXCEPT !.roles = put] \in Specification
        BY <3>1, <3>2 DEF Specification
      <3>4. Write(i, [spec EXCEPT !.roles = put])
        BY <2>5 DEF WriteRole, spec, put
      <3> QED
        BY <2>2, <3>3, <3>4
    <2>6. ASSUME NEW i \in DOMAIN listing, NEW e \in PermissionEdits, WritePermission(i, e)
          PROVE  listing' \in Seq(Modules)
      <3> DEFINE spec == listing[i].spec
                 put == Put(spec.permissions, e.name, e.anyOf)
      <3>1. spec \in Specification /\ e.name \in Nat /\ e.anyOf \in Seq(Nat)
        BY <2>3, EditsAssumption
      <3> HIDE DEF spec
      <3>2. put \in Table(Seq(Nat))
        BY <3>1, PutTyped DEF Specification
      <3> HIDE DEF put
      <3>3. [spec EXCEPT !.permissions = put] \in Specification
        BY <3>1, <3>2 DEF Specification
      <3>4. Write(i, [spec EXCEPT !.permissions = put])
        BY <2>6 DEF WritePermission, spec, put
      <3> QED
        BY <2>2, <3>3, <3>4
    <2> QED
      BY <1>2, <2>1, <2>4, <2>5, <2>6 DEF Next, Edit
  <1> QED
    BY <1>3

\* So users never make anything else.
LEMMA ListingTyped == Editing => []Listed
  <1>1. Init => Listed
    BY DEF Init, Listed
  <1>2. Listed /\ [Next]_<<listing, edits>> => Listed'
    BY EditListed
  <1> QED
    BY <1>1, <1>2, PTL DEF Editing

-----------------------------------------------------------------------------

\* Whatever users write, the model does not depend on the order in which the
\* cache lists the modules, nor does whether there is one: OrderIndependent
\* of the run.  This is what the controller's proofs assume of a build, but
\* for the validator.
THEOREM ModelIsDeterministic == Editing => []OrderIndependent
  <1>1. Listed => OrderIndependent
    BY OrderMakesNoDifference DEF Listed, OrderIndependent, result
  <1> QED
    BY <1>1, ListingTyped, PTL

\* A model that is accepted has no loose ends but the subjects that Compile
\* leaves to Validate: NoLooseEnds of the run.
THEOREM ModelIsClosed == Editing => []NoLooseEnds
  <1>1. Listed => NoLooseEnds
    <2> SUFFICES ASSUME Listed, result.ok
                 PROVE  NoLooseEnds
      BY DEF NoLooseEnds
    <2>1. Sound(listing) /\ result.model = Definitions(listing)
      BY AcceptedIff DEF result, Listed
    <2>2. DOMAIN result.model = Types(listing)
      BY <2>1 DEF Definitions
    <2> QED
      BY <2>1, <2>2, EndsMeet DEF NoLooseEnds, Listed
  <1> QED
    BY <1>1, ListingTyped, PTL

\* A module that arrives leaves what the others' resources mean alone:
\* Isolated of the run.
THEOREM ModulesAreIsolated == Editing => []Isolated
  <1>1. Listed => Isolated
    BY OthersMeanTheSame DEF Listed, Isolated, result
  <1> QED
    BY <1>1, ListingTyped, PTL

\* Without inherited roles no relation is computed from itself:
\* CyclesNeedRoles of the run.
THEOREM OnlyRolesMakeCycles == Editing => []CyclesNeedRoles
  <1>1. Listed => CyclesNeedRoles
    <2> SUFFICES ASSUME Listed PROVE CyclesNeedRoles
      OBVIOUS
    <2>1. result.ok => Sound(listing) /\ result.model = Definitions(listing)
      BY AcceptedIff DEF result, Listed
    <2> QED
      BY <2>1, PermissionsMakeNoCycle DEF Listed, CyclesNeedRoles, NoInheritance
  <1> QED
    BY <1>1, ListingTyped, PTL

\* What the API server has admitted is refused only for what the schema does
\* not say: RefusedBeyondSchema of the run.
THEOREM SchemaIsEnforced == Editing => []RefusedBeyondSchema
  <1>1. Listed => RefusedBeyondSchema
    BY RefusedForMore DEF Listed
  <1> QED
    BY <1>1, ListingTyped, PTL
=============================================================================
