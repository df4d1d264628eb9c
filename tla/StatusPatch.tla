----------------------------- MODULE StatusPatch -----------------------------
(***************************************************************************)
(* The status of one AuthorizationModule, down to the memory its copies    *)
(* are in and the times in its conditions.                                 *)
(*                                                                         *)
(* A Go variable of type AuthorizationModule holds plain fields, and       *)
(* references to maps and slices.  References are modelled by slots: the   *)
(* map topology is the slot <<"topology">>, the resources of its entry k   *)
(* the slot <<"topology", k, "resources">>, and so on; a slot that is      *)
(* absent is nil.  The heap is a sequence of blocks, each with contents    *)
(* for some slots; a slot of a variable refers to the contents that one of *)
(* the blocks has for it.  An assignment copies references, DeepCopy makes *)
(* a new block.                                                            *)
(*                                                                         *)
(* The informer cache keeps such a variable; Get deep-copies it, and       *)
(* patchStatus changes the copy in place, after it has deep-copied it once *)
(* more to compare with.                                                   *)
(***************************************************************************)
EXTENDS Integers, Sequences, SequencesExt

CONSTANTS
    None,    \* no hash
    Hash,    \* hashes of models
    Shape,   \* what modules may be like: a function from slots to contents
    MaxGen,  \* bound: generation of the module
    MaxTime, \* bound: the clock
    MaxLag,  \* bound: events under way
    MaxOps   \* bound: writes by others

ASSUME BoundsAssumption == MaxGen \in Nat \ {0} /\ MaxTime \in Nat \ {0} /\ MaxLag \in Nat /\ MaxOps \in Nat

Conditions == <<"conditions">>

\* The maps and slices of a specification: three maps, the slices in their
\* entries.
SpecSlot(s) ==
    \/ s \in {<<"topology">>, <<"roles">>, <<"permissions">>}
    \/ /\ Len(s) = 3
       /\ <<s[1], s[3]>> \in {<<"topology", "resources">>, <<"roles", "subjects">>,
                              <<"roles", "inherited">>, <<"permissions", "anyOf">>}

ASSUME ShapeAssumption == \A shape \in Shape : \A s \in DOMAIN shape : SpecSlot(s)

VARIABLES
    server,   \* API server: generation, hash and contents by slot
    watch,    \* events under way, oldest first
    heap,     \* manager: its blocks, each with contents by slot
    cached,   \* manager: the informer cache's variable
    pc,       \* worker: what it does next
    verdict,  \* worker: what it reports, about which generation
    module,   \* worker: the variable it patches from
    base,     \* worker: the variable it compares with
    read,     \* history: what the cache said when the worker read it
    now, ops

memory == <<heap, cached>>
locals == <<verdict, module, base, read>>
vars == <<server, watch, memory, pc, locals, now, ops>>

\* What a variable says, wherever it is in memory.
Value(h, v) == [gen |-> v.gen, hash |-> v.hash, content |-> [s \in DOMAIN v.slots |-> h[v.slots[s]][s]]]

\* A new variable with the contents of val in a new block, as the decoder of
\* the API server's JSON makes it.
Decoded(h, val) ==
    [heap |-> Append(h, val.content),
     var |-> [gen |-> val.gen, hash |-> val.hash, slots |-> [s \in DOMAIN val.content |-> Len(h) + 1]]]

-----------------------------------------------------------------------------
(* The generated deep copies.                                              *)

\* Mutant of EntrySlices: a role's inherited relations are shared.
EntrySlicesShared == [topology |-> {"resources"}, roles |-> {"subjects"}, permissions |-> {"anyOf"}]

\* The slices that TopologyRelation, AuthorizationRole and
\* AuthorizationPermission copy.
EntrySlices == [topology |-> {"resources"}, roles |-> {"subjects", "inherited"}, permissions |-> {"anyOf"}]

\* AuthorizationModuleSpec: its maps, and their entries one by one.
SpecSlots(slots) ==
    {s \in slots : \E m \in DOMAIN EntrySlices :
        s[1] = m /\ (Len(s) = 1 \/ s[3] \in EntrySlices[m])}

\* Mutant of StatusSlots: the conditions are shared.
StatusSlotsShared(slots) == {}

\* AuthorizationModuleStatus.
StatusSlots(slots) == slots \cap {Conditions}

\* AuthorizationModule: first every reference is copied as it is, then what
\* the parts copy gets new memory, block b.
Copied(v) == SpecSlots(DOMAIN v.slots) \cup StatusSlots(DOMAIN v.slots)

Contents(h, v) == [s \in Copied(v) |-> h[v.slots[s]][s]]

Moved(v, b) ==
    [v EXCEPT !.slots = [s \in DOMAIN v.slots |-> IF s \in Copied(v) THEN b ELSE v.slots[s]]]

DeepCopy(h, v) == [heap |-> Append(h, Contents(h, v)), var |-> Moved(v, Len(h) + 1)]

\* AuthorizationModuleList: its items one after the other.
DeepCopyList(h, items) ==
    [heap |-> h \o [i \in DOMAIN items |-> Contents(h, items[i])],
     vars |-> [i \in DOMAIN items |-> Moved(items[i], Len(h) + i)]]

-----------------------------------------------------------------------------
(* patchStatus.                                                            *)

\* The module's conditions, none if they are nil.
ConditionsOf(val) == IF Conditions \in DOMAIN val.content THEN val.content[Conditions] ELSE <<>>

ReadyIn(conditions) == {i \in DOMAIN conditions : conditions[i].type = "Ready"}

\* The conditions of other types.
Others(conditions) == {c \in Range(conditions) : c.type # "Ready"}

Put(f, x, y) == [z \in DOMAIN f \cup {x} |-> IF z = x THEN y ELSE f[z]]

\* Mutant of WithTime: every patch is a transition.
WithTimeNow(condition, old) == [condition EXCEPT !.at = now]

\* Mutant of WithTime: a transition is given no time.
WithTimeUnset(condition, old) == IF old.ready = condition.ready THEN [condition EXCEPT !.at = old.at] ELSE condition

\* The time of the last transition is kept while the status stays.
WithTime(condition, old) == [condition EXCEPT !.at = IF old.ready = condition.ready THEN old.at ELSE now]

\* Mutant of SetCondition: the condition is always appended.
SetConditionAppended(h, v, condition) ==
    [heap |-> Append(h, Put(<<>>, Conditions, Append(ConditionsOf(Value(h, v)), [condition EXCEPT !.at = now]))),
     var |-> [v EXCEPT !.slots = Put(@, Conditions, Len(h) + 1)]]

\* setCondition: a condition of this type is overwritten where it is, in the
\* slice's memory; otherwise append moves the slice, which is full.
SetCondition(h, v, condition) ==
    LET conditions == ConditionsOf(Value(h, v))
    IN IF ReadyIn(conditions) # {}
       THEN LET i == CHOOSE i \in ReadyIn(conditions) : TRUE
               set == [conditions EXCEPT ![i] = WithTime(condition, @)]
            IN [heap |-> [h EXCEPT ![v.slots[Conditions]] = [@ EXCEPT ![Conditions] = set]], var |-> v]
       ELSE [heap |-> Append(h, Put(<<>>, Conditions, Append(conditions, [condition EXCEPT !.at = now]))),
             var |-> [v EXCEPT !.slots = Put(@, Conditions, Len(h) + 1)]]

\* Mutant of Original: the object to compare with is the one to be changed.
OriginalShared(h, v) == [heap |-> h, var |-> v]

\* The object that client.MergeFrom compares with.
Original(h, v) == DeepCopy(h, v)

\* A merge patch sends a field of the status that differs, and a list as a whole.
Merged(obj, from, to) ==
    LET hashed == IF from.hash = to.hash THEN obj ELSE [obj EXCEPT !.hash = to.hash]
    IN IF ConditionsOf(from) = ConditionsOf(to) THEN hashed
       ELSE [hashed EXCEPT !.content = Put(@, Conditions, ConditionsOf(to))]

-----------------------------------------------------------------------------
NoVerdict == [type |-> "Ready", ready |-> FALSE, gen |-> 0, at |-> 0, hash |-> None]
NoVariable == [gen |-> 0, hash |-> None, slots |-> <<>>]
NothingRead == [gen |-> 0, hash |-> None, content |-> <<>>]

Write(obj) ==
    /\ server' = obj
    /\ IF obj = server THEN UNCHANGED watch
       ELSE Len(watch) < MaxLag /\ watch' = Append(watch, obj)

\* A run lists the cache and comes to a verdict on all modules.
Judge ==
    /\ pc = "idle"
    /\ \E hash \in Hash \cup {None} :
          verdict' = [type |-> "Ready", ready |-> hash # None, gen |-> cached.gen, at |-> 0, hash |-> hash]
    /\ pc' = "get"
    /\ UNCHANGED <<server, watch, memory, module, base, read, now, ops>>

\* patchStatus reads the cache, copies what it read, and changes it.
Prepare ==
    /\ pc = "get"
    /\ LET copy == DeepCopy(heap, cached)
           original == Original(copy.heap, copy.var)
           hashed == [copy.var EXCEPT !.hash = verdict.hash]
           condition == [type |-> "Ready", ready |-> verdict.ready, gen |-> verdict.gen, at |-> 0]
           set == SetCondition(original.heap, hashed, condition)
       IN /\ base' = original.var
          /\ module' = set.var
          /\ heap' = set.heap
          /\ read' = Value(heap, cached)
    /\ pc' = "patch"
    /\ UNCHANGED <<server, watch, cached, verdict, now, ops>>

\* The patch is sent.  What the worker's variables held is garbage; the
\* cache's variable is moved to the front of the heap.
Patch ==
    /\ pc = "patch"
    /\ Write(Merged(server, Value(heap, base), Value(heap, module)))
    /\ pc' = "idle"
    /\ verdict' = NoVerdict /\ module' = NoVariable /\ base' = NoVariable /\ read' = NothingRead
    /\ LET kept == Decoded(<<>>, Value(heap, cached)) IN heap' = kept.heap /\ cached' = kept.var
    /\ UNCHANGED <<now, ops>>

\* An event replaces the variable in the cache, never what it refers to.
Deliver ==
    /\ watch # <<>>
    /\ watch' = Tail(watch)
    /\ LET fresh == Decoded(IF pc = "patch" THEN heap ELSE <<>>, Head(watch))
       IN heap' = fresh.heap /\ cached' = fresh.var
    /\ UNCHANGED <<server, pc, locals, now, ops>>

\* A user changes the specification.
Update ==
    /\ server.gen < MaxGen
    /\ Write([server EXCEPT !.gen = @ + 1])
    /\ UNCHANGED <<memory, pc, locals, now, ops>>

\* Somebody else sets a condition of a type of their own.
OthersReport ==
    /\ ops < MaxOps /\ ops' = ops + 1
    /\ \E ready \in BOOLEAN :
         LET other == [type |-> "Other", ready |-> ready, gen |-> server.gen, at |-> now]
             conditions == ConditionsOf(server)
             mine == IF ReadyIn(conditions) = {} THEN <<>>
                     ELSE <<conditions[CHOOSE i \in ReadyIn(conditions) : TRUE]>>
         IN Write([server EXCEPT !.content = Put(@, Conditions, <<other>> \o mine)])
    /\ UNCHANGED <<memory, pc, locals, now>>

Tick == now < MaxTime /\ now' = now + 1 /\ UNCHANGED <<server, watch, memory, pc, locals, ops>>

Init ==
    /\ \E shape \in Shape : server = [gen |-> 1, hash |-> None, content |-> shape]
    /\ watch = <<>>
    /\ heap = Decoded(<<>>, server).heap /\ cached = Decoded(<<>>, server).var
    /\ pc = "idle"
    /\ verdict = NoVerdict /\ module = NoVariable /\ base = NoVariable /\ read = NothingRead
    /\ now = 1 /\ ops = 0

Next == Judge \/ Prepare \/ Patch \/ Deliver \/ Update \/ OthersReport \/ Tick

Statuses == Init /\ [][Next]_vars
-----------------------------------------------------------------------------
\* Every variable holds a value of its kind, every slot refers to contents, and
\* no two of the module's conditions have one type ("each condition has a
\* unique type"): the API server would refuse them.
TypeOK ==
    /\ server.gen \in 1 .. MaxGen /\ server.hash \in Hash \cup {None}
    /\ \A i, j \in DOMAIN ConditionsOf(server) :
          ConditionsOf(server)[i].type = ConditionsOf(server)[j].type => i = j
    /\ \A v \in {cached, module, base} : \A s \in DOMAIN v.slots :
          v.slots[s] \in DOMAIN heap /\ s \in DOMAIN heap[v.slots[s]]
    /\ pc \in {"idle", "get", "patch"}
    /\ now \in 1 .. MaxTime /\ ops \in 0 .. MaxOps /\ Len(watch) <= MaxLag

\* A deep copy says what the original says and shares no memory with it, nor
\* do two items of a copied list with each other: what is later written
\* through one of them shows in no other.
CopiesAreDeep ==
    LET list == DeepCopyList(heap, <<cached, cached>>)
        Blocks(v) == {v.slots[s] : s \in DOMAIN v.slots}
    IN /\ SubSeq(list.heap, 1, Len(heap)) = heap
       /\ \A i \in 1 .. 2 : Value(list.heap, list.vars[i]) = Value(heap, cached)
       /\ Blocks(list.vars[1]) \cap Blocks(list.vars[2]) = {}
       /\ \A i \in 1 .. 2 : Blocks(list.vars[i]) \cap DOMAIN heap = {}

\* Only events change what the informer cache says: the worker writes into
\* its variables in place, and none of that is memory of the cache.
CacheUntouched ==
    [][Judge \/ Prepare \/ Patch => Value(heap, cached)' = Value(heap, cached)]_vars

\* A list of conditions that has the verdict as its one condition of this type.
SaysVerdict(conditions) ==
    \E i \in DOMAIN conditions : /\ ReadyIn(conditions) = {i}
                                 /\ conditions[i].ready = verdict.ready
                                 /\ conditions[i].gen = verdict.gen

\* A patch from an object that was up to date when it was read, and still is,
\* makes the status say the verdict, and leaves conditions of other types
\* alone: the change is not lost between the variable that was changed and
\* the one that it is compared with.
PatchSaysVerdict ==
    [][Patch /\ read = server =>
         /\ server'.hash = verdict.hash
         /\ SaysVerdict(ConditionsOf(server'))
         /\ Others(ConditionsOf(server')) = Others(ConditionsOf(server))]_vars

\* A status that says the verdict already is not written again, however much
\* later: the event of such a write would wake the controller, which would
\* write again, for ever.
SettledStatusStays ==
    [][Patch /\ read = server /\ server.hash = verdict.hash /\ SaysVerdict(ConditionsOf(server))
         => server' = server]_vars

\* A Ready condition with another status has no earlier time, if the one seen
\* had the old status or there was none.
NotBefore(old, seen, new) ==
    \A i \in ReadyIn(old) : \A j \in ReadyIn(new) :
        /\ new[j].ready # old[i].ready
        /\ \A k \in ReadyIn(seen) : seen[k].ready = old[i].ready
        => new[j].at >= old[i].at

\* A Ready condition that changes its status does not get a time from before
\* its last change, unless the cache that the worker read showed a status
\* that the server's condition had left since: setCondition takes the time
\* from there ("lastTransitionTime is the last time the condition
\* transitioned from one status to another").
TransitionTimesGrow ==
    [][NotBefore(ConditionsOf(server), ConditionsOf(read), ConditionsOf(server'))]_vars
=============================================================================
