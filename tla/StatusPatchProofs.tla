-------------------------- MODULE StatusPatchProofs --------------------------
(***************************************************************************)
(* Proofs about StatusPatch, for every module, clock and bound: the copies *)
(* in patchStatus are separate from the cache and from each other, so that *)
(* the patch carries the verdict, and a settled status is left alone.      *)
(***************************************************************************)
EXTENDS StatusPatch, SequenceTheorems, TLAPS

\* Sequences of whatever they hold: a heap's blocks have no common type.
Listed(h) == \E B : h \in Seq(B)

Slot(s) == SpecSlot(s) \/ s = Conditions

Condition == [type : {"Ready", "Other"}, ready : BOOLEAN, gen : Nat, at : Nat]

\* A list with one condition of a type at most.
ConditionList(cs) ==
    /\ cs \in Seq(Condition)
    /\ \A i, j \in DOMAIN cs : cs[i].type = cs[j].type => i = j

\* An object as the API server has it.
Object(o) ==
    /\ o \in [gen : 1 .. MaxGen, hash : Hash \cup {None}, content : {o.content}]
    /\ \A s \in DOMAIN o.content : Slot(s)
    /\ ConditionList(ConditionsOf(o))

Variable(v) ==
    /\ v \in [gen : Nat, hash : Hash \cup {None}, slots : {v.slots}]
    /\ \A s \in DOMAIN v.slots : Slot(s)

\* Every slot of v refers to contents in h.
Refers(h, v) == \A s \in DOMAIN v.slots : v.slots[s] \in DOMAIN h /\ s \in DOMAIN h[v.slots[s]]

\* What was in h is still in g.
Keeps(g, h) == \A b \in DOMAIN h : b \in DOMAIN g /\ g[b] = h[b]

\* What setCondition makes of a list.
Told(old, new) ==
    /\ SaysVerdict(new)
    /\ Others(new) = Others(old)
    /\ SaysVerdict(old) => new = old

\* The Ready condition of a new list has the time t, or the old one's status
\* and time.
Dated(old, new, t) ==
    \A j \in ReadyIn(new) :
        \/ new[j].at = t
        \/ \E i \in ReadyIn(old) : new[j].ready = old[i].ready /\ new[j].at = old[i].at

\* The inductive invariant: what the server has and its events carry;
Served ==
    /\ Object(server)
    /\ Listed(watch) /\ (\A i \in DOMAIN watch : Object(watch[i])) /\ Len(watch) <= MaxLag

\* what the cache's variable refers to;
Remembered ==
    /\ Listed(heap)
    /\ Variable(cached) /\ Refers(heap, cached) /\ ConditionList(ConditionsOf(Value(heap, cached)))

\* the worker's locals and the clock;
Localized ==
    /\ pc \in {"idle", "get", "patch"}
    /\ verdict \in [type : {"Ready"}, ready : BOOLEAN, gen : Nat, at : Nat, hash : Hash \cup {None}]
    /\ now \in 1 .. MaxTime /\ ops \in 0 .. MaxOps
    /\ pc # "patch" => module = NoVariable /\ base = NoVariable

\* and, while a patch is under way: the variable that it is compared with says
\* what was read, and the one that was changed is that with the verdict.
Prepared ==
    pc = "patch" =>
        /\ Variable(module) /\ Refers(heap, module) /\ Refers(heap, base)
        /\ module.hash = verdict.hash
        /\ Value(heap, base) = read
        /\ ConditionList(ConditionsOf(Value(heap, module)))
        /\ Told(ConditionsOf(read), ConditionsOf(Value(heap, module)))

CopyInv == Served /\ Remembered /\ Localized /\ Prepared

-----------------------------------------------------------------------------
(* Memory.                                                                 *)

\* A new block leaves the others alone.
LEMMA NewBlock ==
    ASSUME NEW h, Listed(h), NEW b
    PROVE  /\ Listed(Append(h, b)) /\ Keeps(Append(h, b), h)
           /\ Len(h) \in Nat /\ DOMAIN h = 1 .. Len(h)
           /\ Len(Append(h, b)) = Len(h) + 1 /\ DOMAIN Append(h, b) = 1 .. Len(h) + 1
           /\ Append(h, b)[Len(h) + 1] = b
  <1>1. PICK B : h \in Seq(B)
    BY DEF Listed
  <1>2. h \in Seq(B \cup {b})
    BY <1>1
  <1>3. Append(h, b) \in Seq(B \cup {b})
    BY <1>2
  <1>4. /\ Len(Append(h, b)) = Len(h) + 1 /\ Append(h, b)[Len(h) + 1] = b
        /\ \A i \in 1 .. Len(h) : Append(h, b)[i] = h[i]
    BY <1>2
  <1> QED
    BY <1>2, <1>3, <1>4 DEF Listed, Keeps

\* A variable says the same as long as its own blocks are kept,
LEMMA SaysTheSameIn ==
    ASSUME NEW g, NEW h, NEW v, Refers(h, v),
           \A s \in DOMAIN v.slots : v.slots[s] \in DOMAIN g /\ g[v.slots[s]] = h[v.slots[s]]
    PROVE  Refers(g, v) /\ Value(g, v) = Value(h, v)
  BY DEF Refers, Value

\* or all of them.
LEMMA SaysTheSame ==
    ASSUME NEW g, NEW h, Keeps(g, h), NEW v, Refers(h, v)
    PROVE  Refers(g, v) /\ Value(g, v) = Value(h, v)
  <1>1. \A s \in DOMAIN v.slots : v.slots[s] \in DOMAIN g /\ g[v.slots[s]] = h[v.slots[s]]
    BY DEF Keeps, Refers
  <1> QED
    BY <1>1, SaysTheSameIn

\* What the conditions of a variable are.
LEMMA ConditionsSaid ==
    ASSUME NEW h, NEW v
    PROVE  /\ Conditions \in DOMAIN v.slots => ConditionsOf(Value(h, v)) = h[v.slots[Conditions]][Conditions]
           /\ Conditions \notin DOMAIN v.slots => ConditionsOf(Value(h, v)) = <<>>
  BY DEF ConditionsOf, Value

\* The decoder's variable says what was decoded.
LEMMA DecodedSays ==
    ASSUME NEW h, Listed(h), NEW val
    PROVE  LET d == Decoded(h, val)
           IN /\ Listed(d.heap) /\ Keeps(d.heap, h) /\ Refers(d.heap, d.var)
              /\ d.var = [gen |-> val.gen, hash |-> val.hash, slots |-> [s \in DOMAIN val.content |-> Len(h) + 1]]
              /\ Value(d.heap, d.var) = [gen |-> val.gen, hash |-> val.hash,
                                         content |-> [s \in DOMAIN val.content |-> val.content[s]]]
  <1> DEFINE g == Append(h, val.content)
             v == [gen |-> val.gen, hash |-> val.hash, slots |-> [s \in DOMAIN val.content |-> Len(h) + 1]]
  <1>1. Decoded(h, val).heap = g /\ Decoded(h, val).var = v
    BY DEF Decoded
  <1>2. /\ Listed(g) /\ Keeps(g, h)
        /\ Len(h) \in Nat /\ DOMAIN g = 1 .. Len(h) + 1 /\ g[Len(h) + 1] = val.content
    BY NewBlock
  <1>3. DOMAIN v.slots = DOMAIN val.content /\ \A s \in DOMAIN v.slots : v.slots[s] = Len(h) + 1
    OBVIOUS
  <1>4. v.gen = val.gen /\ v.hash = val.hash
    OBVIOUS
  <1> HIDE DEF g
  <1>5. Refers(g, v)
    BY <1>2, <1>3 DEF Refers
  <1>6. Value(g, v) = [gen |-> val.gen, hash |-> val.hash,
                       content |-> [s \in DOMAIN val.content |-> val.content[s]]]
    <2>1. [s \in DOMAIN v.slots |-> g[v.slots[s]][s]] = [s \in DOMAIN val.content |-> val.content[s]]
      BY <1>2, <1>3
    <2> HIDE DEF v
    <2> QED
      BY <1>4, <2>1 DEF Value
  <1> QED
    BY <1>1, <1>2, <1>5, <1>6

\* An object's conditions are those of its decoded copy.
LEMMA SameConditions ==
    ASSUME NEW val
    PROVE  ConditionsOf([gen |-> val.gen, hash |-> val.hash,
                         content |-> [s \in DOMAIN val.content |-> val.content[s]]]) = ConditionsOf(val)
  BY DEF ConditionsOf

-----------------------------------------------------------------------------
(* The generated deep copies.                                              *)

\* They copy every map and slice that there is.
LEMMA EverythingCopied ==
    ASSUME NEW v, \A s \in DOMAIN v.slots : Slot(s)
    PROVE  Copied(v) = DOMAIN v.slots
  <1>1. ASSUME NEW s \in DOMAIN v.slots PROVE s \in Copied(v)
    <2>1. CASE s \in {<<"topology">>, <<"roles">>, <<"permissions">>}
      BY <2>1 DEF Copied, SpecSlots, EntrySlices
    <2>2. CASE Len(s) = 3 /\ <<s[1], s[3]>> \in {<<"topology", "resources">>, <<"roles", "subjects">>,
                                                <<"roles", "inherited">>, <<"permissions", "anyOf">>}
      <3>1. \/ s[1] = "topology" /\ s[3] = "resources"
            \/ s[1] = "roles" /\ s[3] \in {"subjects", "inherited"}
            \/ s[1] = "permissions" /\ s[3] = "anyOf"
        BY <2>2
      <3> QED
        BY <3>1 DEF Copied, SpecSlots, EntrySlices
    <2>3. CASE s = Conditions
      BY <2>3 DEF Copied, StatusSlots
    <2> QED
      BY <2>1, <2>2, <2>3 DEF Slot, SpecSlot
  <1>2. Copied(v) \subseteq DOMAIN v.slots
    BY DEF Copied, SpecSlots, StatusSlots
  <1> QED
    BY <1>1, <1>2

\* So a copy refers to its own block alone.
LEMMA MovedAway ==
    ASSUME NEW v, Variable(v), NEW b
    PROVE  /\ Variable(Moved(v, b))
           /\ Moved(v, b).gen = v.gen /\ Moved(v, b).hash = v.hash
           /\ Moved(v, b).slots = [s \in DOMAIN v.slots |-> b]
  <1> DEFINE slots == [s \in DOMAIN v.slots |-> IF s \in Copied(v) THEN b ELSE v.slots[s]]
  <1>1. slots = [s \in DOMAIN v.slots |-> b]
    BY EverythingCopied DEF Variable
  <1>2. Moved(v, b) = [v EXCEPT !.slots = slots]
    BY DEF Moved
  <1> HIDE DEF slots
  <1> QED
    BY <1>1, <1>2 DEF Variable

\* What a copy says, in a heap that has its contents in that block.
LEMMA MovedSays ==
    ASSUME NEW h, NEW v, Variable(v), Refers(h, v),
           NEW g, NEW b, b \in DOMAIN g, g[b] = Contents(h, v)
    PROVE  Refers(g, Moved(v, b)) /\ Value(g, Moved(v, b)) = Value(h, v)
  <1>1. g[b] = [s \in DOMAIN v.slots |-> h[v.slots[s]][s]]
    BY EverythingCopied DEF Variable, Contents
  <1>2. /\ Moved(v, b).gen = v.gen /\ Moved(v, b).hash = v.hash
        /\ DOMAIN Moved(v, b).slots = DOMAIN v.slots
        /\ \A s \in DOMAIN v.slots : Moved(v, b).slots[s] = b
    <2> DEFINE m == Moved(v, b)
    <2>1. m.gen = v.gen /\ m.hash = v.hash /\ m.slots = [s \in DOMAIN v.slots |-> b]
      BY MovedAway
    <2> HIDE DEF m
    <2>2. DOMAIN m.slots = DOMAIN v.slots /\ \A s \in DOMAIN v.slots : m.slots[s] = b
      BY <2>1
    <2> QED
      BY <2>1, <2>2 DEF m
  <1>3. [s \in DOMAIN Moved(v, b).slots |-> g[Moved(v, b).slots[s]][s]]
        = [s \in DOMAIN v.slots |-> h[v.slots[s]][s]]
    BY <1>1, <1>2
  <1> QED
    BY <1>1, <1>2, <1>3 DEF Refers, Value

\* DeepCopy: the same, in a new block.
LEMMA CopySays ==
    ASSUME NEW h, Listed(h), NEW v, Variable(v), Refers(h, v)
    PROVE  LET c == DeepCopy(h, v)
           IN /\ c.heap = Append(h, Contents(h, v)) /\ c.var = Moved(v, Len(h) + 1)
              /\ Listed(c.heap) /\ Keeps(c.heap, h) /\ Len(h) \in Nat
              /\ DOMAIN h = 1 .. Len(h) /\ DOMAIN c.heap = 1 .. Len(h) + 1 /\ Len(c.heap) = Len(h) + 1
              /\ Variable(c.var) /\ Refers(c.heap, c.var) /\ Value(c.heap, c.var) = Value(h, v)
              /\ c.var.slots = [s \in DOMAIN v.slots |-> Len(h) + 1]
  <1> DEFINE g == Append(h, Contents(h, v))
             b == Len(h) + 1
  <1>1. DeepCopy(h, v).heap = g /\ DeepCopy(h, v).var = Moved(v, b)
    BY DEF DeepCopy
  <1>2. /\ Listed(g) /\ Keeps(g, h) /\ Len(h) \in Nat /\ DOMAIN h = 1 .. Len(h)
        /\ DOMAIN g = 1 .. Len(h) + 1 /\ Len(g) = Len(h) + 1 /\ g[b] = Contents(h, v)
    BY NewBlock
  <1>3. b \in DOMAIN g
    BY <1>2
  <1> HIDE DEF g, b
  <1>4. Refers(g, Moved(v, b)) /\ Value(g, Moved(v, b)) = Value(h, v)
    BY <1>2, <1>3, MovedSays
  <1>5. Variable(Moved(v, b)) /\ Moved(v, b).slots = [s \in DOMAIN v.slots |-> b]
    BY MovedAway
  <1> QED
    BY <1>1, <1>2, <1>4, <1>5 DEF g, b

-----------------------------------------------------------------------------
(* setCondition.                                                           *)

\* A list with the verdict of a run as its one condition of type Ready.
Says(cs, ready, gen) ==
    \E i \in DOMAIN cs : ReadyIn(cs) = {i} /\ cs[i].ready = ready /\ cs[i].gen = gen

\* A condition that is overwritten where it is, at a time that is kept unless
\* the status changes.
LEMMA Overwritten ==
    ASSUME NEW cs, ConditionList(cs), NEW i \in ReadyIn(cs),
           NEW c \in Condition, c.type = "Ready", c.ready = cs[i].ready => c.at = cs[i].at
    PROVE  LET new == [cs EXCEPT ![i] = c]
           IN /\ ConditionList(new) /\ Says(new, c.ready, c.gen) /\ Others(new) = Others(cs)
              /\ Says(cs, c.ready, c.gen) => new = cs
              /\ \A j \in ReadyIn(new) : new[j] = c
  <1> DEFINE new == [cs EXCEPT ![i] = c]
  <1>1. /\ cs \in Seq(Condition) /\ i \in DOMAIN cs /\ cs[i].type = "Ready"
        /\ \A j, k \in DOMAIN cs : cs[j].type = cs[k].type => j = k
    BY DEF ConditionList, ReadyIn
  <1>2. /\ new \in Seq(Condition) /\ DOMAIN new = DOMAIN cs
        /\ \A j \in DOMAIN cs : new[j] = IF j = i THEN c ELSE cs[j]
    BY <1>1
  <1> HIDE DEF new
  <1>3. \A j \in DOMAIN cs : new[j].type = cs[j].type
    BY <1>1, <1>2
  <1>4. ConditionList(new)
    BY <1>1, <1>2, <1>3 DEF ConditionList
  <1>5. ReadyIn(cs) = {i} /\ ReadyIn(new) = {i}
    BY <1>1, <1>2, <1>3 DEF ReadyIn
  <1>6. Says(new, c.ready, c.gen)
    BY <1>1, <1>2, <1>5 DEF Says
  <1>7. Others(new) = Others(cs)
    <2>1. ASSUME NEW d PROVE d \in Others(new) <=> d \in Others(cs)
      <3>1. d \in Others(new) <=> \E j \in DOMAIN cs : d = new[j] /\ d.type # "Ready"
        BY <1>2 DEF Others, Range
      <3>2. d \in Others(cs) <=> \E j \in DOMAIN cs : d = cs[j] /\ d.type # "Ready"
        BY DEF Others, Range
      <3>3. \A j \in DOMAIN cs : d.type # "Ready" => (d = new[j] <=> d = cs[j])
        BY <1>1, <1>2
      <3> QED
        BY <3>1, <3>2, <3>3
    <2> QED
      BY <2>1
  <1>8. ASSUME Says(cs, c.ready, c.gen) PROVE new = cs
    <2>1. cs[i].ready = c.ready /\ cs[i].gen = c.gen
      BY <1>5, <1>8 DEF Says
    <2>2. cs[i] \in Condition
      BY <1>1
    <2>3. \A d, e \in Condition :
             d.type = e.type /\ d.ready = e.ready /\ d.gen = e.gen /\ d.at = e.at => d = e
      BY DEF Condition
    <2>4. c.at = cs[i].at
      BY <2>1
    <2>5. c = cs[i]
      BY <1>1, <2>1, <2>2, <2>3, <2>4
    <2> QED
      BY <1>1, <2>5 DEF new
  <1> QED
    BY <1>1, <1>2, <1>4, <1>5, <1>6, <1>7, <1>8 DEF new

\* A condition that is appended.
LEMMA Appended ==
    ASSUME NEW cs, ConditionList(cs), ReadyIn(cs) = {}, NEW c \in Condition, c.type = "Ready"
    PROVE  LET new == Append(cs, c)
           IN /\ ConditionList(new) /\ Says(new, c.ready, c.gen) /\ Others(new) = Others(cs)
              /\ ~Says(cs, c.ready, c.gen)
              /\ \A j \in ReadyIn(new) : new[j] = c
  <1> DEFINE new == Append(cs, c)
             n == Len(cs) + 1
  <1>1. /\ cs \in Seq(Condition) /\ \A j \in DOMAIN cs : cs[j].type # "Ready"
        /\ \A j, k \in DOMAIN cs : cs[j].type = cs[k].type => j = k
    BY DEF ConditionList, ReadyIn
  <1>2. /\ new \in Seq(Condition) /\ DOMAIN new = DOMAIN cs \cup {n} /\ n \notin DOMAIN cs
        /\ new[n] = c /\ \A j \in DOMAIN cs : new[j] = cs[j]
    BY <1>1
  <1> HIDE DEF new, n
  <1>3. ConditionList(new)
    BY <1>1, <1>2 DEF ConditionList
  <1>4. ReadyIn(new) = {n}
    BY <1>1, <1>2 DEF ReadyIn
  <1>5. Says(new, c.ready, c.gen) /\ ~Says(cs, c.ready, c.gen)
    BY <1>2, <1>4 DEF Says
  <1>6. Others(new) = Others(cs)
    <2>1. ASSUME NEW d PROVE d \in Others(new) <=> d \in Others(cs)
      <3>1. d \in Others(new) <=> \E j \in DOMAIN new : d = new[j] /\ d.type # "Ready"
        BY DEF Others, Range
      <3>2. d \in Others(cs) <=> \E j \in DOMAIN cs : d = cs[j] /\ d.type # "Ready"
        BY DEF Others, Range
      <3> QED
        BY <3>1, <3>2, <1>2
    <2> QED
      BY <2>1
  <1> QED
    BY <1>2, <1>3, <1>4, <1>5, <1>6 DEF new

\* setCondition on a variable whose conditions, if any, are in block own: the
\* other blocks are left alone, and the variable says the condition.
LEMMA SetSays ==
    ASSUME NEW h, Listed(h), NEW v, Variable(v), Refers(h, v), ConditionList(ConditionsOf(Value(h, v))),
           now \in Nat, NEW own, \A s \in DOMAIN v.slots : v.slots[s] = own,
           NEW ready \in BOOLEAN, NEW gen \in Nat
    PROVE  LET set == SetCondition(h, v, [type |-> "Ready", ready |-> ready, gen |-> gen, at |-> 0])
               old == ConditionsOf(Value(h, v))
               new == ConditionsOf(Value(set.heap, set.var))
           IN /\ Listed(set.heap)
              /\ \A b \in DOMAIN h : b \in DOMAIN set.heap /\ (b # own => set.heap[b] = h[b])
              /\ Variable(set.var) /\ set.var.hash = v.hash /\ Refers(set.heap, set.var)
              /\ ConditionList(new) /\ Says(new, ready, gen) /\ Others(new) = Others(old)
              /\ Says(old, ready, gen) => new = old
              /\ Dated(old, new, now)
  <1> DEFINE condition == [type |-> "Ready", ready |-> ready, gen |-> gen, at |-> 0]
             old == ConditionsOf(Value(h, v))
             set == SetCondition(h, v, condition)
             new == ConditionsOf(Value(set.heap, set.var))
  <1>1. CASE ReadyIn(old) # {}
    <2> DEFINE i == CHOOSE i \in ReadyIn(old) : TRUE
               list == [old EXCEPT ![i] = WithTime(condition, old[i])]
               g == [h EXCEPT ![own] = [h[own] EXCEPT ![Conditions] = list]]
    <2>1. i \in ReadyIn(old)
      BY <1>1
    <2>2. i \in DOMAIN old
      BY <2>1 DEF ReadyIn
    <2>3. Conditions \in DOMAIN v.slots
      BY <2>2, ConditionsSaid
    <2>4. v.slots[Conditions] = own /\ own \in DOMAIN h /\ Conditions \in DOMAIN h[own]
      BY <2>3 DEF Refers
    <2>5. old = h[own][Conditions]
      BY <2>3, <2>4, ConditionsSaid
    <2>6. set = [heap |-> g, var |-> v]
      BY <1>1, <2>4, <2>5 DEF SetCondition
    <2>7. WithTime(condition, old[i]) \in Condition
          /\ LET c == WithTime(condition, old[i])
             IN c.type = "Ready" /\ c.ready = ready /\ c.gen = gen
                /\ (c.ready = old[i].ready => c.at = old[i].at)
                /\ (c.at = now \/ c.ready = old[i].ready)
      <3>1. old[i] \in Condition
        BY <2>2 DEF ConditionList
      <3> DEFINE at == IF old[i].ready = ready THEN old[i].at ELSE now
      <3>2. at \in Nat /\ (ready = old[i].ready => at = old[i].at) /\ (at = now \/ ready = old[i].ready)
        BY <3>1 DEF Condition
      <3>3. WithTime(condition, old[i]) = [type |-> "Ready", ready |-> ready, gen |-> gen, at |-> at]
        BY DEF WithTime
      <3> HIDE DEF at
      <3> QED
        BY <3>2, <3>3 DEF Condition
    <2> HIDE DEF i
    <2>8. /\ ConditionList(list) /\ Says(list, ready, gen) /\ Others(list) = Others(old)
          /\ Says(old, ready, gen) => list = old
          /\ Dated(old, list, now)
      <3> DEFINE c == WithTime(condition, old[i])
      <3>1. c \in Condition /\ c.type = "Ready" /\ c.ready = ready /\ c.gen = gen
            /\ (c.ready = old[i].ready => c.at = old[i].at) /\ (c.at = now \/ c.ready = old[i].ready)
        BY <2>7
      <3> HIDE DEF c, old
      <3>2. ConditionList(old)
        BY DEF old
      <3> DEFINE overwritten == [old EXCEPT ![i] = c]
      <3>3. /\ ConditionList(overwritten) /\ Says(overwritten, ready, gen) /\ Others(overwritten) = Others(old)
            /\ Says(old, ready, gen) => overwritten = old
            /\ \A j \in ReadyIn(overwritten) : overwritten[j] = c
        BY <2>1, <3>1, <3>2, Overwritten
      <3>4. list = overwritten
        BY DEF c
      <3> HIDE DEF list, i, overwritten
      <3>5. Dated(old, overwritten, now)
        BY <2>1, <3>1, <3>3 DEF Dated
      <3> QED
        BY <3>3, <3>4, <3>5
    <2> HIDE DEF list, old
    <2>9. PICK B : h \in Seq(B)
      BY DEF Listed
    <2>10. /\ DOMAIN g = DOMAIN h
           /\ \A b \in DOMAIN h : g[b] = IF b = own THEN [h[own] EXCEPT ![Conditions] = list] ELSE h[b]
      BY <2>9
    <2>11. g \in Seq(B \cup {[h[own] EXCEPT ![Conditions] = list]})
      BY <2>4, <2>9
    <2>12. Listed(g)
      BY <2>11 DEF Listed
    <2> HIDE DEF g
    <2>13. Refers(g, v)
      BY <2>4, <2>10 DEF Refers
    <2>14. g[own][Conditions] = list
      BY <2>4, <2>10
    <2>15. ConditionsOf(Value(g, v)) = list
      BY <2>3, <2>4, <2>14, ConditionsSaid
    <2>16. set.heap = g /\ set.var = v
      BY <2>6
    <2>17. new = list
      BY <2>15, <2>16
    <2> HIDE DEF set, new
    <2>18. \A b \in DOMAIN h : b \in DOMAIN g /\ (b # own => g[b] = h[b])
      BY <2>10
    <2>19. /\ Listed(set.heap)
           /\ \A b \in DOMAIN h : b \in DOMAIN set.heap /\ (b # own => set.heap[b] = h[b])
           /\ Variable(set.var) /\ set.var.hash = v.hash /\ Refers(set.heap, set.var)
      BY <2>12, <2>13, <2>16, <2>18
    <2> QED
      BY <2>8, <2>17, <2>19 DEF set, new, old
  <1>2. CASE ReadyIn(old) = {}
    <2> DEFINE c == [condition EXCEPT !.at = now]
               list == Append(old, c)
               block == Put(<<>>, Conditions, list)
               g == Append(h, block)
               w == [v EXCEPT !.slots = Put(v.slots, Conditions, Len(h) + 1)]
    <2>1. set = [heap |-> g, var |-> w]
      BY <1>2 DEF SetCondition
    <2>2. c \in Condition /\ c.type = "Ready" /\ c.ready = ready /\ c.gen = gen /\ c.at = now
      BY DEF Condition
    <2> HIDE DEF c
    <2>3. /\ ConditionList(list) /\ Says(list, ready, gen) /\ Others(list) = Others(old)
          /\ ~Says(old, ready, gen)
          /\ Dated(old, list, now)
      <3> HIDE DEF old
      <3>1. ConditionList(old)
        BY DEF old
      <3> QED
        BY <1>2, <2>2, <3>1, Appended DEF Dated
    <2> HIDE DEF list, old
    <2>4. DOMAIN block = {Conditions} /\ block[Conditions] = list
      BY DEF Put
    <2> HIDE DEF block
    <2>5. /\ Listed(g) /\ Keeps(g, h) /\ Len(h) \in Nat /\ DOMAIN h = 1 .. Len(h)
          /\ DOMAIN g = 1 .. Len(h) + 1 /\ g[Len(h) + 1] = block
      BY NewBlock
    <2> HIDE DEF g
    <2> DEFINE slots == Put(v.slots, Conditions, Len(h) + 1)
    <2>6. /\ DOMAIN slots = DOMAIN v.slots \cup {Conditions}
          /\ slots[Conditions] = Len(h) + 1
          /\ \A s \in DOMAIN v.slots \ {Conditions} : slots[s] = v.slots[s]
      BY DEF Put
    <2> HIDE DEF slots
    <2>7. w.slots = slots /\ w.hash = v.hash /\ Variable(w)
      <3>1. w = [v EXCEPT !.slots = slots]
        BY DEF slots
      <3>2. \A s \in DOMAIN slots : Slot(s)
        BY <2>6 DEF Variable, Slot
      <3> HIDE DEF w
      <3> QED
        BY <3>1, <3>2 DEF Variable
    <2> HIDE DEF w
    <2>8. Refers(g, w)
      <3> SUFFICES ASSUME NEW s \in DOMAIN w.slots
                   PROVE  w.slots[s] \in DOMAIN g /\ s \in DOMAIN g[w.slots[s]]
        BY DEF Refers
      <3>1. CASE s = Conditions
        BY <2>4, <2>5, <2>6, <2>7, <3>1
      <3>2. CASE s # Conditions
        <4>1. s \in DOMAIN v.slots /\ w.slots[s] = v.slots[s]
          BY <2>6, <2>7, <3>2
        <4>2. v.slots[s] \in DOMAIN h /\ s \in DOMAIN h[v.slots[s]]
          BY <4>1 DEF Refers
        <4> QED
          BY <2>5, <4>1, <4>2 DEF Keeps
      <3> QED
        BY <3>1, <3>2
    <2>9. ConditionsOf(Value(g, w)) = list
      <3>1. Conditions \in DOMAIN w.slots /\ w.slots[Conditions] = Len(h) + 1
        BY <2>6, <2>7
      <3> QED
        BY <2>4, <2>5, <3>1, ConditionsSaid
    <2>10. set.heap = g /\ set.var = w
      BY <2>1
    <2>11. new = list
      BY <2>9, <2>10
    <2> HIDE DEF set, new
    <2>12. \A b \in DOMAIN h : b \in DOMAIN g /\ (b # own => g[b] = h[b])
      BY <2>5 DEF Keeps
    <2>13. /\ Listed(set.heap)
           /\ \A b \in DOMAIN h : b \in DOMAIN set.heap /\ (b # own => set.heap[b] = h[b])
           /\ Variable(set.var) /\ set.var.hash = v.hash /\ Refers(set.heap, set.var)
      BY <2>5, <2>7, <2>8, <2>10, <2>12
    <2> QED
      BY <2>3, <2>11, <2>13 DEF set, new, old
  <1> QED
    BY <1>1, <1>2

-----------------------------------------------------------------------------
(* The steps.                                                              *)

LEMMA SaysMeans == \A cs : SaysVerdict(cs) <=> Says(cs, verdict.ready, verdict.gen)
  BY DEF SaysVerdict, Says

\* An object with other conditions.
LEMMA OtherConditions ==
    ASSUME NEW o, Object(o), NEW cs, ConditionList(cs)
    PROVE  LET p == [o EXCEPT !.content = Put(@, Conditions, cs)]
           IN Object(p) /\ ConditionsOf(p) = cs /\ p.hash = o.hash /\ p.gen = o.gen
  <1> DEFINE content == Put(o.content, Conditions, cs)
             p == [o EXCEPT !.content = content]
  <1>1. /\ DOMAIN content = DOMAIN o.content \cup {Conditions} /\ content[Conditions] = cs
        /\ \A s \in DOMAIN content : Slot(s)
    BY DEF Put, Object, Slot
  <1> HIDE DEF content
  <1>2. p = [gen |-> o.gen, hash |-> o.hash, content |-> content]
    BY DEF Object
  <1>3. p.content = content /\ p.gen = o.gen /\ p.hash = o.hash
    BY <1>2
  <1>4. ConditionsOf(p) = cs
    BY <1>1, <1>3 DEF ConditionsOf
  <1>5. p \in [gen : 1 .. MaxGen, hash : Hash \cup {None}, content : {p.content}]
    BY <1>2, <1>3 DEF Object
  <1> HIDE DEF p
  <1>6. Object(p)
    BY <1>1, <1>3, <1>4, <1>5 DEF Object
  <1> QED
    BY <1>3, <1>4, <1>6 DEF p, content

\* An object with another hash, and one with another generation.
LEMMA OtherFields ==
    ASSUME NEW o, Object(o), NEW hash \in Hash \cup {None}, NEW gen \in 1 .. MaxGen
    PROVE  /\ Object([o EXCEPT !.hash = hash])
           /\ ConditionsOf([o EXCEPT !.hash = hash]) = ConditionsOf(o)
           /\ [o EXCEPT !.hash = hash].hash = hash
           /\ [o EXCEPT !.hash = hash].content = o.content
           /\ Object([o EXCEPT !.gen = gen])
  BY DEF Object, ConditionsOf

\* A patch leaves an object with the conditions wanted, or its own if they
\* did not change in the copy.
LEMMA MergedIs ==
    ASSUME NEW o, Object(o), NEW from, NEW to, to.hash \in Hash \cup {None}, ConditionList(ConditionsOf(to))
    PROVE  LET p == Merged(o, from, to)
           IN /\ Object(p)
              /\ p.hash = IF from.hash = to.hash THEN o.hash ELSE to.hash
              /\ ConditionsOf(p) = IF ConditionsOf(from) = ConditionsOf(to)
                                   THEN ConditionsOf(o) ELSE ConditionsOf(to)
              /\ from.hash = to.hash /\ ConditionsOf(from) = ConditionsOf(to) => p = o
  <1> DEFINE hashed == IF from.hash = to.hash THEN o ELSE [o EXCEPT !.hash = to.hash]
  <1>1. /\ Object(hashed) /\ ConditionsOf(hashed) = ConditionsOf(o)
        /\ hashed.hash = IF from.hash = to.hash THEN o.hash ELSE to.hash
        /\ from.hash = to.hash => hashed = o
    <2>1. CASE from.hash = to.hash
      BY <2>1
    <2>2. CASE from.hash # to.hash
      <3>1. hashed = [o EXCEPT !.hash = to.hash]
        BY <2>2
      <3>2. \E gen \in 1 .. MaxGen : TRUE
        BY BoundsAssumption
      <3> QED
        BY <2>2, <3>1, <3>2, OtherFields
    <2> QED
      BY <2>1, <2>2
  <1>2. Merged(o, from, to) = IF ConditionsOf(from) = ConditionsOf(to) THEN hashed
                              ELSE [hashed EXCEPT !.content = Put(@, Conditions, ConditionsOf(to))]
    BY DEF Merged
  <1> HIDE DEF hashed
  <1>3. CASE ConditionsOf(from) = ConditionsOf(to)
    BY <1>1, <1>2, <1>3
  <1>4. CASE ConditionsOf(from) # ConditionsOf(to)
    <2>1. Merged(o, from, to) = [hashed EXCEPT !.content = Put(@, Conditions, ConditionsOf(to))]
      BY <1>2, <1>4
    <2> DEFINE p == [hashed EXCEPT !.content = Put(@, Conditions, ConditionsOf(to))]
    <2>2. Object(p) /\ ConditionsOf(p) = ConditionsOf(to) /\ p.hash = hashed.hash
      BY <1>1, OtherConditions
    <2> HIDE DEF p
    <2>3. Merged(o, from, to) = p
      BY <2>1 DEF p
    <2> QED
      BY <1>1, <1>4, <2>2, <2>3
  <1> QED
    BY <1>3, <1>4

\* The empty list is a list.
LEMMA NoConditions == ConditionList(<<>>)
  BY DEF ConditionList

\* What is written to the server is served and watched.
LEMMA WriteServes ==
    ASSUME Served, NEW obj, Object(obj), Write(obj)
    PROVE  Served'
  <1>1. CASE obj = server
    BY <1>1 DEF Write, Served
  <1>2. CASE obj # server
    <2>1. server' = obj /\ watch' = Append(watch, obj) /\ Len(watch) < MaxLag
      BY <1>2 DEF Write
    <2>2. /\ Listed(Append(watch, obj)) /\ Keeps(Append(watch, obj), watch) /\ Len(watch) \in Nat
          /\ DOMAIN watch = 1 .. Len(watch) /\ DOMAIN Append(watch, obj) = 1 .. Len(watch) + 1
          /\ Len(Append(watch, obj)) = Len(watch) + 1 /\ Append(watch, obj)[Len(watch) + 1] = obj
      BY NewBlock DEF Served
    <2> DEFINE events == Append(watch, obj)
    <2> HIDE DEF events
    <2>3. /\ Listed(events) /\ Keeps(events, watch) /\ Len(watch) \in Nat
          /\ DOMAIN watch = 1 .. Len(watch) /\ DOMAIN events = 1 .. Len(watch) + 1
          /\ Len(events) = Len(watch) + 1 /\ events[Len(watch) + 1] = obj
      BY <2>2 DEF events
    <2>4. \A i \in DOMAIN events : Object(events[i])
      BY <2>3 DEF Keeps, Served
    <2>5. Len(events) <= MaxLag
      BY <2>1, <2>3, BoundsAssumption
    <2>6. watch' = events /\ server' = obj
      BY <2>1 DEF events
    <2> QED
      BY <2>3, <2>4, <2>5, <2>6 DEF Served
  <1> QED
    BY <1>1, <1>2

\* The cache's variable, decoded from an object or from what it said before.
LEMMA DecodedRemembers ==
    ASSUME NEW h, Listed(h), NEW val, val.gen \in Nat, val.hash \in Hash \cup {None},
           \A s \in DOMAIN val.content : Slot(s), ConditionList(ConditionsOf(val))
    PROVE  LET d == Decoded(h, val)
           IN /\ Listed(d.heap) /\ Keeps(d.heap, h)
              /\ Variable(d.var) /\ Refers(d.heap, d.var)
              /\ ConditionList(ConditionsOf(Value(d.heap, d.var)))
  <1> DEFINE d == Decoded(h, val)
  <1>1. /\ Listed(d.heap) /\ Keeps(d.heap, h) /\ Refers(d.heap, d.var)
        /\ d.var = [gen |-> val.gen, hash |-> val.hash, slots |-> [s \in DOMAIN val.content |-> Len(h) + 1]]
        /\ Value(d.heap, d.var) = [gen |-> val.gen, hash |-> val.hash,
                                   content |-> [s \in DOMAIN val.content |-> val.content[s]]]
    BY DecodedSays
  <1> HIDE DEF d
  <1>2. ConditionsOf(Value(d.heap, d.var)) = ConditionsOf(val)
    BY <1>1, SameConditions
  <1>3. Variable(d.var)
    BY <1>1 DEF Variable
  <1> QED
    BY <1>1, <1>2, <1>3 DEF d

LEMMA NothingListed == Listed(<<>>)
  <1>1. <<>> \in Seq({})
    OBVIOUS
  <1> QED
    BY <1>1 DEF Listed

\* patchStatus prepares its patch.
LEMMA PrepareStep ==
    ASSUME CopyInv, Prepare
    PROVE  /\ CopyInv' /\ Value(heap, cached)' = Value(heap, cached)
           /\ Dated(ConditionsOf(Value(heap, cached)), ConditionsOf(Value(heap, module)'), now)
  <1> DEFINE n == Len(heap)
             copy == DeepCopy(heap, cached)
             original == DeepCopy(copy.heap, copy.var)
             hashed == [copy.var EXCEPT !.hash = verdict.hash]
             condition == [type |-> "Ready", ready |-> verdict.ready, gen |-> verdict.gen, at |-> 0]
             set == SetCondition(original.heap, hashed, condition)
             old == ConditionsOf(Value(heap, cached))
             new == ConditionsOf(Value(set.heap, set.var))
  <1>1. /\ pc = "get" /\ pc' = "patch" /\ base' = original.var /\ module' = set.var
        /\ heap' = set.heap /\ read' = Value(heap, cached)
        /\ UNCHANGED <<server, watch, cached, verdict, now, ops>>
    BY DEF Prepare, Original
  <1>2. /\ Listed(heap) /\ Variable(cached) /\ Refers(heap, cached) /\ ConditionList(old)
        /\ verdict.ready \in BOOLEAN /\ verdict.gen \in Nat /\ verdict.hash \in Hash \cup {None}
        /\ now \in Nat
    BY BoundsAssumption DEF CopyInv, Remembered, Localized
  <1>3. /\ Listed(copy.heap) /\ Keeps(copy.heap, heap) /\ n \in Nat
        /\ DOMAIN heap = 1 .. n /\ DOMAIN copy.heap = 1 .. n + 1 /\ Len(copy.heap) = n + 1
        /\ Variable(copy.var) /\ Refers(copy.heap, copy.var)
        /\ Value(copy.heap, copy.var) = Value(heap, cached)
        /\ copy.var.slots = [s \in DOMAIN cached.slots |-> n + 1]
    BY <1>2, CopySays
  <1> HIDE DEF copy
  <1>4. /\ Listed(original.heap) /\ Keeps(original.heap, copy.heap)
        /\ Variable(original.var) /\ Refers(original.heap, original.var)
        /\ Value(original.heap, original.var) = Value(heap, cached)
        /\ original.var.slots = [s \in DOMAIN copy.var.slots |-> (n + 1) + 1]
    <2>1. /\ Listed(original.heap) /\ Keeps(original.heap, copy.heap)
          /\ Variable(original.var) /\ Refers(original.heap, original.var)
          /\ Value(original.heap, original.var) = Value(copy.heap, copy.var)
          /\ original.var.slots = [s \in DOMAIN copy.var.slots |-> Len(copy.heap) + 1]
      BY <1>3, CopySays
    <2> HIDE DEF original
    <2> QED
      BY <1>3, <2>1
  <1> HIDE DEF original
  <1>5. Refers(original.heap, copy.var) /\ Value(original.heap, copy.var) = Value(heap, cached)
    BY <1>3, <1>4, SaysTheSame
  <1>6. hashed.slots = copy.var.slots /\ hashed.hash = verdict.hash /\ Variable(hashed)
    BY <1>2, <1>3 DEF Variable
  <1> HIDE DEF hashed
  <1>7. Refers(original.heap, hashed) /\ ConditionsOf(Value(original.heap, hashed)) = old
    <2>1. Refers(original.heap, hashed)
      BY <1>5, <1>6 DEF Refers
    <2>2. ConditionsOf(Value(original.heap, hashed)) = ConditionsOf(Value(original.heap, copy.var))
      BY <1>6, ConditionsSaid
    <2> QED
      BY <1>5, <2>1, <2>2
  <1>8. \A s \in DOMAIN hashed.slots : hashed.slots[s] = n + 1
    BY <1>3, <1>6
  <1>9. /\ Listed(set.heap)
        /\ \A b \in DOMAIN original.heap :
              b \in DOMAIN set.heap /\ (b # n + 1 => set.heap[b] = original.heap[b])
        /\ Variable(set.var) /\ set.var.hash = hashed.hash /\ Refers(set.heap, set.var)
        /\ ConditionList(new) /\ Says(new, verdict.ready, verdict.gen) /\ Others(new) = Others(old)
        /\ Says(old, verdict.ready, verdict.gen) => new = old
        /\ Dated(old, new, now)
    <2> DEFINE own == n + 1
    <2>1. \A s \in DOMAIN hashed.slots : hashed.slots[s] = own
      BY <1>8
    <2> HIDE DEF own, n, old
    <2>2. ConditionList(ConditionsOf(Value(original.heap, hashed)))
      BY <1>2, <1>7
    <2>3. /\ Listed(set.heap)
          /\ \A b \in DOMAIN original.heap :
                b \in DOMAIN set.heap /\ (b # own => set.heap[b] = original.heap[b])
          /\ Variable(set.var) /\ set.var.hash = hashed.hash /\ Refers(set.heap, set.var)
          /\ ConditionList(new) /\ Says(new, verdict.ready, verdict.gen)
          /\ Others(new) = Others(ConditionsOf(Value(original.heap, hashed)))
          /\ Says(ConditionsOf(Value(original.heap, hashed)), verdict.ready, verdict.gen)
             => new = ConditionsOf(Value(original.heap, hashed))
          /\ Dated(ConditionsOf(Value(original.heap, hashed)), new, now)
      BY <1>2, <1>4, <1>6, <1>7, <2>1, <2>2, SetSays
    <2> HIDE DEF set, new
    <2> QED
      BY <1>7, <2>3 DEF own
  <1> HIDE DEF set, new
  <1>10. Refers(set.heap, original.var) /\ Value(set.heap, original.var) = Value(heap, cached)
    <2>1. \A s \in DOMAIN original.var.slots :
            /\ original.var.slots[s] \in DOMAIN set.heap
            /\ set.heap[original.var.slots[s]] = original.heap[original.var.slots[s]]
      BY <1>3, <1>4, <1>9 DEF Refers
    <2> QED
      BY <1>4, <2>1, SaysTheSameIn
  <1>11. Refers(set.heap, cached) /\ Value(set.heap, cached) = Value(heap, cached)
    <2>1. \A s \in DOMAIN cached.slots :
            /\ cached.slots[s] \in DOMAIN set.heap
            /\ set.heap[cached.slots[s]] = heap[cached.slots[s]]
      <3>1. \A b \in DOMAIN heap : b \in DOMAIN original.heap /\ original.heap[b] = heap[b]
        BY <1>3, <1>4 DEF Keeps
      <3>2. \A b \in DOMAIN heap : b # n + 1
        BY <1>3
      <3>3. \A b \in DOMAIN heap : b \in DOMAIN set.heap /\ set.heap[b] = heap[b]
        BY <1>9, <3>1, <3>2
      <3> QED
        BY <1>2, <3>3 DEF Refers
    <2> QED
      BY <1>2, <2>1, SaysTheSameIn
  <1>12. Value(heap, cached)' = Value(set.heap, cached)
    BY <1>1
  <1>13. Served'
    BY <1>1 DEF CopyInv, Served
  <1>14. Remembered'
    BY <1>1, <1>2, <1>9, <1>11 DEF Remembered
  <1>15. Localized'
    BY <1>1 DEF CopyInv, Localized
  <1>16. Prepared'
    <2>1. Variable(module)' /\ Refers(heap, module)' /\ Refers(heap, base)'
      BY <1>1, <1>9, <1>10
    <2>2. module.hash' = verdict.hash'
      BY <1>1, <1>6, <1>9
    <2>3. Value(heap, base)' = read'
      BY <1>1, <1>10
    <2>4. ConditionsOf(Value(heap, module))' = new /\ ConditionsOf(read)' = old
      BY <1>1 DEF new
    <2>5. ConditionList(new)
      BY <1>9
    <2> QED
      BY <1>1, <1>9, <2>1, <2>2, <2>3, <2>4, <2>5 DEF Prepared, Told, SaysVerdict, Says
  <1>17. Dated(old, ConditionsOf(Value(heap, module)'), now)
    <2>1. ConditionsOf(Value(heap, module)') = new
      BY <1>1 DEF new
    <2> QED
      BY <1>9, <2>1
  <1> QED
    BY <1>11, <1>12, <1>13, <1>14, <1>15, <1>16, <1>17 DEF CopyInv

\* A verdict on the modules of the cache.
LEMMA JudgeStep ==
    ASSUME CopyInv, Judge
    PROVE  CopyInv' /\ Value(heap, cached)' = Value(heap, cached)
  <1>1. PICK hash \in Hash \cup {None} :
          verdict' = [type |-> "Ready", ready |-> hash # None, gen |-> cached.gen, at |-> 0, hash |-> hash]
    BY DEF Judge
  <1>2. cached.gen \in Nat
    BY DEF CopyInv, Remembered, Variable
  <1>3. /\ pc = "idle" /\ pc' = "get"
        /\ UNCHANGED <<server, watch, heap, cached, module, base, read, now, ops>>
    BY DEF Judge, memory
  <1>4. Served'
    BY <1>3 DEF CopyInv, Served
  <1>5. Remembered' /\ Value(heap, cached)' = Value(heap, cached)
    BY <1>3 DEF CopyInv, Remembered
  <1>6. Localized'
    BY <1>1, <1>2, <1>3 DEF CopyInv, Localized
  <1>7. Prepared'
    BY <1>3 DEF Prepared
  <1> QED
    BY <1>4, <1>5, <1>6, <1>7 DEF CopyInv

\* The patch, and the cache's variable moved to the front of the heap.
LEMMA PatchStep ==
    ASSUME CopyInv, Patch
    PROVE  CopyInv' /\ Value(heap, cached)' = Value(heap, cached)
  <1> DEFINE from == Value(heap, base)
             to == Value(heap, module)
             val == Value(heap, cached)
             kept == Decoded(<<>>, val)
  <1>1. /\ pc = "patch" /\ pc' = "idle" /\ Write(Merged(server, from, to))
        /\ verdict' = NoVerdict /\ module' = NoVariable /\ base' = NoVariable
        /\ heap' = kept.heap /\ cached' = kept.var /\ now' = now /\ ops' = ops
    BY DEF Patch
  <1>2. Served /\ Object(server) /\ ConditionList(ConditionsOf(to)) /\ to.hash = verdict.hash
        /\ verdict.hash \in Hash \cup {None}
    BY <1>1 DEF CopyInv, Served, Prepared, Localized, Value
  <1>3. Object(Merged(server, from, to))
    <2> HIDE DEF from, to
    <2> QED
      BY <1>2, MergedIs
  <1>4. Served'
    <2> HIDE DEF from, to
    <2> QED
      BY <1>1, <1>2, <1>3, WriteServes
  <1>5. /\ val.gen \in Nat /\ val.hash \in Hash \cup {None}
        /\ \A s \in DOMAIN val.content : Slot(s)
        /\ ConditionList(ConditionsOf(val))
        /\ val = [gen |-> val.gen, hash |-> val.hash, content |-> [s \in DOMAIN val.content |-> val.content[s]]]
    <2>1. /\ val.gen = cached.gen /\ val.hash = cached.hash /\ DOMAIN val.content = DOMAIN cached.slots
          /\ val = [gen |-> val.gen, hash |-> val.hash, content |-> [s \in DOMAIN val.content |-> val.content[s]]]
      BY DEF Value
    <2> HIDE DEF val
    <2>2. Variable(cached)
      BY DEF CopyInv, Remembered
    <2>3. ConditionList(ConditionsOf(val))
      BY DEF CopyInv, Remembered, val
    <2> QED
      BY <2>1, <2>2, <2>3 DEF Variable
  <1>6. Value(kept.heap, kept.var) = val
    <2>1. Value(kept.heap, kept.var)
          = [gen |-> val.gen, hash |-> val.hash, content |-> [s \in DOMAIN val.content |-> val.content[s]]]
      BY NothingListed, DecodedSays
    <2> HIDE DEF val, kept
    <2> QED
      BY <1>5, <2>1
  <1>7. /\ Listed(kept.heap) /\ Variable(kept.var) /\ Refers(kept.heap, kept.var)
        /\ ConditionList(ConditionsOf(Value(kept.heap, kept.var)))
    <2> HIDE DEF val
    <2> QED
      BY <1>5, NothingListed, DecodedRemembers
  <1>8. Value(heap, cached)' = val
    <2>1. Value(heap, cached)' = Value(kept.heap, kept.var)
      BY <1>1
    <2> QED
      BY <1>6, <2>1
  <1>9. Remembered'
    <2> HIDE DEF kept
    <2> QED
      BY <1>1, <1>7 DEF Remembered
  <1>10. Localized'
    BY <1>1 DEF CopyInv, Localized, NoVerdict
  <1>11. Prepared'
    BY <1>1 DEF Prepared
  <1> QED
    BY <1>4, <1>8, <1>9, <1>10, <1>11 DEF CopyInv

\* A new object in the cache.
LEMMA DeliverStep ==
    ASSUME CopyInv, Deliver
    PROVE  CopyInv'
  <1> DEFINE old == IF pc = "patch" THEN heap ELSE <<>>
             val == Head(watch)
             fresh == Decoded(old, val)
  <1>1. /\ watch # <<>> /\ watch' = Tail(watch) /\ heap' = fresh.heap /\ cached' = fresh.var
        /\ UNCHANGED <<server, pc, verdict, module, base, read, now, ops>>
    BY DEF Deliver, locals
  <1>2. PICK B : watch \in Seq(B)
    BY DEF CopyInv, Served, Listed
  <1>3. /\ Tail(watch) \in Seq(B) /\ Len(Tail(watch)) = Len(watch) - 1 /\ Len(watch) \in Nat
        /\ \A i \in DOMAIN Tail(watch) : i + 1 \in DOMAIN watch /\ Tail(watch)[i] = watch[i + 1]
        /\ 1 \in DOMAIN watch /\ val = watch[1]
    BY <1>1, <1>2
  <1>4. Served'
    <2> DEFINE rest == Tail(watch)
    <2> HIDE DEF rest
    <2>1. /\ rest \in Seq(B) /\ Len(rest) <= Len(watch) /\ Len(rest) \in Nat /\ Len(watch) \in Nat
          /\ \A i \in DOMAIN rest : i + 1 \in DOMAIN watch /\ rest[i] = watch[i + 1]
      BY <1>3 DEF rest
    <2>2. Listed(rest)
      BY <2>1 DEF Listed
    <2>3. \A i \in DOMAIN rest : Object(rest[i])
      BY <2>1 DEF CopyInv, Served
    <2>4. Len(rest) <= MaxLag
      BY <2>1, BoundsAssumption DEF CopyInv, Served
    <2>5. watch' = rest /\ server' = server
      BY <1>1 DEF rest
    <2> QED
      BY <2>2, <2>3, <2>4, <2>5 DEF CopyInv, Served
  <1>5. Object(val) /\ Listed(old)
    BY <1>3, NothingListed DEF CopyInv, Served, Remembered
  <1> HIDE DEF val, old
  <1>6. val.gen \in Nat /\ val.hash \in Hash \cup {None}
        /\ (\A s \in DOMAIN val.content : Slot(s)) /\ ConditionList(ConditionsOf(val))
    BY <1>5, BoundsAssumption DEF Object
  <1>7. /\ Listed(fresh.heap) /\ Keeps(fresh.heap, old) /\ Variable(fresh.var)
        /\ Refers(fresh.heap, fresh.var) /\ ConditionList(ConditionsOf(Value(fresh.heap, fresh.var)))
    BY <1>5, <1>6, DecodedRemembers
  <1> HIDE DEF fresh
  <1>8. Remembered'
    BY <1>1, <1>7 DEF Remembered
  <1>9. Localized'
    BY <1>1 DEF CopyInv, Localized
  <1>10. Prepared'
    <2> SUFFICES ASSUME pc = "patch" PROVE Prepared'
      BY <1>1 DEF Prepared
    <2>1. Keeps(heap', heap)
      BY <1>1, <1>7 DEF old
    <2>2. Refers(heap, module) /\ Refers(heap, base)
      BY DEF CopyInv, Prepared
    <2>3. Refers(heap', module) /\ Value(heap', module) = Value(heap, module)
      BY <2>1, <2>2, SaysTheSame
    <2>4. Refers(heap', base) /\ Value(heap', base) = Value(heap, base)
      BY <2>1, <2>2, SaysTheSame
    <2>5. /\ Variable(module) /\ module.hash = verdict.hash /\ Value(heap, base) = read
          /\ ConditionList(ConditionsOf(Value(heap, module)))
          /\ Told(ConditionsOf(read), ConditionsOf(Value(heap, module)))
      BY DEF CopyInv, Prepared
    <2>6. /\ Variable(module)' /\ Refers(heap, module)' /\ Refers(heap, base)'
          /\ module.hash' = verdict.hash' /\ Value(heap, base)' = read'
          /\ ConditionsOf(Value(heap, module))' = ConditionsOf(Value(heap, module))
          /\ ConditionsOf(read)' = ConditionsOf(read)
      BY <1>1, <2>3, <2>4, <2>5
    <2> QED
      BY <1>1, <2>5, <2>6 DEF Prepared, Told, SaysVerdict
  <1> QED
    BY <1>4, <1>8, <1>9, <1>10 DEF CopyInv

\* Writes of others change the server alone.
LEMMA OthersStep ==
    ASSUME CopyInv, NEW obj, Object(obj), Write(obj), ops' \in 0 .. MaxOps,
           UNCHANGED <<memory, pc, locals, now>>
    PROVE  CopyInv'
  <1>1. Served'
    BY WriteServes DEF CopyInv
  <1>2. Remembered' /\ Localized'
    BY DEF CopyInv, Remembered, Localized, memory, locals
  <1>3. Prepared'
    BY DEF CopyInv, Prepared, Told, SaysVerdict, memory, locals
  <1> QED
    BY <1>1, <1>2, <1>3 DEF CopyInv

LEMMA UpdateStep ==
    ASSUME CopyInv, Update
    PROVE  CopyInv'
  <1>1. Object(server) /\ server.gen < MaxGen /\ server.gen \in 1 .. MaxGen /\ ops \in 0 .. MaxOps
    BY DEF Update, CopyInv, Served, Object, Localized
  <1> DEFINE gen == server.gen + 1
  <1>2. gen \in 1 .. MaxGen
    BY <1>1, BoundsAssumption
  <1>3. Write([server EXCEPT !.gen = gen]) /\ UNCHANGED <<memory, pc, locals, now, ops>>
    BY DEF Update
  <1> HIDE DEF gen
  <1>4. Object([server EXCEPT !.gen = gen])
    BY <1>1, <1>2, OtherFields
  <1> QED
    BY <1>1, <1>3, <1>4, OthersStep

\* A condition of another type in front of ours.
LEMMA ReportStep ==
    ASSUME CopyInv, OthersReport
    PROVE  CopyInv'
  <1> DEFINE cs == ConditionsOf(server)
             i == CHOOSE i \in ReadyIn(cs) : TRUE
             mine == IF ReadyIn(cs) = {} THEN <<>> ELSE <<cs[i]>>
             Other(ready) == [type |-> "Other", ready |-> ready, gen |-> server.gen, at |-> now]
             list(ready) == <<Other(ready)>> \o mine
  <1>1. PICK ready \in BOOLEAN : Write([server EXCEPT !.content = Put(@, Conditions, list(ready))])
    BY DEF OthersReport
  <1>2. ops < MaxOps /\ ops' = ops + 1 /\ UNCHANGED <<memory, pc, locals, now>>
    BY DEF OthersReport
  <1>3. ops' \in 0 .. MaxOps
    BY <1>2, BoundsAssumption DEF CopyInv, Localized
  <1>4. Object(server) /\ ConditionList(cs) /\ Other(ready) \in Condition
    BY BoundsAssumption DEF CopyInv, Served, Object, Localized, Condition
  <1> DEFINE other == Other(ready)
             whole == list(ready)
  <1>5. ConditionList(whole)
    <2>1. other \in Condition /\ other.type = "Other"
      BY <1>4
    <2> HIDE DEF other
    <2>2. CASE ReadyIn(cs) = {}
      <3>1. whole = <<other>>
        BY <2>2 DEF other
      <3> HIDE DEF whole
      <3> QED
        BY <2>1, <3>1 DEF ConditionList
    <2>3. CASE ReadyIn(cs) # {}
      <3>1. i \in ReadyIn(cs)
        BY <2>3
      <3> DEFINE c == cs[i]
      <3>2. c \in Condition /\ c.type = "Ready"
        <4> HIDE DEF i, cs
        <4> QED
          BY <1>4, <3>1 DEF ConditionList, ReadyIn
      <3>3. whole = <<other>> \o <<c>>
        BY <2>3 DEF other
      <3> HIDE DEF whole, c
      <3>4. \A x, y \in Condition : <<x>> \o <<y>> = <<x, y>>
        <4> HIDE DEF cs
        <4> TAKE x, y \in Condition
        <4> DEFINE xy == <<x>> \o <<y>>
        <4>1. <<x>> \in Seq(Condition) /\ <<y>> \in Seq(Condition) /\ Len(<<x>>) = 1 /\ Len(<<y>>) = 1
          OBVIOUS
        <4>2. xy \in Seq(Condition) /\ Len(xy) = 2 /\ xy[1] = x /\ xy[2] = y
          BY <4>1, ConcatProperties
        <4> HIDE DEF xy
        <4>3. xy = <<x, y>>
          BY <4>2
        <4> QED
          BY <4>3 DEF xy
      <3> QED
        BY <2>1, <3>2, <3>3, <3>4 DEF ConditionList
    <2> QED
      BY <2>2, <2>3
  <1> HIDE DEF list, Other
  <1>6. Object([server EXCEPT !.content = Put(@, Conditions, whole)])
    <2> HIDE DEF whole
    <2> QED
      BY <1>4, <1>5, OtherConditions
  <1>7. Write([server EXCEPT !.content = Put(@, Conditions, whole)])
    BY <1>1
  <1> HIDE DEF whole
  <1> QED
    BY <1>2, <1>3, <1>6, <1>7, OthersStep

LEMMA TickStep ==
    ASSUME CopyInv, Tick
    PROVE  CopyInv'
  <1>1. now' \in 1 .. MaxTime /\ UNCHANGED <<server, watch, heap, cached, pc, verdict, module, base, read, ops>>
    BY BoundsAssumption DEF Tick, CopyInv, Localized, memory, locals
  <1>2. Served' /\ Remembered' /\ Localized'
    BY <1>1 DEF CopyInv, Served, Remembered, Localized
  <1>3. Prepared'
    BY <1>1 DEF CopyInv, Prepared, Told, SaysVerdict
  <1> QED
    BY <1>2, <1>3 DEF CopyInv

LEMMA CopyInit == Init => CopyInv
  <1> SUFFICES ASSUME Init PROVE CopyInv
    OBVIOUS
  <1>1. PICK shape \in Shape : server = [gen |-> 1, hash |-> None, content |-> shape]
    BY DEF Init
  <1>2. ConditionsOf(server) = <<>> /\ \A s \in DOMAIN server.content : Slot(s)
    <2>1. ~SpecSlot(Conditions)
      BY DEF SpecSlot, Conditions
    <2> QED
      BY <1>1, <2>1, ShapeAssumption DEF ConditionsOf, Slot
  <1>3. Object(server)
    BY <1>1, <1>2, NoConditions, BoundsAssumption DEF Object
  <1>4. Served
    BY <1>3, NothingListed, BoundsAssumption DEF Init, Served
  <1>5. Remembered
    <2> DEFINE d == Decoded(<<>>, server)
    <2>1. /\ Listed(d.heap) /\ Variable(d.var) /\ Refers(d.heap, d.var)
          /\ ConditionList(ConditionsOf(Value(d.heap, d.var)))
      BY <1>1, <1>2, <1>3, NothingListed, DecodedRemembers DEF Object
    <2>2. heap = d.heap /\ cached = d.var
      BY DEF Init
    <2> HIDE DEF d
    <2> QED
      BY <2>1, <2>2 DEF Remembered
  <1>6. Localized
    BY BoundsAssumption DEF Init, Localized, NoVerdict
  <1>7. Prepared
    BY DEF Init, Prepared
  <1> QED
    BY <1>4, <1>5, <1>6, <1>7 DEF CopyInv

\* Every step keeps the invariant.
LEMMA CopyStep == CopyInv /\ [Next]_vars => CopyInv'
  <1> SUFFICES ASSUME CopyInv, [Next]_vars PROVE CopyInv'
    OBVIOUS
  <1>1. ASSUME UNCHANGED vars PROVE CopyInv'
    BY <1>1 DEF vars, memory, locals, CopyInv, Served, Remembered, Localized, Prepared, Told, SaysVerdict
  <1> QED
    BY <1>1, JudgeStep, PrepareStep, PatchStep, DeliverStep, UpdateStep, ReportStep, TickStep DEF Next

LEMMA CopyInvariant == Statuses => []CopyInv
  BY CopyInit, CopyStep, PTL DEF Statuses

-----------------------------------------------------------------------------

\* The type invariant of StatusPatch, the uniqueness of condition types
\* included: TypeOK of the run.
THEOREM StatusTyped == Statuses => []TypeOK
  <1>1. CopyInv => TypeOK
    <2> SUFFICES ASSUME CopyInv PROVE TypeOK
      OBVIOUS
    <2>1. /\ server.gen \in 1 .. MaxGen /\ server.hash \in Hash \cup {None}
          /\ ConditionList(ConditionsOf(server)) /\ Len(watch) <= MaxLag
      BY DEF CopyInv, Served, Object
    <2>2. Refers(heap, cached) /\ Refers(heap, module) /\ Refers(heap, base)
      <3>1. pc # "patch" => Refers(heap, module) /\ Refers(heap, base)
        BY DEF CopyInv, Localized, NoVariable, Refers
      <3> QED
        BY <3>1 DEF CopyInv, Remembered, Prepared
    <2> QED
      BY <2>1, <2>2 DEF CopyInv, Localized, TypeOK, ConditionList, Refers
  <1> QED
    BY <1>1, CopyInvariant, PTL

\* The generated deep copies share no memory with what they were made from,
\* whatever maps and slices a module has: CopiesAreDeep of the run.
THEOREM CopiesShareNothing == Statuses => []CopiesAreDeep
  <1>1. CopyInv => CopiesAreDeep
    <2> SUFFICES ASSUME CopyInv PROVE CopiesAreDeep
      OBVIOUS
    <2> DEFINE n == Len(heap)
               items == <<cached, cached>>
               added == [i \in DOMAIN items |-> Contents(heap, items[i])]
               list == DeepCopyList(heap, items)
               g == heap \o added
               Blocks(v) == {v.slots[s] : s \in DOMAIN v.slots}
    <2>1. Variable(cached) /\ Refers(heap, cached) /\ Listed(heap)
      BY DEF CopyInv, Remembered
    <2>2. PICK B : heap \in Seq(B)
      BY <2>1 DEF Listed
    <2> DEFINE c == Contents(heap, cached)
    <2>3. added \in Seq(B \cup {c}) /\ Len(added) = 2 /\ added[1] = c /\ added[2] = c
      <3> HIDE DEF c
      <3>1. DOMAIN items = 1 .. 2 /\ items[1] = cached /\ items[2] = cached
        OBVIOUS
      <3> HIDE DEF items
      <3>2. added = [i \in 1 .. 2 |-> c]
        BY <3>1 DEF c
      <3> QED
        BY <3>2
    <2>4. list.heap = g /\ \A i \in 1 .. 2 : list.vars[i] = Moved(cached, n + i)
      BY DEF DeepCopyList
    <2> HIDE DEF added, c, list
    <2>5. heap \in Seq(B \cup {c}) /\ n \in Nat
      BY <2>2
    <2>6. /\ g \in Seq(B \cup {c}) /\ Len(g) = n + 2 /\ g[n + 1] = c /\ g[n + 2] = c
          /\ \A i \in 1 .. n : g[i] = heap[i]
      <3> DEFINE S == B \cup {c}
      <3>1. heap \in Seq(S) /\ added \in Seq(S) /\ Len(added) = 2
        BY <2>3, <2>5
      <3> HIDE DEF S, n
      <3>2. /\ g \in Seq(S) /\ Len(g) = Len(heap) + 2
            /\ \A i \in 1 .. Len(heap) + 2 :
                  g[i] = IF i <= Len(heap) THEN heap[i] ELSE added[i - Len(heap)]
        <4>1. /\ heap \o added \in Seq(S) /\ Len(heap \o added) = Len(heap) + Len(added)
              /\ \A i \in 1 .. Len(heap) + Len(added) :
                    (heap \o added)[i] = IF i <= Len(heap) THEN heap[i] ELSE added[i - Len(heap)]
          BY <3>1, ConcatProperties
        <4> QED
          BY <3>1, <4>1
      <3> HIDE DEF g
      <3>3. n = Len(heap) /\ (n + 1) - n = 1 /\ (n + 2) - n = 2
        BY <2>5 DEF n
      <3>4. n + 1 \in 1 .. n + 2 /\ n + 2 \in 1 .. n + 2 /\ ~(n + 1 <= n) /\ ~(n + 2 <= n)
        BY <2>5
      <3>5. g[n + 1] = added[1] /\ g[n + 2] = added[2]
        BY <3>2, <3>3, <3>4
      <3>6. \A i \in 1 .. n : g[i] = heap[i]
        BY <2>5, <3>2, <3>3
      <3> QED
        BY <2>3, <3>2, <3>3, <3>5, <3>6 DEF S
    <2>7. DOMAIN g = 1 .. n + 2 /\ DOMAIN heap = 1 .. n
      BY <2>5, <2>6
    <2> HIDE DEF g
    <2>8. SubSeq(g, 1, n) = heap
      <3>1. /\ SubSeq(g, 1, n) \in Seq(B \cup {c}) /\ Len(SubSeq(g, 1, n)) = n
            /\ \A i \in 1 .. n : SubSeq(g, 1, n)[i] = g[i]
        BY <2>5, <2>6, <2>7, SubSeqProperties
      <3> DEFINE sub == SubSeq(g, 1, n)
      <3> HIDE DEF sub
      <3>2. sub \in Seq(B \cup {c}) /\ Len(sub) = n /\ \A i \in 1 .. n : sub[i] = heap[i]
        BY <2>6, <3>1 DEF sub
      <3>3. sub = heap
        BY <2>5, <3>2
      <3> QED
        BY <3>3 DEF sub
    <2>9. ASSUME NEW i \in 1 .. 2
          PROVE  /\ Value(g, list.vars[i]) = Value(heap, cached)
                 /\ Blocks(list.vars[i]) \subseteq {n + i}
      <3> DEFINE b == n + i
      <3>1. b \in DOMAIN g /\ g[b] = c
        BY <2>5, <2>6, <2>7
      <3>2. list.vars[i] = Moved(cached, b)
        BY <2>4
      <3> HIDE DEF b
      <3>3. Value(g, Moved(cached, b)) = Value(heap, cached)
        BY <2>1, <3>1, MovedSays DEF c
      <3>4. Moved(cached, b).slots = [s \in DOMAIN cached.slots |-> b]
        BY <2>1, MovedAway
      <3>5. Blocks(Moved(cached, b)) \subseteq {b}
        BY <3>4
      <3> HIDE DEF Blocks
      <3>6. Value(g, list.vars[i]) = Value(heap, cached) /\ Blocks(list.vars[i]) \subseteq {b}
        BY <3>2, <3>3, <3>5
      <3> QED
        BY <3>6 DEF b
    <2> HIDE DEF Blocks
    <2>10. Blocks(list.vars[1]) \cap Blocks(list.vars[2]) = {}
           /\ \A i \in 1 .. 2 : Blocks(list.vars[i]) \cap DOMAIN heap = {}
      BY <2>5, <2>7, <2>9
    <2>11. \A i \in 1 .. 2 : Value(list.heap, list.vars[i]) = Value(heap, cached)
      BY <2>4, <2>9
    <2>12. SubSeq(list.heap, 1, Len(heap)) = heap
      BY <2>4, <2>8
    <2> QED
      BY <2>10, <2>11, <2>12 DEF CopiesAreDeep, list, Blocks
  <1> QED
    BY <1>1, CopyInvariant, PTL

\* The worker never writes into the informer cache, although setCondition
\* changes a slice in place: CacheUntouched of the run.
THEOREM CacheIsUntouched == Statuses => CacheUntouched
  <1>1. CopyInv /\ [Next]_vars
          => [Judge \/ Prepare \/ Patch => Value(heap, cached)' = Value(heap, cached)]_vars
    BY JudgeStep, PrepareStep, PatchStep
  <1> QED
    BY <1>1, CopyInvariant, PTL DEF Statuses, CacheUntouched

\* What the server has after a patch from an up-to-date object.
LEMMA PatchTells ==
    ASSUME CopyInv, Patch, read = server
    PROVE  /\ server'.hash = verdict.hash
           /\ Told(ConditionsOf(server), ConditionsOf(server'))
           /\ server.hash = verdict.hash /\ SaysVerdict(ConditionsOf(server)) => server' = server
  <1> DEFINE from == Value(heap, base)
             to == Value(heap, module)
  <1>1. pc = "patch" /\ server' = Merged(server, from, to)
    BY DEF Patch, Write
  <1>2. /\ Object(server) /\ ConditionList(ConditionsOf(to)) /\ to.hash = verdict.hash
        /\ verdict.hash \in Hash \cup {None}
        /\ from = server /\ Told(ConditionsOf(server), ConditionsOf(to))
    BY <1>1 DEF CopyInv, Served, Prepared, Localized, Value
  <1> HIDE DEF from, to
  <1>3. /\ server'.hash = IF from.hash = to.hash THEN server.hash ELSE to.hash
        /\ ConditionsOf(server') = IF ConditionsOf(from) = ConditionsOf(to)
                                   THEN ConditionsOf(server) ELSE ConditionsOf(to)
        /\ from.hash = to.hash /\ ConditionsOf(from) = ConditionsOf(to) => server' = server
    BY <1>1, <1>2, MergedIs
  <1>4. server'.hash = verdict.hash /\ ConditionsOf(server') = ConditionsOf(to)
    BY <1>2, <1>3
  <1>5. server.hash = verdict.hash /\ SaysVerdict(ConditionsOf(server)) => server' = server
    BY <1>2, <1>3 DEF Told
  <1> QED
    BY <1>2, <1>4, <1>5

\* The patch carries the verdict and nothing else: PatchSaysVerdict of the run.
THEOREM PatchCarriesVerdict == Statuses => PatchSaysVerdict
  <1>1. CopyInv /\ [Next]_vars
          => [Patch /\ read = server =>
                /\ server'.hash = verdict.hash
                /\ SaysVerdict(ConditionsOf(server'))
                /\ Others(ConditionsOf(server')) = Others(ConditionsOf(server))]_vars
    BY PatchTells DEF Told
  <1> QED
    BY <1>1, CopyInvariant, PTL DEF Statuses, PatchSaysVerdict

\* A status that says the verdict is not written again, whatever the time:
\* SettledStatusStays of the run.
THEOREM SettledIsLeftAlone == Statuses => SettledStatusStays
  <1>1. CopyInv /\ [Next]_vars
          => [Patch /\ read = server /\ server.hash = verdict.hash /\ SaysVerdict(ConditionsOf(server))
                => server' = server]_vars
    BY PatchTells
  <1> QED
    BY <1>1, CopyInvariant, PTL DEF Statuses, SettledStatusStays

-----------------------------------------------------------------------------
(* Times.  Inductive: no Ready condition, wherever it is on its way, has a *)
(* time that is still to come, and a prepared patch does not set back the  *)
(* time of the server's.                                                   *)

Past(cs, t) == \A i \in ReadyIn(cs) : cs[i].at \in 0 .. t

TimeInv ==
    /\ Past(ConditionsOf(server), now)
    /\ \A i \in DOMAIN watch : Past(ConditionsOf(watch[i]), now)
    /\ Past(ConditionsOf(Value(heap, cached)), now)
    /\ pc = "patch" =>
          /\ Past(ConditionsOf(Value(heap, module)), now)
          /\ NotBefore(ConditionsOf(server), ConditionsOf(read), ConditionsOf(Value(heap, module)))

\* The Ready condition of the list new is old's.
SameReady(old, new) == \A j \in ReadyIn(new) : \E i \in ReadyIn(old) : new[j] = old[i]

\* A Ready condition that stays keeps its time.
LEMMA KeptTimes ==
    ASSUME NEW old, ConditionList(old), NEW new, SameReady(old, new), NEW t
    PROVE  /\ \A seen : NotBefore(old, seen, new)
           /\ Past(old, t) => Past(new, t)
  <1>1. \A i, j \in ReadyIn(old) : i = j
    BY DEF ConditionList, ReadyIn
  <1> QED
    BY <1>1 DEF SameReady, NotBefore, Past

\* The server has what is written to it, and so have the events.
LEMMA WriteTimes ==
    ASSUME Served, NEW t, Past(ConditionsOf(server), t), \A i \in DOMAIN watch : Past(ConditionsOf(watch[i]), t),
           NEW obj, Past(ConditionsOf(obj), t), Write(obj)
    PROVE  /\ server' = obj
           /\ Past(ConditionsOf(server'), t) /\ \A i \in DOMAIN watch' : Past(ConditionsOf(watch'[i]), t)
  <1>1. server' = obj
    BY DEF Write
  <1>2. CASE obj = server
    BY <1>1, <1>2 DEF Write
  <1>3. CASE obj # server
    <2> DEFINE events == Append(watch, obj)
    <2>1. watch' = events
      BY <1>3 DEF Write
    <2>2. /\ Keeps(events, watch) /\ Len(watch) \in Nat
          /\ DOMAIN watch = 1 .. Len(watch) /\ DOMAIN events = 1 .. Len(watch) + 1
          /\ events[Len(watch) + 1] = obj
      BY NewBlock DEF Served
    <2> HIDE DEF events
    <2>3. \A i \in DOMAIN events : i \in DOMAIN watch \/ i = Len(watch) + 1
      BY <2>2
    <2>4. ASSUME NEW i \in DOMAIN events PROVE Past(ConditionsOf(events[i]), t)
      <3>1. CASE i \in DOMAIN watch
        BY <2>2, <3>1 DEF Keeps
      <3>2. CASE i = Len(watch) + 1
        BY <2>2, <3>2
      <3> QED
        BY <2>3, <3>1, <3>2
    <2> QED
      BY <1>1, <2>1, <2>4
  <1> QED
    BY <1>2, <1>3

\* Nothing but the clock moves, if at all.
LEMMA IdleTimes ==
    ASSUME CopyInv, TimeInv, now \in Nat, now' \in Nat, now <= now',
           UNCHANGED <<server, watch, heap, cached, module, read>>, pc' = "patch" => pc = "patch"
    PROVE  TimeInv' /\ NotBefore(ConditionsOf(server), ConditionsOf(read), ConditionsOf(server'))
  <1>1. 0 .. now \subseteq 0 .. now'
    OBVIOUS
  <1>2. \A cs : Past(cs, now) => Past(cs, now')
    BY <1>1 DEF Past
  <1>3. ConditionList(ConditionsOf(server)) /\ SameReady(ConditionsOf(server), ConditionsOf(server))
    BY DEF CopyInv, Served, Object, SameReady
  <1>4. NotBefore(ConditionsOf(server), ConditionsOf(read), ConditionsOf(server))
    BY <1>3, KeptTimes
  <1>5. TimeInv'
    BY <1>2 DEF TimeInv
  <1> QED
    BY <1>4, <1>5

\* A patch is prepared: the time is the clock's, unless the status is the
\* one that was seen.
LEMMA PrepareTimes ==
    ASSUME CopyInv, TimeInv, Prepare
    PROVE  TimeInv' /\ NotBefore(ConditionsOf(server), ConditionsOf(read), ConditionsOf(server'))
  <1> DEFINE old == ConditionsOf(server)
             seen == ConditionsOf(Value(heap, cached))
             new == ConditionsOf(Value(heap, module)')
  <1>1. /\ UNCHANGED <<server, watch, now>> /\ read' = Value(heap, cached)
        /\ Value(heap, cached)' = Value(heap, cached)
        /\ Dated(seen, new, now)
    BY PrepareStep DEF Prepare
  <1>2. now \in Nat
    BY BoundsAssumption DEF CopyInv, Localized
  <1>3. Past(old, now) /\ Past(seen, now) /\ ConditionList(old)
    BY DEF TimeInv, CopyInv, Served, Object
  <1>4. ConditionsOf(server') = old /\ ConditionsOf(read') = seen /\ ConditionsOf(Value(heap, module))' = new
        /\ ConditionsOf(Value(heap, cached))' = seen
    BY <1>1
  <1> HIDE DEF old, seen, new
  <1>5. Past(new, now)
    BY <1>1, <1>2, <1>3 DEF Past, Dated
  <1>6. NotBefore(old, seen, new)
    BY <1>1, <1>2, <1>3 DEF Past, Dated, NotBefore
  <1>7. NotBefore(old, ConditionsOf(read), old)
    BY <1>3, KeptTimes DEF SameReady
  <1>8. TimeInv'
    BY <1>1, <1>3, <1>4, <1>5, <1>6 DEF TimeInv, old
  <1> QED
    BY <1>4, <1>7, <1>8 DEF old

\* The patch: the conditions are the server's own, or those prepared.
LEMMA PatchTimes ==
    ASSUME CopyInv, TimeInv, Patch
    PROVE  TimeInv' /\ NotBefore(ConditionsOf(server), ConditionsOf(read), ConditionsOf(server'))
  <1> DEFINE from == Value(heap, base)
             to == Value(heap, module)
             obj == Merged(server, from, to)
  <1>1. /\ pc = "patch" /\ pc' = "idle" /\ now' = now /\ Write(obj)
    BY DEF Patch
  <1>2. /\ Served /\ Object(server) /\ ConditionList(ConditionsOf(to)) /\ to.hash \in Hash \cup {None}
    BY <1>1 DEF CopyInv, Served, Prepared, Localized, Value
  <1>3. /\ Past(ConditionsOf(server), now) /\ Past(ConditionsOf(to), now)
        /\ \A i \in DOMAIN watch : Past(ConditionsOf(watch[i]), now)
        /\ NotBefore(ConditionsOf(server), ConditionsOf(read), ConditionsOf(to))
    BY <1>1 DEF TimeInv
  <1> HIDE DEF from, to
  <1>4. ConditionsOf(obj) \in {ConditionsOf(server), ConditionsOf(to)}
    BY <1>2, MergedIs
  <1> HIDE DEF obj
  <1>5. /\ server' = obj /\ Past(ConditionsOf(server'), now)
        /\ \A i \in DOMAIN watch' : Past(ConditionsOf(watch'[i]), now)
    BY <1>1, <1>2, <1>3, <1>4, WriteTimes
  <1>6. NotBefore(ConditionsOf(server), ConditionsOf(read), ConditionsOf(server))
    BY <1>2, KeptTimes DEF Object, SameReady
  <1>7. Value(heap, cached)' = Value(heap, cached)
    BY PatchStep
  <1>8. TimeInv'
    BY <1>1, <1>5, <1>7 DEF TimeInv
  <1> QED
    BY <1>3, <1>4, <1>5, <1>6, <1>8

\* An event is delivered, with the times that it carries.
LEMMA DeliverTimes ==
    ASSUME CopyInv, TimeInv, Deliver
    PROVE  TimeInv' /\ NotBefore(ConditionsOf(server), ConditionsOf(read), ConditionsOf(server'))
  <1> DEFINE old == IF pc = "patch" THEN heap ELSE <<>>
             val == Head(watch)
             fresh == Decoded(old, val)
  <1>1. /\ watch # <<>> /\ watch' = Tail(watch) /\ heap' = fresh.heap /\ cached' = fresh.var
        /\ UNCHANGED <<server, pc, module, read, now>>
    BY DEF Deliver, locals
  <1>2. PICK B : watch \in Seq(B)
    BY DEF CopyInv, Served, Listed
  <1>3. /\ \A i \in DOMAIN Tail(watch) : i + 1 \in DOMAIN watch /\ Tail(watch)[i] = watch[i + 1]
        /\ 1 \in DOMAIN watch /\ val = watch[1]
    BY <1>1, <1>2
  <1>4. \A i \in DOMAIN watch' : Past(ConditionsOf(watch'[i]), now)
    BY <1>1, <1>3 DEF TimeInv
  <1>5. Past(ConditionsOf(val), now)
    BY <1>3 DEF TimeInv
  <1>6. Listed(old)
    BY NothingListed DEF CopyInv, Remembered
  <1> HIDE DEF val, old
  <1>7. /\ Keeps(fresh.heap, old)
        /\ Value(fresh.heap, fresh.var) = [gen |-> val.gen, hash |-> val.hash,
                                           content |-> [s \in DOMAIN val.content |-> val.content[s]]]
    BY <1>6, DecodedSays
  <1> HIDE DEF fresh
  <1>8. ConditionsOf(Value(heap, cached))' = ConditionsOf(val)
    BY <1>1, <1>7, SameConditions
  <1>9. pc = "patch" => Value(heap, module)' = Value(heap, module)
    <2> SUFFICES ASSUME pc = "patch" PROVE Value(heap, module)' = Value(heap, module)
      OBVIOUS
    <2>1. Keeps(heap', heap)
      BY <1>1, <1>7 DEF old
    <2>2. Refers(heap, module)
      BY DEF CopyInv, Prepared
    <2>3. Value(heap', module) = Value(heap, module)
      BY <2>1, <2>2, SaysTheSame
    <2> QED
      BY <1>1, <2>3
  <1>10. TimeInv'
    BY <1>1, <1>4, <1>5, <1>8, <1>9 DEF TimeInv
  <1>11. NotBefore(ConditionsOf(server), ConditionsOf(read), ConditionsOf(server))
    BY KeptTimes DEF CopyInv, Served, Object, SameReady
  <1> QED
    BY <1>1, <1>10, <1>11

\* Others write an object with the Ready condition that the server has.
LEMMA OthersTimes ==
    ASSUME CopyInv, TimeInv, NEW obj, Write(obj),
           SameReady(ConditionsOf(server), ConditionsOf(obj)), UNCHANGED <<memory, pc, locals, now>>
    PROVE  TimeInv' /\ NotBefore(ConditionsOf(server), ConditionsOf(read), ConditionsOf(server'))
  <1> DEFINE old == ConditionsOf(server)
             new == ConditionsOf(obj)
  <1>1. Served /\ ConditionList(old) /\ Past(old, now) /\ \A i \in DOMAIN watch : Past(ConditionsOf(watch[i]), now)
    BY DEF CopyInv, Served, Object, TimeInv
  <1>2. Past(new, now) /\ \A seen : NotBefore(old, seen, new)
    BY <1>1, KeptTimes
  <1>3. /\ server' = obj /\ Past(ConditionsOf(server'), now)
        /\ \A i \in DOMAIN watch' : Past(ConditionsOf(watch'[i]), now)
    BY <1>1, <1>2, WriteTimes
  <1>4. \A seen, later : NotBefore(old, seen, later) => NotBefore(new, seen, later)
    <2> HIDE DEF old, new
    <2>1. SameReady(old, new)
      BY DEF old, new
    <2> QED
      BY <2>1 DEF SameReady, NotBefore
  <1>5. TimeInv'
    BY <1>3, <1>4 DEF TimeInv, memory, locals
  <1> QED
    BY <1>2, <1>3, <1>5

LEMMA UpdateTimes ==
    ASSUME CopyInv, TimeInv, Update
    PROVE  TimeInv' /\ NotBefore(ConditionsOf(server), ConditionsOf(read), ConditionsOf(server'))
  <1> DEFINE obj == [server EXCEPT !.gen = @ + 1]
  <1>1. Write(obj) /\ UNCHANGED <<memory, pc, locals, now>>
    BY DEF Update
  <1>2. ConditionsOf(obj) = ConditionsOf(server)
    BY DEF ConditionsOf, CopyInv, Served, Object
  <1> HIDE DEF obj
  <1>3. SameReady(ConditionsOf(server), ConditionsOf(obj))
    BY <1>2 DEF SameReady
  <1> QED
    BY <1>1, <1>3, OthersTimes

\* The condition of another type comes in front of ours.
LEMMA ReportTimes ==
    ASSUME CopyInv, TimeInv, OthersReport
    PROVE  TimeInv' /\ NotBefore(ConditionsOf(server), ConditionsOf(read), ConditionsOf(server'))
  <1> DEFINE cs == ConditionsOf(server)
             i == CHOOSE i \in ReadyIn(cs) : TRUE
             mine == IF ReadyIn(cs) = {} THEN <<>> ELSE <<cs[i]>>
             Other(ready) == [type |-> "Other", ready |-> ready, gen |-> server.gen, at |-> now]
             list(ready) == <<Other(ready)>> \o mine
             Written(ready) == [server EXCEPT !.content = Put(@, Conditions, list(ready))]
  <1>1. PICK ready \in BOOLEAN : Write(Written(ready))
    BY DEF OthersReport
  <1>2. UNCHANGED <<memory, pc, locals, now>>
    BY DEF OthersReport
  <1> DEFINE other == Other(ready)
             whole == list(ready)
             obj == [server EXCEPT !.content = Put(@, Conditions, whole)]
  <1>3. ConditionsOf(obj) = whole
    <2> DEFINE content == Put(server.content, Conditions, whole)
    <2> HIDE DEF whole
    <2>1. Conditions \in DOMAIN content /\ content[Conditions] = whole
      BY DEF Put
    <2> HIDE DEF content
    <2>2. [server EXCEPT !.content = content].content = content
      BY DEF CopyInv, Served, Object
    <2> QED
      BY <2>1, <2>2 DEF ConditionsOf, content
  <1>4. SameReady(cs, whole)
    <2>1. other.type = "Other"
      OBVIOUS
    <2>2. CASE ReadyIn(cs) = {}
      <3>1. whole = <<other>>
        BY <2>2
      <3> HIDE DEF whole, other
      <3>2. ReadyIn(whole) = {}
        BY <2>1, <3>1 DEF ReadyIn
      <3> QED
        BY <3>2 DEF SameReady
    <2>3. CASE ReadyIn(cs) # {}
      <3>1. i \in ReadyIn(cs)
        BY <2>3
      <3> DEFINE c == cs[i]
      <3>2. whole = <<other>> \o <<c>>
        BY <2>3
      <3> HIDE DEF whole, c, other
      <3>3. <<other>> \in Seq({other, c}) /\ <<c>> \in Seq({other, c}) /\ Len(<<other>>) = 1 /\ Len(<<c>>) = 1
        OBVIOUS
      <3>4. DOMAIN whole = 1 .. 2 /\ whole[1] = other /\ whole[2] = c
        BY <3>2, <3>3, ConcatProperties
      <3>5. \A j \in ReadyIn(whole) : whole[j] = c
        BY <2>1, <3>4 DEF ReadyIn
      <3> QED
        BY <3>1, <3>5 DEF SameReady, c
    <2> QED
      BY <2>2, <2>3
  <1>5. Write(obj)
    BY <1>1
  <1> HIDE DEF whole, list, Other, obj, cs
  <1>6. SameReady(ConditionsOf(server), ConditionsOf(obj))
    BY <1>3, <1>4 DEF cs
  <1> QED
    BY <1>2, <1>5, <1>6, OthersTimes

LEMMA TimeInit == Init => TimeInv
  <1> SUFFICES ASSUME Init PROVE TimeInv
    OBVIOUS
  <1>1. PICK shape \in Shape : server = [gen |-> 1, hash |-> None, content |-> shape]
    BY DEF Init
  <1>2. ConditionsOf(server) = <<>>
    <2>1. ~SpecSlot(Conditions)
      BY DEF SpecSlot, Conditions
    <2> QED
      BY <1>1, <2>1, ShapeAssumption DEF ConditionsOf
  <1>3. ConditionsOf(Value(heap, cached)) = <<>>
    <2> DEFINE d == Decoded(<<>>, server)
    <2>1. Value(d.heap, d.var) = [gen |-> server.gen, hash |-> server.hash,
                                  content |-> [s \in DOMAIN server.content |-> server.content[s]]]
      BY NothingListed, DecodedSays
    <2>2. heap = d.heap /\ cached = d.var
      BY DEF Init
    <2> HIDE DEF d
    <2> QED
      BY <1>2, <2>1, <2>2, SameConditions
  <1>4. Past(<<>>, now)
    BY DEF Past, ReadyIn
  <1> QED
    BY <1>2, <1>3, <1>4 DEF TimeInv, Init

\* Every step keeps the times, and none sets one back.
LEMMA TimeStep ==
    ASSUME CopyInv, TimeInv, [Next]_vars
    PROVE  TimeInv' /\ NotBefore(ConditionsOf(server), ConditionsOf(read), ConditionsOf(server'))
  <1>1. now \in Nat
    BY BoundsAssumption DEF CopyInv, Localized
  <1>2. CASE UNCHANGED vars
    BY <1>1, <1>2, IdleTimes DEF vars, memory, locals
  <1>3. CASE Judge
    BY <1>1, <1>3, IdleTimes DEF Judge, memory
  <1>4. CASE Tick
    BY <1>1, <1>4, IdleTimes DEF Tick, memory, locals
  <1> QED
    BY <1>2, <1>3, <1>4, PrepareTimes, PatchTimes, DeliverTimes, UpdateTimes, ReportTimes DEF Next

\* The time of a transition is only set back where the cache showed a status
\* that the server's condition had left: TransitionTimesGrow of the run.
THEOREM TimesAreNotSetBack == Statuses => TransitionTimesGrow
  <1>1. CopyInv /\ TimeInv /\ [Next]_vars => TimeInv'
    BY TimeStep
  <1>2. CopyInv /\ TimeInv /\ [Next]_vars
          => [NotBefore(ConditionsOf(server), ConditionsOf(read), ConditionsOf(server'))]_vars
    BY TimeStep
  <1> QED
    BY <1>1, <1>2, TimeInit, CopyInvariant, PTL DEF Statuses, TransitionTimesGrow
=============================================================================
