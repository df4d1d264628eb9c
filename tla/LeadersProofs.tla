---------------------------- MODULE LeadersProofs ----------------------------
(***************************************************************************)
(* Safety of two managers over one API server and one OpenFGA, for every   *)
(* set of names, stores, models and settings, every build and every bound. *)
(*                                                                         *)
(* What is proved of one manager holds of each of the two: SharedProofs is *)
(* taken twice, as it is for the leader, and as FormerP for the former     *)
(* leader's variables.  A step of one is, for the other, a step of         *)
(* somebody else (Meanwhile): it comes with the events of what it changed  *)
(* (FeedFormer, FeedLeader), and its new identifiers are new to both.      *)
(***************************************************************************)
EXTENDS Leaders, SharedProofs

FormerP == INSTANCE SharedProofs
           WITH modWatch <- fModWatch, secWatch <- fSecWatch,
                modCache <- fModCache, secCache <- fSecCache,
                queue <- fQueue, settings <- fSettings, pc <- fPc, key <- fKey,
                items <- fItems, verdict <- fVerdict, existing <- fExisting,
                storeID <- fStoreID, modelID <- fModelID

-----------------------------------------------------------------------------
(* An instance has its own copy of every definition, and of the library's. *)
(* The copies that name no variable of the former leader are the leader's. *)

\* Finite sets.
LEMMA SameSets ==
    /\ \A S : FormerP!Cardinality(S) = Cardinality(S) /\ FormerP!IsFiniteSet(S) = IsFiniteSet(S)
    /\ \A S : Former!Cardinality(S) = Cardinality(S)
  BY DEF FormerP!Cardinality, Cardinality, FormerP!IsFiniteSet, IsFiniteSet, Former!Cardinality

\* Orders of a set.
LEMMA SameOrders == \A S : FormerP!SetToSeqs(S) = SetToSeqs(S) /\ Former!SetToSeqs(S) = SetToSeqs(S)
  BY SameSets DEF FormerP!SetToSeqs, Former!SetToSeqs, SetToSeqs

\* The kinds of values.
LEMMA SameTypes ==
    /\ FormerP!Verdict = Verdict /\ FormerP!Module = Module /\ FormerP!Config = Config
    /\ FormerP!Secret = Secret /\ FormerP!Setting = Setting /\ FormerP!Stored = Stored
    /\ FormerP!Condition = Condition /\ FormerP!Item = Item
  BY DEF FormerP!Reason, Reason, FormerP!Message, Message, FormerP!Verdict, Verdict,
         FormerP!Condition, Condition, FormerP!Module, Module, FormerP!Config, Config,
         FormerP!Secret, Secret, FormerP!Setting, Setting, FormerP!Stored, Stored,
         FormerP!Item, Item

\* What a build may be asked for.
LEMMA SameListings == FormerP!Listings = Listings
  BY SameSets, SameTypes DEF FormerP!Listings, Listings

\* So the former leader's build, bounds and settings are as assumed.
LEMMA SameAssumptions ==
    /\ FormerP!NameAssumption /\ FormerP!DistinctAssumption /\ FormerP!SettingsAssumption
    /\ FormerP!BoundsAssumption /\ FormerP!BuildTypeAssumption /\ FormerP!BuildOrderAssumption
  <1>1. FormerP!NameAssumption /\ FormerP!DistinctAssumption /\ FormerP!SettingsAssumption
        /\ FormerP!BoundsAssumption
    BY SameSets, SameTypes, NameAssumption, DistinctAssumption, SettingsAssumption, BoundsAssumption
    DEF FormerP!NameAssumption, FormerP!DistinctAssumption, FormerP!SettingsAssumption,
        FormerP!BoundsAssumption
  <1>2. FormerP!BuildTypeAssumption
    BY SameTypes, SameListings, BuildTypeAssumption DEF FormerP!BuildTypeAssumption
  <1>3. FormerP!BuildOrderAssumption
    BY SameTypes, SameListings, BuildOrderAssumption DEF FormerP!BuildOrderAssumption, FormerP!Range, Range
  <1> QED
    BY <1>1, <1>2, <1>3

-----------------------------------------------------------------------------
(* FormerP's actions are Former's.                                         *)

\* The calls to the API server,
LEMMA FormerServerCalls ==
    /\ Former!ListAndBuild => FormerP!ListAndBuild
    /\ Former!DeleteSecret => FormerP!DeleteSecret
    /\ Former!ApplySecret => FormerP!ApplySecret
    /\ Former!PatchStatus => FormerP!PatchStatus
  <1>1. Former!ListAndBuild => FormerP!ListAndBuild
    BY SameOrders
    DEF Former!ListAndBuild, FormerP!ListAndBuild, Former!Present, FormerP!Present,
        Former!Listing, FormerP!Listing, Former!Prepare, FormerP!Prepare,
        Former!SettingsComplete, FormerP!SettingsComplete, Former!Failed, FormerP!Failed,
        Former!NoVerdict, FormerP!NoVerdict, Former!server, FormerP!server,
        Former!caches, FormerP!caches, Former!openfga, FormerP!openfga
  <1> USE DEF Former!WriteSecret, FormerP!WriteSecret, Former!Fault, FormerP!Fault,
              Former!NoFault, FormerP!NoFault, Former!NoVerdict, FormerP!NoVerdict,
              Former!Failed, FormerP!Failed, Former!server, FormerP!server,
              Former!caches, FormerP!caches, Former!openfga, FormerP!openfga
  <1>2. Former!DeleteSecret => FormerP!DeleteSecret
    BY DEF Former!DeleteSecret, FormerP!DeleteSecret, Former!Return, FormerP!Return
  <1>3. Former!ApplySecret => FormerP!ApplySecret
    BY DEF Former!ApplySecret, FormerP!ApplySecret, Former!ApplyAccepted, FormerP!ApplyAccepted,
           Former!ApplyFailed, FormerP!ApplyFailed, Former!NewSecret, FormerP!NewSecret,
           Former!New, FormerP!New, Former!Report, FormerP!Report
  <1>4. Former!PatchStatus => FormerP!PatchStatus
    BY DEF Former!PatchStatus, FormerP!PatchStatus, Former!PatchedOne, FormerP!PatchedOne,
           Former!Patched, FormerP!Patched, Former!Return, FormerP!Return,
           Former!WriteModule, FormerP!WriteModule
  <1> QED
    BY <1>1, <1>2, <1>3, <1>4

\* the calls to OpenFGA with the read before them,
LEMMA FormerPublishes ==
    /\ Former!GetSecret => FormerP!GetSecret
    /\ \A new, kept : Former!CreateStoreAs(new, kept) => FormerP!CreateStoreAs(new, kept)
    /\ \A new, kept : Former!WriteModelAs(new, kept) => FormerP!WriteModelAs(new, kept)
  <1> USE DEF Former!Report, FormerP!Report, Former!Fault, FormerP!Fault,
              Former!NoFault, FormerP!NoFault, Former!PublishFailed, FormerP!PublishFailed,
              Former!Failed, FormerP!Failed, Former!server, FormerP!server,
              Former!caches, FormerP!caches, Former!openfga, FormerP!openfga
  <1>1. Former!GetSecret => FormerP!GetSecret
    BY DEF Former!GetSecret, FormerP!GetSecret, Former!Published, FormerP!Published,
           Former!HasConfig, FormerP!HasConfig, Former!CredentialsMatch, FormerP!CredentialsMatch,
           Former!StoreFor, FormerP!StoreFor, Former!StoreIDFromSecret, FormerP!StoreIDFromSecret
  <1>2. ASSUME NEW new, NEW kept, Former!CreateStoreAs(new, kept) PROVE FormerP!CreateStoreAs(new, kept)
    BY <1>2 DEF Former!CreateStoreAs, FormerP!CreateStoreAs
  <1>3. ASSUME NEW new, NEW kept, Former!WriteModelAs(new, kept) PROVE FormerP!WriteModelAs(new, kept)
    BY <1>3 DEF Former!WriteModelAs, FormerP!WriteModelAs
  <1> QED
    BY <1>1, <1>2, <1>3

\* the events,
LEMMA FormerListens ==
    Former!DeliverModule \/ Former!DeliverSecret => FormerP!DeliverModule \/ FormerP!DeliverSecret
  BY DEF Former!DeliverModule, FormerP!DeliverModule, Former!DeliverSecret, FormerP!DeliverSecret,
         Former!openfga, FormerP!openfga, Former!locals, FormerP!locals

\* and the identifiers that it knows of.
LEMMA FormerSees ==
    Former!StoresSeen = FormerP!StoresSeen /\ Former!ModelsSeen = FormerP!ModelsSeen
  BY DEF Former!StoresSeen, FormerP!StoresSeen, Former!ModelsSeen, FormerP!ModelsSeen,
         Former!ConfigsSeen, FormerP!ConfigsSeen, Former!HasConfig, FormerP!HasConfig,
         Former!Range, FormerP!Range

\* Both know the same of the server and of OpenFGA.
LEMMA SameTruth == (FormerP!Truthful <=> Truthful) /\ (FormerP!Truthful' <=> Truthful')
  BY SameTypes
  DEF FormerP!Truthful, Truthful, FormerP!OpenFGAOK, OpenFGAOK, FormerP!SpentOK, SpentOK,
      FormerP!SecretFaithful, SecretFaithful, FormerP!Faithful, Faithful,
      FormerP!ReadyWasPublished, ReadyWasPublished, FormerP!Present, Present,
      FormerP!Known, Known, FormerP!HasConfig, HasConfig

-----------------------------------------------------------------------------
(* The streams.                                                            *)

\* A change of a module is an event to whoever watches, and nothing else is.
LEMMA EventsOfModules ==
    ASSUME ServerOK, NEW n \in Name, NEW obj, modules' = [modules EXCEPT ![n] = obj], UNCHANGED secret
    PROVE  /\ SecretEvents = <<>>
           /\ ModuleEvents = IF obj = modules[n] THEN <<>> ELSE <<[name |-> n, obj |-> obj]>>
  <1>1. modules \in [Name -> Module \cup {NoModule}]
    BY DEF ServerOK
  <1>2. CASE obj = modules[n]
    BY <1>1, <1>2 DEF ModuleEvents, SecretEvents
  <1>3. CASE obj # modules[n]
    <2>1. \A m \in Name : modules'[m] # modules[m] <=> m = n
      BY <1>1, <1>3
    <2>2. (CHOOSE m \in Name : modules'[m] # modules[m]) = n
      BY <2>1
    <2>3. modules' # modules /\ modules'[n] = obj
      BY <1>1, <2>1
    <2> QED
      BY <1>3, <2>2, <2>3 DEF ModuleEvents, SecretEvents
  <1> QED
    BY <1>2, <1>3

\* A pair of streams mods, secs that becomes mods2, secs2 tells of what changed.
Tells(mods, secs, mods2, secs2) ==
    /\ UNCHANGED <<modules, secret>> => mods2 = mods /\ secs2 = secs
    /\ \A n \in Name, obj \in Module \cup {NoModule} :
          modules' = [modules EXCEPT ![n] = obj] /\ UNCHANGED secret =>
             /\ secs2 = secs
             /\ IF obj = modules[n] THEN mods2 = mods
                ELSE Len(mods) < MaxLag /\ mods2 = Append(mods, [name |-> n, obj |-> obj])
    /\ \A obj \in Secret \cup {NoSecret} :
          UNCHANGED modules /\ secret' = obj =>
             /\ mods2 = mods
             /\ IF obj = secret THEN secs2 = secs
                ELSE Len(secs) < MaxLag /\ secs2 = Append(secs, obj)

\* A pair that is fed does: one event if anything changed, none otherwise.
LEMMA Fed ==
    ASSUME ServerOK,
           NEW mods \in Seq([name : Name, obj : Module \cup {NoModule}]), NEW secs \in Seq(Secret \cup {NoSecret}),
           NEW mods2, NEW secs2,
           mods2 = mods \o ModuleEvents, Len(mods2) <= MaxLag,
           secs2 = secs \o SecretEvents, Len(secs2) <= MaxLag
    PROVE  Tells(mods, secs, mods2, secs2)
  <1> DEFINE ModuleEvent == [name : Name, obj : Module \cup {NoModule}]
             SecretEvent == Secret \cup {NoSecret}
  <1>1. mods \in Seq(ModuleEvent) /\ secs \in Seq(SecretEvent)
    OBVIOUS
  <1>2. MaxLag \in Nat
    BY BoundsAssumption
  <1> HIDE DEF ModuleEvent, SecretEvent
  <1>3. (ModuleEvents = <<>> => mods2 = mods) /\ (SecretEvents = <<>> => secs2 = secs)
    BY <1>1
  <1>4. ASSUME NEW e \in ModuleEvent, ModuleEvents = <<e>>
        PROVE  Len(mods) < MaxLag /\ mods2 = Append(mods, e)
    <2>1. mods2 = Append(mods, e) /\ Len(mods2) = Len(mods) + 1 /\ Len(mods) \in Nat
      BY <1>1, <1>4
    <2> QED
      BY <1>2, <2>1
  <1>5. ASSUME NEW e \in SecretEvent, SecretEvents = <<e>>
        PROVE  Len(secs) < MaxLag /\ secs2 = Append(secs, e)
    <2>1. secs2 = Append(secs, e) /\ Len(secs2) = Len(secs) + 1 /\ Len(secs) \in Nat
      BY <1>1, <1>5
    <2> QED
      BY <1>2, <2>1
  <1>6. UNCHANGED <<modules, secret>> => mods2 = mods /\ secs2 = secs
    BY <1>3 DEF ModuleEvents, SecretEvents
  <1>7. ASSUME NEW n \in Name, NEW obj \in Module \cup {NoModule},
               modules' = [modules EXCEPT ![n] = obj], UNCHANGED secret
        PROVE  /\ secs2 = secs
               /\ IF obj = modules[n] THEN mods2 = mods
                  ELSE Len(mods) < MaxLag /\ mods2 = Append(mods, [name |-> n, obj |-> obj])
    <2>1. [name |-> n, obj |-> obj] \in ModuleEvent
      BY DEF ModuleEvent
    <2> QED
      BY <1>3, <1>4, <1>7, <2>1, EventsOfModules
  <1>8. ASSUME NEW obj \in Secret \cup {NoSecret}, UNCHANGED modules, secret' = obj
        PROVE  /\ mods2 = mods
               /\ IF obj = secret THEN secs2 = secs ELSE Len(secs) < MaxLag /\ secs2 = Append(secs, obj)
    BY <1>3, <1>5, <1>8 DEF ModuleEvents, SecretEvents, SecretEvent
  <1> QED
    BY <1>6, <1>7, <1>8 DEF Tells

\* What the former leader writes is a write to the leader,
LEMMA LeaderHearsOf ==
    ASSUME ServerOK, FormerP!Writes, FeedLeader
    PROVE  Writes
  <1>1. modWatch \in Seq([name : Name, obj : Module \cup {NoModule}]) /\ secWatch \in Seq(Secret \cup {NoSecret})
    BY SameTypes DEF ServerOK, FormerP!ServerOK
  <1>2. /\ modWatch' = modWatch \o ModuleEvents /\ Len(modWatch') <= MaxLag
        /\ secWatch' = secWatch \o SecretEvents /\ Len(secWatch') <= MaxLag
    BY DEF FeedLeader
  <1>3. Tells(modWatch, secWatch, modWatch', secWatch')
    BY <1>1, <1>2, Fed
  <1>4. CASE UNCHANGED FormerP!server
    BY <1>3, <1>4 DEF Tells, FormerP!server, server, Writes
  <1>5. ASSUME NEW n \in Name, NEW obj \in Module \cup {NoModule}, FormerP!WriteModule(n, obj)
        PROVE  WriteModule(n, obj)
    BY <1>3, <1>5 DEF Tells, FormerP!WriteModule, WriteModule
  <1>6. ASSUME NEW obj \in Secret \cup {NoSecret}, FormerP!WriteSecret(obj)
        PROVE  WriteSecret(obj)
    BY <1>3, <1>6 DEF Tells, FormerP!WriteSecret, WriteSecret
  <1> QED
    BY <1>4, <1>5, <1>6, SameTypes DEF FormerP!Writes, Writes

\* and the reverse.
LEMMA FormerHearsOf ==
    ASSUME ServerOK, FormerP!ServerOK, lingering, Writes, FeedFormer
    PROVE  FormerP!Writes
  <1>1. fModWatch \in Seq([name : Name, obj : Module \cup {NoModule}]) /\ fSecWatch \in Seq(Secret \cup {NoSecret})
    BY SameTypes DEF ServerOK, FormerP!ServerOK
  <1>2. /\ fModWatch' = fModWatch \o ModuleEvents /\ Len(fModWatch') <= MaxLag
        /\ fSecWatch' = fSecWatch \o SecretEvents /\ Len(fSecWatch') <= MaxLag
    BY DEF FeedFormer
  <1>3. Tells(fModWatch, fSecWatch, fModWatch', fSecWatch')
    BY <1>1, <1>2, Fed
  <1>4. CASE UNCHANGED server
    BY <1>3, <1>4 DEF Tells, FormerP!server, server, FormerP!Writes
  <1>5. ASSUME NEW n \in Name, NEW obj \in Module \cup {NoModule}, WriteModule(n, obj)
        PROVE  FormerP!WriteModule(n, obj)
    BY <1>3, <1>5 DEF Tells, FormerP!WriteModule, WriteModule
  <1>6. ASSUME NEW obj \in Secret \cup {NoSecret}, WriteSecret(obj)
        PROVE  FormerP!WriteSecret(obj)
    BY <1>3, <1>6 DEF Tells, FormerP!WriteSecret, WriteSecret
  <1> QED
    BY <1>4, <1>5, <1>6, SameTypes DEF FormerP!Writes, Writes

-----------------------------------------------------------------------------
(* The two managers together.                                              *)

\* All that is known of each; of the former leader's caches only what is
\* needed for its writes.
LeadersInv == ManagerInv /\ CalmInv /\ (lingering => FormerP!ManagerInv)

\* What the leader or a user does keeps all that is known of the leader,
LEMMA LeaderActs ==
    ASSUME ManagerInv, CalmInv, [FreshNext]_vars
    PROVE  ManagerInv' /\ CalmInv' /\ Truthful'
  <1>1. ManagerInv'
    BY ManagerStep
  <1>2. CalmInv'
    BY CalmStep DEF ManagerInv
  <1>3. Truthful'
    BY <1>1 DEF ManagerInv, Truthful, TypeOK, FaithfulInv, PublishedInv, StoreKept
  <1> QED
    BY <1>1, <1>2, <1>3

\* and what others do, if it leaves the truth.
LEMMA LeaderSuffers ==
    ASSUME ManagerInv, CalmInv, Meanwhile, Truthful'
    PROVE  ManagerInv' /\ CalmInv'
  BY MeanwhileManager, MeanwhileCalm DEF ManagerInv

\* What the former leader does keeps all that is known of it.
LEMMA FormerActs ==
    ASSUME FormerP!ManagerInv, [FormerP!FreshNext]_FormerP!vars
    PROVE  FormerP!ManagerInv' /\ Truthful'
  <1>1. FormerP!ManagerInv'
    BY SameAssumptions, FormerP!ManagerStep
  <1>2. FormerP!Truthful'
    BY <1>1 DEF FormerP!ManagerInv, FormerP!Truthful, FormerP!TypeOK, FormerP!FaithfulInv,
                FormerP!PublishedInv, FormerP!StoreKept
  <1> QED
    BY <1>1, <1>2, SameTruth

\* And the former leader can rely on what it did while others act.
LEMMA FormerSuffers ==
    ASSUME FormerP!ManagerInv, FormerP!Meanwhile, Truthful'
    PROVE  FormerP!ManagerInv'
  BY SameAssumptions, SameTruth, FormerP!MeanwhileManager

\* To the former leader, the leader and the users are others,
LEMMA ToFormer ==
    ASSUME TypeOK, FormerP!ManagerInv, lingering, FeedFormer, UNCHANGED formerWorker,
           WorkAmong(AllStoresSeen, AllModelsSeen) \/ UsersWrite
    PROVE  FormerP!Meanwhile
  <1>1. Writes
    BY WorkWrites
  <1>2. FormerP!Writes
    BY <1>1, FormerHearsOf DEF TypeOK, FormerP!ManagerInv, FormerP!TypeOK
  <1>3. /\ published \subseteq published'
        /\ \A s \in StoreId : s \in FormerP!StoresSeen => stores'[s] = stores[s]
        /\ \A m \in ModelId : m \in FormerP!ModelsSeen => models'[m] = models[m]
    BY WorkKeeps, FormerSees DEF AllStoresSeen, AllModelsSeen
  <1>4. UNCHANGED <<FormerP!caches, fQueue, fSettings, fPc, FormerP!locals>>
    BY DEF formerWorker, FormerP!caches, FormerP!locals
  <1> QED
    BY <1>2, <1>3, <1>4 DEF FormerP!Meanwhile

\* and to the leader, the former leader is.
LEMMA ToLeader ==
    ASSUME TypeOK, FormerP!TypeOK, FormerP!WorkAmong(AllStoresSeen, AllModelsSeen), FeedLeader,
           UNCHANGED <<caches, queue, settings, pc, locals>>
    PROVE  Meanwhile
  <1>1. FormerP!Writes
    BY SameAssumptions, FormerP!WorkWrites
  <1>2. Writes
    BY <1>1, LeaderHearsOf DEF TypeOK
  <1>3. /\ published \subseteq published'
        /\ \A s \in StoreId : s \in StoresSeen => stores'[s] = stores[s]
        /\ \A m \in ModelId : m \in ModelsSeen => models'[m] = models[m]
    BY SameAssumptions, FormerP!WorkKeeps DEF AllStoresSeen, AllModelsSeen
  <1> QED
    BY <1>2, <1>3 DEF Meanwhile

\* A new identifier is new to both.
LEMMA FreshToBoth ==
    /\ StoreId \ AllStoresSeen # {} => FreshStore \in StoreId \ AllStoresSeen
    /\ ModelId \ AllModelsSeen # {} => FreshModel \in ModelId \ AllModelsSeen
  BY DEF FreshStore, FreshModel
-----------------------------------------------------------------------------
(* Each action of the two.                                                 *)

\* There is one manager at first.
LEMMA LeadersStart == LeadersInit => LeadersInv
  <1>1. Init => FaithfulInv /\ PublishedInv /\ StoreKept
    BY DEF Init, FaithfulInv, SecretFaithful, Faithful, HasConfig,
           PublishedInv, ReadyWasPublished, Present, Known, StoreKept
  <1> QED
    BY <1>1, InitTyped, CalmFirst DEF LeadersInit, LeadersInv, ManagerInv

\* A call of the leader's worker is the leader's own step, and one of
\* somebody else to the former leader.
LEMMA LeaderWorksKept ==
    ASSUME LeadersInv, LeaderWorks
    PROVE  LeadersInv'
  <1>1. WorkAmong(AllStoresSeen, AllModelsSeen)
    BY FreshToBoth DEF LeaderWorks, WorkAmong
  <1>2. FreshNext
    BY <1>1, OwnWork DEF AllStoresSeen, AllModelsSeen
  <1>3. ManagerInv' /\ CalmInv' /\ Truthful'
    BY <1>2, LeaderActs DEF LeadersInv
  <1>4. lingering' => FormerP!ManagerInv'
    <2>1. SUFFICES ASSUME lingering' PROVE FormerP!ManagerInv'
      OBVIOUS
    <2>2. lingering /\ FormerP!ManagerInv /\ TypeOK
      BY <2>1 DEF LeaderWorks, LeadersInv, ManagerInv
    <2>3. FormerP!Meanwhile
      BY <1>1, <2>2, ToFormer DEF LeaderWorks
    <2> QED
      BY <1>3, <2>2, <2>3, FormerSuffers
  <1> QED
    BY <1>3, <1>4 DEF LeadersInv

\* So is a user's, to both a step of the environment.
LEMMA UsersKept ==
    ASSUME LeadersInv, Users
    PROVE  LeadersInv'
  <1>1. UsersWrite
    BY DEF Users, UsersWrite
  <1>2. FreshNext
    BY <1>1 DEF UsersWrite, FreshNext, Environment
  <1>3. ManagerInv' /\ CalmInv' /\ Truthful'
    BY <1>2, LeaderActs DEF LeadersInv
  <1>4. lingering' => FormerP!ManagerInv'
    <2>1. SUFFICES ASSUME lingering' PROVE FormerP!ManagerInv'
      OBVIOUS
    <2>2. lingering /\ FormerP!ManagerInv /\ TypeOK
      BY <2>1 DEF Users, LeadersInv, ManagerInv
    <2>3. FormerP!Meanwhile
      BY <1>1, <2>2, ToFormer DEF Users
    <2> QED
      BY <1>3, <2>2, <2>3, FormerSuffers
  <1> QED
    BY <1>3, <1>4 DEF LeadersInv

\* An event that reaches the leader is nothing to the former leader.
LEMMA LeaderHearsKept ==
    ASSUME LeadersInv, LeaderHears
    PROVE  LeadersInv'
  <1>1. FreshNext
    BY DEF LeaderHears, FreshNext
  <1>2. ManagerInv' /\ CalmInv' /\ Truthful'
    BY <1>1, LeaderActs DEF LeadersInv
  <1>3. lingering' => FormerP!ManagerInv'
    <2>1. SUFFICES ASSUME lingering' PROVE FormerP!ManagerInv'
      OBVIOUS
    <2>2. lingering /\ FormerP!ManagerInv
      BY <2>1 DEF LeaderHears, LeadersInv
    <2>3. UNCHANGED <<modules, secret, stores, models, published>>
      BY DEF LeaderHears, DeliverModule, DeliverSecret, openfga
    <2>4. FormerP!Meanwhile
      BY <2>3 DEF LeaderHears, formerVars, formerStreams, formerWorker, FormerP!Meanwhile,
                  FormerP!caches, FormerP!locals, FormerP!Writes, FormerP!server
    <2> QED
      BY <1>2, <2>2, <2>4, FormerSuffers
  <1> QED
    BY <1>2, <1>3 DEF LeadersInv

\* A call of the former leader's worker keeps the truth, and to the leader it
\* comes with its events.
LEMMA FormerWorksKept ==
    ASSUME LeadersInv, FormerWorks
    PROVE  LeadersInv'
  <1>1. TypeOK /\ ManagerInv /\ CalmInv /\ FormerP!ManagerInv /\ FormerP!TypeOK
    BY DEF FormerWorks, LeadersInv, ManagerInv, FormerP!ManagerInv
  <1>2. FormerP!WorkAmong(AllStoresSeen, AllModelsSeen)
    BY FreshToBoth, FormerServerCalls, FormerPublishes DEF FormerWorks, FormerP!WorkAmong
  <1>3. FormerP!FreshNext
    BY <1>2, SameAssumptions, FormerSees, FormerP!OwnWork DEF AllStoresSeen, AllModelsSeen
  <1>4. FormerP!ManagerInv' /\ Truthful'
    BY <1>1, <1>3, FormerActs
  <1>5. Meanwhile
    BY <1>1, <1>2, ToLeader DEF FormerWorks
  <1>6. ManagerInv' /\ CalmInv'
    BY <1>1, <1>4, <1>5, LeaderSuffers
  <1> QED
    BY <1>4, <1>6 DEF LeadersInv

\* An event that reaches the former leader is nothing to the leader.
LEMMA FormerHearsKept ==
    ASSUME LeadersInv, FormerHears
    PROVE  LeadersInv'
  <1>1. ManagerInv /\ CalmInv /\ FormerP!ManagerInv
    BY DEF FormerHears, LeadersInv
  <1>2. FormerP!DeliverModule \/ FormerP!DeliverSecret
    BY FormerListens DEF FormerHears
  <1>3. FormerP!ManagerInv' /\ Truthful'
    BY <1>1, <1>2, FormerActs DEF FormerP!FreshNext
  <1>4. UNCHANGED <<modules, secret, stores, models, published>>
    BY DEF FormerHears, Former!DeliverModule, Former!DeliverSecret, Former!openfga
  <1>5. Meanwhile
    BY <1>4 DEF FormerHears, leaderVars, Meanwhile, Writes, server
  <1>6. ManagerInv' /\ CalmInv'
    BY <1>1, <1>3, <1>5, LeaderSuffers
  <1> QED
    BY <1>3, <1>6 DEF LeadersInv

\* The former leader starts out with all that the leader knew.
LEMMA TakeoverKept ==
    ASSUME LeadersInv, Takeover
    PROVE  LeadersInv'
  <1>1. FreshNext
    BY DEF Takeover, FreshNext, Environment
  <1>2. ManagerInv /\ ManagerInv' /\ CalmInv' /\ Truthful'
    BY <1>1, LeaderActs DEF LeadersInv
  <1>3. /\ fModWatch' = modWatch /\ fSecWatch' = secWatch
        /\ fModCache' = modCache /\ fSecCache' = secCache
        /\ fQueue' = queue /\ fSettings' = settings
        /\ fPc' = pc /\ fKey' = key /\ fItems' = items /\ fVerdict' = verdict
        /\ fExisting' = existing /\ fStoreID' = storeID /\ fModelID' = modelID
        /\ UNCHANGED <<modules, secret, stores, models, published>>
    BY DEF Takeover, Restart, openfga
  <1>4. FormerP!TypeOK'
    <2>1. FormerP!ServerOK' /\ FormerP!ManagerOK' /\ FormerP!WorkerOK'
      BY <1>2, <1>3, SameTypes
      DEF ManagerInv, TypeOK, ServerOK, ManagerOK, WorkerOK,
          FormerP!ServerOK, FormerP!ManagerOK, FormerP!WorkerOK
    <2>2. FormerP!OpenFGAOK' /\ FormerP!SpentOK'
      BY <1>2, SameTruth DEF Truthful, FormerP!Truthful
    <2> QED
      BY <2>1, <2>2 DEF FormerP!TypeOK
  <1>5. FormerP!FaithfulInv'
    BY <1>2, <1>3 DEF ManagerInv, FaithfulInv, FormerP!FaithfulInv, SecretFaithful, Faithful, HasConfig,
          FormerP!SecretFaithful, FormerP!Faithful, FormerP!HasConfig
  <1>6. FormerP!PublishedInv'
    BY <1>2, <1>3 DEF ManagerInv, PublishedInv, FormerP!PublishedInv, ReadyWasPublished, Known, Present,
          FormerP!ReadyWasPublished, FormerP!Known, FormerP!Present
  <1>7. FormerP!StoreKept'
    BY <1>2, <1>3 DEF ManagerInv, StoreKept, FormerP!StoreKept, HasConfig, FormerP!HasConfig
  <1> QED
    BY <1>2, <1>4, <1>5, <1>6, <1>7 DEF LeadersInv, FormerP!ManagerInv

\* Every step of the two keeps the invariant.  An exit forgets the former
\* leader.
LEMMA LeadersStep == LeadersInv /\ [LeadersNext]_leadersVars => LeadersInv'
  <1> SUFFICES ASSUME LeadersInv, [LeadersNext]_leadersVars PROVE LeadersInv'
    OBVIOUS
  <1>1. CASE Exit
    <2>1. [FreshNext]_vars /\ ~lingering'
      BY <1>1 DEF Exit
    <2> QED
      BY <2>1, LeaderActs DEF LeadersInv
  <1>2. CASE UNCHANGED leadersVars
    <2>1. [FreshNext]_vars
      BY <1>2 DEF leadersVars
    <2>2. ManagerInv' /\ CalmInv' /\ Truthful'
      BY <2>1, LeaderActs DEF LeadersInv
    <2>3. UNCHANGED <<formerVars, lingering, modules, secret, stores, models, published>>
      BY <1>2 DEF leadersVars, vars, server, openfga
    <2>4. FormerP!Meanwhile
      BY <2>3 DEF formerVars, formerStreams, formerWorker, FormerP!Meanwhile,
                  FormerP!caches, FormerP!locals, FormerP!Writes, FormerP!server
    <2>5. lingering' => FormerP!ManagerInv'
      BY <2>2, <2>3, <2>4, FormerSuffers DEF LeadersInv
    <2> QED
      BY <2>2, <2>5 DEF LeadersInv
  <1> QED
    BY <1>1, <1>2, LeaderWorksKept, LeaderHearsKept, FormerWorksKept, FormerHearsKept,
       UsersKept, TakeoverKept DEF LeadersNext

\* What is known of the two in every state.
LEMMA LeadersInvariant == LeadersSystem => []LeadersInv
  BY LeadersStart, LeadersStep, PTL DEF LeadersSystem

-----------------------------------------------------------------------------
(* What a change of leader cannot break.                                   *)

\* The Secret names a store and a model that exist, and the model is the one
\* its hash is of, whichever of the two managers wrote it and however stale
\* its caches were: each call of applySecret writes what its own run created
\* in OpenFGA or found in the Secret.
THEOREM LeadersStayFaithful == LeadersSystem => []SecretFaithful
  <1>1. LeadersInv => SecretFaithful
    BY DEF LeadersInv, ManagerInv, FaithfulInv
  <1> QED
    BY <1>1, LeadersInvariant, PTL

\* No module is called ready for a hash that nobody ever published, also when
\* a former leader reports the verdict of a run that began before the takeover.
THEOREM LeadersReportWhatTheyPublished == LeadersSystem => []ReadyWasPublished
  <1>1. LeadersInv => ReadyWasPublished
    BY DEF LeadersInv, ManagerInv, PublishedInv
  <1> QED
    BY <1>1, LeadersInvariant, PTL

\* Whenever the leader has nothing left to do, the Secret and every status
\* show its verdict of the modules that exist: what a former leader writes
\* after the takeover is an event to the leader, which repairs it.
THEOREM LeadersConverge == LeadersSystem => []QuietMeansConverged
  <1>1. LeadersInv => QuietMeansConverged
    BY ShownConverged DEF LeadersInv, ManagerInv, CalmInv, QuietMeansShown, QuietMeansConverged, TypeOK, FaithfulInv
  <1> QED
    BY <1>1, LeadersInvariant, PTL
=============================================================================
