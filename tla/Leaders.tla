------------------------------- MODULE Leaders -------------------------------
(***************************************************************************)
(* Two managers over one API server: a change of leader.                   *)
(*                                                                         *)
(* Reconciler's own variables are those of the leader.  A manager whose    *)
(* lease ran out while it was stalled is the former leader: it has caches, *)
(* a queue and a worker of its own, and goes on with its calls until it    *)
(* notices and exits.  Nothing in a call tells the API server or OpenFGA   *)
(* which of the two sent it.  Without leader election (the default of the  *)
(* flag --leader-elect) two managers are in the same position for as long  *)
(* as they both run: a takeover in the first state, and no exit.           *)
(*                                                                         *)
(* A restart of the leader is a takeover whose former leader exits at once.*)
(***************************************************************************)
EXTENDS Reconciler

VARIABLES
    lingering, \* is there a former leader?
    \* What Reconciler says of these variables, of the former leader.
    fModWatch, fSecWatch, fModCache, fSecCache, fQueue, fSettings,
    fPc, fKey, fItems, fVerdict, fExisting, fStoreID, fModelID

Former == INSTANCE Reconciler
          WITH modWatch <- fModWatch, secWatch <- fSecWatch,
               modCache <- fModCache, secCache <- fSecCache,
               queue <- fQueue, settings <- fSettings, pc <- fPc, key <- fKey,
               items <- fItems, verdict <- fVerdict, existing <- fExisting,
               storeID <- fStoreID, modelID <- fModelID

leaderVars == <<modWatch, secWatch, caches, queue, settings, pc, locals>>
formerStreams == <<fModWatch, fSecWatch>>
formerWorker == <<fModCache, fSecCache, fQueue, fSettings,
                  fPc, fKey, fItems, fVerdict, fExisting, fStoreID, fModelID>>
formerVars == <<formerStreams, formerWorker>>
leadersVars == <<vars, formerVars, lingering>>

-----------------------------------------------------------------------------
(* Both managers watch the same server.                                    *)

ModuleEvents ==
    IF modules' = modules THEN <<>>
    ELSE LET n == CHOOSE n \in Name : modules'[n] # modules[n]
         IN <<[name |-> n, obj |-> modules'[n]]>>

SecretEvents == IF secret' = secret THEN <<>> ELSE <<secret'>>

\* What a step of the leader, or of a user, changes at the server is on its
\* way to the former leader as well, and the reverse.
FeedFormer ==
    IF lingering
    THEN /\ fModWatch' = fModWatch \o ModuleEvents /\ Len(fModWatch') <= MaxLag
         /\ fSecWatch' = fSecWatch \o SecretEvents /\ Len(fSecWatch') <= MaxLag
    ELSE UNCHANGED formerStreams

FeedLeader ==
    /\ modWatch' = modWatch \o ModuleEvents /\ Len(modWatch') <= MaxLag
    /\ secWatch' = secWatch \o SecretEvents /\ Len(secWatch') <= MaxLag

\* OpenFGA knows no leader: its new identifiers are new to both.
AllStoresSeen == StoresSeen \cup Former!StoresSeen
AllModelsSeen == ModelsSeen \cup Former!ModelsSeen

FreshStore == CHOOSE s \in StoreId : s \notin AllStoresSeen
FreshModel == CHOOSE m \in ModelId : m \notin AllModelsSeen

-----------------------------------------------------------------------------
LeaderWorks ==
    /\ \/ ListAndBuild \/ DeleteSecret \/ GetSecret \/ ApplySecret \/ PatchStatus
       \/ CreateStoreAs(FreshStore, AllStoresSeen)
       \/ WriteModelAs(FreshModel, AllModelsSeen)
    /\ FeedFormer
    /\ UNCHANGED <<formerWorker, lingering>>

LeaderHears == (DeliverModule \/ DeliverSecret) /\ UNCHANGED <<formerVars, lingering>>

FormerWorks ==
    /\ lingering
    /\ \/ Former!ListAndBuild \/ Former!DeleteSecret \/ Former!GetSecret
       \/ Former!ApplySecret \/ Former!PatchStatus
       \/ Former!CreateStoreAs(FreshStore, AllStoresSeen)
       \/ Former!WriteModelAs(FreshModel, AllModelsSeen)
    /\ FeedLeader
    /\ UNCHANGED <<caches, queue, settings, pc, locals, lingering>>

FormerHears ==
    /\ lingering
    /\ Former!DeliverModule \/ Former!DeliverSecret
    /\ UNCHANGED <<leaderVars, lingering>>

Users ==
    /\ CreateModule \/ UpdateModule \/ RemoveModule \/ RemoveSecret \/ EditSecret
    /\ FeedFormer
    /\ UNCHANGED <<formerWorker, lingering>>

\* The lease runs out wherever the leader is, and another manager starts to
\* lead: its caches are fresh, its environment may be another.
Takeover ==
    /\ ~lingering
    /\ lingering' = TRUE
    /\ Restart
    /\ fModWatch' = modWatch /\ fSecWatch' = secWatch
    /\ fModCache' = modCache /\ fSecCache' = secCache
    /\ fQueue' = queue /\ fSettings' = settings
    /\ fPc' = pc /\ fKey' = key /\ fItems' = items /\ fVerdict' = verdict
    /\ fExisting' = existing /\ fStoreID' = storeID /\ fModelID' = modelID

\* The former leader finds that it could not renew its lease; Start returns
\* an error and the process exits, wherever its worker is.
Exit ==
    /\ lingering
    /\ lingering' = FALSE
    /\ fModWatch' = <<>> /\ fSecWatch' = <<>>
    /\ fModCache' = [n \in Name |-> NoModule] /\ fSecCache' = NoSecret
    /\ fQueue' = {} /\ fSettings' = settings
    /\ fPc' = "idle" /\ fKey' = None /\ fItems' = <<>> /\ fVerdict' = NoVerdict
    /\ fExisting' = NoSecret /\ fStoreID' = None /\ fModelID' = None
    /\ UNCHANGED vars

-----------------------------------------------------------------------------
\* The caches of a fresh cluster; they mean nothing if there is no former leader.
FormerInit ==
    /\ fModWatch = <<>> /\ fSecWatch = <<>>
    /\ fModCache = [n \in Name |-> NoModule] /\ fSecCache = NoSecret
    /\ fQueue = {} /\ fSettings = settings
    /\ fPc = "idle" /\ fKey = None /\ fItems = <<>> /\ fVerdict = NoVerdict
    /\ fExisting = NoSecret /\ fStoreID = None /\ fModelID = None

LeadersInit == Init /\ lingering = FALSE /\ FormerInit

LeadersNext ==
    LeaderWorks \/ LeaderHears \/ FormerWorks \/ FormerHears \/ Users \/ Takeover \/ Exit

LeadersSystem == LeadersInit /\ [][LeadersNext]_leadersVars
-----------------------------------------------------------------------------
(* SecretFaithful, ReadyWasPublished and QuietMeansConverged are asked of  *)
(* the leader also while a former leader runs: whatever the latter does,   *)
(* the former comes to hear of and repairs.  That only one manager's calls *)
(* have an effect is not so, and not asked.                                *)
=============================================================================
