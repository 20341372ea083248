-------------------------- MODULE ClientSync_proofs --------------------------
(***************************************************************************)
(* Proofs about ClientSync, for any number of identities, tag lists and    *)
(* fields of the meta data: its types, that the meta data marked as sent   *)
(* is held by the server, and that so is the identity marked as notified.  *)
(***************************************************************************)
EXTENDS ClientSync, TLAPS

Places == {"waiting", "disk", "tags", "tagging", "sync", "meta", "syncing",
           "idle", "given", "associating"}
InSync(th) == at[th] \in {"meta", "syncing"}
MetaHeld == \A f \in Fields : api.meta[f] # "none"

(* The lock is held exactly by the thread that is in sync.                 *)
LockHeldInSync == /\ at \in [Threads -> Places]
                  /\ \A th \in Threads : InSync(th) <=> sync_lock = th

(* What the API server holds.                                              *)
Api == [identity : {None} \cup Identities, tags : {None} \cup Tags, disk : BOOLEAN,
        meta : [Fields -> {"none", "offline", "online"}]]

(* Between a call and its answer: an answer that is good is one of a       *)
(* server that holds what was sent.                                        *)
GoodAnswerIsHeld ==
    /\ \A th \in Threads : at[th] = "syncing" /\ ok[th] => MetaHeld
    /\ at["ws"] = "associating" /\ ok["ws"] => api.identity = identity

IInv == TypeOK /\ LockHeldInSync /\ GoodAnswerIsHeld /\ SentMetaIsHeld /\ NotifiedIsHeld

-----------------------------------------------------------------------------
(* What a batch leaves in ok: the answer of the calling thread, which is   *)
(* good only if all of the calls were accepted.                            *)
LEMMA BatchAnswers ==
    ASSUME NEW th \in Threads, NEW calls, NEW accepted, TypeOK, Batch(th, calls, accepted)
    PROVE  /\ ok' \in [Threads -> BOOLEAN]
           /\ ok'[th] => accepted = calls
           /\ \A other \in Threads \ {th} : ok'[other] = ok[other]
BY DEF Batch, TypeOK

LEMMA InitIInv == Init => IInv
<1> SUFFICES ASSUME Init PROVE IInv
    OBVIOUS
<1>1. TypeOK
    <2>1. at["main"] = "disk" /\ at["ws"] = "idle" /\ ok \in [Threads -> BOOLEAN]
        BY DEF Init, Threads
    <2>2. api \in Api
        BY DEF Init, Api
    <2>3. given \in 0..MaxIdentity /\ tags \in Tags
        BY SizeAssumption DEF Init
    <2> QED BY <2>1, <2>2, <2>3 DEF Init, TypeOK, Threads, Api
<1>2. LockHeldInSync /\ GoodAnswerIsHeld /\ SentMetaIsHeld /\ NotifiedIsHeld
    BY DEF Init, LockHeldInSync, GoodAnswerIsHeld, SentMetaIsHeld, NotifiedIsHeld, InSync,
           Places, Threads
<1> QED BY <1>1, <1>2 DEF IInv

(* disk_poll and tag_poll touch neither the lock nor what it guards.       *)
Polling == PollAgain \/ DiskPoll \/ SkipTags \/ SendTags \/ TagsAnswered

LEMMA PollIInv == IInv /\ Polling => IInv'
<1> SUFFICES ASSUME IInv, Polling PROVE IInv'
    OBVIOUS
<1> USE DEF IInv, Threads
<1>1. ok' \in [Threads -> BOOLEAN] /\ ok'["ws"] = ok["ws"]
    BY BatchAnswers DEF Polling, PollAgain, DiskPoll, SkipTags, SendTags, TagsAnswered, TypeOK, Api
<1>2. /\ api'.meta = api.meta /\ api'.identity = api.identity
      /\ at["main"] \in {"waiting", "disk", "tags", "tagging"}
      /\ at' \in [Threads -> Places] /\ at'["ws"] = at["ws"]
      /\ at'["main"] \in {"disk", "tags", "tagging", "sync"}
    BY DEF Polling, PollAgain, DiskPoll, SkipTags, SendTags, TagsAnswered, TypeOK,
           LockHeldInSync, Goto, Places
<1>3. api' \in Api
    BY DEF Polling, PollAgain, DiskPoll, SkipTags, SendTags, TagsAnswered, TypeOK, Api
<1>4. UNCHANGED <<sync_lock, sent_meta, meta_cache, m2m, world>>
    BY DEF Polling, PollAgain, DiskPoll, SkipTags, SendTags, TagsAnswered
<1>5. /\ disk_due' \in BOOLEAN
      /\ wanted' \in {None} \cup Tags /\ tag_list' \in {None} \cup Tags
    BY DEF Polling, PollAgain, DiskPoll, SkipTags, SendTags, TagsAnswered, TypeOK
<1>6. TypeOK'
    BY <1>1, <1>2, <1>3, <1>4, <1>5 DEF TypeOK, Api, LockHeldInSync, m2m, world
<1>7. LockHeldInSync' /\ GoodAnswerIsHeld' /\ SentMetaIsHeld' /\ NotifiedIsHeld'
    BY <1>1, <1>2, <1>4 DEF LockHeldInSync, GoodAnswerIsHeld, MetaHeld, InSync, SentMetaIsHeld,
                            NotifiedIsHeld, m2m
<1> QED BY <1>6, <1>7

(* sync: one thread at a time sends the meta data and takes the answer.    *)
LEMMA SyncIInv == ASSUME NEW th \in Threads, IInv, Sync(th) PROVE IInv'
<1> USE DEF IInv, Threads
<1>1. CASE EnterSync(th)
    <2>1. at' \in [Threads -> Places] /\ \A other \in Threads \ {th} : at'[other] = at[other]
        BY <1>1 DEF EnterSync, LockHeldInSync, After, Places
    <2>2. TypeOK'
        BY <1>1, <2>1 DEF EnterSync, TypeOK, LockHeldInSync, After, m2m, world
    <2>3. LockHeldInSync'
        BY <1>1, <2>1 DEF EnterSync, LockHeldInSync, InSync, After, Places
    <2>4. GoodAnswerIsHeld' /\ SentMetaIsHeld' /\ NotifiedIsHeld'
        BY <1>1, <2>1 DEF EnterSync, GoodAnswerIsHeld, MetaHeld, SentMetaIsHeld, NotifiedIsHeld, LockHeldInSync,
                          After, m2m
    <2> QED BY <2>2, <2>3, <2>4
<1>2. CASE SendMeta(th)
    <2>1. /\ at' \in [Threads -> Places] /\ at[th] = "meta" /\ at'[th] = "syncing"
          /\ \A other \in Threads \ {th} : at'[other] = at[other]
        BY <1>2 DEF SendMeta, Goto, LockHeldInSync, Places
    <2>2. meta_cache' \in {"offline", "online"}
        BY <1>2 DEF SendMeta, TypeOK
    <2>3. PICK done \in SUBSET Fields :
              /\ Batch(th, Fields, done)
              /\ api' = [api EXCEPT !.meta = [f \in Fields |-> IF f \in done THEN meta_cache'
                                                               ELSE @[f]]]
        BY <1>2 DEF SendMeta
    <2>4. /\ ok' \in [Threads -> BOOLEAN]
          /\ ok'[th] => done = Fields
          /\ \A other \in Threads \ {th} : ok'[other] = ok[other]
        BY <2>3, BatchAnswers
    <2>5. /\ api' \in Api
          /\ api'.identity = api.identity
          /\ \A f \in Fields : api'.meta[f] = IF f \in done THEN meta_cache' ELSE api.meta[f]
        BY <2>2, <2>3 DEF TypeOK, Api
    <2>6. MetaHeld => MetaHeld'
        BY <2>2, <2>5 DEF MetaHeld
    <2>7. ok'[th] => MetaHeld'
        BY <2>2, <2>4, <2>5 DEF MetaHeld
    <2>8. TypeOK'
        <3>1. UNCHANGED <<sync_lock, sent_meta, tag_list, wanted, disk_due, m2m, world>>
            BY <1>2 DEF SendMeta
        <3>2. /\ at'["main"] \in {"waiting", "disk", "tags", "tagging", "sync", "meta", "syncing"}
              /\ at'["ws"] \in {"idle", "given", "associating", "sync", "meta", "syncing"}
              /\ sync_lock \in Threads => at'[sync_lock] \in {"meta", "syncing"}
            BY <2>1 DEF TypeOK
        <3> QED BY <2>2, <2>4, <2>5, <3>1, <3>2 DEF TypeOK, Api, m2m, world
    <2>9. LockHeldInSync'
        BY <1>2, <2>1 DEF SendMeta, LockHeldInSync, InSync
    <2>10. GoodAnswerIsHeld' /\ SentMetaIsHeld' /\ NotifiedIsHeld'
        BY <1>2, <2>1, <2>4, <2>5, <2>6, <2>7 DEF SendMeta, GoodAnswerIsHeld, MetaHeld,
               SentMetaIsHeld, NotifiedIsHeld, m2m
    <2> QED BY <2>8, <2>9, <2>10
<1>3. CASE LeaveSync(th)
    <2>1. /\ at' \in [Threads -> Places] /\ at[th] = "syncing" /\ at'[th] = After(th)
          /\ \A other \in Threads \ {th} : at'[other] = at[other]
        BY <1>3 DEF LeaveSync, Goto, LockHeldInSync, After, Places
    <2>2. TypeOK'
        BY <1>3, <2>1 DEF LeaveSync, TypeOK, After, m2m, world
    <2>3. LockHeldInSync'
        BY <1>3, <2>1 DEF LeaveSync, LockHeldInSync, InSync, After
    <2>4. GoodAnswerIsHeld' /\ SentMetaIsHeld' /\ NotifiedIsHeld'
        BY <1>3, <2>1 DEF LeaveSync, GoodAnswerIsHeld, MetaHeld, SentMetaIsHeld, NotifiedIsHeld, After, m2m
    <2> QED BY <2>2, <2>3, <2>4
<1> QED BY <1>1, <1>2, <1>3 DEF Sync

(* The events of the WS thread: identity changes only while no call for    *)
(* one is under way.                                                       *)
LEMMA EventIInv ==
    IInv /\ (OnReady \/ OnDisconnected \/ OnSetIdentity \/ OnPoll \/ OnSyncInstruction) => IInv'
<1> SUFFICES ASSUME IInv,
                    OnReady \/ OnDisconnected \/ OnSetIdentity \/ OnPoll \/ OnSyncInstruction
             PROVE  IInv'
    OBVIOUS
<1> USE DEF IInv, Threads, OnReady, OnDisconnected, OnSetIdentity, OnPoll, OnSyncInstruction, Goto,
            agent, m2m, world
<1>1. /\ at["ws"] = "idle" /\ at'["ws"] \in {"idle", "given", "sync"}
      /\ at' \in [Threads -> Places] /\ at'["main"] = at["main"]
      /\ UNCHANGED <<ok, sync_lock, sent_meta, notified, api>>
    BY DEF LockHeldInSync, Places
<1>2. identity' \in {None} \cup Identities /\ given' \in 0..MaxIdentity
    BY SizeAssumption DEF TypeOK, Identities
<1>3. TypeOK'
    BY <1>1, <1>2 DEF TypeOK
<1>4. LockHeldInSync' /\ GoodAnswerIsHeld' /\ SentMetaIsHeld' /\ NotifiedIsHeld'
    BY <1>1 DEF LockHeldInSync, GoodAnswerIsHeld, MetaHeld, InSync, SentMetaIsHeld, NotifiedIsHeld
<1> QED BY <1>3, <1>4

(* associate_device: the answer is good only if the server took identity.  *)
LEMMA AssociateIInv == IInv /\ (Associate \/ Associated) => IInv'
<1> SUFFICES ASSUME IInv, Associate \/ Associated PROVE IInv'
    OBVIOUS
<1> USE DEF IInv, Threads
<1>1. CASE Associate
    <2>1. PICK done \in SUBSET {"identity"} :
              /\ Batch("ws", {"identity"}, done)
              /\ api' = IF done = {} THEN api ELSE [api EXCEPT !.identity = identity]
        BY <1>1 DEF Associate
    <2>2. /\ ok' \in [Threads -> BOOLEAN] /\ ok'["main"] = ok["main"]
          /\ ok'["ws"] => done # {}
        BY <2>1, BatchAnswers
    <2>3. /\ api' \in Api
          /\ api'.meta = api.meta
          /\ ok'["ws"] => api'.identity = identity
        BY <2>1, <2>2 DEF TypeOK, Api
    <2>4. /\ at["ws"] = "given" /\ at'["ws"] = "associating"
          /\ at' \in [Threads -> Places] /\ at'["main"] = at["main"]
        BY <1>1 DEF Associate, Goto, LockHeldInSync, Places
    <2>5. TypeOK'
        BY <1>1, <2>2, <2>3, <2>4 DEF Associate, TypeOK, Api, m2m, world
    <2>6. LockHeldInSync' /\ GoodAnswerIsHeld' /\ SentMetaIsHeld' /\ NotifiedIsHeld'
        BY <1>1, <2>2, <2>3, <2>4 DEF Associate, LockHeldInSync, GoodAnswerIsHeld, MetaHeld,
               InSync, SentMetaIsHeld, NotifiedIsHeld, m2m
    <2> QED BY <2>5, <2>6
<1>2. CASE Associated
    <2>1. /\ at["ws"] = "associating" /\ at'["ws"] = "idle"
          /\ at' \in [Threads -> Places] /\ at'["main"] = at["main"]
        BY <1>2 DEF Associated, Goto, LockHeldInSync, Places
    <2>2. TypeOK'
        BY <1>2, <2>1 DEF Associated, TypeOK, world
    <2>3. LockHeldInSync' /\ GoodAnswerIsHeld' /\ SentMetaIsHeld' /\ NotifiedIsHeld'
        BY <1>2, <2>1 DEF Associated, LockHeldInSync, GoodAnswerIsHeld, MetaHeld, InSync,
               SentMetaIsHeld, NotifiedIsHeld
    <2> QED BY <2>2, <2>3
<1> QED BY <1>1, <1>2

(* The world, and steps that change nothing.                               *)
LEMMA WorldIInv ==
    IInv /\ (HourPasses \/ TagsChange \/ NetChanges \/ Heals \/ UNCHANGED vars) => IInv'
<1> SUFFICES ASSUME IInv,
                    HourPasses \/ TagsChange \/ NetChanges \/ Heals \/ UNCHANGED vars
             PROVE  IInv'
    OBVIOUS
<1> USE DEF IInv, HourPasses, TagsChange, NetChanges, Heals, vars, agent, m2m, world
<1>1. /\ UNCHANGED <<at, ok, sync_lock, sent_meta, notified, identity>>
      /\ api'.meta = api.meta /\ api'.identity = api.identity
    BY DEF TypeOK
<1>2. UNCHANGED <<ok, sync_lock, sent_meta, tag_list, wanted, meta_cache, identity, notified,
                  hello, link, given>>
    OBVIOUS
<1>3. api' \in Api
    BY DEF TypeOK, Api
<1>4. /\ disk_due' \in BOOLEAN /\ healthy' \in BOOLEAN /\ tags' \in Tags
      /\ net' \in {"offline", "online"}
    BY DEF TypeOK
<1>5. TypeOK'
    <2> HIDE DEF HourPasses, TagsChange, NetChanges, Heals, vars, agent, m2m, world
    <2> QED BY <1>1, <1>2, <1>3, <1>4 DEF TypeOK, Api
<1>6. LockHeldInSync' /\ GoodAnswerIsHeld' /\ SentMetaIsHeld' /\ NotifiedIsHeld'
    BY <1>1 DEF LockHeldInSync, GoodAnswerIsHeld, MetaHeld, InSync, SentMetaIsHeld, NotifiedIsHeld
<1> QED BY <1>5, <1>6

-----------------------------------------------------------------------------
LEMMA InvariantHolds == Spec => []IInv
<1>1. IInv /\ [Next]_vars => IInv'
    BY PollIInv, SyncIInv, EventIInv, AssociateIInv, WorldIInv
       DEF Next, MainStep, WsCall, Polling, Threads
<1> QED BY InitIInv, <1>1, PTL DEF Spec

(* The types of what the agent and the servers keep; with them that a      *)
(* thread that has _sync_lock is within `with self._sync_lock`.            *)
THEOREM ClientTypeOK == Spec => []TypeOK
<1>1. IInv => TypeOK
    BY DEF IInv
<1> QED BY <1>1, InvariantHolds, PTL

(* _sync_lock is held exactly within sync, so by one thread at a time.     *)
THEOREM ClientLock == Spec => []LockHeldInSync
<1>1. IInv => LockHeldInSync
    BY DEF IInv
<1> QED BY <1>1, InvariantHolds, PTL

(* _sent_meta is set only if the API server holds all of the meta data,    *)
(* whatever batches are refused and answers lost, in both threads.         *)
THEOREM ClientSentMetaIsHeld == Spec => []SentMetaIsHeld
<1>1. IInv => SentMetaIsHeld
    BY DEF IInv
<1> QED BY <1>1, InvariantHolds, PTL

(* notified_identity is the identity the API server holds, except while a  *)
(* call to change it is under way.                                         *)
THEOREM ClientNotifiedIsHeld == Spec => []NotifiedIsHeld
<1>1. IInv => NotifiedIsHeld
    BY DEF IInv
<1> QED BY <1>1, InvariantHolds, PTL
=============================================================================
