----------------------------- MODULE ClientSync -----------------------------
(***************************************************************************)
(* What the agent tells the API server about the device, client.py, and    *)
(* its m2m identity, m2mmanager.py and m2m/wsclient.py.  The main thread   *)
(* polls every minute: disk space once an hour, machine tags when they     *)
(* changed, and meta data (sync) until it was accepted once.  The WS       *)
(* thread passes on the identity the M2M server gave it, and syncs when it *)
(* is told to.  All of it goes out in JSON-RPC batches (jsonrpc.py) that   *)
(* may be refused as a whole or in part, and whose answer may be lost.     *)
(*                                                                         *)
(* A call is two steps: the server handles the batch, and the thread takes *)
(* the answer.  A batch that is not handled then is never handled.  The    *)
(* API server, the M2M server, the network and the tag script are external.*)
(***************************************************************************)
EXTENDS Naturals, FiniteSets

CONSTANTS MaxIdentity,   \* bound: identities the M2M server gives out
          MaxTags,       \* tag lists the tag script prints, by number
          Fields         \* fields of the meta data, one RPC call each

ASSUME SizeAssumption == MaxIdentity \in Nat /\ MaxTags \in Nat \ {0} /\ IsFiniteSet(Fields)

None == 0
Identities == 1..MaxIdentity
Tags == 1..MaxTags
Threads == {"main", "ws"}

VARIABLES at,            \* where each thread is
          ok,            \* the answer of each thread's call: all checks pass
          sync_lock,     \* owner of Client._sync_lock
          sent_meta,     \* Client._sent_meta
          tag_list,      \* Client._tag_list
          wanted,        \* the tag list of the tag_poll in progress
          disk_due,      \* now >= Client.next_disk_poll_time
          meta_cache,    \* device_meta._META_CACHE: the network state it was made in
          identity,      \* WSClient.identity
          notified,      \* M2MManager.notified_identity
          hello,         \* the packet last sent by on_ready
          link,          \* the websocket
          given,         \* M2M server: identities given out
          api,           \* API server: what it holds
          tags,          \* what the tag script prints now
          net,           \* the network of the device: "offline" or "online"
          healthy        \* from now on nothing fails any more

agent    == <<at, ok, sync_lock, sent_meta, tag_list, wanted, disk_due, meta_cache>>
m2m      == <<identity, notified, hello, link, given>>
world    == <<tags, net, healthy>>
vars     == <<agent, m2m, api, world>>

Init == /\ at = [main |-> "disk", ws |-> "idle"]
        /\ ok = [th \in Threads |-> FALSE]
        /\ sync_lock = "free" /\ sent_meta = FALSE
        /\ tag_list = None /\ wanted = None /\ disk_due = TRUE /\ meta_cache = "none"
        /\ identity = None /\ notified = None
        /\ hello = "none" /\ link = "down" /\ given = 0
        /\ api = [identity |-> None, tags |-> None, disk |-> FALSE,
                  meta |-> [f \in Fields |-> "none"]]
        /\ tags \in Tags /\ net \in {"offline", "online"} /\ healthy = FALSE

Goto(th, from, to) == at[th] = from /\ at' = [at EXCEPT ![th] = to]

-----------------------------------------------------------------------------
(* (A plausible bug: check() looks at the first call only.)                *)
BatchCheckedInPart(th, calls, accepted) ==
    /\ accepted \subseteq calls
    /\ healthy => accepted = calls
    /\ net = "offline" => accepted = {}
    /\ ok' = [ok EXCEPT ![th] = accepted # {}]

(* `with self.remote.batch() as batch`, with the given calls: the server   *)
(* accepts some of them, none if the device is offline or not authorized;  *)
(* get_result and check pass only if it accepted all and the answer came.  *)
Batch(th, calls, accepted) ==
    /\ accepted \subseteq calls
    /\ healthy => accepted = calls
    /\ net = "offline" => accepted = {}
    /\ \E answered \in BOOLEAN :
          /\ healthy => answered
          /\ net = "offline" => ~answered
          /\ ok' = [ok EXCEPT ![th] = answered /\ accepted = calls]

-----------------------------------------------------------------------------
(* Plausible bugs of this code; each must break a property below.          *)
LeaveSyncLocked(th) ==        \* acquire() without a `finally`
    /\ Goto(th, "syncing", IF th = "main" THEN "waiting" ELSE "idle")
    /\ sent_meta' = ok[th]
    /\ sync_lock' = IF ok[th] THEN "free" ELSE sync_lock
    /\ UNCHANGED <<ok, tag_list, wanted, disk_due, meta_cache, m2m, api, world>>
AssociatedAnyway ==           \* set_m2m_identity returns identity in each case
    /\ Goto("ws", "associating", "idle") /\ notified' = identity
    /\ UNCHANGED <<ok, sync_lock, sent_meta, tag_list, wanted, disk_due, meta_cache,
                   identity, hello, link, given, api, world>>
LeaveSyncMisspelt(th) ==      \* check() is given an id that no call has
    /\ Goto(th, "syncing", IF th = "main" THEN "waiting" ELSE "idle")
    /\ sync_lock' = "free"
    /\ UNCHANGED <<ok, sent_meta, tag_list, wanted, disk_due, meta_cache, m2m, api, world>>
OnPollIgnored ==              \* no sync_identity on "poll"
    /\ at["ws"] = "idle" /\ UNCHANGED vars

-----------------------------------------------------------------------------
(* Client.poll, in the main thread: disk_poll, tag_poll, sync.             *)

PollAgain == /\ Goto("main", "waiting", "disk")
             /\ UNCHANGED <<ok, sync_lock, sent_meta, tag_list, wanted, disk_due,
                            meta_cache, m2m, api, world>>

(* disk_poll: the next poll time is set first, and nothing is checked.     *)
DiskPoll ==
    /\ Goto("main", "disk", "tags") /\ disk_due' = FALSE
    /\ \/ /\ ~disk_due /\ UNCHANGED <<ok, api>>
       \/ /\ disk_due
          /\ \E done \in SUBSET {"disk"} :
                /\ Batch("main", {"disk"}, done)
                /\ api' = IF done = {} THEN api ELSE [api EXCEPT !.disk = TRUE]
    /\ UNCHANGED <<sync_lock, sent_meta, tag_list, wanted, meta_cache, m2m, world>>

(* tag_poll: nothing to do if the script fails or prints what it did.      *)
SkipTags ==
    /\ Goto("main", "tags", "sync")
    /\ tags = tag_list \/ ~healthy
    /\ UNCHANGED <<ok, sync_lock, sent_meta, tag_list, wanted, disk_due, meta_cache,
                   m2m, api, world>>
SendTags ==
    /\ Goto("main", "tags", "tagging") /\ tags # tag_list
    /\ wanted' = tags
    /\ \E done \in SUBSET {"tags"} :
          /\ Batch("main", {"tags"}, done)
          /\ api' = IF done = {} THEN api ELSE [api EXCEPT !.tags = tags]
    /\ UNCHANGED <<sync_lock, sent_meta, tag_list, disk_due, meta_cache, m2m, world>>
TagsAnswered ==
    /\ Goto("main", "tagging", "sync")
    /\ tag_list' = IF ok["main"] THEN wanted ELSE tag_list
    /\ wanted' = None
    /\ UNCHANGED <<ok, sync_lock, sent_meta, disk_due, meta_cache, m2m, api, world>>

(* sync, in either thread: with _sync_lock, if not self._sent_meta.        *)
After(th) == IF th = "main" THEN "waiting" ELSE "idle"
EnterSync(th) ==
    /\ at[th] = "sync" /\ sync_lock = "free"
    /\ IF sent_meta
       THEN at' = [at EXCEPT ![th] = After(th)] /\ UNCHANGED sync_lock
       ELSE at' = [at EXCEPT ![th] = "meta"] /\ sync_lock' = th
    /\ UNCHANGED <<ok, sent_meta, tag_list, wanted, disk_due, meta_cache, m2m, api, world>>

(* get_meta and the batch of _sync_meta: the cache is filled once.         *)
SendMeta(th) ==
    /\ Goto(th, "meta", "syncing")
    /\ meta_cache' = IF meta_cache = "none" THEN net ELSE meta_cache
    /\ \E done \in SUBSET Fields :
          /\ Batch(th, Fields, done)
          /\ api' = [api EXCEPT !.meta = [f \in Fields |-> IF f \in done THEN meta_cache'
                                                           ELSE @[f]]]
    /\ UNCHANGED <<sync_lock, sent_meta, tag_list, wanted, disk_due, m2m, world>>
LeaveSync(th) ==
    /\ Goto(th, "syncing", After(th))
    /\ sent_meta' = ok[th] /\ sync_lock' = "free"
    /\ UNCHANGED <<ok, tag_list, wanted, disk_due, meta_cache, m2m, api, world>>

Sync(th) == EnterSync(th) \/ SendMeta(th) \/ LeaveSync(th)

-----------------------------------------------------------------------------
(* The WS thread, an event at a time.                                      *)

(* on_ready: join, or identify if there is an identity.                    *)
OnReady ==
    /\ at["ws"] = "idle" /\ net = "online" /\ link = "down" /\ link' = "up"
    /\ hello' = IF identity = None THEN "request_join" ELSE "request_identify"
    /\ UNCHANGED <<agent, identity, notified, given, api, world>>
OnDisconnected ==
    /\ at["ws"] = "idle" /\ link = "up" /\ link' = "down" /\ identity' = None
    /\ UNCHANGED <<agent, notified, hello, given, api, world>>

(* handle_set_identity, then sync_identity.                                *)
OnSetIdentity ==
    /\ Goto("ws", "idle", "given") /\ link = "up" /\ given < MaxIdentity
    /\ given' = given + 1 /\ identity' = given + 1
    /\ UNCHANGED <<ok, sync_lock, sent_meta, tag_list, wanted, disk_due, meta_cache,
                   notified, hello, link, api, world>>

(* lomond's "poll" event, every few seconds while connected.               *)
OnPoll == /\ Goto("ws", "idle", "given") /\ link = "up"
          /\ identity \notin {None, notified}
          /\ UNCHANGED <<ok, sync_lock, sent_meta, tag_list, wanted, disk_due, meta_cache,
                         m2m, api, world>>

(* M2MManager.set_identity and Client.set_m2m_identity.                    *)
Associate ==
    /\ Goto("ws", "given", "associating") /\ identity # notified
    /\ \E done \in SUBSET {"identity"} :
          /\ Batch("ws", {"identity"}, done)
          /\ api' = IF done = {} THEN api ELSE [api EXCEPT !.identity = identity]
    /\ UNCHANGED <<sync_lock, sent_meta, tag_list, wanted, disk_due, meta_cache, m2m, world>>
Associated ==
    /\ Goto("ws", "associating", "idle")
    /\ notified' = IF ok["ws"] THEN identity ELSE None
    /\ UNCHANGED <<ok, sync_lock, sent_meta, tag_list, wanted, disk_due, meta_cache,
                   identity, hello, link, given, api, world>>

(* The "sync" instruction.                                                 *)
OnSyncInstruction ==
    /\ Goto("ws", "idle", "sync") /\ link = "up"
    /\ UNCHANGED <<ok, sync_lock, sent_meta, tag_list, wanted, disk_due, meta_cache,
                   m2m, api, world>>

-----------------------------------------------------------------------------
(* The world.                                                              *)
HourPasses == /\ at["main"] = "waiting" /\ ~disk_due /\ disk_due' = TRUE
              /\ api' = [api EXCEPT !.disk = FALSE]
              /\ UNCHANGED <<at, ok, sync_lock, sent_meta, tag_list, wanted, meta_cache,
                             m2m, world>>
TagsChange == /\ tags' \in Tags \ {tags} /\ UNCHANGED <<agent, m2m, api, net, healthy>>
NetChanges == /\ ~healthy /\ net' \in {"offline", "online"} \ {net}
              /\ UNCHANGED <<agent, m2m, api, tags, healthy>>
Heals == /\ ~healthy /\ healthy' = TRUE /\ net' = "online"
         /\ UNCHANGED <<agent, m2m, api, tags>>

MainStep == \/ PollAgain \/ DiskPoll \/ SkipTags \/ SendTags \/ TagsAnswered \/ Sync("main")
WsCall   == Associate \/ Associated \/ Sync("ws")

Next == \/ MainStep \/ WsCall \/ OnReady \/ OnDisconnected \/ OnSetIdentity \/ OnPoll
        \/ OnSyncInstruction \/ HourPasses \/ TagsChange \/ NetChanges \/ Heals

(* Both threads run, also when they compete for the lock; poll events keep *)
(* coming among the other events.                                          *)
Fairness == /\ WF_vars(MainStep) /\ SF_vars(EnterSync("main"))
            /\ WF_vars(WsCall) /\ SF_vars(OnPoll)

Spec == Init /\ [][Next]_vars /\ Fairness

-----------------------------------------------------------------------------
TypeOK ==
    /\ at["main"] \in {"waiting", "disk", "tags", "tagging", "sync", "meta", "syncing"}
    /\ at["ws"] \in {"idle", "given", "associating", "sync", "meta", "syncing"}
    /\ ok \in [Threads -> BOOLEAN] /\ sync_lock \in Threads \cup {"free"}
    /\ sync_lock \in Threads => at[sync_lock] \in {"meta", "syncing"}
    /\ sent_meta \in BOOLEAN /\ disk_due \in BOOLEAN /\ healthy \in BOOLEAN
    /\ tags \in Tags /\ tag_list \in {None} \cup Tags /\ wanted \in {None} \cup Tags
    /\ net \in {"offline", "online"} /\ meta_cache \in {"none", "offline", "online"}
    /\ identity \in {None} \cup Identities /\ notified \in {None} \cup Identities
    /\ given \in 0..MaxIdentity /\ link \in {"up", "down"}
    /\ hello \in {"none", "request_join", "request_identify"}
    /\ api \in [identity : {None} \cup Identities, tags : {None} \cup Tags, disk : BOOLEAN,
                meta : [Fields -> {"none", "offline", "online"}]]

(* Meta data is never sent again only if the server holds all of it: a     *)
(* batch accepted in part, or by the other thread, is no success.          *)
SentMetaIsHeld == sent_meta => \A f \in Fields : api.meta[f] # "none"

(* "The identity if it was set": what the manager believes the server was  *)
(* notified of is what the server holds, over lost answers, refused calls  *)
(* and identities that change with each connection.                        *)
NotifiedIsHeld ==
    at["ws"] # "associating" /\ notified # None => api.identity = notified

(* Once nothing fails any more, the server comes to hold the identity of a *)
(* connection that lasts ...                                               *)
IdentityConverges == \A i \in Identities :
    <>[](healthy /\ identity = i) => <>[](api.identity = i)

(* ... and all of the meta data.                                           *)
MetaConverges == healthy ~> sent_meta
=============================================================================
