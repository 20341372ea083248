-------------------------- MODULE RemoteDirectory --------------------------
(***************************************************************************)
(* Scans and uploads of the remote directory: directory_scanner.py and the *)
(* open, read, close and scan handlers of remote_directory.py.  A scan     *)
(* runs in a thread of its own, under DirectoryScanner._lock, and writes   *)
(* scan.json in the temporary directory.  An upload is a snapshot: opening *)
(* one copies scan.json or a file of the remote directory, and reads are   *)
(* answered from the copy, all in the WS thread.  It copies chunk by chunk *)
(* and without the lock, while a scan may write or the user make a change. *)
(*                                                                         *)
(* The server, the user of the device, who changes the remote directory,   *)
(* and the restarts of the agent are external.  Files outlive a restart.   *)
(* A result that is lost leaves the server where it was.                   *)
(***************************************************************************)
EXTENDS Integers, Sequences

CONSTANTS Scans,         \* scan requests, a thread each at most
          Uploads,       \* upload ids
          Chunks,        \* chunks in scan.json and in each file
          MaxVersion,    \* bound: versions of the remote directory
          MaxRestarts,   \* bound: restarts of the agent
          NoFile         \* where there is no file, no sequence of chunks

ASSUME SizeAssumption == /\ Chunks \in Nat \ {0} /\ MaxVersion \in Nat \ {0}
                         /\ MaxRestarts \in Nat
ASSUME LockAssumption == "free" \notin Scans
ASSUME FileAssumption == \A n \in 0..Chunks : NoFile \notin [1..n -> 1..MaxVersion]

VARIABLES tree,          \* version of the remote directory
          at,            \* where the thread of each scan is
          on_success,    \* scans that report, to the server that asked for them
          found,         \* the version each scan saw
          written,       \* chunks each scan has written
          lock,          \* owner of DirectoryScanner._lock
          scan_json,     \* the version of each chunk of scan.json
          snapshot,      \* the same for the snapshot of each upload, or NoFile
          copying,       \* the upload that is being copied, and from where
          since,         \* history: the version of its source when each was opened
          mixed,         \* history: uploads whose source changed during the copy
          size,          \* server: the size it was told of each upload, -1 if none
          data,          \* server: the version of each chunk it has read
          results,       \* scans whose result was sent
          restarts       \* restarts so far

scanner == <<at, on_success, found, written, lock, scan_json, results>>
uploads == <<snapshot, copying, since, mixed, size, data>>
vars    == <<tree, scanner, uploads, restarts>>

Paths    == {"scan.json", "file"}
Versions == 1..MaxVersion
NotOpen  == -1
Idle     == <<>>
Nothing  == [i \in 1..Chunks |-> 0]
Whole(v) == [i \in 1..Chunks |-> v]

Init == /\ tree = 1 /\ restarts = 0
        /\ at = [s \in Scans |-> "none"] /\ on_success = {} /\ lock = "free"
        /\ found = [s \in Scans |-> 0] /\ written = [s \in Scans |-> 0]
        /\ scan_json = NoFile /\ results = {}
        /\ snapshot = [u \in Uploads |-> NoFile] /\ copying = Idle
        /\ since = [u \in Uploads |-> 0] /\ mixed = {}
        /\ size = [u \in Uploads |-> NotOpen] /\ data = [u \in Uploads |-> Nothing]

Goto(s, from, to) == at[s] = from /\ at' = [at EXCEPT ![s] = to]

(* A change of what is being copied may leave versions mixed in the copy.  *)
Disturbs(path) ==
    mixed' = mixed \cup {u \in Uploads : copying = <<u, path>>}

-----------------------------------------------------------------------------
(* Plausible bugs of this code; each must break a property below.          *)
AcquireUnlocked(s) ==        \* no `with self._lock`
    /\ Goto(s, "started", "scanning") /\ lock' = s
    /\ UNCHANGED <<tree, on_success, found, written, scan_json, results, uploads, restarts>>
TruncateAppends(s) ==        \* opens the file to append
    /\ Goto(s, "opening", "writing")
    /\ scan_json' = IF scan_json = NoFile THEN <<>> ELSE scan_json
    /\ Disturbs("scan.json")
    /\ UNCHANGED <<tree, on_success, found, written, lock, results, restarts>>
    /\ UNCHANGED <<snapshot, copying, since, size, data>>
FailureLeavesLocked(s) ==    \* acquire() without a `finally`
    /\ Goto(s, "failing", "failed")
    /\ UNCHANGED <<tree, on_success, found, written, lock, scan_json, results, uploads, restarts>>
ChunkAtSource(u, i) ==       \* read_upload opens the file, not the snapshot
    IF snapshot[u] = NoFile THEN 0 ELSE tree

-----------------------------------------------------------------------------
(* The WS thread: requests to scan, by packet (which reports) or by        *)
(* instruction (which does not).                                           *)
PerformScan(s, reports) ==
    /\ copying = Idle
    /\ Goto(s, "none", IF lock = "free" THEN "started" ELSE "skipped")
    /\ on_success' = IF reports THEN on_success \cup {s} ELSE on_success
    /\ UNCHANGED <<tree, found, written, lock, scan_json, results, uploads, restarts>>
(* No more threads: the error is the result.                               *)
PerformScanFails(s, reports) ==
    /\ copying = Idle /\ lock = "free" /\ Goto(s, "none", "refused")
    /\ results' = IF reports THEN results \cup {s} ELSE results
    /\ UNCHANGED <<tree, on_success, found, written, lock, scan_json, uploads, restarts>>

-----------------------------------------------------------------------------
(* The thread of a scan: _perform_scan.                                    *)
Acquire(s) ==
    /\ lock = "free" /\ Goto(s, "started", "scanning") /\ lock' = s
    /\ UNCHANGED <<tree, on_success, found, written, scan_json, results, uploads, restarts>>
ScanDirectory(s) ==
    /\ Goto(s, "scanning", "opening") /\ found' = [found EXCEPT ![s] = tree]
    /\ UNCHANGED <<tree, on_success, written, lock, scan_json, results, uploads, restarts>>

(* write_scan: the file is truncated, then written.                        *)
Truncate(s) ==
    /\ Goto(s, "opening", "writing") /\ scan_json' = <<>> /\ Disturbs("scan.json")
    /\ UNCHANGED <<tree, on_success, found, written, lock, results, restarts>>
    /\ UNCHANGED <<snapshot, copying, since, size, data>>
WriteChunk(s) ==
    /\ Goto(s, "writing", IF written[s] + 1 = Chunks THEN "written" ELSE "writing")
    /\ written' = [written EXCEPT ![s] = @ + 1]
    /\ scan_json' = Append(scan_json, found[s])
    /\ UNCHANGED <<tree, on_success, found, lock, results, uploads, restarts>>

(* scan_directory, open or write raised: nobody is told.                   *)
Fails(s) ==
    /\ at[s] \in {"scanning", "opening", "writing"} /\ Goto(s, at[s], "failing")
    /\ UNCHANGED <<tree, on_success, found, written, lock, scan_json, results, uploads, restarts>>

Report(s) ==
    /\ Goto(s, "written", "leaving")
    /\ results' = IF s \in on_success THEN results \cup {s} ELSE results
    /\ UNCHANGED <<tree, on_success, found, written, lock, scan_json, uploads, restarts>>
Release(s) ==
    /\ Goto(s, "leaving", "ended") /\ lock' = "free"
    /\ UNCHANGED <<tree, on_success, found, written, scan_json, results, uploads, restarts>>
ReleaseFailed(s) ==
    /\ Goto(s, "failing", "failed") /\ lock' = "free"
    /\ UNCHANGED <<tree, on_success, found, written, scan_json, results, uploads, restarts>>

ThreadStep(s) == \/ Acquire(s) \/ ScanDirectory(s) \/ Truncate(s) \/ WriteChunk(s)
                 \/ Fails(s) \/ Report(s) \/ Release(s) \/ ReleaseFailed(s)

-----------------------------------------------------------------------------
(* The WS thread: uploads.                                                 *)

(* add_upload: what a file holds at the moment, its version, ...           *)
Contents(path) == IF path = "scan.json" THEN scan_json ELSE Whole(tree)
Version(path)  == IF Contents(path) = <<>> THEN 0 ELSE Contents(path)[1]

(* ... and copyfile: both files are opened, which truncates the snapshot,  *)
(* then a chunk of what is there is copied at a time, to the end.          *)
Open(u, path) ==
    /\ copying = Idle /\ Contents(path) # NoFile
    /\ copying' = <<u, path>>
    /\ snapshot' = [snapshot EXCEPT ![u] = <<>>]
    /\ since' = [since EXCEPT ![u] = Version(path)] /\ mixed' = mixed \ {u}
    /\ size' = [size EXCEPT ![u] = NotOpen]
    /\ data' = [data EXCEPT ![u] = Nothing]
    /\ UNCHANGED <<tree, scanner, restarts>>
CopyChunk(u, path) ==
    /\ copying = <<u, path>> /\ Len(snapshot[u]) < Len(Contents(path))
    /\ snapshot' = [snapshot EXCEPT ![u] = Append(@, Contents(path)[Len(@) + 1])]
    /\ UNCHANGED <<tree, scanner, copying, since, mixed, size, data, restarts>>
Opened(u, path) ==
    /\ copying = <<u, path>> /\ Len(snapshot[u]) >= Len(Contents(path))
    /\ copying' = Idle
    /\ size' = [size EXCEPT ![u] = Len(snapshot[u])]
    /\ UNCHANGED <<tree, scanner, snapshot, since, mixed, data, restarts>>

(* An illegal path, no space, no such file; or an error in the copy, which *)
(* leaves what was copied.                                                 *)
OpenFails(u) ==
    /\ copying = Idle
    /\ size' = [size EXCEPT ![u] = NotOpen]
    /\ data' = [data EXCEPT ![u] = Nothing]
    /\ UNCHANGED <<tree, scanner, snapshot, copying, since, mixed, restarts>>
CopyFails ==
    /\ copying # Idle /\ copying' = Idle
    /\ UNCHANGED <<tree, scanner, snapshot, since, mixed, size, data, restarts>>

(* read_upload: a chunk of the snapshot, no data at its end.               *)
ChunkAt(u, i) == IF i \in DOMAIN snapshot[u] THEN snapshot[u][i] ELSE 0
Read(u, i) ==
    /\ copying = Idle /\ size[u] # NotOpen /\ i \in 1..size[u]
    /\ data' = IF snapshot[u] = NoFile THEN data ELSE [data EXCEPT ![u][i] = ChunkAt(u, i)]
    /\ UNCHANGED <<tree, scanner, snapshot, copying, since, mixed, size, restarts>>

(* close_upload: an error to remove the file is logged.                    *)
CloseUpload(u) ==
    /\ copying = Idle
    /\ snapshot' \in {snapshot, [snapshot EXCEPT ![u] = NoFile]}
    /\ size' = [size EXCEPT ![u] = NotOpen]
    /\ data' = [data EXCEPT ![u] = Nothing]
    /\ UNCHANGED <<tree, scanner, copying, since, mixed, restarts>>

-----------------------------------------------------------------------------
UserChanges == /\ tree < MaxVersion /\ tree' = tree + 1 /\ Disturbs("file")
               /\ UNCHANGED <<scanner, snapshot, copying, since, size, data, restarts>>

(* The agent is killed (by ClockCheckThread, or with the device) and       *)
(* started again.                                                          *)
Resting == {"none", "skipped", "refused", "ended", "failed", "killed"}
Restart == /\ restarts < MaxRestarts /\ restarts' = restarts + 1
           /\ at' = [s \in Scans |-> IF at[s] \in Resting THEN at[s] ELSE "killed"]
           /\ lock' = "free" /\ copying' = Idle
           /\ UNCHANGED <<tree, on_success, found, written, scan_json, results>>
           /\ UNCHANGED <<snapshot, since, mixed, size, data>>

Next == \/ \E s \in Scans : \/ \E reports \in BOOLEAN : \/ PerformScan(s, reports)
                                                        \/ PerformScanFails(s, reports)
                            \/ ThreadStep(s)
        \/ \E u \in Uploads : \/ \E path \in Paths : \/ Open(u, path) \/ CopyChunk(u, path)
                                                     \/ Opened(u, path)
                              \/ OpenFails(u) \/ CloseUpload(u)
                              \/ \E i \in 1..Chunks : Read(u, i)
        \/ CopyFails \/ UserChanges \/ Restart

(* A started thread runs, and gets the lock if it is free again and again. *)
Fairness == \A s \in Scans : WF_vars(ThreadStep(s)) /\ SF_vars(Acquire(s))

Spec == Init /\ [][Next]_vars /\ Fairness

-----------------------------------------------------------------------------
Places == Resting \cup {"started", "scanning", "opening", "writing", "written",
                        "leaving", "failing"}
Content == UNION {[1..n -> Versions] : n \in 0..Chunks}

TypeOK ==
    /\ tree \in Versions /\ restarts \in 0..MaxRestarts
    /\ at \in [Scans -> Places] /\ on_success \subseteq Scans /\ results \subseteq Scans
    /\ found \in [Scans -> 0..MaxVersion] /\ written \in [Scans -> 0..Chunks]
    /\ lock = "free" \/ lock \in Scans
    /\ scan_json = NoFile \/ scan_json \in Content
    /\ copying = Idle \/ copying \in Uploads \X Paths
    /\ mixed \subseteq Uploads
    /\ \A u \in Uploads : /\ snapshot[u] = NoFile \/ snapshot[u] \in Content
                          /\ since[u] \in 0..MaxVersion
                          /\ size[u] = NotOpen \/ size[u] \in 0..Chunks
                          /\ data[u] \in [1..Chunks -> 0..MaxVersion]

(* What the server reads of an upload is one snapshot, and nothing it was  *)
(* told of is missing, whatever is scanned, changed, failed or restarted   *)
(* between the open and the last read.  No chunk is older than its source  *)
(* was when the upload was opened, or than a chunk before it; and they are *)
(* of one version, unless the source was written during the copy.          *)
UploadIsSnapshot == \A u \in Uploads : size[u] # NotOpen =>
    /\ snapshot[u] # NoFile /\ Len(snapshot[u]) = size[u]
    /\ \A i \in 1..size[u] : /\ data[u][i] \in {0, snapshot[u][i]}
                             /\ since[u] <= snapshot[u][i]
    /\ \A i, j \in 1..size[u] :
          i <= j => /\ snapshot[u][i] <= snapshot[u][j]
                    /\ u \in mixed \/ snapshot[u][i] = snapshot[u][j]

(* When a scan is reported, scan.json is the whole of what that scan saw:  *)
(* no other scan, or one a restart cut off, is mixed with it; and no scan  *)
(* saw a later version: what the server reads next does not go back.       *)
ReportedListingIsWhole == \A s \in Scans : at[s] \in {"written", "leaving"} =>
    /\ scan_json = Whole(found[s])
    /\ \A t \in Scans : found[t] <= found[s]

(* A scan that was started for the server is reported unless it fails or   *)
(* the agent restarts, although other scans fail before it.                *)
ScanAnswered == \A s \in Scans :
    at[s] = "started" /\ s \in on_success ~> s \in results \/ at[s] \in {"failed", "killed"}
=============================================================================
