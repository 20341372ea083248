------------------------------ MODULE Download ------------------------------
(***************************************************************************)
(* Downloads to the remote directory: on_write_remote_file, add_download   *)
(* and copy_download of remote_directory.py.  The server sends a file in   *)
(* chunks, each at its offset and each answered, by the WS thread.  The    *)
(* first has no device path: a temporary file is created for it.  The last *)
(* is marked final: the file is moved into the remote directory, under a   *)
(* name that is free.  It is renamed, or, where the temporary files are on *)
(* another file system, copied, and can be seen under its final name while *)
(* it is.  Each download here has the same name.                           *)
(*                                                                         *)
(* The server is external, as the packets suggest it: it sends a chunk     *)
(* again if the answer is lost, and may start over after a failure.  So    *)
(* are the user of the device, who also creates files, and restarts.       *)
(***************************************************************************)
EXTENDS Naturals, Sequences, FiniteSets

CONSTANTS Downloads,     \* downloads, by id
          Chunks,        \* chunks of each
          MaxTries,      \* names tried: "foo", "foo(1)", ..., "foo(100)" in the code
          NoFile,        \* where there is no file
          User           \* of a file of the user

ASSUME SizeAssumption == Chunks \in Nat \ {0} /\ MaxTries \in Nat

VARIABLES temp,          \* temporary file of each download: chunks, or NoFile
          dest,          \* the files in the remote directory, by name
          pc,            \* WS thread: "idle", "choosing", "moving" or "copying"
          job,           \* the download that copy_download is for
          name,          \* its destination_path
          acked,         \* server: chunks of each it knows to be written
          device_path,   \* server: downloads it knows the path of
          told           \* server: "going", "stored" or "failed"

server == <<acked, device_path, told>>
vars   == <<temp, dest, pc, job, name, server>>

Names == 0..MaxTries
NotChosen == MaxTries + 1

(* Chunk 0 is a hole, that a write past the end of a file leaves.          *)
File(d, chunks) == [of |-> d, chunks |-> chunks]
Whole(d) == File(d, [i \in 1..Chunks |-> i])

ASSUME FileAssumption ==
    /\ User \notin Downloads
    /\ \A d \in Downloads, k \in 0..Chunks : File(d, [i \in 1..k |-> i]) # NoFile

Init == /\ temp = [d \in Downloads |-> NoFile] /\ dest = [n \in Names |-> NoFile]
        /\ pc = "idle" /\ job \in Downloads /\ name = NotChosen
        /\ acked = [d \in Downloads |-> 0] /\ device_path = {}
        /\ told = [d \in Downloads |-> "going"]

-----------------------------------------------------------------------------
(* Plausible bugs of this code; each must break a property below.          *)
PutAppends(chunks, i) == Append(chunks, i)     \* "ab" for "r+b"
AnyFree(n) == n = 0                          \* does not look for a free name

(* seek, write: chunk i in a file.                                         *)
Put(chunks, i) == [k \in 1..(IF i > Len(chunks) THEN i ELSE Len(chunks)) |->
                     IF k = i THEN i ELSE IF k \in DOMAIN chunks THEN chunks[k] ELSE 0]

-----------------------------------------------------------------------------
(* The result packet reaches the server, or the server sends the chunk     *)
(* again.                                                                  *)
Answer(d, result) ==
    \/ UNCHANGED server
    \/ /\ told' = [told EXCEPT ![d] = result] /\ device_path' = device_path \cup {d}
       /\ acked' = IF result = "failed" THEN acked ELSE [acked EXCEPT ![d] = @ + 1]

(* (A plausible bug: copy_download logs the error and does not raise.)     *)
MoveFailsQuietly ==
    /\ pc = "moving" /\ pc' = "idle" /\ name' = NotChosen
    /\ Answer(job, "stored") /\ UNCHANGED <<temp, dest, job>>

Receiving(d) == pc = "idle" /\ told[d] = "going"

(* The temporary file to write to: created, or truncated, for a request    *)
(* without a device path.                                                  *)
Target(d) == IF d \in device_path THEN temp[d] ELSE <<>>

Write(d) ==
    /\ Receiving(d) /\ Target(d) # NoFile
    /\ temp' = [temp EXCEPT ![d] = Put(Target(d), acked[d] + 1)]
    /\ \/ /\ acked[d] + 1 < Chunks /\ Answer(d, "going") /\ UNCHANGED <<pc, job>>
       \/ /\ acked[d] + 1 = Chunks /\ pc' = "choosing" /\ job' = d /\ UNCHANGED server
    /\ UNCHANGED <<dest, name>>

(* The temporary file cannot be created.                                   *)
AddDownloadFails(d) ==
    /\ Receiving(d) /\ d \notin device_path
    /\ Answer(d, "failed")
    /\ UNCHANGED <<temp, dest, pc, job, name>>
(* It is gone or cannot be written: it is removed, if it can be.           *)
WriteFails(d) ==
    /\ Receiving(d)
    /\ \/ temp' = [temp EXCEPT ![d] = NoFile]
       \/ temp' = [temp EXCEPT ![d] = Target(d)]
    /\ Answer(d, "failed")
    /\ UNCHANGED <<dest, pc, job, name>>

(* copy_download: the first free name ...                                  *)
Free(n) == dest[n] = NoFile /\ \A k \in Names : k < n => dest[k] # NoFile
Choose(n) ==
    /\ pc = "choosing" /\ Free(n) /\ pc' = "moving" /\ name' = n
    /\ UNCHANGED <<temp, dest, job, server>>
TooManyCopies ==
    /\ pc = "choosing" /\ \A n \in Names : dest[n] # NoFile
    /\ pc' = "idle" /\ Answer(job, "failed")
    /\ UNCHANGED <<temp, dest, job, name>>

(* ... then os.rename, which replaces what has that name by now ...        *)
Rename ==
    /\ pc = "moving" /\ pc' = "idle" /\ name' = NotChosen
    /\ temp[job] # NoFile
    /\ dest' = [dest EXCEPT ![name] = File(job, temp[job])]
    /\ temp' = [temp EXCEPT ![job] = NoFile]
    /\ Answer(job, "stored") /\ UNCHANGED job

(* ... or, if that fails, shutil.move, which across file systems truncates *)
(* what has the name, copies the data, and removes the temporary file.     *)
BeginCopy ==
    /\ pc = "moving" /\ pc' = "copying"
    /\ temp[job] # NoFile
    /\ dest' = [dest EXCEPT ![name] = File(job, <<>>)]
    /\ UNCHANGED <<temp, job, name, server>>
CopyChunk ==
    /\ pc = "copying" /\ Len(dest[name].chunks) < Len(temp[job])
    /\ LET done == dest[name].chunks
       IN  dest' = [dest EXCEPT ![name] = File(job, Append(done, temp[job][Len(done) + 1]))]
    /\ UNCHANGED <<temp, pc, job, name, server>>
EndCopy ==
    /\ pc = "copying" /\ pc' = "idle" /\ name' = NotChosen
    /\ dest[name].chunks = temp[job]
    /\ temp' = [temp EXCEPT ![job] = NoFile]
    /\ Answer(job, "stored") /\ UNCHANGED <<dest, job>>

(* Neither renamed nor moved: what was copied stays.                       *)
MoveFails ==
    /\ pc \in {"moving", "copying"} /\ pc' = "idle" /\ name' = NotChosen
    /\ Answer(job, "failed") /\ UNCHANGED <<temp, dest, job>>

-----------------------------------------------------------------------------
(* The server starts over, as with a new download.                         *)
StartOver(d) ==
    /\ told[d] = "failed" /\ told' = [told EXCEPT ![d] = "going"]
    /\ acked' = [acked EXCEPT ![d] = 0] /\ device_path' = device_path \ {d}
    /\ UNCHANGED <<temp, dest, pc, job, name>>
UserCreates(n) ==
    /\ dest[n] = NoFile /\ dest' = [dest EXCEPT ![n] = File(User, <<>>)]
    /\ UNCHANGED <<temp, pc, job, name, server>>
Restart ==
    /\ pc # "idle" /\ pc' = "idle" /\ name' = NotChosen
    /\ UNCHANGED <<temp, dest, job, server>>

Next == \/ \E d \in Downloads : \/ Write(d) \/ AddDownloadFails(d) \/ WriteFails(d)
                                \/ StartOver(d)
        \/ \E n \in Names : Choose(n) \/ UserCreates(n)
        \/ TooManyCopies \/ Rename \/ BeginCopy \/ CopyChunk \/ EndCopy
        \/ MoveFails \/ Restart

Spec == Init /\ [][Next]_vars

-----------------------------------------------------------------------------
TypeOK ==
    /\ \A d \in Downloads :
          /\ temp[d] = NoFile \/ temp[d] \in UNION {[1..n -> 1..Chunks] : n \in 0..Chunks}
          /\ acked[d] \in 0..Chunks /\ told[d] \in {"going", "stored", "failed"}
    /\ \A n \in Names : dest[n] = NoFile \/ dest[n].of \in Downloads \cup {User}
    /\ pc \in {"idle", "choosing", "moving", "copying"} /\ job \in Downloads
    /\ name \in Names \cup {NotChosen} /\ device_path \subseteq Downloads

(* A download the server was told was stored is in the remote directory,   *)
(* and whole, whatever was sent again, failed or was cut off on the way.   *)
StoredIsWhole == \A d \in Downloads :
    told[d] = "stored" => \E n \in Names : dest[n] = Whole(d)

(* "If the foo.bar exists, try foo.copyN.bar": a download, or a copy of    *)
(* one, is never replaced by another; the one being copied grows.          *)
NoDownloadReplaced ==
    [][\A n \in Names :
          \/ dest[n] = NoFile \/ dest[n].of = User \/ dest'[n] = dest[n]
          \/ \E i \in 1..Chunks :
                dest'[n] = File(dest[n].of, Append(dest[n].chunks, i))]_vars

(* What the remote directory promises the server: a download is there as a *)
(* whole when the server is told that it is stored, and stays, or it       *)
(* fails, although it is written chunk by chunk to a file elsewhere, moved *)
(* or copied after a name was chosen, and cut off anywhere.                *)
Directory == INSTANCE Store WITH
                growing <- IF pc = "copying" THEN name ELSE NotChosen, Nowhere <- NotChosen
ImplementsStore == Directory!Spec
=============================================================================
