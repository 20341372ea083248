-------------------------- MODULE Download_proofs --------------------------
(***************************************************************************)
(* Proofs about Download, for any number of downloads, chunks and names:   *)
(* its state keeps its type, no download replaces another, and one the     *)
(* server was told was stored is there and whole; Download implements      *)
(* Store.                                                                  *)
(***************************************************************************)
EXTENDS Download, SequenceTheorems, TLAPS

Upto(k) == [i \in 1..k |-> i]

Types == /\ DOMAIN temp = Downloads /\ DOMAIN dest = Names
         /\ pc \in {"idle", "choosing", "moving", "copying"} /\ job \in Downloads
         /\ acked \in [Downloads -> Nat] /\ device_path \subseteq Downloads
         /\ told \in [Downloads -> {"going", "stored", "failed"}]

(* What the server has sent so far is in the temporary file, and perhaps   *)
(* one chunk more, whose answer was lost.                                  *)
TempFollowsServer == \A d \in Downloads : told[d] = "going" =>
    IF d \in device_path
    THEN temp[d] = NoFile \/ temp[d] = Upto(acked[d]) \/ temp[d] = Upto(acked[d] + 1)
    ELSE acked[d] = 0

(* copy_download moves a whole file, ...                                   *)
CopiesWhole == pc # "idle" =>
    temp[job] = Upto(Chunks) /\ told[job] = "going" /\ acked[job] + 1 = Chunks

(* ... to a name where there was nothing, or is a file the user made since.*)
TargetIsFree == pc = "moving" =>
    name \in Names /\ (dest[name] = NoFile \/ dest[name].of = User)

(* While it is copied, what is there is a beginning of it.                 *)
CopyIsBeginning == pc = "copying" =>
    name \in Names /\ \E k \in 0..Chunks : dest[name] = File(job, Upto(k))

(* A temporary file is a beginning of the download, also after a failure,  *)
(* and chunks are sent until the last is answered.                         *)
TempIsBeginning == \A d \in Downloads :
    temp[d] = NoFile \/ \E k \in 0..Chunks : temp[d] = Upto(k)
CountsChunks == \A d \in Downloads :
    acked[d] <= Chunks /\ (told[d] = "going" => acked[d] < Chunks)

(* Who made what is in the remote directory, and what is being copied.     *)
DestIsKnown == \A n \in Names : dest[n] = NoFile \/ dest[n].of \in Downloads \cup {User}
NameIsKnown == name \in Names \cup {NotChosen}

Stores == /\ Types /\ TempFollowsServer /\ CopiesWhole /\ TargetIsFree /\ CopyIsBeginning
          /\ StoredIsWhole
Counts == TempIsBeginning /\ CountsChunks /\ DestIsKnown /\ NameIsKnown
IInv == Stores /\ Counts

USE SizeAssumption, FileAssumption

-----------------------------------------------------------------------------
(* The next chunk, or the last one again, makes the file one of the chunks *)
(* up to it.                                                               *)
LEMMA PutNext ==
    ASSUME NEW a \in Nat, NEW k \in {a, a + 1}
    PROVE  Put(Upto(k), a + 1) = Upto(a + 1)
BY DEF Put, Upto

(* A file that was created or truncated has no chunks.                     *)
LEMMA UptoNone == Upto(0) = <<>>
BY DEF Upto

(* Chunk by chunk, a file grows to one of the chunks up to the next.       *)
LEMMA UptoNext ==
    ASSUME NEW k \in Nat
    PROVE  Len(Upto(k)) = k /\ Append(Upto(k), k + 1) = Upto(k + 1)
<1>1. \A n \in Nat : Upto(n) \in Seq(Nat) /\ Len(Upto(n)) = n
    BY IsASeq DEF Upto
<1>2. /\ Append(Upto(k), k + 1) \in Seq(Nat) /\ Len(Append(Upto(k), k + 1)) = k + 1
      /\ \A i \in 1..k : Append(Upto(k), k + 1)[i] = Upto(k)[i]
      /\ Append(Upto(k), k + 1)[k + 1] = k + 1
    BY <1>1, AppendProperties
<1>3. \A i \in 1..(k + 1) : Append(Upto(k), k + 1)[i] = Upto(k + 1)[i]
    BY <1>2 DEF Upto
<1> QED BY <1>1, <1>2, <1>3, SeqEqual

(* The fields of a file.                                                   *)
LEMMA FileFields ==
    ASSUME NEW d, NEW chunks
    PROVE  File(d, chunks).of = d /\ File(d, chunks).chunks = chunks
BY DEF File

(* Files with the same chunks of the same download are one.                *)
LEMMA FilesUpto ==
    ASSUME NEW d, NEW k
    PROVE  /\ File(d, Upto(k)) = Directory!File(d, k)
           /\ Whole(d) = File(d, Upto(Chunks))
BY DEF File, Upto, Whole, Directory!File

(* What is copied is the next chunk, ...                                   *)
LEMMA CopyGrows ==
    ASSUME Stores, CopyChunk
    PROVE  \E k \in 0..(Chunks - 1) : /\ dest[name] = File(job, Upto(k))
                                      /\ Upto(k + 1) = Append(Upto(k), k + 1)
                                      /\ dest' = [dest EXCEPT ![name] = File(job, Upto(k + 1))]
<1>1. PICK k \in 0..Chunks : dest[name] = File(job, Upto(k))
    BY DEF Stores, CopyChunk, CopyIsBeginning
<1>2. /\ dest[name].chunks = Upto(k) /\ Len(Upto(k)) = k /\ Len(temp[job]) = Chunks
      /\ temp[job] = Upto(Chunks)
    <2>1. dest[name].chunks = Upto(k)
        BY <1>1, FileFields
    <2>2. temp[job] = Upto(Chunks)
        BY DEF Stores, CopyChunk, CopiesWhole
    <2>3. Len(Upto(k)) = k /\ Len(Upto(Chunks)) = Chunks
        BY UptoNext
    <2> QED BY <2>1, <2>2, <2>3
<1>3. k < Chunks /\ temp[job][k + 1] = k + 1
    BY <1>2 DEF CopyChunk, Upto
<1>4. dest' = [dest EXCEPT ![name] = File(job, Append(Upto(k), k + 1))]
    BY <1>2, <1>3 DEF CopyChunk
<1>5. Append(Upto(k), k + 1) = Upto(k + 1)
    <2>1. k \in Nat
        BY SMT
    <2> QED BY <2>1, UptoNext
<1>6. k \in 0..(Chunks - 1)
    BY <1>3
<1> QED BY <1>1, <1>4, <1>5, <1>6

(* ... and the copy ends with a whole file.                                *)
LEMMA CopyEndsWhole ==
    ASSUME Stores, EndCopy
    PROVE  name \in Names /\ dest[name] = Whole(job)
<1>1. PICK k \in 0..Chunks : dest[name] = File(job, Upto(k))
    BY DEF Stores, EndCopy, CopyIsBeginning
<1>2. Upto(k) = Upto(Chunks)
    BY <1>1, FileFields DEF Stores, EndCopy, CopiesWhole
<1> QED BY <1>1, <1>2, FilesUpto DEF Stores, EndCopy, CopyIsBeginning

(* Where a whole download is, a step leaves it, as long as it changes      *)
(* nothing but names that are free.                                        *)
LEMMA WholeIsNoTarget ==
    ASSUME NEW d \in Downloads, NEW n, dest[n] = Whole(d)
    PROVE  dest[n] # NoFile /\ dest[n].of # User
BY DEF Whole, File

(* The write of a chunk leaves the chunks up to it.                        *)
LEMMA WritePuts ==
    ASSUME Stores, NEW d \in Downloads, Write(d)
    PROVE  temp' = [temp EXCEPT ![d] = Upto(acked[d] + 1)]
<1> USE DEF Stores
<1>1. CASE d \in device_path
    <2>1. \E k \in {acked[d], acked[d] + 1} : Target(d) = Upto(k)
        BY <1>1 DEF Write, Receiving, Target, TempFollowsServer
    <2>2. Put(Target(d), acked[d] + 1) = Upto(acked[d] + 1)
        BY <2>1, PutNext DEF Types
    <2> QED BY <2>2 DEF Write
<1>2. CASE d \notin device_path
    <2>1. Target(d) = Upto(0) /\ acked[d] = 0
        BY <1>2, UptoNone DEF Write, Receiving, Target, TempFollowsServer
    <2>2. Put(Target(d), acked[d] + 1) = Upto(acked[d] + 1)
        BY <2>1, PutNext
    <2> QED BY <2>2 DEF Write
<1> QED BY <1>1, <1>2

(* The invariant holds at the start.                                       *)
LEMMA InitIInv == Init => IInv
<1> SUFFICES ASSUME Init PROVE IInv
    OBVIOUS
<1>1. Stores
    BY DEF Init, Stores, Types, TempFollowsServer, CopiesWhole, TargetIsFree, CopyIsBeginning,
           StoredIsWhole
<1>2. Counts
    BY DEF Init, Counts, TempIsBeginning, CountsChunks, DestIsKnown, NameIsKnown, NotChosen
<1> QED BY <1>1, <1>2 DEF IInv

(* Every step keeps what is stored stored, and a whole file to copy.       *)
LEMMA NextStores == Stores /\ [Next]_vars => Stores'
<1> SUFFICES ASSUME Stores, [Next]_vars PROVE Stores'
    OBVIOUS
<1> USE DEF Stores
<1>1. ASSUME NEW d \in Downloads, Write(d) PROVE Stores'
    <2>1. temp' = [temp EXCEPT ![d] = Upto(acked[d] + 1)]
        BY <1>1, WritePuts
    <2>2. Types'
        BY <1>1 DEF Write, Receiving, Answer, Types, server
    <2>3. TempFollowsServer'
        BY <1>1, <2>1 DEF Write, Receiving, Answer, Types, TempFollowsServer, server
    <2>4. CopiesWhole'
        BY <1>1, <2>1 DEF Write, Receiving, Types, CopiesWhole, server
    <2>5. TargetIsFree' /\ CopyIsBeginning' /\ StoredIsWhole'
        BY <1>1 DEF Write, Receiving, Answer, Types, TargetIsFree, CopyIsBeginning,
                    StoredIsWhole, server
    <2> QED BY <2>2, <2>3, <2>4, <2>5
<1>2. ASSUME NEW d \in Downloads, AddDownloadFails(d) PROVE Stores'
    BY <1>2 DEF AddDownloadFails, Receiving, Answer, server, Types, TempFollowsServer,
                CopiesWhole, TargetIsFree, CopyIsBeginning, StoredIsWhole
<1>3. ASSUME NEW d \in Downloads, WriteFails(d) PROVE Stores'
    BY <1>3 DEF WriteFails, Receiving, Target, Answer, server, Types, TempFollowsServer,
                CopiesWhole, TargetIsFree, CopyIsBeginning, StoredIsWhole
<1>4. ASSUME NEW d \in Downloads, StartOver(d) PROVE Stores'
    BY <1>4 DEF StartOver, Types, TempFollowsServer, CopiesWhole, TargetIsFree,
                CopyIsBeginning, StoredIsWhole
<1>5. ASSUME NEW n \in Names, Choose(n) PROVE Stores'
    BY <1>5 DEF Choose, Free, server, Types, TempFollowsServer, CopiesWhole, TargetIsFree,
                CopyIsBeginning, StoredIsWhole
<1>6. ASSUME NEW n \in Names, UserCreates(n) PROVE Stores'
    <2>1. StoredIsWhole'
        BY <1>6, WholeIsNoTarget DEF UserCreates, server, Types, StoredIsWhole
    <2>2. TargetIsFree'
        BY <1>6 DEF UserCreates, File, Types, TargetIsFree
    <2>3. CopyIsBeginning'
        <3>1. \A k \in 0..Chunks : File(job, Upto(k)) # NoFile
            BY DEF Upto, Types
        <3> QED BY <1>6, <3>1 DEF UserCreates, Types, CopyIsBeginning
    <2> QED BY <1>6, <2>1, <2>2, <2>3 DEF UserCreates, server, Types, TempFollowsServer,
                                          CopiesWhole
<1>7. CASE TooManyCopies
    BY <1>7 DEF TooManyCopies, Answer, server, Types, TempFollowsServer, CopiesWhole,
                TargetIsFree, CopyIsBeginning, StoredIsWhole
<1>8. CASE Rename
    <2>1. /\ name \in Names /\ dest'[name] = Whole(job)
          /\ \A n \in Names \ {name} : dest'[n] = dest[n]
        BY <1>8 DEF Rename, Types, CopiesWhole, TargetIsFree, Whole, Upto
    <2>2. StoredIsWhole'
        BY <1>8, <2>1, WholeIsNoTarget DEF Rename, Answer, server, Types, CopiesWhole,
                                           TargetIsFree, StoredIsWhole
    <2>3. Types'
        BY <1>8 DEF Rename, Answer, server, Types
    <2>4. TempFollowsServer'
        BY <1>8 DEF Rename, Answer, server, Types, TempFollowsServer, CopiesWhole
    <2> QED BY <1>8, <2>2, <2>3, <2>4 DEF Rename, CopiesWhole, TargetIsFree, CopyIsBeginning
<1>9. CASE BeginCopy
    <2>1. /\ name \in Names /\ dest' = [dest EXCEPT ![name] = File(job, Upto(0))]
          /\ dest[name] = NoFile \/ dest[name].of = User
          /\ UNCHANGED <<temp, job, name, server>>
        BY <1>9, UptoNone DEF BeginCopy, TargetIsFree
    <2>2. StoredIsWhole'
        BY <2>1, WholeIsNoTarget DEF server, Types, StoredIsWhole
    <2>3. CopyIsBeginning'
        BY <2>1 DEF Types, CopyIsBeginning
    <2> QED BY <1>9, <2>1, <2>2, <2>3 DEF BeginCopy, server, Types, TempFollowsServer,
                                          CopiesWhole, TargetIsFree
<1>10. CASE CopyChunk
    <2>1. PICK k \in 0..(Chunks - 1) :
             /\ dest[name] = File(job, Upto(k))
             /\ dest' = [dest EXCEPT ![name] = File(job, Upto(k + 1))]
        BY <1>10, CopyGrows
    <2>2. name \in Names /\ UNCHANGED <<temp, pc, job, name, server>> /\ pc = "copying"
        BY <1>10 DEF CopyChunk, CopyIsBeginning
    <2>3. StoredIsWhole'
        <3>1. ASSUME NEW d \in Downloads, told[d] = "stored"
              PROVE  \E n \in Names : dest'[n] = Whole(d)
            <4>1. PICK n \in Names : dest[n] = Whole(d)
                BY <3>1 DEF StoredIsWhole
            <4>2. d # job
                BY <2>2, <3>1 DEF CopiesWhole
            <4>3. n # name
                BY <2>1, <4>1, <4>2 DEF File, Whole
            <4> QED BY <2>1, <4>1, <4>3 DEF Types
        <3> QED BY <2>2, <3>1 DEF server, StoredIsWhole
    <2>4. CopyIsBeginning'
        BY <2>1, <2>2 DEF Types, CopyIsBeginning
    <2> QED BY <2>1, <2>2, <2>3, <2>4 DEF server, Types, TempFollowsServer, CopiesWhole,
                                          TargetIsFree
<1>11. CASE EndCopy
    <2>1. StoredIsWhole'
        BY <1>11, CopyEndsWhole DEF EndCopy, Answer, server, Types, StoredIsWhole
    <2> QED BY <1>11, <2>1 DEF EndCopy, Answer, server, Types, TempFollowsServer, CopiesWhole,
                               TargetIsFree, CopyIsBeginning
<1>12. CASE MoveFails \/ Restart
    BY <1>12 DEF MoveFails, Restart, Answer, server, Types, TempFollowsServer, CopiesWhole,
                 TargetIsFree, CopyIsBeginning, StoredIsWhole
<1>13. CASE UNCHANGED vars
    BY <1>13 DEF vars, server, Types, TempFollowsServer, CopiesWhole, TargetIsFree,
                 CopyIsBeginning, StoredIsWhole
<1> QED BY <1>1, <1>2, <1>3, <1>4, <1>5, <1>6, <1>7, <1>8, <1>9, <1>10, <1>11, <1>12, <1>13
        DEF Next

(* Nothing is counted that was not sent, and nothing is stored that is of  *)
(* nobody.                                                                 *)
LEMMA NextCounts == Stores /\ Counts /\ [Next]_vars => Counts'
<1> SUFFICES ASSUME Stores, Counts, [Next]_vars PROVE Counts'
    OBVIOUS
<1> USE DEF Stores, Counts, Types, TempIsBeginning, CountsChunks, DestIsKnown, NameIsKnown
<1>1. ASSUME NEW d \in Downloads, Write(d) PROVE Counts'
    <2>0. acked[d] + 1 \in 0..Chunks
        BY <1>1 DEF Write, Receiving
    <2>1. temp' = [temp EXCEPT ![d] = Upto(acked[d] + 1)]
        BY <1>1, WritePuts
    <2>2. TempIsBeginning'
        BY <2>0, <2>1
    <2>3. CountsChunks'
        BY <1>1 DEF Write, Answer, server
    <2> QED BY <1>1, <2>2, <2>3 DEF Write
<1>2. ASSUME NEW d \in Downloads, AddDownloadFails(d) PROVE Counts'
    BY <1>2 DEF AddDownloadFails, Answer, server
<1>3. ASSUME NEW d \in Downloads, WriteFails(d) PROVE Counts'
    <2>1. Target(d) = temp[d] \/ Target(d) = Upto(0)
        BY UptoNone DEF Target
    <2>2. TempIsBeginning'
        BY <1>3, <2>1 DEF WriteFails
    <2> QED BY <1>3, <2>2 DEF WriteFails, Answer, server
<1>4. ASSUME NEW d \in Downloads, StartOver(d) PROVE Counts'
    BY <1>4 DEF StartOver
<1>5. ASSUME NEW n \in Names, Choose(n) \/ UserCreates(n) PROVE Counts'
    BY <1>5 DEF Choose, UserCreates, File, server
<1>6. CASE TooManyCopies
    BY <1>6 DEF TooManyCopies, Answer, server
<1>7. CASE Rename
    <2>1. CountsChunks'
        BY <1>7 DEF Rename, Answer, server, CopiesWhole
    <2>2. TempIsBeginning' /\ DestIsKnown' /\ NameIsKnown'
        BY <1>7 DEF Rename, File, TargetIsFree
    <2> QED BY <2>1, <2>2
<1>8. CASE BeginCopy
    BY <1>8 DEF BeginCopy, File, server
<1>9. CASE CopyChunk
    <2>1. \E k : dest' = [dest EXCEPT ![name] = File(job, Upto(k))]
        BY <1>9, CopyGrows
    <2>2. DestIsKnown'
        BY <2>1 DEF File
    <2> QED BY <1>9, <2>2 DEF CopyChunk, server
<1>10. CASE EndCopy
    <2>1. CountsChunks'
        BY <1>10 DEF EndCopy, Answer, server, CopiesWhole
    <2> QED BY <1>10, <2>1 DEF EndCopy
<1>11. CASE MoveFails \/ Restart
    BY <1>11 DEF MoveFails, Restart, Answer, server
<1>12. CASE UNCHANGED vars
    BY <1>12 DEF vars, server
<1> QED BY <1>1, <1>2, <1>3, <1>4, <1>5, <1>6, <1>7, <1>8, <1>9, <1>10, <1>11, <1>12 DEF Next

(* Every step keeps the invariant.                                         *)
LEMMA NextIInv == IInv /\ [Next]_vars => IInv'
BY NextStores, NextCounts DEF IInv

(* It holds throughout.                                                    *)
LEMMA Invariance == Spec => []IInv
<1>1. Init => IInv
    BY InitIInv
<1>2. IInv /\ [Next]_vars => IInv'
    BY NextIInv
<1> QED BY <1>1, <1>2, PTL DEF Spec

-----------------------------------------------------------------------------
(* The state keeps its type: a temporary file has chunks of the download.  *)
THEOREM DownloadTypeOK == Spec => []TypeOK
<1>1. IInv => TypeOK
    <2> SUFFICES ASSUME IInv PROVE TypeOK
        OBVIOUS
    <2> USE DEF IInv, Stores, Counts
    <2>1. ASSUME NEW k \in 0..Chunks
          PROVE  Upto(k) \in UNION {[1..n -> 1..Chunks] : n \in 0..Chunks}
        <3>1. Upto(k) \in [1..k -> 1..Chunks]
            BY DEF Upto
        <3> QED BY <3>1
    <2>2. \A d \in Downloads :
             temp[d] = NoFile \/ temp[d] \in UNION {[1..n -> 1..Chunks] : n \in 0..Chunks}
        BY <2>1 DEF TempIsBeginning
    <2>3. \A d \in Downloads : acked[d] \in 0..Chunks
        BY DEF Types, CountsChunks
    <2> QED BY <2>2, <2>3 DEF Types, DestIsKnown, NameIsKnown, TypeOK
<1> QED BY <1>1, Invariance, PTL

(* A download the server was told was stored is in the remote directory,   *)
(* and whole, whatever was sent again, failed or was cut off on the way.   *)
THEOREM DownloadStoredIsWhole == Spec => []StoredIsWhole
<1>1. IInv => StoredIsWhole
    BY DEF IInv, Stores
<1> QED BY <1>1, Invariance, PTL

(* A download, or a copy of one, is never replaced by another; one that is *)
(* being copied grows by a chunk.                                          *)
THEOREM DownloadNeverReplaces == Spec => NoDownloadReplaced
<1>1. IInv /\ [Next]_vars =>
        [\A n \in Names :
            \/ dest[n] = NoFile \/ dest[n].of = User \/ dest'[n] = dest[n]
            \/ \E i \in 1..Chunks : dest'[n] = File(dest[n].of, Append(dest[n].chunks, i))]_vars
    <2> SUFFICES ASSUME IInv, Next, NEW n \in Names, dest'[n] # dest[n]
                 PROVE  \/ dest[n] = NoFile \/ dest[n].of = User
                        \/ \E i \in 1..Chunks :
                               dest'[n] = File(dest[n].of, Append(dest[n].chunks, i))
        BY DEF vars
    <2>1. CASE Rename \/ BeginCopy
        BY <2>1 DEF Rename, BeginCopy, IInv, Stores, Types, TargetIsFree
    <2>2. CASE CopyChunk
        <3>1. PICK k \in 0..(Chunks - 1) :
                 /\ dest[name] = File(job, Upto(k))
                 /\ Upto(k + 1) = Append(Upto(k), k + 1)
                 /\ dest' = [dest EXCEPT ![name] = File(job, Upto(k + 1))]
            BY <2>2, CopyGrows DEF IInv
        <3>2. n = name /\ k + 1 \in 1..Chunks
            BY <3>1 DEF IInv, Stores, Types
        <3>3. dest'[n] = File(dest[n].of, Append(dest[n].chunks, k + 1))
            <4>1. dest'[n] = File(job, Upto(k + 1)) /\ dest[n] = File(job, Upto(k))
                BY <3>1, <3>2 DEF IInv, Stores, Types
            <4>2. dest[n].of = job /\ dest[n].chunks = Upto(k)
                BY <4>1, FileFields
            <4> QED BY <3>1, <4>1, <4>2
        <3> QED BY <3>2, <3>3
    <2>3. CASE EndCopy \/ MoveFails \/ Restart \/ TooManyCopies
        BY <2>3 DEF EndCopy, MoveFails, Restart, TooManyCopies
    <2>4. ASSUME NEW m \in Names, UserCreates(m) PROVE dest[n] = NoFile
        BY <2>4 DEF UserCreates, IInv, Stores, Types
    <2>5. ASSUME NEW d \in Downloads,
                 Write(d) \/ AddDownloadFails(d) \/ WriteFails(d) \/ StartOver(d)
          PROVE  FALSE
        BY <2>5 DEF Write, AddDownloadFails, WriteFails, StartOver
    <2>6. ASSUME NEW m \in Names, Choose(m) PROVE FALSE
        BY <2>6 DEF Choose
    <2> QED BY <2>1, <2>2, <2>3, <2>4, <2>5, <2>6 DEF Next
<1> QED BY <1>1, Invariance, PTL DEF Spec, NoDownloadReplaced

-----------------------------------------------------------------------------
(* What the server and the directory see: Store, whose `growing` is the    *)
(* name that is being copied to.                                           *)
growing == IF pc = "copying" THEN name ELSE NotChosen

(* Where nothing is copied, before a step and after it, nothing grows.     *)
LEMMA NothingGrows ==
    ASSUME pc # "copying", pc' # "copying"
    PROVE  growing = NotChosen /\ growing' = NotChosen
BY DEF growing

(* The steps of a copy are steps of Store.                                 *)
LEMMA CopyOfStore ==
    ASSUME IInv, BeginCopy \/ CopyChunk \/ EndCopy \/ (MoveFails /\ pc = "copying")
    PROVE  Directory!Next
<1> USE DEF growing
<1>1. pc # "idle" /\ job \in Downloads /\ told[job] = "going"
    BY DEF BeginCopy, CopyChunk, EndCopy, IInv, Stores, Types, CopiesWhole
<1>2. name \in Names /\ name # NotChosen
    BY DEF BeginCopy, CopyChunk, EndCopy, IInv, Stores, TargetIsFree, CopyIsBeginning,
           Names, NotChosen
<1>3. CASE BeginCopy
    <2>1. File(job, <<>>) = Directory!File(job, 0)
        BY DEF File, Directory!File
    <2>2. /\ dest' = [dest EXCEPT ![name] = Directory!File(job, 0)]
          /\ dest[name] = NoFile \/ dest[name].of = User
          /\ growing = NotChosen /\ growing' = name /\ UNCHANGED told
        BY <1>3, <2>1 DEF BeginCopy, IInv, Stores, TargetIsFree, server
    <2>3. Directory!Begin(job, name)
        BY <2>2 DEF Directory!Begin, Directory!Put
    <2> QED BY <1>1, <1>2, <2>3 DEF Directory!Next
<1>4. CASE CopyChunk
    <2>1. PICK k \in 0..(Chunks - 1) :
             /\ dest[name] = File(job, Upto(k))
             /\ dest' = [dest EXCEPT ![name] = File(job, Upto(k + 1))]
        BY <1>4, CopyGrows DEF IInv
    <2>2. growing = name /\ growing' = name /\ UNCHANGED told
        BY <1>4 DEF CopyChunk, server
    <2>3. /\ dest[name] = Directory!File(job, k) /\ k < Chunks
          /\ dest' = [dest EXCEPT ![name] = Directory!File(job, k + 1)]
        <3>1. File(job, Upto(k)) = Directory!File(job, k)
            BY FilesUpto
        <3>2. File(job, Upto(k + 1)) = Directory!File(job, k + 1)
            BY FilesUpto
        <3>3. k < Chunks
            BY SMT
        <3> QED BY <2>1, <3>1, <3>2, <3>3
    <2>4. Directory!Grow(job, k)
        BY <1>2, <2>1, <2>2, <2>3 DEF Directory!Grow
    <2> QED BY <1>1, <2>4 DEF Directory!Next
<1>5. CASE EndCopy
    <2>1. dest[name] = Whole(job)
        BY <1>5, CopyEndsWhole DEF IInv
    <2>2. Whole(job) = Directory!Whole(job)
        BY DEF Whole, File, Directory!Whole, Directory!File
    <2>3. /\ growing = name /\ growing' = NotChosen /\ UNCHANGED dest
          /\ told' \in {told, [told EXCEPT ![job] = "stored"]}
        BY <1>5 DEF EndCopy, Answer, server
    <2>4. Directory!End(job)
        BY <1>1, <1>2, <2>1, <2>2, <2>3 DEF Directory!End, Directory!Tell
    <2> QED BY <1>1, <2>4 DEF Directory!Next
<1>6. CASE MoveFails /\ pc = "copying"
    <2>1. dest[name].of = job
        BY <1>6, FileFields DEF IInv, Stores, CopyIsBeginning
    <2>2. /\ growing = name /\ growing' = NotChosen /\ UNCHANGED dest
          /\ told' \in {told, [told EXCEPT ![job] = "failed"]}
        BY <1>6 DEF MoveFails, Answer, server
    <2>3. Directory!BreakOff(job)
        BY <1>1, <1>2, <2>1, <2>2 DEF Directory!BreakOff, Directory!Tell
    <2> QED BY <1>1, <2>3 DEF Directory!Next
<1> QED BY <1>3, <1>4, <1>5, <1>6

(* A step of the WS thread, the server or the user is one of Store, or     *)
(* neither the server nor the directory shows it.                          *)
LEMMA StepOfStore ==
    IInv /\ [Next]_vars => Directory!Next \/ UNCHANGED <<dest, growing, told>>
<1> SUFFICES ASSUME IInv, [Next]_vars
             PROVE  Directory!Next \/ UNCHANGED <<dest, growing, told>>
    OBVIOUS
<1>1. CASE Rename
    <2>1. /\ pc = "moving" /\ job \in Downloads /\ name \in Names
          /\ told[job] = "going" /\ (dest[name] = NoFile \/ dest[name].of = User)
          /\ temp[job] = Upto(Chunks)
        BY <1>1 DEF Rename, IInv, Stores, Types, CopiesWhole, TargetIsFree
    <2>2. File(job, temp[job]) = Directory!Whole(job)
        BY <2>1 DEF Upto, File, Directory!Whole, Directory!File
    <2>3. /\ dest' = [dest EXCEPT ![name] = Directory!Whole(job)]
          /\ told' \in {told, [told EXCEPT ![job] = "stored"]}
        BY <1>1, <2>2 DEF Rename, Answer, server
    <2>4. growing = NotChosen /\ growing' = NotChosen
        BY <1>1, <2>1, NothingGrows DEF Rename
    <2>5. Directory!StoreFile(job, name)
        BY <2>1, <2>3, <2>4 DEF Directory!StoreFile, Directory!Put, Directory!Tell, growing
    <2> QED BY <2>1, <2>5 DEF Directory!Next
<1>2. CASE BeginCopy \/ CopyChunk \/ EndCopy \/ (MoveFails /\ pc = "copying")
    BY <1>2, CopyOfStore
<1>3. CASE (MoveFails \/ TooManyCopies) /\ pc # "copying"
    <2>1. job \in Downloads /\ told[job] = "going"
        BY <1>3 DEF MoveFails, TooManyCopies, IInv, Stores, Types, CopiesWhole
    <2>2. UNCHANGED <<dest, growing>> /\ told' \in {told, [told EXCEPT ![job] = "failed"]}
        BY <1>3 DEF MoveFails, TooManyCopies, Answer, server, growing
    <2> QED BY <2>1, <2>2 DEF Directory!Next, Directory!Fail, growing
<1>4. CASE Restart
    <2>1. CASE pc # "copying"
        BY <1>4, <2>1 DEF Restart, server, growing
    <2>2. CASE pc = "copying"
        <3>1. /\ name \in Names /\ name # NotChosen /\ dest[name].of = job /\ job \in Downloads
              /\ told[job] = "going"
            BY <2>2 DEF IInv, Stores, Types, CopiesWhole, CopyIsBeginning, File, Names, NotChosen
        <3>2. growing = name /\ growing' = NotChosen /\ UNCHANGED <<dest, told>>
            BY <1>4, <2>2 DEF Restart, server, growing
        <3>3. Directory!BreakOff(job)
            BY <3>1, <3>2 DEF Directory!BreakOff, Directory!Tell, growing
        <3> QED BY <3>1, <3>3 DEF Directory!Next
    <2> QED BY <2>1, <2>2
<1>5. ASSUME NEW d \in Downloads, Write(d) PROVE UNCHANGED <<dest, growing, told>>
    BY <1>5 DEF Write, Receiving, Answer, server, IInv, Stores, Types, growing
<1>6. ASSUME NEW d \in Downloads, AddDownloadFails(d) \/ WriteFails(d)
      PROVE  Directory!Fail(d) \/ UNCHANGED <<dest, growing, told>>
    BY <1>6 DEF AddDownloadFails, WriteFails, Receiving, Answer, server, Directory!Fail, growing
<1>7. ASSUME NEW d \in Downloads, StartOver(d) PROVE Directory!StartOver(d)
    BY <1>7 DEF StartOver, Directory!StartOver
<1>8. ASSUME NEW n \in Names, Choose(n) PROVE UNCHANGED <<dest, growing, told>>
    BY <1>8 DEF Choose, server, growing
<1>9. ASSUME NEW n \in Names, UserCreates(n) PROVE Directory!UserCreates(n)
    <2>1. File(User, <<>>) = Directory!File(User, 0)
        BY DEF File, Directory!File
    <2> QED BY <1>9, <2>1 DEF UserCreates, server, Directory!UserCreates
<1>10. CASE UNCHANGED vars
    BY <1>10 DEF vars, server, growing
<1> QED BY <1>1, <1>2, <1>3, <1>4, <1>5, <1>6, <1>7, <1>8, <1>9, <1>10
        DEF Next, MoveFails, TooManyCopies, Directory!Next

(* A download is there as a whole when it is told to be stored, under a    *)
(* name no download had, and stays; or it fails.                           *)
THEOREM DownloadImplementsStore == Spec => ImplementsStore
<1>1. Init => Directory!Init
    BY DEF Init, Directory!Init
<1>2. IInv /\ [Next]_vars => [Directory!Next]_(Directory!vars)
    BY StepOfStore DEF Directory!vars, growing
<1> QED BY <1>1, <1>2, Invariance, PTL DEF Spec, ImplementsStore, Directory!Spec
=============================================================================
