------------------------------- MODULE Store -------------------------------
(***************************************************************************)
(* What the remote directory promises a server that downloads files to it  *)
(* (remote_directory.py).  A file is stored under a name no download has,  *)
(* at once or piece by piece; the server is told "stored" only of a file   *)
(* that is there as a whole just then, and from then on it stays.  It may  *)
(* also be told of a failure, or of nothing, and start over.               *)
(*                                                                         *)
(* Three things are not promised: a file may be seen in part while it is   *)
(* stored; a part stays if that fails; and a file the user makes may be    *)
(* replaced.                                                               *)
(***************************************************************************)
EXTENDS Naturals

CONSTANTS Downloads, Chunks, Names, NoFile, User, Nowhere

VARIABLES dest,          \* the files in the remote directory, by name
          growing,       \* the name of the one being written, or Nowhere
          told           \* download -> "going", "stored" or "failed"

vars == <<dest, growing, told>>

File(d, n) == [of |-> d, chunks |-> [i \in 1..n |-> i]]
Whole(d)   == File(d, Chunks)

Init == /\ dest = [n \in Names |-> NoFile] /\ growing = Nowhere
        /\ told = [d \in Downloads |-> "going"]

(* The server hears of it, or does not.                                    *)
Tell(d, result) == told[d] = "going" /\ told' \in {told, [told EXCEPT ![d] = result]}

(* No download has the name, and no other file is being written.           *)
Put(n, file) == /\ growing = Nowhere
                /\ dest[n] = NoFile \/ dest[n].of = User
                /\ dest' = [dest EXCEPT ![n] = file]

StoreFile(d, n) == Put(n, Whole(d)) /\ Tell(d, "stored") /\ UNCHANGED growing

(* Piece by piece: it begins, grows, and is stored when it is whole, or is *)
(* left.                                                                   *)
Begin(d, n)  == Put(n, File(d, 0)) /\ growing' = n /\ UNCHANGED told
Grow(d, k)   == /\ growing # Nowhere /\ dest[growing] = File(d, k) /\ k < Chunks
                /\ dest' = [dest EXCEPT ![growing] = File(d, k + 1)]
                /\ UNCHANGED <<growing, told>>
End(d)       == /\ growing # Nowhere /\ dest[growing] = Whole(d) /\ growing' = Nowhere
                /\ Tell(d, "stored") /\ UNCHANGED dest
BreakOff(d)  == /\ growing # Nowhere /\ dest[growing].of = d /\ growing' = Nowhere
                /\ Tell(d, "failed") /\ UNCHANGED dest

Fail(d)      == /\ told[d] = "going" /\ told' = [told EXCEPT ![d] = "failed"]
                /\ UNCHANGED <<dest, growing>>
StartOver(d) == /\ told[d] = "failed" /\ told' = [told EXCEPT ![d] = "going"]
                /\ UNCHANGED <<dest, growing>>

UserCreates(n) == /\ dest[n] = NoFile /\ dest' = [dest EXCEPT ![n] = File(User, 0)]
                  /\ UNCHANGED <<growing, told>>

Next == \/ \E d \in Downloads : \/ End(d) \/ BreakOff(d) \/ Fail(d) \/ StartOver(d)
                                \/ \E n \in Names : StoreFile(d, n) \/ Begin(d, n)
                                \/ \E k \in 0..Chunks : Grow(d, k)
        \/ \E n \in Names : UserCreates(n)

Spec == Init /\ [][Next]_vars
=============================================================================
