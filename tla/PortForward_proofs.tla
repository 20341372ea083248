------------------------- MODULE PortForward_proofs -------------------------
(***************************************************************************)
(* Proofs about PortForward, for any number of connections and of chunks:  *)
(* its types, and that what a remote user sends reaches the local server   *)
(* whole, in order and before its end of file: PortForward implements Pipe.*)
(***************************************************************************)
EXTENDS PortForward, SequenceTheorems, TLAPS

(* The variables as functions of the connections.                          *)
Shapes ==
    /\ at \in [Conns -> Places] /\ socket \in [Conns -> BOOLEAN]
    /\ mask \in [Conns -> [readable : BOOLEAN, error : BOOLEAN]]
    /\ read_buffer \in [Conns -> Seq(Nat)] /\ got \in [Conns -> Seq(Nat)]
    /\ typed \in [Conns -> Nat] /\ forwarded \in [Conns -> Nat]
    /\ local \in [Conns -> [state : {"none", "up", "fin", "reset"}, sent : Nat, unread : Nat]]
    /\ close_event \in BOOLEAN /\ closed \subseteq Conns /\ asked \subseteq Conns
    /\ failed \subseteq Conns /\ shut \subseteq Conns

(* There is a socket to the local server from the moment _connect returns. *)
Before == {"none", "refused", "connecting"}
SocketIsConnected == \A c \in Conns :
    /\ at[c] \in Before => local[c].state = "none"
    /\ socket[c] => local[c].state # "none"

(* No chunk of the local server is forwarded that it has not sent: it is   *)
(* unread, in the hands of the thread, forwarded, or dropped.              *)
InHand(c) == IF at[c] \in {"writing", "sending"} THEN 1 ELSE 0
ForwardedWasSent == \A c \in Conns :
    /\ typed[c] <= MaxUser[c]
    /\ local[c].sent <= MaxLocal[c]
    /\ forwarded[c] + InHand(c) + local[c].unread <= local[c].sent

(* What there is of the user's chunks are chunks it sent.                  *)
ChunksWereTyped == \A c \in Conns :
    got[c] \in Seq(1..typed[c]) /\ read_buffer[c] \in Seq(1..typed[c])

(* Once the write side is shut down there is nothing left to write.        *)
ShutIsFlushed == \A c \in shut : c \in closed /\ read_buffer[c] = <<>>

IInv == /\ Shapes /\ SocketIsConnected /\ ForwardedWasSent
        /\ ChunksWereTyped /\ NothingLost /\ ShutIsFlushed

-----------------------------------------------------------------------------
(* Sequences of chunks.                                                    *)

LEMMA UptoSucc == ASSUME NEW n \in Nat PROVE Append(Upto(n), n + 1) = Upto(n + 1)
<1>1. Upto(n) \in Seq(Nat) /\ Len(Upto(n)) = n
    BY IsASeq DEF Upto
<1>2. Upto(n + 1) \in Seq(Nat) /\ Len(Upto(n + 1)) = n + 1
    BY IsASeq DEF Upto
<1>3. /\ Append(Upto(n), n + 1) \in Seq(Nat)
      /\ Len(Append(Upto(n), n + 1)) = n + 1
      /\ \A i \in 1..n : Append(Upto(n), n + 1)[i] = Upto(n)[i]
      /\ Append(Upto(n), n + 1)[n + 1] = n + 1
    BY <1>1, AppendProperties
<1>4. \A i \in 1..(n + 1) : Append(Upto(n), n + 1)[i] = Upto(n + 1)[i]
    BY <1>3 DEF Upto
<1> QED BY <1>2, <1>3, <1>4, SeqEqual

LEMMA AppendToConcat ==
    ASSUME NEW S, NEW s \in Seq(S), NEW u \in Seq(S), NEW e \in S
    PROVE  s \o Append(u, e) = Append(s \o u, e)
<1> DEFINE ue == Append(u, e)
           su == s \o u
           left == s \o ue
           right == Append(su, e)
<1>1. /\ ue \in Seq(S) /\ Len(ue) = Len(u) + 1
      /\ \A i \in 1..Len(u) : ue[i] = u[i]
      /\ ue[Len(u) + 1] = e
    BY AppendProperties
<1>2. /\ su \in Seq(S) /\ Len(su) = Len(s) + Len(u)
      /\ \A i \in 1..(Len(s) + Len(u)) : su[i] = IF i <= Len(s) THEN s[i] ELSE u[i - Len(s)]
    BY ConcatProperties
<1>3. Len(s) \in Nat /\ Len(u) \in Nat
    BY LenProperties
<1> HIDE DEF ue, su
<1>4. /\ left \in Seq(S) /\ Len(left) = Len(s) + Len(ue)
      /\ \A i \in 1..(Len(s) + Len(ue)) : left[i] = IF i <= Len(s) THEN s[i] ELSE ue[i - Len(s)]
    BY <1>1, ConcatProperties
<1>5. /\ right \in Seq(S) /\ Len(right) = Len(su) + 1
      /\ \A i \in 1..Len(su) : right[i] = su[i]
      /\ right[Len(su) + 1] = e
    BY <1>2, AppendProperties
<1> HIDE DEF left, right
<1>6. ASSUME NEW i \in 1..Len(left) PROVE left[i] = right[i]
    <2>1. i \in 1..(Len(s) + Len(u) + 1) /\ Len(ue) = Len(u) + 1 /\ Len(su) = Len(s) + Len(u)
        BY <1>1, <1>2, <1>3, <1>4
    <2>2. CASE i <= Len(s)
        <3>1. left[i] = s[i] /\ su[i] = s[i] /\ right[i] = su[i]
            BY <1>2, <1>3, <1>4, <1>5, <2>1, <2>2
        <3> QED BY <3>1
    <2>3. CASE i > Len(s) /\ i <= Len(s) + Len(u)
        <3>1. i - Len(s) \in 1..Len(u)
            BY <1>3, <2>1, <2>3
        <3>2. left[i] = ue[i - Len(s)] /\ su[i] = u[i - Len(s)] /\ right[i] = su[i]
            BY <1>2, <1>3, <1>4, <1>5, <2>1, <2>3
        <3> QED BY <1>1, <3>1, <3>2
    <2>4. CASE i = Len(s) + Len(u) + 1
        <3>1. left[i] = ue[i - Len(s)] /\ i - Len(s) = Len(u) + 1 /\ i = Len(su) + 1
            BY <1>3, <1>4, <2>1, <2>4
        <3> QED BY <1>1, <1>5, <3>1
    <2> QED BY <1>3, <2>1, <2>2, <2>3, <2>4
<1>7. left = right
    <2>1. Len(left) = Len(right) /\ left \in Seq(S) /\ right \in Seq(S)
        BY <1>1, <1>2, <1>3, <1>4, <1>5
    <2>2. \A i \in 1..Len(left) : left[i] = right[i]
        BY <1>6
    <2> QED BY <2>1, <2>2, SeqEqual
<1> QED BY <1>7 DEF left, right, ue, su

(* A number above all the others at the end leaves a sequence in order.    *)
LEMMA AppendInOrder ==
    ASSUME NEW n \in Nat, NEW s \in Seq(1..n), InOrder(s)
    PROVE  InOrder(Append(s, n + 1)) /\ Append(s, n + 1) \in Seq(1..(n + 1))
<1>1. s \in Seq(1..(n + 1)) /\ n + 1 \in 1..(n + 1)
    BY SeqMonotonic
<1>2. /\ Append(s, n + 1) \in Seq(1..(n + 1))
      /\ DOMAIN Append(s, n + 1) = 1..(Len(s) + 1) /\ DOMAIN s = 1..Len(s)
      /\ \A i \in 1..Len(s) : Append(s, n + 1)[i] = s[i]
      /\ Append(s, n + 1)[Len(s) + 1] = n + 1
    BY <1>1, AppendProperties, LenProperties
<1>3. \A i \in 1..Len(s) : s[i] \in 1..n
    BY ElementOfSeq
<1> QED BY <1>2, <1>3, LenProperties DEF InOrder

(* A prefix of a sequence in order is in order.                            *)
LEMMA PrefixInOrder ==
    ASSUME NEW S, NEW s \in Seq(S), NEW u \in Seq(S), NEW n \in 0..Len(u), InOrder(s \o u)
    PROVE  /\ SubSeq(u, 1, n) \in Seq(S)
           /\ InOrder(s \o SubSeq(u, 1, n))
<1> DEFINE v == SubSeq(u, 1, n)
<1>1. /\ Len(s) \in Nat /\ Len(u) \in Nat /\ n \in Nat /\ n <= Len(u)
      /\ \A i \in 1..n : u[i] \in S
    BY ElementOfSeq, LenProperties
<1>2. /\ v \in Seq(S) /\ Len(v) = n
      /\ \A i \in 1..n : v[i] = u[i]
    BY <1>1, SubSeqProperties, Z3
<1> HIDE DEF v
<1>3. /\ s \o u \in Seq(S) /\ Len(s \o u) = Len(s) + Len(u)
      /\ \A i \in 1..(Len(s) + Len(u)) :
            (s \o u)[i] = IF i <= Len(s) THEN s[i] ELSE u[i - Len(s)]
    BY ConcatProperties
<1>4. /\ s \o v \in Seq(S) /\ Len(s \o v) = Len(s) + n
      /\ \A i \in 1..(Len(s) + n) :
            (s \o v)[i] = IF i <= Len(s) THEN s[i] ELSE v[i - Len(s)]
    BY <1>2, ConcatProperties
<1>5. DOMAIN (s \o u) = 1..(Len(s) + Len(u)) /\ DOMAIN (s \o v) = 1..(Len(s) + n)
    BY <1>3, <1>4, LenProperties
<1>6. \A i \in 1..(Len(s) + n) : (s \o v)[i] = (s \o u)[i] /\ i \in 1..(Len(s) + Len(u))
    BY <1>1, <1>2, <1>3, <1>4
<1>7. InOrder(s \o v)
    <2> DEFINE su == s \o u
               sv == s \o v
    <2>1. InOrder(su) /\ DOMAIN sv = 1..(Len(s) + n)
          /\ DOMAIN su = 1..(Len(s) + Len(u))
          /\ \A i \in 1..(Len(s) + n) : sv[i] = su[i] /\ i \in 1..(Len(s) + Len(u))
        BY <1>5, <1>6
    <2> HIDE DEF su, sv
    <2>2. InOrder(sv)
        BY <2>1 DEF InOrder
    <2> QED BY <2>2 DEF sv
<1> QED BY <1>2, <1>7 DEF v

(* _flush_buffer: whatever it does with the chunks, what the local server  *)
(* has and what is left in the buffer stay in order, and whole if they     *)
(* were and the connection is still intact.                                *)
LEMMA Flush ==
    ASSUME IInv, NEW c \in Conns, NEW n \in Nat, NEW chunks \in Seq(1..n), NEW ok \in BOOLEAN,
           got[c] \in Seq(1..n), InOrder(got[c] \o chunks),
           Intact(c) => got[c] \o chunks = Upto(n),
           FlushBuffer(c, chunks, ok), UNCHANGED local
    PROVE  /\ got' \in [Conns -> Seq(Nat)] /\ read_buffer' \in [Conns -> Seq(Nat)]
           /\ failed' \subseteq Conns
           /\ got'[c] \in Seq(1..n) /\ read_buffer'[c] \in Seq(1..n)
           /\ InOrder(got'[c] \o read_buffer'[c])
           /\ Intact(c)' => got'[c] \o read_buffer'[c] = Upto(n)
           /\ socket[c] => read_buffer'[c] = <<>>
           /\ \A d \in Conns \ {c} : /\ got'[d] = got[d] /\ read_buffer'[d] = read_buffer[d]
                                     /\ Intact(d)' = Intact(d)
<1> USE DEF IInv
<1>1. Seq(1..n) \subseteq Seq(Nat)
    BY SeqMonotonic
<1>2. /\ got[c] \o <<>> = got[c] /\ <<>> \in Seq(1..n)
      /\ InOrder(got[c] \o <<>>) /\ InOrder(got[c])
    <2>1. got[c] \o <<>> = got[c] /\ <<>> \in Seq(1..n)
        BY ConcatEmptySeq, EmptySeq
    <2>2. InOrder(got[c] \o SubSeq(chunks, 1, 0))
        BY PrefixInOrder, LenProperties
    <2>3. SubSeq(chunks, 1, 0) = <<>>
        BY SubSeqEmpty
    <2> QED BY <2>1, <2>2, <2>3
<1>3. CASE ~socket[c] /\ ok /\ read_buffer' = [read_buffer EXCEPT ![c] = chunks]
           /\ UNCHANGED <<got, failed>>
    BY <1>1, <1>3 DEF Shapes, Intact
<1>4. CASE socket[c] /\ ok /\ read_buffer' = [read_buffer EXCEPT ![c] = <<>>]
           /\ got' = [got EXCEPT ![c] = Delivered(c, chunks)] /\ UNCHANGED failed
    <2>1. /\ got[c] \o chunks \in Seq(1..n)
          /\ (got[c] \o chunks) \o <<>> = got[c] \o chunks
        BY ConcatProperties, ConcatEmptySeq
    <2>2. /\ Delivered(c, chunks) \in Seq(1..n) /\ InOrder(Delivered(c, chunks) \o <<>>)
          /\ Intact(c) => Delivered(c, chunks) \o <<>> = Upto(n)
        BY <1>2, <2>1 DEF Delivered, Intact
    <2>3. got'[c] = Delivered(c, chunks) /\ read_buffer'[c] = <<>>
        BY <1>4 DEF Shapes
    <2> QED BY <1>1, <1>2, <1>4, <2>2, <2>3 DEF Shapes, Intact
<1>5. CASE /\ socket[c] /\ ~ok /\ failed' = failed \cup {c}
           /\ read_buffer' = [read_buffer EXCEPT ![c] = <<>>]
           /\ \E k \in 0..Len(chunks) :
                 /\ k < Len(chunks)
                 /\ got' = [got EXCEPT ![c] = Delivered(c, SubSeq(chunks, 1, k))]
    <2>1. PICK k \in 0..Len(chunks) :
              k < Len(chunks) /\ got' = [got EXCEPT ![c] = Delivered(c, SubSeq(chunks, 1, k))]
        BY <1>5
    <2>2. SubSeq(chunks, 1, k) \in Seq(1..n) /\ InOrder(got[c] \o SubSeq(chunks, 1, k))
        BY PrefixInOrder
    <2>3. /\ got[c] \o SubSeq(chunks, 1, k) \in Seq(1..n)
          /\ (got[c] \o SubSeq(chunks, 1, k)) \o <<>> = got[c] \o SubSeq(chunks, 1, k)
        BY <2>2, ConcatProperties, ConcatEmptySeq
    <2>4. /\ Delivered(c, SubSeq(chunks, 1, k)) \in Seq(1..n)
          /\ InOrder(Delivered(c, SubSeq(chunks, 1, k)) \o <<>>)
        BY <1>2, <2>2, <2>3 DEF Delivered
    <2>5. chunks # <<>>
        BY <2>1, EmptySeq
    <2>6. got'[c] = Delivered(c, SubSeq(chunks, 1, k)) /\ read_buffer'[c] = <<>>
        BY <1>5, <2>1 DEF Shapes
    <2> QED BY <1>1, <1>2, <1>5, <2>1, <2>4, <2>5, <2>6 DEF Shapes, Intact
<1> QED BY <1>3, <1>4, <1>5 DEF FlushBuffer

-----------------------------------------------------------------------------
LEMMA InitIInv == Init => IInv
<1> SUFFICES ASSUME Init PROVE IInv
    OBVIOUS
<1>1. Shapes
    BY EmptySeq DEF Init, Shapes, Places, NoEvent, NoLocal
<1>2. SocketIsConnected /\ ForwardedWasSent /\ ShutIsFlushed
    BY SizeAssumption DEF Init, SocketIsConnected, ForwardedWasSent, ShutIsFlushed, Before,
                          NoLocal, InHand
<1>3. ChunksWereTyped
    BY EmptySeq DEF Init, ChunksWereTyped
<1>4. NothingLost
    <2> SUFFICES ASSUME NEW c \in Conns
                 PROVE  InOrder(<<>> \o <<>>) /\ <<>> \o <<>> = Upto(0)
        BY DEF Init, NothingLost
    <2>1. <<>> \o <<>> = <<>> /\ Len(<<>>) = 0 /\ <<>> \in Seq(Nat)
        BY EmptySeq, ConcatEmptySeq
    <2>2. Upto(0) \in Seq(Nat) /\ Len(Upto(0)) = 0
        BY IsASeq DEF Upto
    <2>3. Upto(0) = <<>>
        BY <2>1, <2>2, SeqEqual
    <2> QED BY <2>1, <2>3, LenProperties DEF InOrder
<1> QED BY <1>1, <1>2, <1>3, <1>4 DEF IInv

(* The connection of a step: the others keep what they have.               *)
LEMMA OthersKeep ==
    ASSUME NEW c \in Conns, IInv, Shapes', SocketIsConnected', ForwardedWasSent',
           \A d \in Conns \ {c} : /\ got'[d] = got[d] /\ read_buffer'[d] = read_buffer[d]
                                  /\ typed'[d] = typed[d]
                                  /\ Intact(d)' => Intact(d)
                                  /\ d \in shut' => d \in shut,
           closed \subseteq closed',
           got'[c] \in Seq(1..typed'[c]), read_buffer'[c] \in Seq(1..typed'[c]),
           InOrder(got'[c] \o read_buffer'[c]),
           Intact(c)' => got'[c] \o read_buffer'[c] = Upto(typed'[c]),
           c \in shut' => c \in closed' /\ read_buffer'[c] = <<>>
    PROVE  IInv'
<1>1. ChunksWereTyped'
    <2> SUFFICES ASSUME NEW d \in Conns
                 PROVE  got'[d] \in Seq(1..typed'[d]) /\ read_buffer'[d] \in Seq(1..typed'[d])
        BY DEF ChunksWereTyped
    <2>1. CASE d = c
        BY <2>1
    <2>2. CASE d # c
        BY <2>2 DEF IInv, ChunksWereTyped
    <2> QED BY <2>1, <2>2
<1>2. NothingLost'
    <2> SUFFICES ASSUME NEW d \in Conns
                 PROVE  /\ InOrder(got'[d] \o read_buffer'[d])
                        /\ Intact(d)' => got'[d] \o read_buffer'[d] = Upto(typed'[d])
        BY DEF NothingLost, InOrder, Upto
    <2>1. CASE d = c
        BY <2>1
    <2>2. CASE d # c
        BY <2>2 DEF IInv, NothingLost
    <2> QED BY <2>1, <2>2
<1>3. ShutIsFlushed'
    BY DEF IInv, ShutIsFlushed, Shapes
<1> QED BY <1>1, <1>2, <1>3 DEF IInv

(* Steps that touch neither the user's chunks nor the local server's end   *)
(* in a way that makes a broken connection intact.                         *)
LEMMA QuietIInv ==
    ASSUME IInv, Shapes', SocketIsConnected', ForwardedWasSent',
           UNCHANGED <<got, read_buffer, typed, shut, closed, failed>>,
           \A c \in Conns : local[c].state = "reset" => local'[c].state = "reset"
    PROVE  IInv'
BY DEF IInv, ChunksWereTyped, NothingLost, ShutIsFlushed, Intact

Quiet(c) == \/ Open(c) \/ OpenFails(c) \/ ConnectFails(c) \/ Connected(c) \/ Loop(c) \/ Poll(c)
            \/ Recv(c) \/ Write(c) \/ Send(c) \/ Handled(c) \/ RecvNothing(c)
            \/ Leave(c) \/ Ask(c) \/ Decrement(c)
            \/ LocalSends(c) \/ LocalEnds(c, "fin") \/ LocalEnds(c, "reset")

LEMMA QuietStep == ASSUME NEW c \in Conns, IInv, Quiet(c) PROVE IInv'
<1>1. CASE Open(c) \/ OpenFails(c) \/ ConnectFails(c) \/ Loop(c) \/ Poll(c) \/ RecvNothing(c)
           \/ Handled(c) \/ Leave(c) \/ Ask(c) \/ Decrement(c)
    <2> USE <1>1 DEF Open, OpenFails, ConnectFails, Loop, Poll, RecvNothing, Handled, Leave,
                     Ask, Decrement, Goto, CloseChannel, chans
    <2>1. UNCHANGED <<got, read_buffer, typed, forwarded, shut, closed, failed, local, socket>>
        OBVIOUS
    <2>2. /\ at' \in [Conns -> Places] /\ asked' \subseteq Conns
          /\ mask' \in [Conns -> [readable : BOOLEAN, error : BOOLEAN]]
        <3>1. at' \in [Conns -> Places] /\ asked' \subseteq Conns
            BY DEF IInv, Shapes, Places
        <3>2. [readable |-> Readable(c), error |-> Hung(c)] \in [readable : BOOLEAN, error : BOOLEAN]
            BY DEF Readable, Hung
        <3>3. mask' \in [Conns -> [readable : BOOLEAN, error : BOOLEAN]]
            BY <3>2 DEF IInv, Shapes
        <3> QED BY <3>1, <3>3
    <2>3. \A d \in Conns : /\ at'[d] \in Before => at[d] \in Before
                           /\ at'[d] \in {"writing", "sending"} => InHand(d) = 1
        BY DEF IInv, Shapes, Before, InHand
    <2>5. close_event' \in BOOLEAN
        BY DEF IInv, Shapes
    <2> HIDE <1>1 DEF Open, OpenFails, ConnectFails, Loop, Poll, RecvNothing, Handled, Leave,
                      Ask, Decrement, Goto, CloseChannel, chans
    <2>4. Shapes' /\ SocketIsConnected'
        BY <2>1, <2>2, <2>3, <2>5 DEF IInv, Shapes, SocketIsConnected
    <2>6. ForwardedWasSent'
        <3> SUFFICES ASSUME NEW d \in Conns
                     PROVE  forwarded[d] + InHand(d)' + local[d].unread <= local[d].sent
            BY <2>1 DEF IInv, ForwardedWasSent
        <3>1. InHand(d)' <= InHand(d) /\ InHand(d)' \in {0, 1} /\ InHand(d) \in {0, 1}
            BY <2>3 DEF InHand
        <3> QED BY <3>1 DEF IInv, Shapes, ForwardedWasSent
    <2> QED BY <2>1, <2>4, <2>6, QuietIInv
<1>2. CASE Connected(c)
    <2>1. Shapes'
        BY <1>2 DEF Connected, Goto, chans, IInv, Shapes, Places
    <2>2. SocketIsConnected' /\ ForwardedWasSent'
        BY <1>2 DEF Connected, Goto, chans, IInv, Shapes, SocketIsConnected, ForwardedWasSent,
                      Before, InHand
    <2>3. \A d \in Conns : local[d].state = "reset" => local'[d].state = "reset"
        BY <1>2 DEF Connected, Goto, IInv, Shapes, SocketIsConnected, Before
    <2> QED BY <1>2, <2>1, <2>2, <2>3, QuietIInv DEF Connected, chans
<1>3. CASE Recv(c)
    <2>1. /\ local' \in [Conns -> [state : {"none", "up", "fin", "reset"}, sent : Nat, unread : Nat]]
          /\ local'[c].unread + 1 = local[c].unread
          /\ \A d \in Conns : /\ local'[d].state = local[d].state
                              /\ local'[d].sent = local[d].sent
                              /\ d # c => local'[d] = local[d]
        <3>1. /\ local[c] \in [state : {"none", "up", "fin", "reset"}, sent : Nat, unread : Nat]
              /\ local[c].unread > 0
              /\ local' = [local EXCEPT ![c] = [local[c] EXCEPT !.unread = @ - 1]]
            BY <1>3 DEF Recv, IInv, Shapes
        <3>2. [local[c] EXCEPT !.unread = @ - 1]
                  \in [state : {"none", "up", "fin", "reset"}, sent : Nat, unread : Nat]
            BY <3>1
        <3> QED BY <3>1, <3>2 DEF IInv, Shapes
    <2>2. /\ at' \in [Conns -> Places]
          /\ InHand(c) = 0 /\ InHand(c)' = 1
          /\ \A d \in Conns : /\ at'[d] \in Before => at[d] \in Before
                              /\ d # c => InHand(d)' = InHand(d)
        BY <1>3 DEF Recv, Goto, IInv, Shapes, Places, Before, InHand
    <2>3. UNCHANGED <<mask, socket, read_buffer, close_event, closed, asked, typed, forwarded,
                      got, failed, shut>>
        BY <1>3 DEF Recv, chans
    <2>4. Shapes' /\ SocketIsConnected'
        BY <2>1, <2>2, <2>3 DEF IInv, Shapes, SocketIsConnected
    <2>5. ForwardedWasSent'
        <3> SUFFICES ASSUME NEW d \in Conns
                     PROVE  /\ typed[d] <= MaxUser[d] /\ local'[d].sent <= MaxLocal[d]
                            /\ forwarded[d] + InHand(d)' + local'[d].unread <= local'[d].sent
            BY <2>3 DEF ForwardedWasSent
        <3>1. CASE d = c
            BY <2>1, <2>2, <3>1 DEF IInv, Shapes, ForwardedWasSent
        <3>2. CASE d # c
            BY <2>1, <2>2, <3>2 DEF IInv, Shapes, ForwardedWasSent
        <3> QED BY <3>1, <3>2
    <2> QED BY <2>1, <2>3, <2>4, <2>5, QuietIInv
<1>4. CASE LocalSends(c)
    <2> DEFINE end == [local[c] EXCEPT !.sent = @ + 1, !.unread = @ + 1]
    <2>1. /\ local[c] \in [state : {"none", "up", "fin", "reset"}, sent : Nat, unread : Nat]
          /\ local[c].sent < MaxLocal[c] /\ local' = [local EXCEPT ![c] = end]
          /\ UNCHANGED <<at, mask, socket, read_buffer, close_event, chans, got, failed, shut>>
        BY <1>4 DEF LocalSends, IInv, Shapes
    <2>2. /\ end \in [state : {"none", "up", "fin", "reset"}, sent : Nat, unread : Nat]
          /\ end.state = local[c].state /\ end.sent = local[c].sent + 1
          /\ end.unread = local[c].unread + 1
        <3>1. local[c].sent + 1 \in Nat /\ local[c].unread + 1 \in Nat
            BY <2>1
        <3> QED BY <2>1, <3>1
    <2> HIDE DEF end
    <2>3. Shapes' /\ SocketIsConnected'
        BY <2>1, <2>2 DEF chans, IInv, Shapes, SocketIsConnected
    <2>4. ForwardedWasSent'
        <3> SUFFICES ASSUME NEW d \in Conns
                     PROVE  /\ typed'[d] <= MaxUser[d] /\ local'[d].sent <= MaxLocal[d]
                            /\ forwarded[d] + InHand(d) + local'[d].unread <= local'[d].sent
            BY <2>1 DEF chans, ForwardedWasSent, InHand
        <3>1. CASE d = c
            <4>1. /\ local[c].sent \in Nat /\ local[c].unread \in Nat /\ forwarded[c] \in Nat
                  /\ MaxLocal[c] \in Nat /\ local'[c] = end /\ InHand(c) \in {0, 1}
                BY <2>1, SizeAssumption DEF IInv, Shapes, InHand
            <4> QED BY <2>1, <2>2, <3>1, <4>1 DEF chans, IInv, ForwardedWasSent
        <3>2. CASE d # c
            BY <2>1, <3>2 DEF chans, IInv, Shapes, ForwardedWasSent
        <3> QED BY <3>1, <3>2
    <2>5. \A d \in Conns : local'[d].state = local[d].state
        BY <2>1, <2>2 DEF IInv, Shapes
    <2> QED BY <2>1, <2>3, <2>4, <2>5, QuietIInv DEF chans
<1>5. ASSUME NEW how \in {"fin", "reset"}, LocalEnds(c, how) PROVE IInv'
    <2>1. Shapes' /\ SocketIsConnected' /\ ForwardedWasSent'
        BY <1>5 DEF LocalEnds, chans, IInv, Shapes, SocketIsConnected, ForwardedWasSent,
                      InHand
    <2>2. \A d \in Conns : local[d].state = "reset" => local'[d].state = "reset"
        BY <1>5 DEF LocalEnds, IInv, Shapes
    <2> QED BY <1>5, <2>1, <2>2, QuietIInv DEF LocalEnds, chans
<1>6. CASE Write(c) \/ Send(c)
    <2>1. at' \in [Conns -> Places] /\ \A d \in Conns : at'[d] \in Before => at[d] \in Before
        BY <1>6 DEF Write, Send, Goto, IInv, Shapes, Places, Before
    <2>2. /\ InHand(c) = 1 /\ InHand(c)' \in {0, 1}
          /\ \A d \in Conns : d # c => InHand(d)' = InHand(d)
        BY <1>6 DEF Write, Send, Goto, IInv, Shapes, InHand
    <2>3. /\ forwarded' \in [Conns -> Nat]
          /\ \/ forwarded' = forwarded
             \/ InHand(c)' = 0 /\ forwarded' = [forwarded EXCEPT ![c] = @ + 1]
        <3>1. CASE Write(c)
            BY <3>1 DEF Write, chans, IInv, Shapes
        <3>2. CASE Send(c)
            <4>1. forwarded' = [forwarded EXCEPT ![c] = @ + 1] /\ at'[c] = "handled"
                BY <3>2 DEF Send, Goto, IInv, Shapes
            <4> QED BY <4>1 DEF IInv, Shapes, InHand
        <3> QED BY <1>6, <3>1, <3>2
    <2>4. UNCHANGED <<mask, socket, read_buffer, close_event, closed, asked, typed, local,
                      got, failed, shut>>
        BY <1>6 DEF Write, Send, chans
    <2>5. Shapes' /\ SocketIsConnected'
        BY <2>1, <2>3, <2>4 DEF IInv, Shapes, SocketIsConnected
    <2>6. ForwardedWasSent'
        <3> SUFFICES ASSUME NEW d \in Conns
                     PROVE  forwarded'[d] + InHand(d)' + local[d].unread <= local[d].sent
            BY <2>4 DEF IInv, ForwardedWasSent
        <3>1. /\ forwarded[d] \in Nat /\ local[d].unread \in Nat /\ local[d].sent \in Nat
              /\ forwarded[d] + InHand(d) + local[d].unread <= local[d].sent
              /\ InHand(d) \in {0, 1} /\ InHand(d)' \in {0, 1}
            BY DEF IInv, Shapes, ForwardedWasSent, InHand
        <3>2. forwarded'[d] + InHand(d)' <= forwarded[d] + InHand(d) /\ forwarded'[d] \in Nat
            <4>1. forwarded'[d] = forwarded[d] \/ (d = c /\ forwarded'[d] = forwarded[d] + 1)
                BY <2>3 DEF IInv, Shapes
            <4> HIDE DEF InHand
            <4> QED BY <2>2, <2>3, <3>1, <4>1 DEF IInv, Shapes
        <3> QED BY <3>1, <3>2
    <2> QED BY <2>4, <2>5, <2>6, QuietIInv
<1> QED BY <1>1, <1>2, <1>3, <1>4, <1>5, <1>6 DEF Quiet

-----------------------------------------------------------------------------
(* The steps that flush.                                                   *)

LEMMA OnChannelDataIInv ==
    ASSUME NEW c \in Conns, NEW ok \in BOOLEAN, IInv, OnChannelData(c, ok) PROVE IInv'
<1>0. PICK n \in Nat : n = typed[c] + 1
    BY DEF IInv, Shapes
<1> DEFINE chunks == Append(read_buffer[c], n)
<1>1. /\ typed' = [typed EXCEPT ![c] = n] /\ typed[c] < MaxUser[c]
      /\ FlushBuffer(c, chunks, ok)
      /\ UNCHANGED <<at, mask, socket, close_event, closed, asked, forwarded, local, shut>>
      /\ c \notin closed
    BY <1>0 DEF OnChannelData
<1>2. /\ typed[c] \in Nat /\ got[c] \in Seq(1..typed[c]) /\ read_buffer[c] \in Seq(1..typed[c])
      /\ InOrder(got[c] \o read_buffer[c])
      /\ Intact(c) => got[c] \o read_buffer[c] = Upto(typed[c])
    BY DEF IInv, Shapes, ChunksWereTyped, NothingLost
<1>3. /\ n \in 1..n /\ got[c] \in Seq(1..n) /\ read_buffer[c] \in Seq(1..n)
      /\ chunks \in Seq(1..n)
    BY <1>0, <1>2, SeqMonotonic, AppendProperties
<1>4. got[c] \o chunks = Append(got[c] \o read_buffer[c], n)
    <2>1. \A S : \A s, u \in Seq(S), e \in S : s \o Append(u, e) = Append(s \o u, e)
        BY AppendToConcat, Zenon
    <2>2. \A s, u \in Seq(1..n), e \in 1..n : s \o Append(u, e) = Append(s \o u, e)
        BY <2>1
    <2> QED BY <1>3, <2>2
<1>5. InOrder(got[c] \o chunks)
    BY <1>0, <1>2, <1>4, AppendInOrder, ConcatProperties
<1>6. Intact(c) => got[c] \o chunks = Upto(n)
    BY <1>0, <1>2, <1>4, UptoSucc
<1> HIDE DEF chunks
<1>7. /\ got' \in [Conns -> Seq(Nat)] /\ read_buffer' \in [Conns -> Seq(Nat)]
      /\ failed' \subseteq Conns
      /\ got'[c] \in Seq(1..n) /\ read_buffer'[c] \in Seq(1..n)
      /\ InOrder(got'[c] \o read_buffer'[c])
      /\ Intact(c)' => got'[c] \o read_buffer'[c] = Upto(n)
      /\ \A d \in Conns \ {c} : /\ got'[d] = got[d] /\ read_buffer'[d] = read_buffer[d]
                                /\ Intact(d)' = Intact(d)
    BY <1>1, <1>3, <1>5, <1>6, Flush
<1>8. /\ Shapes' /\ typed'[c] = n
      /\ \A d \in Conns \ {c} : typed'[d] = typed[d]
    BY <1>1, <1>7 DEF IInv, Shapes
<1>9. SocketIsConnected' /\ ForwardedWasSent'
    BY <1>0, <1>1, <1>2, <1>8, SizeAssumption DEF IInv, SocketIsConnected, ForwardedWasSent,
                                                 InHand
<1>10. c \notin shut
    BY <1>1 DEF IInv, ShutIsFlushed
<1> QED BY <1>1, <1>7, <1>8, <1>9, <1>10, OthersKeep

(* The flushes of what is in the buffer: the first one, when connected,    *)
(* and the last one, when the channel is closed.                           *)
LEMMA FlushRestIInv ==
    ASSUME NEW c \in Conns, NEW ok \in BOOLEAN, IInv,
           FlushConnected(c, ok) \/ OnChannelClose(c, ok)
    PROVE  IInv'
<1>1. /\ FlushBuffer(c, read_buffer[c], ok)
      /\ UNCHANGED <<mask, socket, close_event, asked, typed, forwarded, local>>
      /\ \/ /\ at' \in [Conns -> Places] /\ UNCHANGED <<closed, shut>>
            /\ \A d \in Conns : /\ at'[d] \in Before => at[d] \in Before
                                /\ InHand(d)' = InHand(d)
         \/ /\ UNCHANGED at /\ closed' = closed \cup {c}
            /\ shut' = IF socket[c] /\ ok THEN shut \cup {c} ELSE shut
    BY DEF FlushConnected, OnChannelClose, Goto, chans, IInv, Shapes, Places, Before,
           InHand
<1>2. /\ typed[c] \in Nat /\ got[c] \in Seq(1..typed[c]) /\ read_buffer[c] \in Seq(1..typed[c])
      /\ InOrder(got[c] \o read_buffer[c])
      /\ Intact(c) => got[c] \o read_buffer[c] = Upto(typed[c])
    BY DEF IInv, Shapes, ChunksWereTyped, NothingLost
<1>3. /\ got' \in [Conns -> Seq(Nat)] /\ read_buffer' \in [Conns -> Seq(Nat)]
      /\ failed' \subseteq Conns
      /\ got'[c] \in Seq(1..typed[c]) /\ read_buffer'[c] \in Seq(1..typed[c])
      /\ InOrder(got'[c] \o read_buffer'[c])
      /\ Intact(c)' => got'[c] \o read_buffer'[c] = Upto(typed[c])
      /\ socket[c] => read_buffer'[c] = <<>>
      /\ \A d \in Conns \ {c} : /\ got'[d] = got[d] /\ read_buffer'[d] = read_buffer[d]
                                /\ Intact(d)' = Intact(d)
    BY <1>1, <1>2, Flush
<1>4. Shapes' /\ SocketIsConnected' /\ ForwardedWasSent'
    BY <1>1, <1>3 DEF IInv, Shapes, SocketIsConnected, ForwardedWasSent, InHand
<1>5. c \in shut' => c \in closed' /\ read_buffer'[c] = <<>>
    <2>1. c \in shut /\ ~socket[c] => read_buffer'[c] = <<>>
        BY <1>1 DEF FlushBuffer, IInv, Shapes, ShutIsFlushed
    <2> QED BY <1>1, <1>3, <2>1 DEF IInv, ShutIsFlushed
<1>6. \A d \in Conns \ {c} : d \in shut' => d \in shut
    BY <1>1
<1> QED BY <1>1, <1>3, <1>4, <1>5, <1>6, OthersKeep

-----------------------------------------------------------------------------
LEMMA InvariantHolds == Spec => []IInv
<1>1. IInv /\ [Next]_vars => IInv'
    <2>1. ASSUME IInv, NEW c \in Conns, NEW ok \in BOOLEAN,
                 \/ OnChannelData(c, ok) \/ FlushConnected(c, ok) \/ OnChannelClose(c, ok)
                 \/ Quiet(c)
          PROVE  IInv'
        BY <2>1, OnChannelDataIInv, FlushRestIInv, QuietStep
    <2>2. Next => \E c \in Conns, ok \in BOOLEAN :
                     \/ OnChannelData(c, ok) \/ FlushConnected(c, ok) \/ OnChannelClose(c, ok)
                     \/ Quiet(c)
        BY DEF Next, ThreadStep, Quiet
    <2>3. IInv /\ UNCHANGED vars => IInv'
        BY DEF vars, chans, IInv, Shapes, SocketIsConnected, ForwardedWasSent, ChunksWereTyped,
               NothingLost, Intact, ShutIsFlushed, InHand
    <2> QED BY <2>1, <2>2, <2>3
<1> QED BY InitIInv, <1>1, PTL DEF Spec

(* The types; with them that no more is forwarded to a remote user than    *)
(* the local server sent, and nothing is written to it that was not typed. *)
THEOREM ForwardTypeOK == Spec => []TypeOK
<1>1. IInv => TypeOK
    <2> SUFFICES ASSUME IInv PROVE TypeOK
        OBVIOUS
    <2> USE DEF IInv, Shapes
    <2>1. ASSUME NEW c \in Conns
          PROVE  read_buffer[c] \in Seq(1..MaxUser[c]) /\ got[c] \in Seq(1..MaxUser[c])
        <3>1. 1..typed[c] \subseteq 1..MaxUser[c]
            BY SizeAssumption DEF ForwardedWasSent
        <3> QED BY <3>1, SeqMonotonic DEF ChunksWereTyped
    <2>2. ASSUME NEW c \in Conns
          PROVE  /\ typed[c] \in 0..MaxUser[c] /\ forwarded[c] \in 0..MaxLocal[c]
                 /\ local[c].state \in {"none", "up", "fin", "reset"}
                 /\ local[c].sent \in 0..MaxLocal[c]
                 /\ local[c].unread \in 0..MaxLocal[c]
        <3>1. InHand(c) \in {0, 1}
            BY DEF InHand
        <3> QED BY <3>1, SizeAssumption DEF ForwardedWasSent
    <2> QED BY <2>1, <2>2 DEF TypeOK
<1> QED BY <1>1, InvariantHolds, PTL

(* Whatever the order of connect, data, failures and close, what the local *)
(* server has and what is buffered are what the user sent, in order.       *)
THEOREM ForwardLosesNothing == Spec => []NothingLost
<1>1. IInv => NothingLost
    BY DEF IInv
<1> QED BY <1>1, InvariantHolds, PTL

(* Connection.on_channel_close: shutdown(SHUT_WR) comes after everything   *)
(* the user sent.                                                          *)
THEOREM ForwardEofAfterAll == Spec => []EofAfterAll
<1>1. IInv => EofAfterAll
    <2> SUFFICES ASSUME IInv, NEW c \in shut, Intact(c)
                 PROVE  got[c] = Upto(typed[c])
        BY DEF EofAfterAll
    <2>1. c \in Conns /\ got[c] \in Seq(Nat) /\ got[c] \o read_buffer[c] = Upto(typed[c])
          /\ read_buffer[c] = <<>>
        BY DEF IInv, Shapes, NothingLost, ShutIsFlushed
    <2> QED BY <2>1, ConcatEmptySeq
<1> QED BY <1>1, InvariantHolds, PTL

-----------------------------------------------------------------------------
(***************************************************************************)
(* PortForward implements Pipe: a step of the code is a step of the pipe,  *)
(* or is not seen at its ends.  IInv gives what Pipe promises of the state *)
(* that a step leads to; what is left is that a flush adds to what the     *)
(* local server has, and that nothing is written after its end of file.    *)
(***************************************************************************)

(* The two ends of the connections, as Pipe has them.                      *)
EndsVars == <<typed, got, Broken, shut, Answers, Coming, forwarded, closed>>

(* The beginning of chunks in order is in order, ...                       *)
LEMMA FrontInOrder ==
    ASSUME NEW s \in Seq(Nat), NEW u \in Seq(Nat), InOrder(s \o u)
    PROVE  Ends!Ascending(s)
<1>1. InOrder(s \o SubSeq(u, 1, 0))
    BY PrefixInOrder, LenProperties
<1>2. SubSeq(u, 1, 0) = <<>> /\ s \o <<>> = s
    BY SubSeqEmpty, ConcatEmptySeq
<1> QED BY <1>1, <1>2 DEF InOrder, Ends!Ascending

(* ... and if they are all there, so are those at the beginning.           *)
LEMMA FrontOfAll ==
    ASSUME NEW s \in Seq(Nat), NEW u \in Seq(Nat), NEW n \in Nat, s \o u = Upto(n)
    PROVE  s = Ends!Upto(Len(s)) /\ (u = <<>> => Len(s) = n)
<1>1. /\ s \o u \in Seq(Nat) /\ Len(s \o u) = Len(s) + Len(u)
      /\ \A i \in 1..(Len(s) + Len(u)) : (s \o u)[i] = IF i <= Len(s) THEN s[i] ELSE u[i - Len(s)]
    BY ConcatProperties
<1>2. Len(s) \in Nat /\ Len(u) \in Nat /\ (u = <<>> => Len(u) = 0)
    BY LenProperties, EmptySeq
<1>3. Upto(n) \in Seq(Nat) /\ Len(Upto(n)) = n /\ \A i \in 1..n : Upto(n)[i] = i
    BY IsASeq DEF Upto
<1>4. n = Len(s) + Len(u)
    BY <1>1, <1>3
<1>5. \A i \in 1..Len(s) : s[i] = i
    BY <1>1, <1>2, <1>3, <1>4
<1>6. /\ Ends!Upto(Len(s)) \in Seq(Nat) /\ Len(Ends!Upto(Len(s))) = Len(s)
      /\ \A i \in 1..Len(s) : Ends!Upto(Len(s))[i] = i
    BY <1>2, IsASeq DEF Ends!Upto
<1>7. s = Ends!Upto(Len(s))
    BY <1>5, <1>6, SeqEqual
<1> QED BY <1>2, <1>4, <1>7

(* What a flush writes comes after what is there.                          *)
LEMMA FlushExtends ==
    ASSUME IInv, NEW c \in Conns, NEW chunks \in Seq(Nat), NEW ok \in BOOLEAN,
           FlushBuffer(c, chunks, ok)
    PROVE  /\ \/ UNCHANGED got
              \/ got' = [got EXCEPT ![c] = got'[c]] /\ socket[c] /\ chunks # <<>>
           /\ Ends!Extends(got'[c], got[c])
           /\ failed' = failed \/ failed' = failed \cup {c}
           /\ chunks = <<>> => UNCHANGED <<got, failed>>
<1>1. got \in [Conns -> Seq(Nat)] /\ got[c] \in Seq(Nat) /\ Len(got[c]) \in Nat
    BY LenProperties DEF IInv, Shapes
<1>2. ASSUME NEW s \in Seq(Nat)
      PROVE  Ends!Extends(got[c] \o s, got[c]) /\ Ends!Extends(got[c], got[c])
    <2>1. /\ Len(got[c] \o s) = Len(got[c]) + Len(s) /\ Len(s) \in Nat
          /\ \A i \in 1..(Len(got[c]) + Len(s)) :
                 (got[c] \o s)[i] = IF i <= Len(got[c]) THEN got[c][i] ELSE s[i - Len(got[c])]
        BY <1>1, ConcatProperties, LenProperties
    <2> QED BY <1>1, <2>1 DEF Ends!Extends
<1>3. ASSUME NEW s \in Seq(Nat) PROVE Ends!Extends(Delivered(c, s), got[c])
    BY <1>2, <1>3 DEF Delivered
<1>4. got[c] \o <<>> = got[c] /\ Ends!Extends(got[c], got[c])
    BY <1>1, <1>2, ConcatEmptySeq
<1>5. CASE UNCHANGED <<got, failed>>
    BY <1>4, <1>5
<1>6. CASE socket[c] /\ got' = [got EXCEPT ![c] = Delivered(c, chunks)] /\ UNCHANGED failed
    <2>1. got'[c] = Delivered(c, chunks)
        BY <1>1, <1>6
    <2>2. chunks = <<>> => UNCHANGED got
        BY <1>1, <1>4, <1>6 DEF Delivered
    <2>3. Ends!Extends(got'[c], got[c])
        BY <1>3, <2>1
    <2> QED BY <1>6, <2>1, <2>2, <2>3
<1>7. CASE /\ socket[c] /\ failed' = failed \cup {c}
           /\ \E n \in 0..Len(chunks) :
                 n < Len(chunks) /\ got' = [got EXCEPT ![c] = Delivered(c, SubSeq(chunks, 1, n))]
    <2>1. PICK n \in 0..Len(chunks) :
              n < Len(chunks) /\ got' = [got EXCEPT ![c] = Delivered(c, SubSeq(chunks, 1, n))]
        BY <1>7
    <2>2. Len(chunks) \in Nat /\ chunks # <<>> /\ \A i \in 1..n : chunks[i] \in Nat
        BY <2>1, EmptySeq, LenProperties, ElementOfSeq
    <2>3. SubSeq(chunks, 1, n) \in Seq(Nat)
        BY <2>2, SubSeqProperties, Z3
    <2>4. got'[c] = Delivered(c, SubSeq(chunks, 1, n))
        BY <1>1, <2>1
    <2>5. Ends!Extends(got'[c], got[c])
        BY <1>3, <2>3, <2>4
    <2> QED BY <1>7, <2>1, <2>2, <2>4, <2>5
<1> QED BY <1>5, <1>6, <1>7 DEF FlushBuffer

(* A flush is a Receive, as long as the server has not seen end of file.   *)
LEMMA FlushReceives ==
    ASSUME IInv, IInv', NEW c \in Conns, NEW chunks \in Seq(Nat), NEW ok \in BOOLEAN,
           FlushBuffer(c, chunks, ok), c \notin shut, UNCHANGED local
    PROVE  /\ Ends!Receive(c)
           /\ c \notin Broken' /\ read_buffer'[c] = <<>> => Len(got'[c]) = typed'[c]
<1>1. /\ got' = [got EXCEPT ![c] = got'[c]] /\ Ends!Extends(got'[c], got[c])
      /\ failed' = failed \/ failed' = failed \cup {c}
    <2>1. got' = got => got' = [got EXCEPT ![c] = got'[c]]
        BY DEF IInv, Shapes
    <2> QED BY <2>1, FlushExtends
<1>2. Broken' \in {Broken, Broken \cup {c}}
    BY <1>1 DEF Broken, Intact
<1>3. /\ got'[c] \in Seq(Nat) /\ read_buffer'[c] \in Seq(Nat) /\ typed'[c] \in Nat
      /\ got'[c] \in Seq(1..typed'[c]) /\ InOrder(got'[c] \o read_buffer'[c])
      /\ Intact(c)' => got'[c] \o read_buffer'[c] = Upto(typed'[c])
    BY DEF IInv, Shapes, ChunksWereTyped, NothingLost, InOrder, Upto
<1>4. Ends!Ascending(got'[c])
    BY <1>3, FrontInOrder
<1>5. c \notin Broken' => Intact(c)'
    BY DEF Broken
<1>6. c \notin Broken' => /\ got'[c] = Ends!Upto(Len(got'[c]))
                          /\ read_buffer'[c] = <<>> => Len(got'[c]) = typed'[c]
    BY <1>3, <1>5, FrontOfAll
<1> QED BY <1>1, <1>2, <1>3, <1>4, <1>6 DEF Ends!Receive

-----------------------------------------------------------------------------
(* The steps of PortForward.                                               *)

(* What a remote user sends is typed, and written if there is a socket.    *)
LEMMA OnChannelDataPipe ==
    ASSUME NEW c \in Conns, NEW ok \in BOOLEAN, IInv, IInv', OnChannelData(c, ok)
    PROVE  Ends!UserTypes(c)
<1>1. PICK chunks \in Seq(Nat) : FlushBuffer(c, chunks, ok)
    <2>1. Append(read_buffer[c], typed[c] + 1) \in Seq(Nat)
        BY AppendProperties DEF IInv, Shapes
    <2> QED BY <2>1 DEF OnChannelData
<1>2. c \notin shut /\ c \notin closed /\ UNCHANGED <<local, shut, forwarded, closed>>
    BY DEF OnChannelData, IInv, ShutIsFlushed
<1>3. Ends!Receive(c)
    BY <1>1, <1>2, FlushReceives
<1>4. typed' = [typed EXCEPT ![c] = @ + 1] /\ UNCHANGED <<Answers, Coming>>
    BY <1>2 DEF OnChannelData, Answers, Coming
<1> QED BY <1>2, <1>3, <1>4 DEF Ends!UserTypes

(* The last write and the end of file.                                     *)
LEMMA OnChannelClosePipe ==
    ASSUME NEW c \in Conns, NEW ok \in BOOLEAN, IInv, IInv', OnChannelClose(c, ok)
    PROVE  Ends!UserCloses(c)
<1>1. /\ FlushBuffer(c, read_buffer[c], ok) /\ read_buffer[c] \in Seq(Nat)
      /\ c \notin closed /\ closed' = closed \cup {c}
      /\ UNCHANGED <<at, local, typed, forwarded>>
      /\ shut' = IF socket[c] /\ ok THEN shut \cup {c} ELSE shut
    BY DEF OnChannelClose, IInv, Shapes
<1>2. c \notin shut
    BY <1>1 DEF IInv, ShutIsFlushed
<1>3. /\ Ends!Receive(c)
      /\ c \notin Broken' /\ read_buffer'[c] = <<>> => Len(got'[c]) = typed'[c]
    BY <1>1, <1>2, FlushReceives
<1>4. UNCHANGED <<Answers, Coming>>
    BY <1>1 DEF Answers, Coming
<1>5. \/ UNCHANGED shut
      \/ shut' = shut \cup {c} /\ (c \in Broken' \/ Len(got'[c]) = typed[c])
    <2>1. c \in shut' => read_buffer'[c] = <<>>
        BY DEF IInv, ShutIsFlushed
    <2> QED BY <1>1, <1>3, <2>1
<1> QED BY <1>1, <1>3, <1>4, <1>5 DEF Ends!UserCloses

(* The first write.  After the end of file there is nothing to write.      *)
LEMMA FlushConnectedPipe ==
    ASSUME NEW c \in Conns, NEW ok \in BOOLEAN, IInv, IInv', FlushConnected(c, ok)
    PROVE  Ends!Flush(c) \/ UNCHANGED EndsVars
<1>1. /\ FlushBuffer(c, read_buffer[c], ok) /\ read_buffer[c] \in Seq(Nat)
      /\ UNCHANGED <<local, typed, forwarded, closed, shut>>
      /\ at[c] = "connected" /\ at' = [at EXCEPT ![c] = IF ok THEN "loop" ELSE "leaving"]
    BY DEF FlushConnected, Goto, chans, IInv, Shapes
<1>2. UNCHANGED <<Answers, Coming>>
    BY <1>1 DEF Answers, Coming, IInv, Shapes
<1>3. CASE c \in shut
    <2>1. read_buffer[c] = <<>>
        BY <1>3 DEF IInv, ShutIsFlushed
    <2>2. UNCHANGED <<got, failed>>
        BY <1>1, <2>1, FlushExtends
    <2> QED BY <1>1, <1>2, <2>2 DEF EndsVars, Broken, Intact
<1>4. CASE c \notin shut
    BY <1>1, <1>2, <1>4, FlushReceives DEF Ends!Flush
<1> QED BY <1>3, <1>4

(* The thread and the local server.                                        *)
LEMMA QuietPipe ==
    ASSUME NEW c \in Conns, IInv, Quiet(c)
    PROVE  Ends!Next \/ UNCHANGED EndsVars
<1>1. CASE Open(c) \/ OpenFails(c) \/ ConnectFails(c) \/ Loop(c) \/ Poll(c) \/ RecvNothing(c)
           \/ Handled(c) \/ Leave(c) \/ Ask(c) \/ Decrement(c)
    <2>1. UNCHANGED <<typed, got, failed, local, shut, forwarded, closed>>
        BY <1>1 DEF Open, OpenFails, ConnectFails, Loop, Poll, RecvNothing, Handled, Leave, Ask,
                    Decrement, chans
    <2>2. UNCHANGED Coming
        BY <1>1 DEF Open, OpenFails, ConnectFails, Loop, Poll, RecvNothing, Handled, Leave, Ask,
                    Decrement, Goto, IInv, Shapes, Coming
    <2> QED BY <2>1, <2>2 DEF EndsVars, Broken, Intact, Answers
<1>2. CASE Connected(c)
    <2>1. /\ UNCHANGED <<typed, got, failed, shut, forwarded, closed>>
          /\ local[c].state = "none" /\ local' = [local EXCEPT ![c] = [local[c] EXCEPT !.state = "up"]]
        BY <1>2 DEF Connected, Goto, chans, IInv, SocketIsConnected, Before
    <2>2. \A d \in Conns : /\ local'[d].sent = local[d].sent
                           /\ local'[d].state = "reset" <=> local[d].state = "reset"
        BY <2>1 DEF IInv, Shapes
    <2>3. UNCHANGED Coming
        BY <1>2 DEF Connected, Goto, IInv, Shapes, Coming
    <2> QED BY <2>1, <2>2, <2>3 DEF EndsVars, Broken, Intact, Answers
<1>3. CASE Recv(c) \/ Write(c) \/ Send(c)
    <2>1. UNCHANGED <<typed, got, failed, shut, closed>>
        BY <1>3 DEF Recv, Write, Send, chans
    <2>2. \A d \in Conns : local'[d].sent = local[d].sent /\ local'[d].state = local[d].state
        <3>1. UNCHANGED local \/ local' = [local EXCEPT ![c] = [local[c] EXCEPT !.unread = @ - 1]]
            BY <1>3 DEF Recv, Write, Send, chans
        <3>2. CASE UNCHANGED local
            BY <3>2
        <3>3. CASE local' = [local EXCEPT ![c] = [local[c] EXCEPT !.unread = @ - 1]]
            BY <3>3 DEF IInv, Shapes
        <3> QED BY <3>1, <3>2, <3>3
    <2>3. UNCHANGED <<Broken, Answers>>
        BY <2>1, <2>2 DEF Broken, Intact, Answers
    <2>4. CASE Recv(c) \/ (Write(c) /\ c \in closed)
        <3>1. UNCHANGED <<forwarded, Coming>>
            BY <2>4 DEF Recv, Write, Goto, chans, IInv, Shapes, Coming
        <3> QED BY <2>1, <2>3, <3>1 DEF EndsVars
    <2>5. CASE Write(c) /\ c \notin closed
        <3>1. UNCHANGED forwarded /\ c \notin Coming /\ Coming' = Coming \cup {c}
            BY <2>5 DEF Write, Goto, chans, IInv, Shapes, Coming
        <3>2. InHand(c) = 1
            BY <2>5 DEF Write, Goto, InHand
        <3>3. forwarded[c] < Answers[c]
            BY <3>2 DEF IInv, Shapes, ForwardedWasSent, Answers
        <3> QED BY <2>1, <2>3, <2>5, <3>1, <3>3 DEF Ends!Next, Ends!Take
    <2>6. CASE Send(c)
        <3>1. /\ forwarded' = [forwarded EXCEPT ![c] = @ + 1]
              /\ c \in Coming /\ Coming' = Coming \ {c}
            BY <2>6 DEF Send, Goto, IInv, Shapes, Coming
        <3> QED BY <2>1, <2>3, <3>1 DEF Ends!Next, Ends!Forward
    <2> QED BY <1>3, <2>4, <2>5, <2>6
<1>4. CASE LocalSends(c)
    <2>1. /\ UNCHANGED <<at, typed, got, failed, shut, closed, forwarded>>
          /\ local' = [local EXCEPT ![c] = [local[c] EXCEPT !.sent = @ + 1, !.unread = @ + 1]]
        BY <1>4 DEF LocalSends, chans
    <2>2. \A d \in Conns : /\ local'[d].sent = IF d = c THEN local[d].sent + 1 ELSE local[d].sent
                           /\ local'[d].state = local[d].state
        BY <2>1 DEF IInv, Shapes
    <2>3. UNCHANGED <<Broken, Coming>> /\ Answers' = [Answers EXCEPT ![c] = @ + 1]
        BY <2>1, <2>2 DEF Broken, Intact, Answers, Coming
    <2> QED BY <2>1, <2>3 DEF Ends!Next, Ends!ServerSends
<1>5. ASSUME NEW how \in {"fin", "reset"}, LocalEnds(c, how)
      PROVE  Ends!Next \/ UNCHANGED EndsVars
    <2>1. /\ UNCHANGED <<at, typed, got, failed, shut, closed, forwarded>>
          /\ local[c].state \in {"up", "fin"}
          /\ local' = [local EXCEPT ![c] = [local[c] EXCEPT !.state = how]]
        BY <1>5 DEF LocalEnds, chans
    <2>2. \A d \in Conns : /\ local'[d].sent = local[d].sent
                           /\ local'[d].state = IF d = c THEN how ELSE local[d].state
        BY <2>1 DEF IInv, Shapes
    <2>3. UNCHANGED <<Answers, Coming>>
        BY <2>1, <2>2 DEF Answers, Coming
    <2>4. CASE how = "fin"
        <3>1. UNCHANGED Broken
            BY <2>1, <2>2, <2>4 DEF Broken, Intact
        <3> QED BY <2>1, <2>3, <3>1 DEF EndsVars
    <2>5. CASE how = "reset"
        <3>1. Broken' = Broken \cup {c}
            BY <2>1, <2>2, <2>5 DEF Broken, Intact
        <3> QED BY <2>1, <2>3, <3>1 DEF Ends!Next, Ends!Break
    <2> QED BY <2>4, <2>5
<1> QED BY <1>1, <1>2, <1>3, <1>4, <1>5 DEF Quiet

(* A forwarded connection is two pipes, whatever the interleaving of the   *)
(* WS thread, the thread of the connection, its user and the local server. *)
THEOREM ForwardImplementsPipe == Spec => ImplementsPipe
<1>1. Init => Ends!Init
    <2> SUFFICES ASSUME Init PROVE Ends!Init
        OBVIOUS
    <2>1. Broken = {} /\ Coming = {} /\ Answers = [c \in Conns |-> 0]
        BY DEF Init, NoLocal, Broken, Coming, Intact, Answers
    <2> QED BY <2>1 DEF Init, Ends!Init
<1>2. IInv /\ IInv' /\ Next => Ends!Next \/ UNCHANGED EndsVars
    <2> SUFFICES ASSUME IInv, IInv', Next PROVE Ends!Next \/ UNCHANGED EndsVars
        OBVIOUS
    <2>1. PICK c \in Conns, ok \in BOOLEAN :
              \/ OnChannelData(c, ok) \/ FlushConnected(c, ok) \/ OnChannelClose(c, ok)
              \/ Quiet(c)
        BY DEF Next, ThreadStep, Quiet
    <2>2. CASE OnChannelData(c, ok)
        BY <2>2, OnChannelDataPipe DEF Ends!Next
    <2>3. CASE OnChannelClose(c, ok)
        BY <2>3, OnChannelClosePipe DEF Ends!Next
    <2>4. CASE FlushConnected(c, ok)
        BY <2>4, FlushConnectedPipe DEF Ends!Next
    <2>5. CASE Quiet(c)
        BY <2>5, QuietPipe
    <2> QED BY <2>1, <2>2, <2>3, <2>4, <2>5
<1>3. UNCHANGED vars => UNCHANGED EndsVars
    BY DEF vars, chans, EndsVars, Broken, Intact, Answers, Coming
<1>4. IInv /\ IInv' /\ [Next]_vars => [Ends!Next]_EndsVars
    BY <1>2, <1>3
<1> QED BY <1>1, <1>4, InvariantHolds, PTL DEF Spec, ImplementsPipe, Ends!Spec, Ends!vars, EndsVars
=============================================================================
