---------------------------- MODULE PortForward ----------------------------
(***************************************************************************)
(* Port forwarding, portforward.py: connections between a channel of a     *)
(* remote user and a TCP server on the device.  Each Connection has a      *)
(* thread that connects and copies what the server sends to the channel;   *)
(* what the user sends is written to the socket by the WS thread, from the *)
(* callbacks of the channel.  One critical section of Connection._lock is  *)
(* one step, and `self.socket = _socket`, outside the lock, is another.    *)
(*                                                                         *)
(* The local server and the kernel's view of the socket are external: data *)
(* and a FIN or RST may arrive at any time, and a sendall may fail.        *)
(***************************************************************************)
EXTENDS Naturals, Sequences

CONSTANTS Conns,         \* connections, on a channel each
          MaxUser,       \* bound: chunks the remote user of each sends
          MaxLocal       \* bound: chunks the local server sends on each

ASSUME SizeAssumption == MaxUser \in [Conns -> Nat] /\ MaxLocal \in [Conns -> Nat]

VARIABLES at,            \* where the thread of each connection is
          mask,          \* the events its last poll() returned
          socket,        \* Connection.socket is set
          read_buffer,   \* Connection.read_buffer
          close_event,   \* PortForwardManager._close_event, shared by all
          closed,        \* channels that are closed
          asked,         \* channels request_close was sent for
          typed,         \* chunks each remote user has sent, numbered from 1
          forwarded,     \* chunks sent to each remote user
          local,         \* the local server's end of each connection
          got,           \* chunks the local server has received
          failed,        \* connections on which a sendall raised
          shut           \* connections whose write side was shut down

chans == <<closed, asked, typed, forwarded>>
vars  == <<at, mask, socket, read_buffer, close_event, chans, local, got, failed, shut>>

(* state is "none", "up", "fin" or "reset"; unread counts the chunks sent  *)
(* that recv has not returned yet.                                         *)
NoLocal == [state |-> "none", sent |-> 0, unread |-> 0]
NoEvent == [readable |-> FALSE, error |-> FALSE]

Init == /\ at = [c \in Conns |-> "none"]
        /\ mask = [c \in Conns |-> NoEvent]
        /\ socket = [c \in Conns |-> FALSE]
        /\ read_buffer = [c \in Conns |-> <<>>]
        /\ close_event = FALSE
        /\ closed = {} /\ asked = {}
        /\ typed = [c \in Conns |-> 0]
        /\ forwarded = [c \in Conns |-> 0]
        /\ local = [c \in Conns |-> NoLocal]
        /\ got = [c \in Conns |-> <<>>]
        /\ failed = {} /\ shut = {}

Goto(c, from, to) == at[c] = from /\ at' = [at EXCEPT ![c] = to]

(* Channel.close() in the WS thread, which alone closes channels: request  *)
(* a close, unless the channel is closed.                                  *)
CloseChannel(c) == asked' = IF c \in closed THEN asked ELSE asked \cup {c}

(* What poll() says of the socket.  It also hangs up when both sides have  *)
(* shut down, but then the channel is closed, which Poll looks at first.   *)
Readable(c) == local[c].unread > 0 \/ local[c].state \in {"fin", "reset"}
Hung(c) == local[c].state = "reset"

-----------------------------------------------------------------------------
(* _flush_buffer with `chunks` in the buffer.  ok says whether it returned *)
(* or raised: sendall fails on a connection that was reset, if the kernel  *)
(* knows yet, and times out on a server that has not read for 5 seconds.   *)
(* Either way the buffer is emptied, and the connection goes on.           *)
Delivered(c, chunks) == IF local[c].state = "reset" THEN got[c] ELSE got[c] \o chunks

FlushKeepsBuffer(c, chunks, ok) ==   \* a plausible bug: no `del read_buffer[:]`
    /\ ok /\ read_buffer' = [read_buffer EXCEPT ![c] = chunks]
    /\ got' = IF socket[c] THEN [got EXCEPT ![c] = Delivered(c, chunks)] ELSE got
    /\ UNCHANGED failed

FlushBuffer(c, chunks, ok) ==
    \/ /\ ~socket[c] /\ ok
       /\ read_buffer' = [read_buffer EXCEPT ![c] = chunks]
       /\ UNCHANGED <<got, failed>>
    \/ /\ socket[c] /\ ok
       /\ read_buffer' = [read_buffer EXCEPT ![c] = <<>>]
       /\ got' = [got EXCEPT ![c] = Delivered(c, chunks)] /\ UNCHANGED failed
    \/ /\ socket[c] /\ ~ok /\ failed' = failed \cup {c}
       /\ read_buffer' = [read_buffer EXCEPT ![c] = <<>>]
       /\ \E n \in 0..Len(chunks) :
             /\ n < Len(chunks)
             /\ got' = [got EXCEPT ![c] = Delivered(c, SubSeq(chunks, 1, n))]

-----------------------------------------------------------------------------
(* Plausible bugs of the handlers; each must break a property below.       *)
OnChannelCloseUnflushed(c, ok) ==    \* shuts down without flushing
    /\ ok /\ at[c] # "none" /\ c \notin closed /\ closed' = closed \cup {c}
    /\ shut' = IF socket[c] THEN shut \cup {c} ELSE shut
    /\ UNCHANGED <<at, mask, socket, read_buffer, close_event, asked, typed,
                   forwarded, local, got, failed>>
PollForever(c) ==                    \* does not look at is_closed
    /\ Goto(c, "polling", IF local[c].unread > 0 THEN "reading" ELSE "loop")
    /\ mask' = [mask EXCEPT ![c] = [readable |-> local[c].unread > 0, error |-> FALSE]]
    /\ UNCHANGED <<socket, read_buffer, close_event, chans, local, got, failed, shut>>
RecvUnchecked(c) ==                  \* no `if data`: nothing is written as a chunk
    /\ local[c].unread = 0 /\ Goto(c, "reading", "writing")
    /\ UNCHANGED <<mask, socket, read_buffer, close_event, chans, local, got, failed, shut>>

-----------------------------------------------------------------------------
(* The WS thread.                                                          *)

(* Service.connect, redirect_port: the Connection takes the callbacks of   *)
(* the channel, then its thread is started; if that fails the channel is   *)
(* told SERVER_BUSY and closed.  Then no Connection took the callbacks,    *)
(* and what the user sends waits in the channel's deque, which read_buffer *)
(* stands for.                                                             *)
Open(c) == /\ c \notin closed /\ Goto(c, "none", "connecting")
           /\ UNCHANGED <<mask, socket, read_buffer, close_event, chans, local, got, failed, shut>>
OpenFails(c) == /\ c \notin closed /\ Goto(c, "none", "refused")
                /\ CloseChannel(c)
                /\ UNCHANGED <<mask, socket, read_buffer, close_event, closed, typed,
                               forwarded, local, got, failed, shut>>

OnChannelData(c, ok) ==
    /\ at[c] # "none" /\ c \notin closed /\ typed[c] < MaxUser[c]
    /\ typed' = [typed EXCEPT ![c] = @ + 1]
    /\ FlushBuffer(c, Append(read_buffer[c], typed[c] + 1), ok)
    /\ UNCHANGED <<at, mask, socket, close_event, closed, asked, forwarded, local, shut>>

(* Channel.on_close and its callback: if the flush raises, the write side  *)
(* is not shut down.                                                       *)
OnChannelClose(c, ok) ==
    /\ at[c] # "none" /\ c \notin closed /\ closed' = closed \cup {c}
    /\ FlushBuffer(c, read_buffer[c], ok)
    /\ shut' = IF socket[c] /\ ok THEN shut \cup {c} ELSE shut
    /\ UNCHANGED <<at, mask, socket, close_event, asked, typed, forwarded, local>>

-----------------------------------------------------------------------------
(* The thread of a connection.                                             *)

(* _connect: refused, timed out after 5 seconds, or connected.             *)
ConnectFails(c) ==
    /\ Goto(c, "connecting", "leaving")
    /\ UNCHANGED <<mask, socket, read_buffer, close_event, chans, local, got, failed, shut>>
Connected(c) ==
    /\ Goto(c, "connecting", "connected")
    /\ socket' = [socket EXCEPT ![c] = TRUE]
    /\ local' = [local EXCEPT ![c].state = "up"]
    /\ UNCHANGED <<mask, read_buffer, close_event, chans, got, failed, shut>>

(* The first flush: an error leaves _run through its `finally`.            *)
FlushConnected(c, ok) ==
    /\ Goto(c, "connected", IF ok THEN "loop" ELSE "leaving")
    /\ FlushBuffer(c, read_buffer[c], ok)
    /\ UNCHANGED <<mask, socket, close_event, chans, local, shut>>

(* while not self.close_event.is_set()                                     *)
Loop(c) ==
    /\ Goto(c, "loop", IF close_event THEN "leaving" ELSE "polling")
    /\ UNCHANGED <<mask, socket, read_buffer, close_event, chans, local, got, failed, shut>>

(* poll() returns the pending events, none after 5 seconds; then the       *)
(* channel is looked at before the events are.                             *)
Poll(c) ==
    /\ mask' = [mask EXCEPT ![c] = [readable |-> Readable(c), error |-> Hung(c)]]
    /\ Goto(c, "polling", IF c \in closed THEN "leaving"
                          ELSE IF Readable(c) THEN "reading" ELSE "loop")
    /\ UNCHANGED <<socket, read_buffer, close_event, chans, local, got, failed, shut>>

(* recv returns a chunk.  Channel.write looks whether the channel is       *)
(* closed, and sends: it may be closed between the two.  Then an error in  *)
(* the same poll result sets the close event.                              *)
Recv(c) ==
    /\ local[c].unread > 0 /\ Goto(c, "reading", "writing")
    /\ local' = [local EXCEPT ![c].unread = @ - 1]
    /\ UNCHANGED <<mask, socket, read_buffer, close_event, chans, got, failed, shut>>
Write(c) ==
    /\ Goto(c, "writing", IF c \in closed THEN "handled" ELSE "sending")
    /\ UNCHANGED <<mask, socket, read_buffer, close_event, chans, local, got, failed, shut>>
Send(c) ==
    /\ Goto(c, "sending", "handled")
    /\ forwarded' = [forwarded EXCEPT ![c] = @ + 1]
    /\ UNCHANGED <<mask, socket, read_buffer, close_event, closed, asked, typed, local,
                   got, failed, shut>>
Handled(c) ==
    /\ Goto(c, "handled", "loop")
    /\ close_event' = (close_event \/ mask[c].error)
    /\ UNCHANGED <<mask, socket, read_buffer, chans, local, got, failed, shut>>

(* recv raises, or returns no data: `break` leaves the loop over the       *)
(* events, not the loop over polls.                                        *)
RecvNothing(c) ==
    /\ local[c].unread = 0 /\ Goto(c, "reading", "loop")
    /\ UNCHANGED <<mask, socket, read_buffer, close_event, chans, local, got, failed, shut>>

(* finally: channel.close(), which looks at _closed and then sends its     *)
(* request, and _shutdown_read(); then run() decrements the limiter.       *)
Leave(c) ==
    /\ Goto(c, "leaving", IF c \in closed THEN "decrement" ELSE "asking")
    /\ UNCHANGED <<mask, socket, read_buffer, close_event, chans, local, got, failed, shut>>
Ask(c) ==
    /\ Goto(c, "asking", "decrement") /\ asked' = asked \cup {c}
    /\ UNCHANGED <<mask, socket, read_buffer, close_event, closed, typed, forwarded,
                   local, got, failed, shut>>
Decrement(c) ==
    /\ Goto(c, "decrement", "ended")
    /\ UNCHANGED <<mask, socket, read_buffer, close_event, chans, local, got, failed, shut>>

ThreadStep(c) ==
    \/ ConnectFails(c) \/ Connected(c) \/ \E ok \in BOOLEAN : FlushConnected(c, ok)
    \/ Loop(c) \/ Poll(c) \/ Recv(c) \/ Write(c) \/ Send(c) \/ Handled(c) \/ RecvNothing(c)
    \/ Leave(c) \/ Ask(c) \/ Decrement(c)

-----------------------------------------------------------------------------
(* The local server.                                                       *)
LocalSends(c) ==
    /\ local[c].state = "up" /\ local[c].sent < MaxLocal[c]
    /\ local' = [local EXCEPT ![c].sent = @ + 1, ![c].unread = @ + 1]
    /\ UNCHANGED <<at, mask, socket, read_buffer, close_event, chans, got, failed, shut>>
LocalEnds(c, how) ==
    /\ local[c].state \in {"up", "fin"} \ {how}
    /\ local' = [local EXCEPT ![c].state = how]
    /\ UNCHANGED <<at, mask, socket, read_buffer, close_event, chans, got, failed, shut>>

Next == \E c \in Conns :
          \/ Open(c) \/ OpenFails(c)
          \/ \E ok \in BOOLEAN : OnChannelData(c, ok) \/ OnChannelClose(c, ok)
          \/ ThreadStep(c)
          \/ LocalSends(c) \/ LocalEnds(c, "fin") \/ LocalEnds(c, "reset")

(* Threads run, connect() and poll() have a timeout of 5 seconds.  Nobody  *)
(* need send anything, nor close.                                          *)
Fairness == \A c \in Conns : WF_vars(ThreadStep(c))

Spec == Init /\ [][Next]_vars /\ Fairness

-----------------------------------------------------------------------------
Places == {"none", "refused", "connecting", "connected", "loop", "polling", "reading",
           "writing", "sending", "handled", "leaving", "asking", "decrement", "ended"}

TypeOK ==
    /\ at \in [Conns -> Places]
    /\ mask \in [Conns -> [readable : BOOLEAN, error : BOOLEAN]]
    /\ socket \in [Conns -> BOOLEAN] /\ close_event \in BOOLEAN
    /\ \A c \in Conns : read_buffer[c] \in Seq(1..MaxUser[c]) /\ got[c] \in Seq(1..MaxUser[c])
    /\ closed \subseteq Conns /\ asked \subseteq Conns /\ shut \subseteq Conns
    /\ failed \subseteq Conns
    /\ \A c \in Conns : /\ typed[c] \in 0..MaxUser[c] /\ forwarded[c] \in 0..MaxLocal[c]
                        /\ local[c].state \in {"none", "up", "fin", "reset"}
                        /\ local[c].sent \in 0..MaxLocal[c]
                        /\ local[c].unread \in 0..MaxLocal[c]

Upto(n) == [i \in 1..n |-> i]

(* Whatever the order of connect, data and close: what the local server    *)
(* has and what the buffer holds are together what the user sent, in       *)
(* order, as long as no send failed, and even then nothing comes twice or  *)
(* late.  The buffer is shared by the WS thread and the connecting thread, *)
(* and the socket is set outside the lock that guards it.                  *)
InOrder(s) == \A i, j \in DOMAIN s : i < j => s[i] < s[j]
Intact(c) == local[c].state # "reset" /\ c \notin failed
NothingLost == \A c \in Conns :
    /\ InOrder(got[c] \o read_buffer[c])
    /\ Intact(c) => got[c] \o read_buffer[c] = Upto(typed[c])

(* The local server sees end of file only after everything the user sent.  *)
EofAfterAll == \A c \in shut : Intact(c) => got[c] = Upto(typed[c])

(* "This will cause an exceptional condition in the select loop, which     *)
(* will subsequently exit cleanly": the thread of a closed channel ends.   *)
ClosedEnds == \A c \in Conns :
    c \in closed /\ at[c] # "refused" ~> at[c] = "ended"

(* "No data means the socket has been closed": then the channel is closed  *)
(* as well.                                                                *)
EofClosesChannel == \A c \in Conns :
    local[c].state = "fin" /\ at[c] = "loop" ~> c \in asked \cup closed

(* "One could be ssh'ed into a machine twice, so we shan't confuse these   *)
(* two connections": the agent closes the channel of an established        *)
(* connection only for a failure of that connection, its socket's or a     *)
(* send's.                                                                 *)
OwnFailureOnly == \A c \in asked : local[c].state # "up" \/ c \in failed

(* The two directions of a connection, as its user and the local server    *)
(* see them: see Pipe.                                                     *)
Broken  == {c \in Conns : ~Intact(c)}
Answers == [c \in Conns |-> local[c].sent]
Coming  == {c \in Conns : at[c] = "sending"}
Ends == INSTANCE Pipe WITH broken <- Broken, answers <- Answers, coming <- Coming,
                           gone <- closed

(* What a forwarded connection promises: what the user types reaches the   *)
(* local server whole, in order and before its end of file, nothing comes  *)
(* after that; what the server sends is not made up on the way back, and   *)
(* once the user has closed its channel no more than one chunk is sent.    *)
ImplementsPipe == Ends!Spec
=============================================================================
