------------------------------ MODULE WSClient ------------------------------
(***************************************************************************)
(* The channel table of m2m/wsclient.py over the life of several           *)
(* connections.  The one WS thread handles websocket events in order:      *)
(* ready, packets of the M2M server, disconnected.  A packet names a       *)
(* channel by its port; the thread keeps a table from ports to Channel     *)
(* objects, and services are attached to the objects, not to the ports.    *)
(*                                                                         *)
(* The M2M server is external.  What it opens is a session: one logical    *)
(* connection of a remote user, carried on a port until one side closes it *)
(* or the link drops; a port that is free may be used again at once.  The  *)
(* agent does not see sessions.  They are here, and written on packets, so *)
(* that what reaches the wrong service or user can be told apart.          *)
(***************************************************************************)
EXTENDS Naturals, Sequences, FiniteSets

CONSTANTS Ports,         \* channel numbers the server uses
          MaxSession,    \* bound: sessions the server opens in all
          MaxData,       \* bound: session -> data packets the server sends on it
          MaxConnect     \* bound: connections, the last of which stays up

Sessions == 1..MaxSession

ASSUME SizeAssumption == /\ IsFiniteSet(Ports) /\ MaxSession \in Nat /\ MaxConnect \in Nat
                         /\ MaxData \in [Sessions -> Nat]
None == 0                \* no channel object, no session
NoData == <<None, 0>>    \* what no EchoService sends

VARIABLES link,          \* the websocket: "up" or "down"
          connects,      \* connections made so far
          inbox,         \* events the WS thread has yet to handle
          outbox,        \* packets on their way to the server
          channels,      \* WSClient.channels: port -> Channel object, or None
          chan,          \* the Channel objects made so far, in that order
          service,       \* session -> the service opened for it
          srv,           \* server: port -> session open on it, or None
          place,         \* server: port and connection of each session so far
          told,          \* server: sessions whose service it has asked for
          sent,          \* server: session -> data packets sent
          echoed,        \* server: session -> its data that came back
          strays         \* history: what reached another session than its own

agent  == <<channels, chan, service>>
server == <<srv, place, told, sent, echoed, strays>>
vars   == <<link, connects, inbox, outbox, agent, server>>

Opened == DOMAIN place

(* Channel.__init__, with the session of the packet it is made for and of  *)
(* the service its callbacks are of.                                       *)
NewChannel(p, k) == [number |-> p, closed |-> FALSE, session |-> k, user |-> None,
                     deque |-> <<>>]

(* An "echo" has a data callback and no thread; a "thread" (a terminal, a  *)
(* port forward) has callbacks for data and close, and a thread; a "task"  *)
(* (a file, a command) a thread and no callback.  One that was "refused"   *)
(* has neither.  got is what on_data was called with, ends how often the   *)
(* close callback was called, doing how far the thread is in Channel.write *)
(* and Channel.close.                                                      *)
Kinds     == {"echo", "thread", "task"}
NoService == [kind |-> "none", on |-> None, got |-> <<>>, ends |-> 0, doing |-> "idle"]

Init == /\ link = "down" /\ connects = 0 /\ inbox = <<>> /\ outbox = <<>>
        /\ channels = [p \in Ports |-> None]
        /\ chan = <<>>
        /\ service = [k \in Sessions |-> NoService]
        /\ srv = [p \in Ports |-> None]
        /\ place = <<>> /\ told = {}
        /\ sent = [k \in Sessions |-> 0]
        /\ echoed = [k \in Sessions |-> <<>>] /\ strays = {}

-----------------------------------------------------------------------------
(* The network and the server.                                             *)

(* lomond's persist() connects again once "disconnected" has been handled. *)
Connect == /\ link = "down" /\ inbox = <<>> /\ connects < MaxConnect
           /\ link' = "up" /\ connects' = connects + 1
           /\ inbox' = <<[type |-> "ready"]>> /\ outbox' = <<>>
           /\ UNCHANGED <<agent, server>>

(* The link drops: packets still under way are lost in both directions,    *)
(* and every session of the connection is over.                            *)
Drop == /\ link = "up" /\ connects < MaxConnect
        /\ \E n \in 0..Len(inbox) :
               inbox' = Append(SubSeq(inbox, 1, n), [type |-> "disconnected"])
        /\ link' = "down" /\ outbox' = <<>>
        /\ srv' = [p \in Ports |-> None]
        /\ UNCHANGED <<connects, agent, place, told, sent, echoed, strays>>

ServerSends(packet) == link = "up" /\ inbox' = Append(inbox, packet)

(* A remote user is given a channel, once the agent has joined.            *)
OpenSession(p) ==
    /\ srv[p] = None /\ Len(place) < MaxSession
    /\ \A i \in DOMAIN inbox : inbox[i].type # "ready"
    /\ place' = Append(place, [port |-> p, connect |-> connects])
    /\ srv' = [srv EXCEPT ![p] = Len(place')]
    /\ ServerSends([type |-> "notify_open", port |-> p, session |-> Len(place')])
    /\ UNCHANGED <<link, connects, outbox, agent, told, sent, echoed, strays>>

(* The user says what the agent should run on it: on_instruction_packet.   *)
Instruct(p, kind) ==
    /\ srv[p] # None /\ srv[p] \notin told
    /\ told' = told \cup {srv[p]}
    /\ ServerSends([type |-> "instruction", port |-> p, session |-> srv[p], kind |-> kind])
    /\ UNCHANGED <<link, connects, outbox, agent, srv, place, sent, echoed, strays>>

Route(p) == /\ srv[p] # None /\ sent[srv[p]] < MaxData[srv[p]]
            /\ sent' = [sent EXCEPT ![srv[p]] = @ + 1]
            /\ ServerSends([type |-> "route", port |-> p, session |-> srv[p],
                            data |-> sent[srv[p]] + 1])
            /\ UNCHANGED <<link, connects, outbox, agent, srv, place, told, echoed, strays>>

EndSession(p) == /\ srv[p] # None
                 /\ srv' = [srv EXCEPT ![p] = None]
                 /\ ServerSends([type |-> "notify_close", port |-> p, session |-> srv[p]])

CloseSession(p) ==
    /\ EndSession(p)
    /\ UNCHANGED <<link, connects, outbox, agent, place, told, sent, echoed, strays>>

Ping == /\ inbox = <<>> /\ outbox = <<>> /\ ServerSends([type |-> "ping"])
        /\ UNCHANGED <<link, connects, outbox, agent, server>>

(* The server takes a packet of the agent: it knows it by its port, and    *)
(* does not care if no session is open there.                              *)
ServerTakes(packet) ==
    LET k == srv[packet.port] IN
    /\ strays' = IF k \in {None, packet.session} THEN strays
                 ELSE strays \cup {[from |-> packet.session, to |-> k, type |-> packet.type]}
    /\ \/ /\ packet.type = "request_close" /\ EndSession(packet.port)
          /\ UNCHANGED echoed
       \/ /\ packet.type = "request_send"
          /\ echoed' = IF packet.data = NoData \/ k # packet.session THEN echoed
                       ELSE [echoed EXCEPT ![k] = Append(@, packet.data)]
          /\ UNCHANGED <<inbox, srv>>
       \/ /\ packet.type = "request_close" /\ k = None
          /\ UNCHANGED <<inbox, srv, echoed>>

ServerHandles ==
    /\ link = "up" /\ outbox # <<>> /\ outbox' = Tail(outbox)
    /\ \/ Head(outbox).type \in {"request_send", "request_close"} /\ ServerTakes(Head(outbox))
       \/ /\ Head(outbox).type \in {"request_join", "pong"}
          /\ UNCHANGED <<inbox, srv, echoed, strays>>
    /\ UNCHANGED <<link, connects, agent, place, told, sent>>

-----------------------------------------------------------------------------
(* Helpers of the agent.                                                   *)

(* send_bytes: a WebSocketError is swallowed, so what is sent while the    *)
(* link is down is lost without a sign.                                    *)
SendAll(packets) == outbox' = IF link = "up" THEN outbox \o packets ELSE outbox
Send(packet)     == SendAll(<<packet>>)

RequestSend(p, k, data) == [type |-> "request_send", port |-> p, session |-> k, data |-> data]
RequestClose(p, k)      == [type |-> "request_close", port |-> p, session |-> k]

(* (Plausible bugs of get_channel: the table is not looked in, or the new  *)
(* object is not stored in it.)                                            *)
ChannelAtAlwaysNew(p) == Len(chan) + 1
GetChannelUnstored(p) == p \in Ports /\ UNCHANGED channels

(* get_channel: the object on port p, made now if there is none.           *)
ChannelAt(p) == IF channels[p] # None THEN channels[p] ELSE Len(chan) + 1
WithChannel(p, k) == IF channels[p] # None THEN chan ELSE Append(chan, NewChannel(p, k))
GetChannel(p) == channels' = [channels EXCEPT ![p] = ChannelAt(p)]

(* (A plausible bug: on_data, write and close do not check _closed.)       *)
NeverClosed(c) == FALSE

(* Channel.is_closed, and whose data callback on_data will call.           *)
IsClosed(c) == c <= Len(chan) /\ chan[c].closed
Listener(c) == IF c > Len(chan) \/ IsClosed(c) THEN None ELSE chan[c].user

(* Channel.on_close on each object of cs: the first call marks it closed   *)
(* and calls the close callback, another does nothing.                     *)
CloseCalled(cs) ==
    /\ chan' = [c \in DOMAIN chan |-> [chan[c] EXCEPT !.closed = @ \/ c \in cs]]
    /\ service' = [k \in Sessions |->
                     IF service[k].kind = "thread" /\ \E c \in cs : chan[c].user = k
                     THEN [service[k] EXCEPT !.ends = @ + 1] ELSE service[k]]

InTable == {channels[p] : p \in Ports} \ {None}

Took(type) == inbox # <<>> /\ Head(inbox).type = type /\ inbox' = Tail(inbox)

-----------------------------------------------------------------------------
(* Plausible bugs of the handlers; each must break a property below.       *)
OnCloseEveryTime(cs) == CloseCalled(cs)         \* on_close does not check _closed
OnDisconnectedQuietly ==        \* the channels are not hard-closed
    /\ Took("disconnected") /\ UNCHANGED <<link, connects, outbox, agent, server>>

-----------------------------------------------------------------------------
(* The WS thread: one event, handled to its end.                           *)

OnClose(cs) == CloseCalled({c \in cs : ~chan[c].closed})

OnReady == /\ Took("ready") /\ Send([type |-> "request_join"])
           /\ UNCHANGED <<link, connects, agent, server>>

OnPing == /\ Took("ping") /\ Send([type |-> "pong"])
          /\ UNCHANGED <<link, connects, agent, server>>

OnNotifyOpen == /\ Took("notify_open")
                /\ GetChannel(Head(inbox).port)
                /\ chan' = WithChannel(Head(inbox).port, Head(inbox).session)
                /\ UNCHANGED <<link, connects, outbox, service, server>>

OnNotifyClose ==
    /\ Took("notify_close")
    /\ OnClose({channels[Head(inbox).port]} \cap DOMAIN chan)
    /\ channels' = [channels EXCEPT ![Head(inbox).port] = None]
    /\ UNCHANGED <<link, connects, outbox, server>>

(* A service is opened on the channel: its callbacks, if any, replace what *)
(* the channel had, and what the deque holds stays there.                  *)
Opens(k, kind, doing, p) ==
    /\ GetChannel(p)
    /\ chan' = IF kind \in {"echo", "thread"}
               THEN [WithChannel(p, k) EXCEPT ![ChannelAt(p)].user = k]
               ELSE WithChannel(p, k)
    /\ service' = [service EXCEPT ![k] = [@ EXCEPT !.kind = kind, !.on = ChannelAt(p),
                                                   !.doing = doing]]
OnInstruction ==
    /\ Took("instruction") /\ UNCHANGED <<link, connects, outbox, server>>
    /\ LET event == Head(inbox) IN Opens(event.session, event.kind, "idle", event.port)

(* The limiter refuses it, or there are no more threads: the WS thread     *)
(* tells the user and closes the channel.  A terminal has set its          *)
(* callbacks before; no other service has.                                 *)
OnRefused ==
    /\ Took("instruction") /\ UNCHANGED <<link, connects, server>>
    /\ LET event == Head(inbox)
           k == event.session
           p == event.port IN
       /\ \/ event.kind = "thread" /\ Opens(k, "thread", "done", p)
          \/ event.kind \in {"thread", "task"} /\ Opens(k, "refused", "done", p)
       /\ IF IsClosed(ChannelAt(p)) THEN UNCHANGED outbox
          ELSE SendAll(<<RequestSend(p, k, NoData), RequestClose(p, k)>>)

(* handle_route, Channel.on_data; an EchoService writes the data back from *)
(* its callback.                                                           *)
OnRoute ==
    /\ Took("route")
    /\ LET port == Head(inbox).port
           data == <<Head(inbox).session, Head(inbox).data>>
           c == ChannelAt(port)
           k == Listener(c) IN
       /\ GetChannel(port)
       /\ \/ /\ k # None
             /\ service' = [service EXCEPT ![k].got = Append(@, data)]
             /\ IF service[k].kind = "echo" THEN Send(RequestSend(port, k, data))
                ELSE UNCHANGED outbox
             /\ UNCHANGED chan
          \/ /\ k = None /\ ~IsClosed(c)
             /\ chan' = [WithChannel(port, data[1]) EXCEPT ![c].deque = Append(@, data)]
             /\ UNCHANGED <<service, outbox>>
          \/ /\ k = None /\ IsClosed(c)
             /\ UNCHANGED <<chan, service, outbox>>
    /\ UNCHANGED <<link, connects, server>>

(* on_disconnected, hard_close_channels: every channel of the table is     *)
(* closed, and stays in the table.                                         *)
OnDisconnected == /\ Took("disconnected") /\ OnClose(InTable)
                  /\ UNCHANGED <<link, connects, outbox, channels, server>>

OnEvent == \/ OnReady \/ OnPing \/ OnNotifyOpen \/ OnNotifyClose
           \/ OnInstruction \/ OnRefused \/ OnRoute \/ OnDisconnected

-----------------------------------------------------------------------------
(* The thread of a service: one Channel.write, as a bound, and             *)
(* Channel.close.  Each reads _closed, and the WS thread may run before    *)
(* the packet is sent, on the connection there is then.                    *)
Number(k) == chan[service[k].on].number
Does(k, from, to) ==
    /\ service[k].kind \in {"thread", "task"} /\ service[k].doing \in from
    /\ service' = [service EXCEPT ![k] = [@ EXCEPT !.doing = to]]
    /\ UNCHANGED <<link, connects, inbox, channels, chan, server>>

WriteChecks(k) == /\ Does(k, {"idle"}, IF IsClosed(service[k].on) THEN "wrote" ELSE "writing")
                  /\ UNCHANGED outbox
WriteSends(k)  == /\ Does(k, {"writing"}, "wrote")
                  /\ Send(RequestSend(Number(k), k, NoData))
CloseChecks(k) == /\ Does(k, {"idle", "wrote"},
                          IF IsClosed(service[k].on) THEN "done" ELSE "closing")
                  /\ UNCHANGED outbox
CloseSends(k)  == /\ Does(k, {"closing"}, "done")
                  /\ Send(RequestClose(Number(k), k))

ThreadStep(k) == WriteChecks(k) \/ WriteSends(k) \/ CloseChecks(k) \/ CloseSends(k)

Next == \/ Connect \/ Drop \/ Ping \/ ServerHandles
        \/ \E p \in Ports : \/ OpenSession(p) \/ Route(p) \/ CloseSession(p)
                            \/ \E kind \in Kinds : Instruct(p, kind)
        \/ OnEvent
        \/ \E k \in Sessions : ThreadStep(k)

Spec == Init /\ [][Next]_vars

-----------------------------------------------------------------------------
Data == Sessions \X (Nat \ {0})

TypeOK ==
    /\ link \in {"up", "down"} /\ connects \in 0..MaxConnect
    /\ channels \in [Ports -> {None} \cup DOMAIN chan]
    /\ \A p \in Ports : channels[p] # None => chan[channels[p]].number = p
    /\ \A c \in DOMAIN chan : /\ chan[c].number \in Ports /\ chan[c].closed \in BOOLEAN
                              /\ chan[c].session \in Sessions
                              /\ chan[c].user \in Sessions \cup {None}
                              /\ \A i \in DOMAIN chan[c].deque : chan[c].deque[i] \in Data
    /\ \A k \in Sessions : /\ service[k].kind \in Kinds \cup {"none", "refused"}
                           /\ service[k].on \in {None} \cup DOMAIN chan
                           /\ service[k].doing \in
                                  {"idle", "writing", "wrote", "closing", "done"}
    /\ srv \in [Ports -> Opened \cup {None}]
    /\ Opened \subseteq Sessions /\ told \subseteq Opened
    /\ \A k \in Opened : place[k] \in [port : Ports, connect : 1..connects]
    /\ \A k \in Sessions : sent[k] \in 0..MaxData[k]

(* data of session k, in the order sent, with nothing missing in between   *)
UnbrokenRun(s, k) ==
    \A i \in DOMAIN s : s[i] = <<k, s[1][2] + i - 1>>

(* What a service is called with is an unbroken run of the data of its own *)
(* session: a port number used again, on the same or on a new connection,  *)
(* never brings a service data of another remote user, and from the moment *)
(* it listens it misses nothing and sees nothing twice; the same holds of  *)
(* what the user of an EchoService gets back: "data will be sent back on   *)
(* the same channel".                                                      *)
RightService == \A k \in Sessions : /\ UnbrokenRun(service[k].got, k)
                                    /\ UnbrokenRun(echoed[k], k)

(* When all events are handled, a channel the agent holds open is of the   *)
(* session the server has open on that port: none survives the session or  *)
(* the connection it was opened for, so no thread goes on writing to it    *)
(* for ever, or to the user who has the port next.                         *)
NoGhostChannel ==
    inbox = <<>> => \A p \in Ports : channels[p] # None /\ ~chan[channels[p]].closed
                                        => srv[p] = chan[channels[p]].session

(* The number of session k's channel was in use on an earlier connection,  *)
(* so it may be given a channel that was closed then.                      *)
Afresh(k) == \E j \in Opened : /\ place[j].port = place[k].port
                               /\ place[j].connect < place[k].connect

(* A terminal or a port forward is told, and told once, when its session   *)
(* is over, whether the remote user left, it closed the channel itself or  *)
(* the link dropped, and however soon the port is used again: its thread   *)
(* ends only then, and a terminal signals its process then.  (The server   *)
(* must not number channels afresh.)                                       *)
Over(k) == k \in Opened /\ \A p \in Ports : srv[p] # k
ToldOfEnd == \A k \in Sessions :
    /\ service[k].ends <= 1
    /\ inbox = <<>> /\ service[k].kind = "thread" /\ Over(k) /\ ~Afresh(k)
            => service[k].ends = 1

(* When all events are handled, what was sent on a session has been given  *)
(* to its service, or is still in the deque if it came before the service. *)
DataArrives == inbox = <<>> =>
    \A k \in Sessions :
        LET c == service[k].on IN
        service[k].kind # "none" /\ ~Over(k) /\ ~chan[c].closed
            => Len(chan[c].deque) + Len(service[k].got) = sent[k]

(* Of all that a service sends, at most one packet, its data or its        *)
(* request to close, is taken for one of a session of a later connection   *)
(* that has its port: the one that was checked before the link dropped.    *)
OneStray == \A k \in Sessions :
    Cardinality({s \in strays : s.from = k /\ place[s.to].connect > place[k].connect}) <= 1

(* The services of a session, as its remote user and the service see them: *)
(* see Session.                                                            *)
Served(k) == service[k].kind # "none" /\ ~chan[service[k].on].closed
Ended  == {k \in Sessions : service[k].kind # "none" /\ ~Served(k)}
Missed == [k \in Sessions |-> IF Served(k) /\ service[k].kind \in {"echo", "thread"}
                              THEN Len(chan[service[k].on].deque) ELSE 0]
KindOf == [k \in Sessions |-> service[k].kind]
GotOf  == [k \in Sessions |-> service[k].got]
EndsOf == [k \in Sessions |-> service[k].ends]
Renumbered == {k \in Opened : Afresh(k)}

User == INSTANCE Session WITH kind <- KindOf, got <- GotOf, ends <- EndsOf,
                              afresh <- Renumbered, over <- Ended, missed <- Missed

(* What the channels promise the two ends of a session: its service is     *)
(* called with what its user sends, from the moment it is there, with none *)
(* of it left out, doubled, out of order or from another session, until it *)
(* is called back that the session is over, and not after; and an          *)
(* EchoService gives all of it back in that order.                         *)
ImplementsSession == User!Spec
=============================================================================
