--------------------------- MODULE WSClient_proofs ---------------------------
(***************************************************************************)
(* Proofs about WSClient, for any number of ports, sessions, data packets  *)
(* and connections, and for ports used again on the same connection: its   *)
(* types, that data reaches the service of the remote user who sent it,    *)
(* whole and in order, and that neither a channel nor a service outlives   *)
(* its session; and with these that WSClient implements Session.           *)
(***************************************************************************)
EXTENDS WSClient, SequenceTheorems, TLAPS

-----------------------------------------------------------------------------
(* Events, packets and objects.                                            *)

Event == [type : {"ready", "ping", "disconnected"}]
    \cup [type : {"notify_open", "notify_close"}, port : Ports, session : Sessions]
    \cup [type : {"instruction"}, port : Ports, session : Sessions, kind : Kinds]
    \cup [type : {"route"}, port : Ports, session : Sessions, data : Nat \ {0}]

Packet == [type : {"request_join", "pong"}]
     \cup [type : {"request_close"}, port : Ports, session : Sessions]
     \cup [type : {"request_send"}, port : Ports, session : Sessions,
           data : Data \cup {NoData}]

Channel == [number : Ports, closed : BOOLEAN, session : Sessions,
            user : Sessions \cup {None}, deque : Seq(Data)]

Service == [kind : Kinds \cup {"none", "refused"}, on : Nat, got : Seq(Data), ends : Nat,
            doing : {"idle", "writing", "wrote", "closing", "done"}]

Shapes ==
    /\ link \in {"up", "down"} /\ connects \in 0..MaxConnect
    /\ inbox \in Seq(Event) /\ outbox \in Seq(Packet)
    /\ channels \in [Ports -> Nat] /\ chan \in Seq(Channel)
    /\ service \in [Sessions -> Service]
    /\ srv \in [Ports -> Sessions \cup {None}]
    /\ place \in Seq([port : Ports, connect : Nat]) /\ Len(place) <= MaxSession
    /\ told \subseteq Opened /\ sent \in [Sessions -> Nat]
    /\ echoed \in [Sessions -> Seq(Data)]

-----------------------------------------------------------------------------
(* Queues, by what is in them and the order it is in.                      *)

Items(q) == {q[i] : i \in 1..Len(q)}
In  == Items(inbox)
Out == Items(outbox)

OfSession(e) == e.type \in {"notify_open", "notify_close", "instruction", "route"}

Has(s, type, k)   == \E e \in s : e.type = type /\ e.session = k
Brings(s, k, n)   == \E e \in s : e.type = "route" /\ e.session = k /\ e.data = n
Mentions(s, k)    == \E e \in s : OfSession(e) /\ e.session = k
Drops(s)          == \E e \in s : e.type = "disconnected"
GivesBack(s, k, n) == \E e \in s : e.type = "request_send" /\ e.session = k /\ e.data = <<k, n>>

(* What may come after event e: nothing after the link has dropped; of the *)
(* sessions of a port, one after the other; and of one session, first that *)
(* it is opened, last that it is closed, one instruction, and its data in  *)
(* the order sent.                                                         *)
Follows(e, f) ==
    /\ e.type # "disconnected"
    /\ OfSession(e) /\ OfSession(f) /\ e.port = f.port =>
           /\ e.session <= f.session
           /\ e.session = f.session =>
                 /\ e.type # "notify_close" /\ f.type # "notify_open"
                 /\ ~(e.type = "instruction" /\ f.type = "instruction")
                 /\ e.type = "route" /\ f.type = "route" => e.data < f.data
InOrder(q) == \A i, j \in 1..Len(q) : i < j => Follows(q[i], q[j])

(* Data that is given back, in the order it came.                          *)
IsData(e) == e.type = "request_send" /\ e.data # NoData
EchoFollows(e, f) ==
    IsData(e) /\ IsData(f) /\ e.session = f.session => e.data[2] < f.data[2]
EchoInOrder(q) == \A i, j \in 1..Len(q) : i < j => EchoFollows(q[i], q[j])

-----------------------------------------------------------------------------
(* The inductive invariant.                                                *)

(* Session k has an object in use; the object on port p is one of an       *)
(* earlier connection.                                                     *)
PortOf(k) == place[k].port
Object(k) == channels[PortOf(k)]
Holds(k)  == Object(k) # None /\ ~chan[Object(k)].closed /\ chan[Object(k)].session = k
Stale(p)  == channels[p] # None /\ chan[channels[p]].closed

Live(k)    == Mentions(In, k) \/ Holds(k)
Current(k) == Live(k) \/ srv[PortOf(k)] = k

(* An object is in the table under its own number until it is closed.      *)
TableCoherent ==
    /\ \A p \in Ports : channels[p] # None =>
           channels[p] \in 1..Len(chan) /\ chan[channels[p]].number = p
    /\ \A c \in 1..Len(chan) : chan[c].session \in Opened /\ PortOf(chan[c].session) = chan[c].number
    /\ \A c \in 1..Len(chan) : ~chan[c].closed =>
           /\ channels[chan[c].number] = c
           /\ chan[c].user \in {None, chan[c].session}
           /\ place[chan[c].session].connect = connects

(* An object that was closed and is in the table is of a connection that   *)
(* is over.                                                                *)
StaleIsOld == \A p \in Ports : Stale(p) =>
    \/ place[chan[channels[p]].session].connect < connects
    \/ link = "down" /\ inbox = <<>>

(* The last event of a connection is "disconnected".                       *)
LinkCoherent ==
    /\ link = "up" => connects > 0 /\ ~Drops(In)
    /\ link = "down" => /\ outbox = <<>> /\ \A p \in Ports : srv[p] = None
                        /\ inbox # <<>> => Drops(In)

(* The server has the newest session of a port open, or none.              *)
ServerCoherent ==
    /\ \A k \in Opened : place[k].connect \in 1..connects
    /\ \A p \in Ports, k \in Sessions : srv[p] = k =>
           /\ k \in Opened /\ PortOf(k) = p /\ place[k].connect = connects
           /\ ~Has(In, "notify_close", k)
           /\ \A j \in Opened : PortOf(j) = p => j <= k
    /\ \A k \in Sessions : /\ sent[k] <= MaxData[k]
                           /\ k \notin Opened => sent[k] = 0

(* How much came before the service of session k.                          *)
Early(k) == Len(chan[service[k].on].deque)

(* Events and packets are of sessions that were opened, on their port.     *)
EventsFit ==
    \A e \in In : OfSession(e) =>
        /\ e.session \in Opened /\ e.port = PortOf(e.session)
        /\ place[e.session].connect = connects
        /\ e.type = "instruction" => e.session \in told /\ service[e.session].kind = "none"
        /\ e.type = "route" => e.data <= sent[e.session]
PacketsFit ==
    \A e \in Out : e.type \in {"request_send", "request_close"} =>
        /\ e.session \in Opened /\ e.port = PortOf(e.session)
        /\ IsData(e) => /\ service[e.session].kind = "echo" /\ e.data[1] = e.session
                        /\ e.data[2] <= Early(e.session) + Len(service[e.session].got)

(* What the agent has or hears of is open, or it is to hear of its end;    *)
SessionsEnd ==
    \A k \in Opened : Live(k) =>
        srv[PortOf(k)] = k \/ Has(In, "notify_close", k) \/ Drops(In)
(* of two sessions of a port it is to hear of the end of the first, and    *)
(* then of the beginning of the other;                                     *)
OneAfterAnother ==
    \A j, k \in Opened : j < k /\ PortOf(j) = PortOf(k) /\ Live(j) /\ Current(k)
        => Has(In, "notify_close", j) /\ Has(In, "notify_open", k)
(* and when it has heard of that it has the object.                        *)
SessionsBegin ==
    \A k \in Opened :
        /\ Has(In, "notify_open", k) => ~Holds(k) /\ service[k].kind = "none"
        /\ Current(k) /\ ~Has(In, "notify_open", k) => Holds(k) \/ Stale(PortOf(k))

(* Objects in use and services go together.                                *)
ServiceOnObject ==
    /\ \A k \in Sessions : k \notin told \/ service[k].kind = "none" => service[k] = NoService
    /\ \A k \in Sessions : service[k].kind # "none" =>
           LET c == service[k].on IN
           /\ c \in 1..Len(chan) /\ chan[c].number = PortOf(k)
           /\ ~chan[c].closed =>
                 /\ chan[c].session = k
                 /\ chan[c].user = IF service[k].kind \in {"echo", "thread"} THEN k ELSE None
           /\ service[k].kind \notin {"echo", "thread"} => service[k].got = <<>>
    /\ \A c \in 1..Len(chan) : ~chan[c].closed /\ chan[c].user # None =>
           service[chan[c].user].kind # "none" /\ service[chan[c].user].on = c

(* A service with a close callback was called back if its object is closed.*)
EndsTold ==
    \A k \in Sessions :
        IF service[k].kind = "thread" /\ chan[service[k].on].closed
        THEN service[k].ends = 1 \/ (service[k].ends = 0 /\ Afresh(k))
        ELSE service[k].ends = 0

(* How much has been handled of the data of session k; the rest is to      *)
(* come, in order.                                                         *)
Kept(k) == IF Holds(k) THEN Len(chan[Object(k)].deque) + Len(service[k].got) ELSE 0
DataComes(k) ==
    /\ Kept(k) <= sent[k]
    /\ \A n \in Nat : Brings(In, k, n) => n > Kept(k)
    /\ \A n \in Nat : Brings(In, k, n) => \A m \in (Kept(k) + 1)..n : Brings(In, k, m)
    /\ srv[PortOf(k)] = k => \A m \in (Kept(k) + 1)..sent[k] : Brings(In, k, m)
DataInOrder ==
    \A k \in Opened : Holds(k) \/ Has(In, "notify_open", k) => DataComes(k)

(* What followed that to the service of session k and, if it is an         *)
(* EchoService, back to the user.                                          *)
EchoComes ==
    \A k \in Opened : srv[PortOf(k)] = k /\ service[k].kind = "echo" =>
        /\ Len(echoed[k]) <= Len(service[k].got)
        /\ \A n \in Nat : GivesBack(Out, k, n) <=>
               n \in (Early(k) + Len(echoed[k]) + 1)..(Early(k) + Len(service[k].got))
RunsFromEarly ==
    \A k \in Sessions :
        /\ \A i \in 1..Len(service[k].got) : service[k].got[i] = <<k, Early(k) + i>>
        /\ \A i \in 1..Len(echoed[k]) :
               service[k].kind = "echo" /\ echoed[k][i] = <<k, Early(k) + i>>

IInv == /\ Shapes /\ TableCoherent /\ StaleIsOld /\ LinkCoherent /\ ServerCoherent
        /\ EventsFit /\ InOrder(inbox) /\ PacketsFit /\ EchoInOrder(outbox)
        /\ SessionsEnd /\ OneAfterAnother /\ SessionsBegin
        /\ ServiceOnObject /\ EndsTold /\ DataInOrder /\ EchoComes /\ RunsFromEarly

-----------------------------------------------------------------------------
(* Queues: the first is taken, one is put at the end, the end is cut off.  *)

(* What is in a queue, by position.                                        *)
LEMMA ItemsOf ==
    ASSUME NEW S, NEW q \in Seq(S)
    PROVE  /\ Len(q) \in Nat /\ Items(q) \subseteq S
           /\ \A i \in 1..Len(q) : q[i] \in Items(q)
           /\ q = <<>> <=> Items(q) = {}
<1>1. Len(q) \in Nat /\ (q # <<>> => Len(q) >= 1)
    BY LenProperties, EmptySeq
<1>2. Items(q) \subseteq S
    BY ElementOfSeq DEF Items
<1>3. \A i \in 1..Len(q) : q[i] \in Items(q)
    BY DEF Items
<1>4. q # <<>> => q[1] \in Items(q)
    BY <1>1, <1>3
<1>5. Items(<<>>) = {}
    BY EmptySeq DEF Items
<1> QED BY <1>1, <1>2, <1>3, <1>4, <1>5

(* The elements of a queue whose first is taken.                           *)
LEMMA TailElements ==
    ASSUME NEW S, NEW q \in Seq(S), q # <<>>
    PROVE  /\ Tail(q) \in Seq(S) /\ Len(Tail(q)) \in Nat /\ Len(q) = Len(Tail(q)) + 1
           /\ q[1] = Head(q) /\ Head(q) \in S
           /\ \A i \in 1..Len(Tail(q)) : Tail(q)[i] = q[i + 1]
<1>1. Len(q) \in Nat /\ Len(q) >= 1
    BY EmptySeq, LenProperties
<1>2. /\ Tail(q) \in Seq(S) /\ Len(Tail(q)) = Len(q) - 1
      /\ \A i \in 1..Len(Tail(q)) : Tail(q)[i] = q[i + 1]
      /\ Head(q) = q[1] /\ Head(q) \in S
    BY HeadTailProperties
<1> QED BY <1>1, <1>2

LEMMA TailItems ==
    ASSUME NEW S, NEW q \in Seq(S), q # <<>>
    PROVE  /\ Tail(q) \in Seq(S) /\ Head(q) \in S
           /\ Items(q) = {Head(q)} \cup Items(Tail(q))
           /\ InOrder(q) => /\ InOrder(Tail(q))
                            /\ \A f \in Items(Tail(q)) : Follows(Head(q), f)
           /\ EchoInOrder(q) => /\ EchoInOrder(Tail(q))
                                /\ \A f \in Items(Tail(q)) : EchoFollows(Head(q), f)
<1> DEFINE t == Tail(q)
<1>1. /\ t \in Seq(S) /\ Len(t) \in Nat /\ Len(q) = Len(t) + 1
      /\ q[1] = Head(q) /\ Head(q) \in S
      /\ \A i \in 1..Len(t) : t[i] = q[i + 1]
    BY TailElements
<1> HIDE DEF t
<1>2. ASSUME NEW i \in 1..Len(q) PROVE i = 1 \/ (i - 1 \in 1..Len(t) /\ q[i] = t[i - 1])
    BY <1>1
<1>3. \A i \in 1..Len(t) : i + 1 \in 1..Len(q) /\ 1 < i + 1
    BY <1>1
<1>4. 1 \in 1..Len(q)
    BY <1>1
<1>5. Items(q) = {Head(q)} \cup Items(t)
    <2>1. ASSUME NEW x \in Items(q) PROVE x \in {Head(q)} \cup Items(t)
        BY <1>1, <1>2 DEF Items
    <2>2. ASSUME NEW x \in Items(t) PROVE x \in Items(q)
        BY <1>1, <1>3 DEF Items
    <2>3. Head(q) \in Items(q)
        BY <1>1, <1>4 DEF Items
    <2> QED BY <2>1, <2>2, <2>3
<1>6. \A i, j \in 1..Len(t) : i < j => i + 1 < j + 1
    BY <1>1
<1>7. ASSUME InOrder(q) PROVE InOrder(t) /\ \A f \in Items(t) : Follows(q[1], f)
    BY <1>1, <1>3, <1>4, <1>6, <1>7 DEF InOrder, Items
<1>8. ASSUME EchoInOrder(q) PROVE EchoInOrder(t) /\ \A f \in Items(t) : EchoFollows(q[1], f)
    BY <1>1, <1>3, <1>4, <1>6, <1>8 DEF EchoInOrder, Items
<1> QED BY <1>1, <1>5, <1>7, <1>8 DEF t

(* A queue with one more at its end.                                       *)
LEMMA AppendItems ==
    ASSUME NEW S, NEW q \in Seq(S), NEW e \in S
    PROVE  /\ Append(q, e) \in Seq(S)
           /\ Items(Append(q, e)) = Items(q) \cup {e}
           /\ InOrder(q) /\ (\A f \in Items(q) : Follows(f, e)) => InOrder(Append(q, e))
           /\ EchoInOrder(q) /\ (\A f \in Items(q) : EchoFollows(f, e))
                  => EchoInOrder(Append(q, e))
<1> DEFINE a == Append(q, e)
<1>1. Len(q) \in Nat
    BY LenProperties
<1>2. /\ a \in Seq(S) /\ Len(a) = Len(q) + 1
      /\ \A i \in 1..Len(q) : a[i] = q[i]
      /\ a[Len(q) + 1] = e
    BY AppendProperties
<1> HIDE DEF a
<1>3. \A i \in 1..Len(a) : i \in 1..Len(q) \/ i = Len(q) + 1
    BY <1>1, <1>2
<1>4. Len(q) + 1 \in 1..Len(a) /\ \A i \in 1..Len(q) : i \in 1..Len(a)
    BY <1>1, <1>2
<1>5. Items(a) = Items(q) \cup {e}
    BY <1>2, <1>3, <1>4 DEF Items
<1>6. ASSUME NEW i \in 1..Len(a), NEW j \in 1..Len(a), i < j
      PROVE  /\ i \in 1..Len(q) /\ a[i] = q[i] /\ a[i] \in Items(q)
             /\ \/ j \in 1..Len(q) /\ a[j] = q[j]
                \/ a[j] = e
    BY <1>1, <1>2, <1>6 DEF Items
<1>7. InOrder(q) /\ (\A f \in Items(q) : Follows(f, e)) => InOrder(a)
    BY <1>6 DEF InOrder
<1>8. EchoInOrder(q) /\ (\A f \in Items(q) : EchoFollows(f, e)) => EchoInOrder(a)
    BY <1>6 DEF EchoInOrder
<1> QED BY <1>2, <1>5, <1>7, <1>8 DEF a

(* A queue whose end is cut off.                                           *)
LEMMA CutItems ==
    ASSUME NEW S, NEW q \in Seq(S), NEW n \in 0..Len(q)
    PROVE  /\ SubSeq(q, 1, n) \in Seq(S)
           /\ Items(SubSeq(q, 1, n)) \subseteq Items(q)
           /\ InOrder(q) =>
                  /\ InOrder(SubSeq(q, 1, n))
                  /\ \A f \in Items(SubSeq(q, 1, n)), g \in Items(q) :
                         g \in Items(SubSeq(q, 1, n)) \/ Follows(f, g)
<1> DEFINE s == SubSeq(q, 1, n)
<1>1. Len(q) \in Nat
    BY LenProperties
<1>2. \A i \in 1..n : q[i] \in S
    BY <1>1, ElementOfSeq
<1>3. s \in Seq(S) /\ Len(s) = n /\ \A i \in 1..n : s[i] = q[i]
    BY <1>1, <1>2, SubSeqProperties
<1> HIDE DEF s
<1>4. \A i \in 1..n : i \in 1..Len(q)
    BY <1>1
<1>5. Items(s) \subseteq Items(q)
    BY <1>3, <1>4 DEF Items
<1>6. ASSUME InOrder(q)
      PROVE  InOrder(s) /\ \A f \in Items(s), g \in Items(q) : g \in Items(s) \/ Follows(f, g)
    <2>1. InOrder(s)
        BY <1>3, <1>4, <1>6 DEF InOrder
    <2>2. ASSUME NEW f \in Items(s), NEW g \in Items(q), g \notin Items(s) PROVE Follows(f, g)
        <3>1. PICK i \in 1..n : f = q[i]
            BY <1>3 DEF Items
        <3>2. PICK j \in 1..Len(q) : g = q[j]
            BY DEF Items
        <3>3. j \notin 1..n
            BY <1>3, <2>2, <3>2 DEF Items
        <3>4. i < j /\ i \in 1..Len(q)
            BY <1>1, <3>3
        <3> QED BY <1>6, <3>1, <3>2, <3>4 DEF InOrder
    <2> QED BY <2>1, <2>2
<1> QED BY <1>3, <1>5, <1>6 DEF s

-----------------------------------------------------------------------------
(* Sessions and events.                                                    *)

LEMMA Numbers ==
    /\ None = 0 /\ None \notin Sessions /\ Sessions \subseteq Nat /\ MaxSession \in Nat
    /\ Shapes => /\ Len(place) \in Nat /\ Opened = 1..Len(place) /\ Opened \subseteq Sessions
                 /\ \A k \in Opened : PortOf(k) \in Ports /\ place[k].connect \in Nat
<1>1. None = 0 /\ None \notin Sessions /\ Sessions \subseteq Nat /\ MaxSession \in Nat
    BY SizeAssumption DEF None, Sessions
<1>2. ASSUME Shapes
      PROVE  /\ Len(place) \in Nat /\ Opened = 1..Len(place) /\ Opened \subseteq Sessions
             /\ \A k \in Opened : PortOf(k) \in Ports /\ place[k].connect \in Nat
    <2>1. place \in Seq([port : Ports, connect : Nat]) /\ Len(place) <= MaxSession
        BY <1>2 DEF Shapes
    <2>2. Len(place) \in Nat /\ Opened = 1..Len(place)
        BY <2>1, LenProperties DEF Opened
    <2>3. Opened \subseteq Sessions
        BY <1>1, <2>1, <2>2 DEF Sessions
    <2>4. \A k \in Opened : place[k] \in [port : Ports, connect : Nat]
        BY <2>1, <2>2, ElementOfSeq
    <2> QED BY <2>2, <2>3, <2>4 DEF PortOf
<1> QED BY <1>1, <1>2

LEMMA EventFields ==
    \A e \in Event :
        /\ OfSession(e) => e.session \in Sessions /\ e.port \in Ports
        /\ e.type = "route" => e.data \in Nat \ {0}
        /\ e.type = "instruction" => e.kind \in Kinds
        /\ e.type \in {"ready", "ping", "disconnected"} <=> ~OfSession(e)
    BY DEF Event, OfSession

LEMMA PacketFields ==
    \A e \in Packet :
        /\ e.type \in {"request_send", "request_close"} => e.session \in Sessions /\ e.port \in Ports
        /\ e.type = "request_send" => e.data \in Data \cup {NoData}
        /\ e.type \in {"request_join", "pong", "request_send", "request_close"}
    BY DEF Packet

(* The objects of the table.                                               *)
LEMMA ObjectFields ==
    Shapes => \A c \in 1..Len(chan) :
                  /\ chan[c] \in Channel /\ chan[c].number \in Ports /\ chan[c].closed \in BOOLEAN
                  /\ chan[c].session \in Sessions /\ chan[c].user \in Sessions \cup {None}
                  /\ chan[c].deque \in Seq(Data) /\ Len(chan[c].deque) \in Nat
<1> SUFFICES ASSUME Shapes, NEW c \in 1..Len(chan)
             PROVE  /\ chan[c] \in Channel /\ chan[c].number \in Ports /\ chan[c].closed \in BOOLEAN
                    /\ chan[c].session \in Sessions /\ chan[c].user \in Sessions \cup {None}
                    /\ chan[c].deque \in Seq(Data) /\ Len(chan[c].deque) \in Nat
    OBVIOUS
<1>1. chan[c] \in Channel
    BY ElementOfSeq DEF Shapes
<1>2. chan[c].deque \in Seq(Data)
    BY <1>1 DEF Channel
<1>3. Len(chan[c].deque) \in Nat
    BY <1>2, LenProperties
<1> QED BY <1>1, <1>2, <1>3 DEF Channel

(* An open object of the table is of the session that holds it.            *)
LEMMA Holder ==
    ASSUME Shapes, TableCoherent, NEW p \in Ports, channels[p] # None
    PROVE  LET c == channels[p]
               s == chan[c].session
           IN  /\ c \in 1..Len(chan) /\ chan[c].number = p
               /\ s \in Opened /\ PortOf(s) = p /\ Object(s) = c
               /\ ~chan[c].closed => Holds(s)
               /\ \A k \in Opened : Holds(k) /\ PortOf(k) = p => k = s
<1>1. channels[p] \in 1..Len(chan) /\ chan[channels[p]].number = p
    BY DEF TableCoherent
<1>2. chan[channels[p]].session \in Opened /\ PortOf(chan[channels[p]].session) = p
    BY <1>1 DEF TableCoherent
<1> QED BY <1>1, <1>2 DEF Object, Holds

(* An event is taken from the inbox.                                       *)
LEMMA EventTaken ==
    ASSUME IInv, inbox # <<>>, inbox' = Tail(inbox)
    PROVE  LET h == Head(inbox) IN
           /\ h \in Event /\ h \in In /\ inbox' \in Seq(Event) /\ InOrder(inbox')
           /\ In' \subseteq In /\ (inbox' = <<>> <=> In' = {})
           /\ \A f \in In' : Follows(h, f)
           /\ \A t, k : Has(In, t, k) <=> (h.type = t /\ h.session = k) \/ Has(In', t, k)
           /\ \A k : Mentions(In, k) <=> (OfSession(h) /\ h.session = k) \/ Mentions(In', k)
           /\ \A k, n : Brings(In, k, n) <=> \/ h.type = "route" /\ h.session = k /\ h.data = n
                                             \/ Brings(In', k, n)
           /\ Drops(In) <=> h.type = "disconnected" \/ Drops(In')
           /\ h.type = "disconnected" => inbox' = <<>>
<1> DEFINE h == Head(inbox)
<1>1. inbox \in Seq(Event) /\ InOrder(inbox)
    BY DEF IInv, Shapes
<1>2. /\ inbox' \in Seq(Event) /\ h \in Event /\ In = {h} \cup In' /\ InOrder(inbox')
      /\ \A f \in In' : Follows(h, f)
    BY <1>1, TailItems DEF In
<1>3. inbox' = <<>> <=> In' = {}
    <2>1. In' = Items(inbox')
        BY DEF In, Items
    <2>2. inbox' \in Seq(Event)
        BY <1>2
    <2>3. inbox' = <<>> <=> Items(inbox') = {}
        BY ONLY <2>2, ItemsOf
    <2> QED BY <2>1, <2>3
<1> HIDE DEF h
<1>4. h.type = "disconnected" => inbox' = <<>>
    BY <1>2, <1>3 DEF Follows
<1>5. /\ \A t, k : Has(In, t, k) <=> (h.type = t /\ h.session = k) \/ Has(In', t, k)
      /\ \A k : Mentions(In, k) <=> (OfSession(h) /\ h.session = k) \/ Mentions(In', k)
      /\ Drops(In) <=> h.type = "disconnected" \/ Drops(In')
    BY <1>2 DEF Has, Mentions, Drops
<1>6. \A k, n : Brings(In, k, n) <=> \/ h.type = "route" /\ h.session = k /\ h.data = n
                                     \/ Brings(In', k, n)
    BY <1>2 DEF Brings
<1> QED BY <1>2, <1>3, <1>4, <1>5, <1>6 DEF h

(* The event taken is of a session: it has the object on the port, or that *)
(* is made now or was closed long ago; sessions before it are over.        *)
LEMMA SessionTaken ==
    ASSUME IInv, inbox # <<>>, inbox' = Tail(inbox), OfSession(Head(inbox))
    PROVE  LET h == Head(inbox)
               k == h.session
               p == h.port
           IN  /\ k \in Opened /\ k \in Sessions /\ p \in Ports /\ p = PortOf(k)
               /\ place[k].connect = connects /\ Live(k)
               /\ ~Has(In', "notify_open", k)
               /\ h.type # "notify_open" => Holds(k) \/ Stale(p)
               /\ h.type = "notify_open" => ~Holds(k) /\ service[k].kind = "none"
               /\ h.type = "notify_close" => ~Mentions(In', k)
               /\ h.type = "instruction" => ~Has(In', "instruction", k)
               /\ h.type = "route" => \A n \in Nat : Brings(In', k, n) => n > h.data
               /\ \A j \in Opened \ {k} : PortOf(j) = p /\ Current(j) =>
                      k < j /\ Has(In, "notify_open", j) /\ ~Holds(j)
               /\ channels[p] # None /\ ~chan[channels[p]].closed => Holds(k)
<1> DEFINE h == Head(inbox)
           k == h.session
           p == h.port
<1>1. /\ h \in Event /\ h \in In /\ In' \subseteq In
      /\ \A f \in In' : Follows(h, f)
      /\ \A t, j : Has(In, t, j) <=> (h.type = t /\ h.session = j) \/ Has(In', t, j)
      /\ \A j : Mentions(In, j) <=> (OfSession(h) /\ h.session = j) \/ Mentions(In', j)
    BY EventTaken
<1> HIDE DEF h
<1> USE DEF IInv
<1>2. OfSession(h) /\ h.session = k /\ h.port = p
    BY DEF h
<1> HIDE DEF k, p
<1>3. /\ k \in Opened /\ p = PortOf(k) /\ place[k].connect = connects
    BY <1>1, <1>2 DEF EventsFit
<1>4. k \in Sessions /\ p \in Ports
    BY <1>3, Numbers
<1>5. ASSUME NEW f \in In', OfSession(f), PortOf(f.session) = p
      PROVE  /\ k <= f.session
             /\ f.session = k => /\ h.type # "notify_close" /\ f.type # "notify_open"
                                 /\ ~(h.type = "instruction" /\ f.type = "instruction")
                                 /\ h.type = "route" /\ f.type = "route" => h.data < f.data
    <2>1. f.port = p
        BY <1>1, <1>5 DEF EventsFit
    <2> QED BY <1>1, <1>2, <1>5, <2>1 DEF Follows
<1>6. /\ ~Has(In', "notify_open", k)
      /\ h.type = "instruction" => ~Has(In', "instruction", k)
    BY <1>3, <1>5 DEF Has, OfSession
<1>7. h.type = "notify_close" => ~Mentions(In', k)
    BY <1>3, <1>5 DEF Mentions
<1>8. h.type = "route" => \A n \in Nat : Brings(In', k, n) => n > h.data
    <2>1. ASSUME h.type = "route", NEW n \in Nat, Brings(In', k, n) PROVE n > h.data
        <3>1. PICK f \in In' : f.type = "route" /\ f.session = k /\ f.data = n
            BY <2>1 DEF Brings
        <3>2. h.data < f.data
            BY <1>3, <1>5, <2>1, <3>1 DEF OfSession
        <3>3. h.data \in Nat
            BY <1>1, <2>1, EventFields
        <3> QED BY <3>1, <3>2, <3>3
    <2> QED BY <2>1
<1>9. Live(k) /\ Current(k) /\ Mentions(In, k)
    BY <1>1, <1>2 DEF Live, Current
<1>10. h.type # "notify_open" => Holds(k) \/ Stale(p)
    BY <1>1, <1>2, <1>3, <1>6, <1>9 DEF SessionsBegin
<1>11. h.type = "notify_open" => ~Holds(k) /\ service[k].kind = "none"
    BY <1>1, <1>2, <1>3 DEF SessionsBegin, Has
<1>12. ASSUME NEW j \in Opened \ {k}, PortOf(j) = p, Current(j)
       PROVE  k < j /\ Has(In, "notify_open", j) /\ ~Holds(j)
    <2>1. k \in Nat /\ j \in Nat
        BY <1>3, <1>12, Numbers
    <2>2. k < j => Has(In, "notify_open", j)
        BY <1>3, <1>9, <1>12 DEF OneAfterAnother
    <2>3. Has(In, "notify_open", j) => ~Holds(j)
        BY <1>12 DEF SessionsBegin
    <2>4. ASSUME j < k, Live(j) PROVE FALSE
        <3>1. Has(In, "notify_close", j)
            BY <1>3, <1>9, <1>12, <2>4 DEF OneAfterAnother
        <3>2. Has(In', "notify_close", j)
            BY <1>1, <1>2, <1>12, <3>1
        <3>3. PICK f \in In' : f.type = "notify_close" /\ f.session = j
            BY <3>2 DEF Has
        <3>4. k <= j
            BY <1>5, <1>12, <3>3 DEF OfSession
        <3> QED BY <2>1, <2>4, <3>4
    <2>5. ASSUME j < k, ~Live(j) PROVE FALSE
        <3>1. srv[p] = j
            BY <1>12, <2>5 DEF Current
        <3>2. k <= j
            BY <1>3, <1>4, <2>1, <3>1, Numbers DEF ServerCoherent
        <3> QED BY <2>1, <2>5, <3>2
    <2> QED BY <1>12, <2>1, <2>2, <2>3, <2>4, <2>5
<1>13. channels[p] # None /\ ~chan[channels[p]].closed => Holds(k)
    <2> SUFFICES ASSUME channels[p] # None, ~chan[channels[p]].closed PROVE Holds(k)
        OBVIOUS
    <2>1. PICK s \in Opened : PortOf(s) = p /\ Holds(s)
        BY <1>4, Holder
    <2>2. Current(s)
        BY <2>1 DEF Current, Live
    <2> QED BY <1>12, <2>1, <2>2
<1> QED BY <1>3, <1>4, <1>6, <1>7, <1>8, <1>9, <1>10, <1>11, <1>12, <1>13 DEF h, k, p

(* How much has been handled, and how much came before the service.        *)
LEMMA Counts ==
    IInv => /\ \A k \in Sessions : /\ service[k] \in Service /\ service[k].got \in Seq(Data)
                                   /\ Len(service[k].got) \in Nat
                                   /\ echoed[k] \in Seq(Data) /\ Len(echoed[k]) \in Nat
                                   /\ service[k].kind # "none" => Early(k) \in Nat
            /\ \A k \in Opened : Kept(k) \in Nat
<1> SUFFICES ASSUME IInv
             PROVE  /\ \A k \in Sessions : /\ service[k] \in Service /\ service[k].got \in Seq(Data)
                                           /\ Len(service[k].got) \in Nat
                                           /\ echoed[k] \in Seq(Data) /\ Len(echoed[k]) \in Nat
                                           /\ service[k].kind # "none" => Early(k) \in Nat
                    /\ \A k \in Opened : Kept(k) \in Nat
    OBVIOUS
<1> USE DEF IInv
<1>1. ASSUME NEW k \in Sessions
      PROVE  /\ service[k] \in Service /\ service[k].got \in Seq(Data)
             /\ Len(service[k].got) \in Nat
             /\ echoed[k] \in Seq(Data) /\ Len(echoed[k]) \in Nat
             /\ service[k].kind # "none" => Early(k) \in Nat
    <2>1. service[k] \in Service /\ service[k].got \in Seq(Data) /\ echoed[k] \in Seq(Data)
        BY DEF Shapes, Service
    <2>2. service[k].kind # "none" => Early(k) \in Nat
        BY ObjectFields DEF ServiceOnObject, Early
    <2> QED BY <2>1, <2>2, LenProperties
<1>2. ASSUME NEW k \in Opened PROVE Kept(k) \in Nat
    <2>1. k \in Sessions /\ PortOf(k) \in Ports
        BY Numbers
    <2>2. Holds(k) => Len(chan[Object(k)].deque) \in Nat
        BY <2>1, ObjectFields DEF Holds, Object, TableCoherent
    <2>3. Len(service[k].got) \in Nat
        BY <1>1, <2>1
    <2>4. Kept(k) = 0 \/ (Holds(k) /\ Kept(k) = Len(chan[Object(k)].deque) + Len(service[k].got))
        BY Zenon DEF Kept
    <2>5. 0 \in Nat /\ \A m, n \in Nat : m + n \in Nat
        OBVIOUS
    <2> QED BY ONLY <2>2, <2>3, <2>4, <2>5, Zenon
<1> QED BY <1>1, <1>2

(* An event is put in the inbox.                                           *)
LEMMA EventPut ==
    ASSUME IInv, NEW e \in Event, inbox' = Append(inbox, e)
    PROVE  /\ inbox' \in Seq(Event) /\ inbox' # <<>> /\ In' = In \cup {e}
           /\ (\A f \in In : Follows(f, e)) => InOrder(inbox')
           /\ \A t, k : Has(In', t, k) <=> (e.type = t /\ e.session = k) \/ Has(In, t, k)
           /\ \A k : Mentions(In', k) <=> (OfSession(e) /\ e.session = k) \/ Mentions(In, k)
           /\ \A k, n : Brings(In', k, n) <=> \/ e.type = "route" /\ e.session = k /\ e.data = n
                                              \/ Brings(In, k, n)
           /\ Drops(In') <=> e.type = "disconnected" \/ Drops(In)
<1>1. inbox \in Seq(Event) /\ InOrder(inbox)
    BY DEF IInv, Shapes
<1>2. In' = Items(inbox')
    BY DEF In, Items
<1>3. /\ inbox' \in Seq(Event) /\ In' = In \cup {e}
      /\ (\A f \in In : Follows(f, e)) => InOrder(inbox')
    BY <1>1, <1>2, AppendItems DEF In
<1>4. inbox' # <<>>
    <2>1. Items(inbox') # {}
        BY <1>2, <1>3
    <2> QED BY <1>3, <2>1, ItemsOf
<1>5. /\ \A t, k : Has(In', t, k) <=> (e.type = t /\ e.session = k) \/ Has(In, t, k)
      /\ \A k : Mentions(In', k) <=> (OfSession(e) /\ e.session = k) \/ Mentions(In, k)
      /\ Drops(In') <=> e.type = "disconnected" \/ Drops(In)
    BY <1>3 DEF Has, Mentions, Drops
<1>6. \A k, n : Brings(In', k, n) <=> \/ e.type = "route" /\ e.session = k /\ e.data = n
                                      \/ Brings(In, k, n)
    BY <1>3 DEF Brings
<1> QED BY <1>3, <1>4, <1>5, <1>6

(* The objects, the services and the places of sessions stay as they are;  *)
(* a session may be added.                                                 *)
ServicesStay == \A k \in Sessions : /\ service'[k].kind = service[k].kind
                                    /\ service'[k].on = service[k].on
                                    /\ service'[k].got = service[k].got
                                    /\ service'[k].ends = service[k].ends
                                    /\ service[k].kind = "none" => service'[k] = service[k]
PlacesStay == /\ Opened' \subseteq Sessions
              /\ \A k \in Opened : k \in Opened' /\ place'[k] = place[k]

LEMMA ObjectsStay ==
    ASSUME IInv, PlacesStay, ServicesStay, UNCHANGED <<channels, chan>>
    PROVE  /\ \A k \in Opened : /\ PortOf(k)' = PortOf(k) /\ Object(k)' = Object(k)
                                /\ Holds(k)' <=> Holds(k)
                                /\ Kept(k)' = Kept(k)
           /\ \A p : Stale(p)' <=> Stale(p)
           /\ \A k \in Sessions : Early(k)' = Early(k)
           /\ \A k \in Opened : Afresh(k) => Afresh(k)'
           /\ told \subseteq told' => ServiceOnObject'
           /\ EndsTold'
           /\ echoed' = echoed => RunsFromEarly'
           /\ connects' = connects => TableCoherent'
<1> USE DEF IInv
<1>1. \A k \in Opened : k \in Sessions /\ k \in Opened' /\ place'[k] = place[k]
    BY Numbers DEF PlacesStay
<1>2. \A k \in Opened : /\ PortOf(k)' = PortOf(k) /\ Object(k)' = Object(k)
                        /\ Holds(k)' <=> Holds(k)
    BY <1>1 DEF PortOf, Object, Holds
<1>3. \A k \in Opened : Kept(k)' = Kept(k)
    BY <1>1, <1>2 DEF ServicesStay, Kept
<1>4. /\ \A p : Stale(p)' <=> Stale(p)
      /\ \A k \in Sessions : Early(k)' = Early(k)
    BY DEF Stale, Early, ServicesStay
<1>5. \A k \in Opened : Afresh(k) => Afresh(k)'
    BY <1>1 DEF Afresh
<1>6. \A k \in Sessions : service[k].kind # "none" => k \in Opened
    <2>1. told \subseteq Opened
        BY DEF Shapes
    <2> QED BY <2>1 DEF ServiceOnObject, NoService
<1>7. ASSUME told \subseteq told' PROVE ServiceOnObject'
    <2>1. \A k \in Sessions : k \notin told' \/ service'[k].kind = "none" => service'[k] = NoService
        BY <1>7 DEF ServiceOnObject, ServicesStay, NoService
    <2>2. ASSUME NEW k \in Sessions, service'[k].kind # "none"
          PROVE  LET c == service'[k].on IN
                 /\ c \in 1..Len(chan') /\ chan'[c].number = PortOf(k)'
                 /\ ~chan'[c].closed =>
                       /\ chan'[c].session = k
                       /\ chan'[c].user = IF service'[k].kind \in {"echo", "thread"} THEN k ELSE None
                 /\ service'[k].kind \notin {"echo", "thread"} => service'[k].got = <<>>
        BY <1>2, <1>6, <2>2 DEF ServiceOnObject, ServicesStay
    <2>3. ASSUME NEW c \in 1..Len(chan), ~chan[c].closed, chan[c].user # None
          PROVE  service'[chan[c].user].kind # "none" /\ service'[chan[c].user].on = c
        <3>1. chan[c].user \in Sessions
            BY <2>3, ObjectFields
        <3> QED BY <2>3, <3>1 DEF ServiceOnObject, ServicesStay
    <2> QED BY <2>1, <2>2, <2>3 DEF ServiceOnObject
<1>8. EndsTold'
    <2> SUFFICES ASSUME NEW k \in Sessions
                 PROVE  IF service'[k].kind = "thread" /\ chan'[service'[k].on].closed
                        THEN service'[k].ends = 1 \/ (service'[k].ends = 0 /\ Afresh(k)')
                        ELSE service'[k].ends = 0
        BY DEF EndsTold
    <2> QED BY <1>5, <1>6 DEF EndsTold, ServicesStay
<1>9. echoed' = echoed => RunsFromEarly'
    BY <1>4 DEF RunsFromEarly, ServicesStay
<1>10. connects' = connects => TableCoherent'
    BY <1>1, <1>2 DEF TableCoherent
<1> QED BY <1>2, <1>3, <1>4, <1>5, <1>7, <1>8, <1>9, <1>10

(* What is on its way to the server stays as it is; a port may be closed,  *)
(* or opened for a session that has no service yet.                        *)
LEMMA PacketsStay ==
    ASSUME IInv, PlacesStay, ServicesStay, UNCHANGED <<channels, chan, outbox, echoed>>,
           \A p \in Ports : srv'[p] \in {srv[p], None} \/ service[srv'[p]].kind = "none",
           srv' \in [Ports -> Sessions \cup {None}]
    PROVE  PacketsFit' /\ EchoInOrder(outbox)' /\ EchoComes'
<1> USE DEF IInv
<1>1. \A k \in Opened : k \in Sessions /\ k \in Opened' /\ PortOf(k)' = PortOf(k)
    BY Numbers, ObjectsStay DEF PlacesStay
<1>2. Out' = Out
    BY DEF Out, Items
<1>3. PacketsFit'
    <2>1. \A k \in Sessions : Early(k)' = Early(k)
        BY ObjectsStay
    <2> QED BY <1>1, <1>2, <2>1 DEF PacketsFit, ServicesStay
<1>4. EchoInOrder(outbox)'
    BY DEF EchoInOrder
<1>5. EchoComes'
    <2> SUFFICES ASSUME NEW k \in Opened', srv'[PortOf(k)'] = k, service'[k].kind = "echo"
                 PROVE  /\ Len(echoed'[k]) <= Len(service'[k].got)
                        /\ \A n \in Nat : GivesBack(Out', k, n) <=>
                               n \in (Early(k)' + Len(echoed'[k]) + 1)..(Early(k)' + Len(service'[k].got))
        BY DEF EchoComes
    <2>1. k \in Sessions /\ k # None
        BY Numbers DEF PlacesStay
    <2>2. service[k].kind = "echo" /\ service'[k].got = service[k].got
        BY <2>1 DEF ServicesStay
    <2>3. k \in Opened
        BY <2>1, <2>2 DEF ServiceOnObject, NoService, Shapes
    <2>4. srv[PortOf(k)] = k
        BY <1>1, <2>1, <2>2, <2>3, Numbers
    <2>5. Early(k)' = Early(k)
        BY <2>1, ObjectsStay
    <2> QED BY <1>2, <2>2, <2>3, <2>4, <2>5 DEF EchoComes
<1> QED BY <1>3, <1>4, <1>5

(* The inbox says no more of sessions than before, but for those the       *)
(* server has open, and nothing that begins or ends one is taken from it.  *)
LEMMA SessionsStay ==
    ASSUME IInv, UNCHANGED srv, Opened' = Opened,
           \A k \in Opened : PortOf(k)' = PortOf(k) /\ (Holds(k)' <=> Holds(k)),
           \A p \in Ports : Stale(p)' <=> Stale(p),
           \A k \in Opened : Mentions(In', k) => Mentions(In, k) \/ srv[PortOf(k)] = k,
           \A t \in {"notify_open", "notify_close"} : \A k : Has(In', t, k) <=> Has(In, t, k),
           Drops(In) => Drops(In'),
           \A k \in Opened : Has(In, "notify_open", k) => service'[k].kind = "none"
    PROVE  SessionsEnd' /\ OneAfterAnother' /\ SessionsBegin'
<1> USE DEF IInv
<1>1. \A k \in Opened : /\ Live(k)' => Live(k) \/ srv[PortOf(k)] = k
                        /\ Current(k)' => Current(k)
    BY DEF Live, Current
<1>2. SessionsEnd'
    BY <1>1 DEF SessionsEnd
<1>3. OneAfterAnother'
    <2> SUFFICES ASSUME NEW j \in Opened, NEW k \in Opened, j < k, PortOf(j) = PortOf(k),
                        Live(j)', Current(k)'
                 PROVE  Has(In, "notify_close", j) /\ Has(In, "notify_open", k)
        BY DEF OneAfterAnother
    <2>1. srv[PortOf(j)] # j
        <3>1. j \in Sessions /\ PortOf(j) \in Ports /\ j \in Nat /\ k \in Nat
            BY Numbers
        <3>2. ~(k <= j)
            BY <3>1
        <3> QED BY <3>1, <3>2 DEF ServerCoherent
    <2> QED BY <1>1, <2>1 DEF OneAfterAnother
<1>4. SessionsBegin'
    <2> SUFFICES ASSUME NEW k \in Opened
                 PROVE  /\ Has(In', "notify_open", k) => ~Holds(k)' /\ service'[k].kind = "none"
                        /\ Current(k)' /\ ~Has(In', "notify_open", k)
                               => Holds(k)' \/ Stale(PortOf(k))'
        BY DEF SessionsBegin
    <2>1. PortOf(k) \in Ports
        BY Numbers
    <2>2. Stale(PortOf(k))' <=> Stale(PortOf(k))
        BY <2>1 DEF Stale
    <2> QED BY <1>1, <2>2 DEF SessionsBegin
<1> QED BY <1>2, <1>3, <1>4

(* No data is sent or handled.                                             *)
LEMMA DataStays ==
    ASSUME IInv, NEW k \in Opened, PortOf(k)' = PortOf(k), Kept(k)' = Kept(k),
           Holds(k) \/ Has(In, "notify_open", k),
           \A n : Brings(In', k, n) <=> Brings(In, k, n), sent' = sent,
           srv'[PortOf(k)] \in {srv[PortOf(k)], None}
    PROVE  DataComes(k)'
<1>1. DataComes(k)
    BY DEF IInv, DataInOrder
<1>2. k # None
    BY Numbers DEF IInv
<1>3. srv'[PortOf(k)] = k => srv[PortOf(k)] = k
    BY <1>2
<1> QED BY <1>1, <1>3 DEF DataComes

-----------------------------------------------------------------------------
(* The network and the server.                                             *)

LEMMA InitIInv == Init => IInv
<1> SUFFICES ASSUME Init PROVE IInv
    OBVIOUS
<1> USE DEF Init
<1>1. /\ Len(inbox) = 0 /\ Len(outbox) = 0 /\ Len(chan) = 0 /\ Len(place) = 0
      /\ inbox \in Seq(Event) /\ outbox \in Seq(Packet) /\ chan \in Seq(Channel)
      /\ place \in Seq([port : Ports, connect : Nat])
    BY EmptySeq
<1>2. 1..0 = {}
    OBVIOUS
<1>3. In = {} /\ Out = {} /\ Opened = {}
    BY <1>1, <1>2 DEF In, Out, Items, Opened
<1>4. \A k \in Sessions : /\ service[k] = NoService /\ service[k].kind = "none"
                          /\ service[k].got = <<>> /\ service[k].ends = 0 /\ echoed[k] = <<>>
    BY DEF NoService
<1>5. \A k \in Sessions : Len(service[k].got) = 0 /\ Len(echoed[k]) = 0
    BY <1>4, EmptySeq
<1>6. Shapes
    <2>1. service \in [Sessions -> Service]
        <3>1. <<>> \in Seq(Data)
            BY EmptySeq
        <3> QED BY <3>1 DEF Service, NoService, None
    <2>2. echoed \in [Sessions -> Seq(Data)]
        BY EmptySeq
    <2>3. channels \in [Ports -> Nat] /\ srv \in [Ports -> Sessions \cup {None}]
        BY DEF None
    <2> QED BY <1>1, <1>3, <2>1, <2>2, <2>3, SizeAssumption DEF Shapes
<1>7. TableCoherent /\ StaleIsOld
    BY <1>1, <1>2 DEF TableCoherent, StaleIsOld, Stale
<1>8. LinkCoherent
    BY DEF LinkCoherent
<1>9. ServerCoherent
    BY <1>3, SizeAssumption, Numbers DEF ServerCoherent
<1>10. EventsFit /\ PacketsFit /\ InOrder(inbox) /\ EchoInOrder(outbox)
    BY <1>1, <1>2, <1>3 DEF EventsFit, PacketsFit, InOrder, EchoInOrder
<1>11. SessionsEnd /\ OneAfterAnother /\ SessionsBegin /\ DataInOrder /\ EchoComes
    BY <1>3 DEF SessionsEnd, OneAfterAnother, SessionsBegin, DataInOrder, EchoComes
<1>12. ServiceOnObject
    BY <1>1, <1>2, <1>4 DEF ServiceOnObject
<1>13. EndsTold
    BY <1>4 DEF EndsTold
<1>14. RunsFromEarly
    BY <1>2, <1>5 DEF RunsFromEarly
<1> QED BY <1>6, <1>7, <1>8, <1>9, <1>10, <1>11, <1>12, <1>13, <1>14 DEF IInv

(* A new connection keeps it.                                              *)
LEMMA ConnectIInv == IInv /\ Connect => IInv'
<1> SUFFICES ASSUME IInv, Connect PROVE IInv'
    OBVIOUS
<1> USE DEF IInv
<1> DEFINE ready == [type |-> "ready"]
<1>1. /\ link = "down" /\ inbox = <<>> /\ connects < MaxConnect
      /\ link' = "up" /\ connects' = connects + 1
      /\ inbox' = <<ready>> /\ outbox' = <<>> /\ outbox = <<>>
      /\ UNCHANGED <<channels, chan, service, srv, place, told, sent, echoed, outbox>>
    BY DEF Connect, agent, server, LinkCoherent
<1>2. ready \in Event /\ ~OfSession(ready) /\ ready.type = "ready"
    BY DEF Event, OfSession
<1>3. inbox' = Append(inbox, ready)
    BY <1>1
<1> HIDE DEF ready
<1>4. PlacesStay /\ ServicesStay /\ Opened' = Opened
    BY <1>1, Numbers DEF PlacesStay, ServicesStay, Opened
<1>5. /\ \A k \in Opened : /\ PortOf(k)' = PortOf(k) /\ (Holds(k)' <=> Holds(k))
                           /\ Kept(k)' = Kept(k)
      /\ \A p : Stale(p)' <=> Stale(p)
      /\ ServiceOnObject' /\ EndsTold' /\ RunsFromEarly'
    BY <1>1, <1>4, ObjectsStay
<1>6. In = {} /\ \A t, k : ~Has(In, t, k) /\ ~Mentions(In, k) /\ ~Drops(In)
    <2>1. In = {}
        BY <1>1, EmptySeq DEF In, Items
    <2> QED BY <2>1 DEF Has, Mentions, Drops
<1>7. /\ inbox' \in Seq(Event) /\ inbox' # <<>> /\ In' = {ready}
      /\ \A k : ~Mentions(In', k) /\ ~Has(In', "notify_open", k) /\ ~Has(In', "notify_close", k)
      /\ ~Drops(In') /\ InOrder(inbox')
    BY <1>2, <1>3, <1>6, EventPut DEF OfSession
<1>8. \A k \in Opened : ~Holds(k) /\ srv[PortOf(k)] # k
    <2> SUFFICES ASSUME NEW k \in Opened PROVE ~Holds(k) /\ srv[PortOf(k)] # k
        OBVIOUS
    <2>1. srv[PortOf(k)] # k
        BY <1>1, Numbers DEF LinkCoherent
    <2> QED BY <1>6, <2>1 DEF SessionsEnd, Live
<1>9. Shapes'
    BY <1>1, <1>7, SizeAssumption DEF Shapes, Opened
<1>10. connects \in Nat /\ connects' = connects + 1
    BY <1>1, SizeAssumption DEF Shapes
<1>11. TableCoherent'
    <2>1. ASSUME NEW c \in 1..Len(chan), ~chan[c].closed PROVE FALSE
        <3>1. channels[chan[c].number] = c /\ chan[c].number \in Ports
            BY <2>1, ObjectFields DEF TableCoherent
        <3>2. c # None
            BY Numbers
        <3> QED BY <1>8, <2>1, <3>1, <3>2, Holder
    <2> QED BY <1>1, <1>4, <1>5, <2>1 DEF TableCoherent
<1>12. StaleIsOld'
    <2> SUFFICES ASSUME NEW p \in Ports, Stale(p)
                 PROVE  place'[chan'[channels'[p]].session].connect < connects'
        BY <1>5 DEF StaleIsOld
    <2>1. chan[channels[p]].session \in Opened
        BY Holder DEF Stale
    <2>2. place[chan[channels[p]].session].connect \in 1..connects
        BY <2>1 DEF ServerCoherent
    <2> QED BY <1>1, <1>10, <2>2
<1>13. LinkCoherent' /\ EventsFit'
    BY <1>1, <1>2, <1>7, <1>10 DEF LinkCoherent, EventsFit
<1>14. ServerCoherent'
    <2>1. \A k \in Opened' : place'[k].connect \in 1..connects'
        BY <1>1, <1>4, <1>10 DEF ServerCoherent
    <2>2. \A p \in Ports : srv'[p] = None
        BY <1>1 DEF LinkCoherent
    <2> QED BY <1>1, <1>4, <2>1, <2>2, Numbers DEF ServerCoherent
<1>15. PacketsFit' /\ EchoInOrder(outbox)' /\ EchoComes'
    <2>1. srv' = srv /\ srv' \in [Ports -> Sessions \cup {None}]
        BY <1>1 DEF Shapes
    <2> QED BY <1>1, <1>4, <2>1, PacketsStay
<1>16. \A k \in Opened' : ~Live(k)' /\ ~Current(k)' /\ ~Holds(k)'
    BY <1>1, <1>4, <1>5, <1>7, <1>8 DEF Live, Current
<1>17. SessionsEnd' /\ OneAfterAnother' /\ SessionsBegin'
    BY <1>7, <1>16 DEF SessionsEnd, OneAfterAnother, SessionsBegin
<1>18. DataInOrder'
    BY <1>7, <1>16 DEF DataInOrder
<1>19. InOrder(inbox)'
    BY <1>7 DEF InOrder
<1> QED BY <1>5, <1>9, <1>11, <1>12, <1>13, <1>14, <1>15, <1>17, <1>18, <1>19

(* A link that drops, at any point of the inbox, keeps it.                 *)
LEMMA DropIInv == IInv /\ Drop => IInv'
<1> SUFFICES ASSUME IInv, Drop PROVE IInv'
    OBVIOUS
<1> USE DEF IInv
<1> DEFINE last == [type |-> "disconnected"]
<1>1. /\ link = "up" /\ link' = "down" /\ outbox' = <<>>
      /\ srv' = [p \in Ports |-> None]
      /\ UNCHANGED <<connects, channels, chan, service, place, told, sent, echoed>>
    BY DEF Drop, agent
<1>2. PICK n \in 0..Len(inbox) : inbox' = Append(SubSeq(inbox, 1, n), last)
    BY DEF Drop
<1> DEFINE cut == SubSeq(inbox, 1, n)
<1>3. last \in Event /\ ~OfSession(last) /\ last.type = "disconnected"
    BY DEF Event, OfSession
<1>4. /\ inbox \in Seq(Event) /\ cut \in Seq(Event) /\ Items(cut) \subseteq In /\ InOrder(cut)
      /\ \A f \in Items(cut), g \in In : g \in Items(cut) \/ Follows(f, g)
    BY CutItems DEF Shapes, In
<1> HIDE DEF last, cut
<1>5. ~Drops(In) /\ \A f \in Items(cut) : f.type # "disconnected" /\ Follows(f, last)
    <2>1. ~Drops(In)
        BY <1>1 DEF LinkCoherent
    <2> QED BY <1>3, <1>4, <2>1 DEF Drops, Follows
<1>6. inbox' \in Seq(Event) /\ InOrder(inbox') /\ In' = Items(cut) \cup {last}
    <2>1. inbox' = Append(cut, last)
        BY <1>2 DEF cut, last
    <2>2. In' = Items(inbox')
        BY DEF In, Items
    <2> QED BY <1>3, <1>4, <1>5, <2>1, <2>2, AppendItems
<1>7. inbox' # <<>>
    <2>1. In' = Items(inbox')
        BY DEF In, Items
    <2>2. Items(inbox') # {}
        BY <1>6, <2>1
    <2> QED BY <1>6, <2>2, ItemsOf
<1>8. /\ \A k : Mentions(In', k) => Mentions(In, k)
      /\ \A t \in {"notify_open", "notify_close", "instruction", "route"} : \A k :
             Has(In', t, k) => Has(In, t, k)
      /\ \A k, m : Brings(In', k, m) => Brings(In, k, m)
      /\ Drops(In')
    BY <1>3, <1>4, <1>6 DEF Mentions, Has, Brings, Drops, OfSession
<1>9. ASSUME NEW k \in Opened, Mentions(In', k), Has(In, "notify_open", k)
      PROVE  Has(In', "notify_open", k)
    <2>1. PICK f \in Items(cut) : OfSession(f) /\ f.session = k
        BY <1>3, <1>6, <1>9 DEF Mentions
    <2>2. PICK g \in In : g.type = "notify_open" /\ g.session = k
        BY <1>9 DEF Has
    <2>3. f \in In /\ f.port = PortOf(k) /\ g.port = PortOf(k) /\ OfSession(g)
        BY <1>4, <2>1, <2>2 DEF EventsFit, OfSession
    <2>4. ~Follows(f, g)
        BY <2>1, <2>2, <2>3 DEF Follows
    <2>5. g \in In'
        BY <1>4, <1>6, <2>4
    <2> QED BY <2>2, <2>5 DEF Has
<1>10. ASSUME NEW j \in Opened, NEW k \in Opened, j < k, PortOf(j) = PortOf(k),
              Mentions(In', k), Has(In, "notify_close", j)
       PROVE  Has(In', "notify_close", j)
    <2>1. PICK f \in Items(cut) : OfSession(f) /\ f.session = k
        BY <1>3, <1>6, <1>10 DEF Mentions
    <2>2. PICK g \in In : g.type = "notify_close" /\ g.session = j
        BY <1>10 DEF Has
    <2>3. f \in In /\ f.port = PortOf(k) /\ g.port = PortOf(k) /\ OfSession(g)
        BY <1>4, <1>10, <2>1, <2>2 DEF EventsFit, OfSession
    <2>4. j \in Nat /\ k \in Nat
        BY Numbers
    <2>5. ~Follows(f, g)
        BY <1>10, <2>1, <2>2, <2>3, <2>4 DEF Follows
    <2>6. g \in In'
        BY <1>4, <1>6, <2>5
    <2> QED BY <2>2, <2>6 DEF Has
<1>11. PlacesStay /\ ServicesStay /\ Opened' = Opened
    BY <1>1, Numbers DEF PlacesStay, ServicesStay, Opened
<1>12. /\ \A k \in Opened : /\ PortOf(k)' = PortOf(k) /\ (Holds(k)' <=> Holds(k))
                            /\ Kept(k)' = Kept(k)
       /\ \A p : Stale(p)' <=> Stale(p)
       /\ TableCoherent' /\ ServiceOnObject' /\ EndsTold' /\ RunsFromEarly'
    BY <1>1, <1>11, ObjectsStay
<1>13. Shapes'
    <2>1. srv' \in [Ports -> Sessions \cup {None}] /\ outbox' \in Seq(Packet)
        BY <1>1, EmptySeq
    <2> QED BY <1>1, <1>6, <1>11, <2>1 DEF Shapes
<1>14. StaleIsOld'
    BY <1>1, <1>12 DEF StaleIsOld
<1>15. LinkCoherent'
    BY <1>1, <1>8 DEF LinkCoherent
<1>16. ServerCoherent'
    BY <1>1, <1>11, Numbers DEF ServerCoherent
<1>17. EventsFit'
    BY <1>1, <1>3, <1>4, <1>6, <1>11, <1>12 DEF EventsFit
<1>18. PacketsFit' /\ EchoInOrder(outbox)' /\ EchoComes'
    <2>1. Len(outbox') = 0 /\ 1..0 = {}
        BY <1>1, EmptySeq
    <2>2. Out' = {}
        BY <2>1 DEF Out, Items
    <2>3. \A k \in Opened' : srv'[PortOf(k)'] # k
        BY <1>1, <1>11, <1>12, Numbers
    <2> QED BY <2>1, <2>2, <2>3 DEF PacketsFit, EchoInOrder, EchoComes
<1>19. \A k \in Opened : /\ Live(k)' => Live(k)
                         /\ Current(k)' <=> Live(k)'
    BY <1>1, <1>8, <1>12, Numbers DEF Live, Current
<1>20. SessionsEnd'
    BY <1>8 DEF SessionsEnd
<1>21. OneAfterAnother'
    <2> SUFFICES ASSUME NEW j \in Opened, NEW k \in Opened, j < k, PortOf(j) = PortOf(k),
                        Live(j)', Live(k)'
                 PROVE  Has(In', "notify_close", j) /\ Has(In', "notify_open", k)
        BY <1>11, <1>12, <1>19 DEF OneAfterAnother
    <2>1. Has(In, "notify_close", j) /\ Has(In, "notify_open", k)
        BY <1>19 DEF OneAfterAnother, Current
    <2>2. Mentions(In', k)
        BY <1>12, <2>1 DEF Live, SessionsBegin
    <2> QED BY <1>9, <1>10, <2>1, <2>2
<1>22. SessionsBegin'
    <2> SUFFICES ASSUME NEW k \in Opened
                 PROVE  /\ Has(In', "notify_open", k) => ~Holds(k)' /\ service'[k].kind = "none"
                        /\ Live(k)' /\ ~Has(In', "notify_open", k)
                               => Holds(k)' \/ Stale(PortOf(k))
        BY <1>11, <1>12, <1>19 DEF SessionsBegin, Stale
    <2>1. Has(In', "notify_open", k) => ~Holds(k)' /\ service'[k].kind = "none"
        BY <1>1, <1>8, <1>12 DEF SessionsBegin
    <2>2. ASSUME Live(k)', ~Has(In', "notify_open", k), ~Holds(k)' PROVE Stale(PortOf(k))
        <3>1. Mentions(In', k)
            BY <2>2 DEF Live
        <3>2. ~Has(In, "notify_open", k)
            BY <1>9, <2>2, <3>1
        <3>3. Current(k)
            BY <1>19, <2>2 DEF Current
        <3> QED BY <1>12, <2>2, <3>2, <3>3 DEF SessionsBegin
    <2> QED BY <2>1, <2>2
<1>23. DataInOrder'
    <2> SUFFICES ASSUME NEW k \in Opened, Holds(k) \/ Has(In', "notify_open", k)
                 PROVE  DataComes(k)'
        BY <1>11, <1>12 DEF DataInOrder
    <2>1. Holds(k) \/ Has(In, "notify_open", k)
        BY <1>8
    <2>2. \A m \in Nat : Brings(In', k, m) => m > Kept(k)
        BY <1>8, <2>1 DEF DataInOrder, DataComes
    <2>3. ASSUME NEW m \in Nat, Brings(In', k, m), NEW l \in (Kept(k) + 1)..m
          PROVE  Brings(In', k, l)
        <3>1. PICK f \in Items(cut) : f.type = "route" /\ f.session = k /\ f.data = m
            BY <1>3, <1>6, <2>3 DEF Brings, OfSession
        <3>2. Brings(In, k, l)
            BY <1>8, <2>1, <2>3 DEF DataInOrder, DataComes
        <3>3. PICK g \in In : g.type = "route" /\ g.session = k /\ g.data = l
            BY <3>2 DEF Brings
        <3>4. f.port = PortOf(k) /\ g.port = PortOf(k)
            BY <1>4, <3>1, <3>3 DEF EventsFit, OfSession
        <3>5. Kept(k) \in Nat
            BY Counts
        <3>6. l <= m /\ l \in Nat
            BY <2>3, <3>5
        <3>7. ~Follows(f, g)
            BY <3>1, <3>3, <3>4, <3>6 DEF Follows, OfSession
        <3>8. g \in In'
            BY <1>4, <1>6, <3>3, <3>7
        <3> QED BY <3>3, <3>8 DEF Brings
    <2>4. srv'[PortOf(k)'] # k
        BY <1>1, <1>12, Numbers
    <2>5. Kept(k)' = Kept(k)
        BY <1>12
    <2>6. Kept(k) <= sent[k] /\ sent' = sent
        BY <1>1, <2>1 DEF DataInOrder, DataComes
    <2> QED BY <2>2, <2>3, <2>4, <2>5, <2>6 DEF DataComes
<1>24. InOrder(inbox)'
    BY <1>6 DEF InOrder
<1> QED BY <1>12, <1>13, <1>14, <1>15, <1>16, <1>17, <1>18, <1>20, <1>21, <1>22, <1>23, <1>24

(* A ping keeps it.                                                        *)
LEMMA PingIInv == IInv /\ Ping => IInv'
<1> SUFFICES ASSUME IInv, Ping PROVE IInv'
    OBVIOUS
<1> USE DEF IInv
<1> DEFINE ping == [type |-> "ping"]
<1>1. /\ link = "up" /\ inbox = <<>> /\ inbox' = Append(inbox, ping)
      /\ UNCHANGED <<link, connects, outbox, channels, chan, service, srv, place, told, sent,
                     echoed>>
    BY DEF Ping, ServerSends, agent, server
<1>2. ping \in Event /\ ~OfSession(ping) /\ ping.type = "ping"
    BY DEF Event, OfSession
<1> HIDE DEF ping
<1>3. PlacesStay /\ ServicesStay /\ Opened' = Opened
    BY <1>1, Numbers DEF PlacesStay, ServicesStay, Opened
<1>4. /\ \A k \in Opened : /\ PortOf(k)' = PortOf(k) /\ (Holds(k)' <=> Holds(k))
                           /\ Kept(k)' = Kept(k)
      /\ \A p : Stale(p)' <=> Stale(p)
      /\ ServiceOnObject' /\ EndsTold' /\ RunsFromEarly' /\ TableCoherent'
    BY <1>1, <1>3, ObjectsStay
<1>5. In = {}
    BY <1>1, EmptySeq DEF In, Items
<1>6. /\ inbox' \in Seq(Event) /\ inbox' # <<>> /\ In' = {ping}
      /\ \A k : Mentions(In', k) <=> Mentions(In, k)
      /\ \A t \in {"notify_open", "notify_close"} : \A k : Has(In', t, k) <=> Has(In, t, k)
      /\ \A k, n : Brings(In', k, n) <=> Brings(In, k, n)
      /\ Drops(In') <=> Drops(In)
      /\ InOrder(inbox')
    BY <1>1, <1>2, <1>5, EventPut DEF OfSession
<1>7. Shapes'
    BY <1>1, <1>3, <1>6 DEF Shapes
<1>8. StaleIsOld' /\ LinkCoherent'
    BY <1>1, <1>4, <1>6 DEF StaleIsOld, LinkCoherent
<1>9. ServerCoherent' /\ EventsFit'
    BY <1>1, <1>2, <1>3, <1>4, <1>6 DEF ServerCoherent, EventsFit
<1>10. PacketsFit' /\ EchoInOrder(outbox)' /\ EchoComes'
    <2>1. srv' = srv /\ srv' \in [Ports -> Sessions \cup {None}]
        BY <1>1 DEF Shapes
    <2> QED BY <1>1, <1>3, <2>1, PacketsStay
<1>11. SessionsEnd' /\ OneAfterAnother' /\ SessionsBegin'
    BY <1>1, <1>3, <1>4, <1>6, SessionsStay DEF SessionsBegin
<1>12. DataInOrder'
    BY <1>1, <1>3, <1>4, <1>6, DataStays DEF DataInOrder
<1>13. InOrder(inbox)'
    BY <1>6 DEF InOrder
<1> QED BY <1>4, <1>7, <1>8, <1>9, <1>10, <1>11, <1>12, <1>13

(* A session that is opened keeps it: it comes after all others of the     *)
(* port, the agent having heard of their end or being about to.            *)
LEMMA OpenSessionIInv == \A p \in Ports : IInv /\ OpenSession(p) => IInv'
<1> SUFFICES ASSUME NEW p \in Ports, IInv, OpenSession(p) PROVE IInv'
    OBVIOUS
<1> USE DEF IInv
<1>0. PICK k0 : k0 = Len(place) + 1
    OBVIOUS
<1> DEFINE e == [type |-> "notify_open", port |-> p, session |-> k0]
<1>1. /\ srv[p] = None /\ Len(place) < MaxSession
      /\ place' = Append(place, [port |-> p, connect |-> connects])
      /\ srv' = [srv EXCEPT ![p] = Len(place')]
      /\ link = "up" /\ inbox' = Append(inbox, [type |-> "notify_open", port |-> p,
                                                session |-> Len(place')])
      /\ UNCHANGED <<link, connects, outbox, channels, chan, service, told, sent, echoed>>
    BY DEF OpenSession, ServerSends, agent
<1>2. /\ place \in Seq([port : Ports, connect : Nat]) /\ connects \in Nat /\ connects >= 0
      /\ [port |-> p, connect |-> connects] \in [port : Ports, connect : Nat]
    BY SizeAssumption DEF Shapes
<1>3. /\ place' \in Seq([port : Ports, connect : Nat]) /\ Len(place') = k0
      /\ \A k \in 1..Len(place) : place'[k] = place[k]
      /\ place'[k0] = [port |-> p, connect |-> connects]
    BY <1>0, <1>1, <1>2, AppendProperties
<1>4. /\ k0 \in Sessions /\ k0 # None /\ k0 \in Nat /\ Opened' = Opened \cup {k0}
      /\ \A k \in Opened : k < k0 /\ k \in Nat
      /\ Opened' \subseteq Sessions
    <2>1. Len(place) \in Nat /\ Opened = 1..Len(place) /\ Opened \subseteq Sessions
        BY Numbers
    <2>2. Opened' = 1..k0
        BY <1>3, LenProperties DEF Opened
    <2> QED BY <1>0, <1>1, <2>1, <2>2, SizeAssumption DEF Sessions, None
<1>5. e \in Event /\ OfSession(e) /\ e.type = "notify_open" /\ e.port = p /\ e.session = k0
    BY <1>4 DEF Event, OfSession
<1>6. inbox' = Append(inbox, e)
    BY <1>1, <1>3
<1>7. srv'[p] = k0 /\ \A x \in Ports \ {p} : srv'[x] = srv[x]
    BY <1>1, <1>3 DEF Shapes
<1> HIDE DEF e
<1>8. PlacesStay /\ ServicesStay
    BY <1>1, <1>3, <1>4, Numbers DEF PlacesStay, ServicesStay
<1>9. /\ \A k \in Opened : /\ PortOf(k)' = PortOf(k) /\ (Holds(k)' <=> Holds(k))
                           /\ Kept(k)' = Kept(k)
      /\ \A x : Stale(x)' <=> Stale(x)
      /\ ServiceOnObject' /\ EndsTold' /\ RunsFromEarly' /\ TableCoherent'
    BY <1>1, <1>8, ObjectsStay
<1>10. PortOf(k0)' = p /\ place'[k0].connect = connects /\ k0 \notin Opened
    BY <1>3, <1>4 DEF PortOf
<1>11. ~Drops(In) /\ \A f \in In : f.type # "disconnected" /\ Follows(f, e)
    <2>1. ~Drops(In)
        BY <1>1 DEF LinkCoherent
    <2>2. ASSUME NEW f \in In, OfSession(f) PROVE f.session < k0
        BY <1>4, <2>2 DEF EventsFit
    <2>3. \A f \in In : f.type # "disconnected"
        BY <2>1 DEF Drops
    <2>4. ASSUME NEW f \in In PROVE Follows(f, e)
        <3>1. OfSession(f) => f.session < k0 /\ f.session # k0 /\ f.session <= k0
            BY <1>4, <2>2, <2>4 DEF EventsFit
        <3> QED BY <1>5, <2>3, <2>4, <3>1 DEF Follows
    <2> QED BY <2>1, <2>3, <2>4
<1>12. /\ inbox' \in Seq(Event) /\ inbox' # <<>> /\ In' = In \cup {e} /\ InOrder(inbox')
       /\ \A k : /\ Mentions(In', k) <=> k = k0 \/ Mentions(In, k)
                 /\ Has(In', "notify_open", k) <=> k = k0 \/ Has(In, "notify_open", k)
                 /\ Has(In', "notify_close", k) <=> Has(In, "notify_close", k)
       /\ \A k, n : Brings(In', k, n) <=> Brings(In, k, n)
       /\ ~Drops(In')
    BY <1>5, <1>6, <1>11, EventPut
<1>13. /\ ~Mentions(In, k0) /\ \A t, n : ~Brings(In, k0, n)
       /\ ~Has(In, "notify_open", k0) /\ ~Has(In, "notify_close", k0)
    BY <1>10 DEF Mentions, Brings, Has, EventsFit, OfSession
<1>14. k0 \notin told /\ service[k0].kind = "none" /\ sent[k0] = 0
    <2>1. k0 \notin told
        BY <1>10 DEF Shapes
    <2> QED BY <1>4, <1>10, <2>1 DEF ServiceOnObject, ServerCoherent, NoService
<1>15. Shapes'
    <2>1. told' \subseteq Opened' /\ Len(place') <= MaxSession
        BY <1>0, <1>1, <1>3, <1>4, Numbers DEF Shapes
    <2>2. srv' \in [Ports -> Sessions \cup {None}]
        BY <1>1, <1>3, <1>4 DEF Shapes
    <2> QED BY <1>1, <1>3, <1>12, <2>1, <2>2 DEF Shapes
<1>16. StaleIsOld'
    <2> SUFFICES ASSUME NEW x \in Ports, Stale(x)
                 PROVE  place'[chan[channels[x]].session].connect < connects
        BY <1>1, <1>9 DEF StaleIsOld
    <2>1. chan[channels[x]].session \in Opened
        BY Holder DEF Stale
    <2> QED BY <1>1, <1>8, <2>1 DEF StaleIsOld, PlacesStay
<1>17. LinkCoherent'
    BY <1>1, <1>12 DEF LinkCoherent
<1>18. ServerCoherent'
    <2>1. \A k \in Opened' : place'[k].connect \in 1..connects'
        <3>1. connects \in 1..connects
            BY <1>1, <1>2 DEF LinkCoherent
        <3>2. \A k \in Opened : place'[k].connect \in 1..connects
            BY <1>8 DEF ServerCoherent, PlacesStay
        <3> QED BY <1>1, <1>4, <1>10, <3>1, <3>2
    <2>2. ASSUME NEW x \in Ports, NEW k \in Sessions, srv'[x] = k
          PROVE  /\ k \in Opened' /\ PortOf(k)' = x /\ place'[k].connect = connects'
                 /\ ~Has(In', "notify_close", k)
                 /\ \A j \in Opened' : PortOf(j)' = x => j <= k
        <3>1. CASE x = p
            <4>1. k = k0
                BY <1>7, <2>2, <3>1
            <4>2. \A j \in Opened' : j <= k0
                BY <1>4
            <4> QED BY <1>1, <1>4, <1>10, <1>12, <1>13, <3>1, <4>1, <4>2
        <3>2. CASE x # p
            <4>1. srv[x] = k
                BY <1>7, <2>2, <3>2
            <4>2. /\ k \in Opened /\ PortOf(k) = x /\ place[k].connect = connects
                  /\ ~Has(In, "notify_close", k)
                  /\ \A j \in Opened : PortOf(j) = x => j <= k
                BY <4>1 DEF ServerCoherent
            <4>3. place'[k] = place[k]
                BY <1>8, <4>2 DEF PlacesStay
            <4>4. \A j \in Opened' : PortOf(j)' = x => j \in Opened
                BY <1>4, <1>10, <3>2
            <4> QED BY <1>1, <1>4, <1>9, <1>12, <4>2, <4>3, <4>4
        <3> QED BY <3>1, <3>2
    <2>3. \A k \in Sessions : /\ sent'[k] <= MaxData[k]
                              /\ k \notin Opened' => sent'[k] = 0
        BY <1>1, <1>4 DEF ServerCoherent
    <2> QED BY <2>1, <2>2, <2>3 DEF ServerCoherent
<1>19. EventsFit'
    BY <1>1, <1>4, <1>5, <1>8, <1>9, <1>10, <1>12 DEF EventsFit, PlacesStay
<1>20. PacketsFit' /\ EchoInOrder(outbox)' /\ EchoComes'
    <2>1. srv' \in [Ports -> Sessions \cup {None}]
        BY <1>15 DEF Shapes
    <2>2. \A x \in Ports : srv'[x] \in {srv[x], None} \/ service[srv'[x]].kind = "none"
        BY <1>7, <1>14
    <2> QED BY <1>1, <1>8, <2>1, <2>2, PacketsStay
<1>21. ~Holds(k0)'
    <2> SUFFICES ASSUME channels[p] # None PROVE chan[channels[p]].session # k0
        BY <1>1, <1>3, <1>10 DEF Holds, Object
    <2> QED BY <1>10, Holder
<1>22. ASSUME NEW k \in Opened
       PROVE  /\ Live(k)' <=> Live(k)
              /\ Current(k)' <=> Current(k)
    BY <1>4, <1>7, <1>9, <1>10, <1>12, Numbers, <1>1 DEF Live, Current
<1>23. Live(k0)' /\ Current(k0)'
    BY <1>12 DEF Live, Current
<1>24. SessionsEnd'
    <2> SUFFICES ASSUME NEW k \in Opened', Live(k)'
                 PROVE  srv'[PortOf(k)'] = k \/ Has(In', "notify_close", k)
        BY DEF SessionsEnd
    <2>1. CASE k = k0
        BY <1>7, <1>10, <2>1
    <2>2. CASE k \in Opened
        <3>1. srv[PortOf(k)] = k \/ Has(In, "notify_close", k)
            BY <1>11, <1>22, <2>2 DEF SessionsEnd
        <3>2. k # None /\ PortOf(k) \in Ports
            BY <2>2, Numbers
        <3> QED BY <1>1, <1>7, <1>9, <1>12, <2>2, <3>1, <3>2
    <2> QED BY <1>4, <2>1, <2>2
<1>25. OneAfterAnother'
    <2> SUFFICES ASSUME NEW j \in Opened', NEW k \in Opened', j < k, PortOf(j)' = PortOf(k)',
                        Live(j)', Current(k)'
                 PROVE  Has(In', "notify_close", j) /\ Has(In', "notify_open", k)
        BY DEF OneAfterAnother
    <2>1. j \in Opened
        BY <1>4
    <2>2. CASE k = k0
        <3>1. srv[PortOf(j)] # j /\ PortOf(j) = p
            BY <1>1, <1>9, <1>10, <2>1, <2>2, Numbers
        <3>2. Has(In, "notify_close", j)
            BY <1>11, <1>22, <2>1, <3>1 DEF SessionsEnd
        <3> QED BY <1>12, <2>2, <3>2
    <2>3. CASE k \in Opened
        BY <1>9, <1>12, <1>22, <2>1, <2>3 DEF OneAfterAnother
    <2> QED BY <1>4, <2>2, <2>3
<1>26. SessionsBegin'
    <2> SUFFICES ASSUME NEW k \in Opened'
                 PROVE  /\ Has(In', "notify_open", k) => ~Holds(k)' /\ service'[k].kind = "none"
                        /\ Current(k)' /\ ~Has(In', "notify_open", k)
                               => Holds(k)' \/ Stale(PortOf(k)')
        BY <1>9 DEF SessionsBegin, Stale
    <2>1. CASE k = k0
        BY <1>1, <1>12, <1>14, <1>21, <2>1
    <2>2. CASE k \in Opened
        BY <1>1, <1>4, <1>9, <1>10, <1>12, <1>22, <2>2 DEF SessionsBegin
    <2> QED BY <1>4, <2>1, <2>2
<1>27. DataInOrder'
    <2> SUFFICES ASSUME NEW k \in Opened', Holds(k)' \/ Has(In', "notify_open", k)
                 PROVE  DataComes(k)'
        BY DEF DataInOrder
    <2>1. CASE k = k0
        <3>1. Kept(k)' = 0
            BY <1>21, <2>1 DEF Kept
        <3>2. \A n : ~Brings(In', k, n)
            BY <1>12, <1>13, <2>1
        <3>3. sent'[k] = 0
            BY <1>1, <1>14, <2>1
        <3> QED BY <3>1, <3>2, <3>3 DEF DataComes
    <2>2. CASE k \in Opened
        <3>1. srv'[PortOf(k)'] = k => srv[PortOf(k)] = k
            BY <1>4, <1>7, <1>9, <1>10, <2>2, Numbers
        <3>2. Holds(k) \/ Has(In, "notify_open", k)
            BY <1>9, <1>10, <1>12, <2>2
        <3>3. DataComes(k)
            BY <2>2, <3>2 DEF DataInOrder
        <3>4. Kept(k)' = Kept(k)
            BY <1>9, <2>2
        <3> QED BY <1>1, <1>12, <3>1, <3>3, <3>4 DEF DataComes
    <2> QED BY <1>4, <2>1, <2>2
<1>28. InOrder(inbox)'
    BY <1>12 DEF InOrder
<1> QED BY <1>9, <1>15, <1>16, <1>17, <1>18, <1>19, <1>20, <1>24, <1>25, <1>26, <1>27, <1>28

(* What the server sends on the session it has open comes after all else   *)
(* in the inbox.                                                           *)
LEMMA CurrentEvent ==
    ASSUME IInv, link = "up", NEW p \in Ports, NEW k \in Sessions, srv[p] = k,
           NEW e \in Event, OfSession(e), e.type # "notify_open", e.port = p, e.session = k,
           e.type = "instruction" => k \notin told,
           e.type = "route" => e.data > sent[k]
    PROVE  \A f \in In : Follows(f, e)
<1> USE DEF IInv
<1>1. SUFFICES ASSUME NEW f \in In PROVE Follows(f, e)
    OBVIOUS
<1>2. f.type # "disconnected"
    BY DEF LinkCoherent, Drops
<1>3. SUFFICES ASSUME OfSession(f), f.port = p
               PROVE  /\ f.session <= k
                      /\ f.session = k =>
                            /\ f.type # "notify_close"
                            /\ ~(f.type = "instruction" /\ e.type = "instruction")
                            /\ f.type = "route" /\ e.type = "route" => f.data < e.data
    BY <1>2 DEF Follows
<1>4. f.session \in Opened /\ PortOf(f.session) = p
    BY <1>3 DEF EventsFit
<1>5. f.session <= k
    BY <1>4 DEF ServerCoherent
<1>6. f.session = k => f.type # "notify_close"
    BY DEF ServerCoherent, Has
<1>7. f.session = k => ~(f.type = "instruction" /\ e.type = "instruction")
    BY <1>3 DEF EventsFit
<1>8. ASSUME f.session = k, f.type = "route", e.type = "route" PROVE f.data < e.data
    <2>1. f.data <= sent[k] /\ sent[k] \in Nat
        BY <1>3, <1>8 DEF EventsFit, Shapes
    <2>2. In \subseteq Event
        BY ItemsOf DEF In, Shapes
    <2>3. f.data \in Nat /\ e.data \in Nat
        BY <1>8, <2>2, EventFields
    <2> QED BY <1>8, <2>1, <2>3
<1> QED BY <1>5, <1>6, <1>7, <1>8

(* It is what SessionsStay allows, and more if it ends that session.       *)
LEMMA CurrentPut ==
    ASSUME IInv, link = "up", NEW p \in Ports, NEW k \in Sessions, srv[p] = k,
           NEW e \in Event, OfSession(e), e.type # "notify_open", e.port = p, e.session = k,
           e.type = "instruction" => k \notin told,
           e.type = "route" => e.data > sent[k],
           inbox' = Append(inbox, e),
           UNCHANGED <<link, connects, channels, chan, service, place>>
    PROVE  /\ inbox' \in Seq(Event) /\ inbox' # <<>> /\ In' = In \cup {e} /\ InOrder(inbox)'
           /\ \A j : /\ Mentions(In', j) <=> j = k \/ Mentions(In, j)
                     /\ Has(In', "notify_open", j) <=> Has(In, "notify_open", j)
                     /\ Has(In', "notify_close", j) <=>
                            (e.type = "notify_close" /\ j = k) \/ Has(In, "notify_close", j)
           /\ \A j, n : Brings(In', j, n) <=> \/ e.type = "route" /\ j = k /\ e.data = n
                                              \/ Brings(In, j, n)
           /\ ~Drops(In) /\ ~Drops(In')
           /\ PlacesStay /\ ServicesStay /\ Opened' = Opened
           /\ k \in Opened /\ PortOf(k) = p /\ place[k].connect = connects
           /\ \A j \in Opened : /\ PortOf(j)' = PortOf(j) /\ (Holds(j)' <=> Holds(j))
                                /\ Kept(j)' = Kept(j)
           /\ \A x : Stale(x)' <=> Stale(x)
           /\ EndsTold' /\ TableCoherent' /\ StaleIsOld' /\ LinkCoherent'
           /\ told \subseteq told' => ServiceOnObject'
           /\ echoed' = echoed => RunsFromEarly'
<1> USE DEF IInv
<1>1. /\ inbox' \in Seq(Event) /\ inbox' # <<>> /\ In' = In \cup {e}
      /\ (\A f \in In : Follows(f, e)) => InOrder(inbox')
      /\ \A t, j : Has(In', t, j) <=> (e.type = t /\ e.session = j) \/ Has(In, t, j)
      /\ \A j : Mentions(In', j) <=> (OfSession(e) /\ e.session = j) \/ Mentions(In, j)
      /\ \A j, n : Brings(In', j, n) <=> \/ e.type = "route" /\ e.session = j /\ e.data = n
                                         \/ Brings(In, j, n)
      /\ Drops(In') <=> e.type = "disconnected" \/ Drops(In)
    BY EventPut
<1>2. InOrder(inbox)'
    <2>1. InOrder(inbox')
        BY <1>1, CurrentEvent
    <2> QED BY <2>1 DEF InOrder
<1>3. PlacesStay /\ ServicesStay /\ Opened' = Opened
    BY Numbers DEF PlacesStay, ServicesStay, Opened
<1>4. /\ \A j \in Opened : /\ PortOf(j)' = PortOf(j) /\ (Holds(j)' <=> Holds(j))
                           /\ Kept(j)' = Kept(j)
      /\ \A x : Stale(x)' <=> Stale(x)
      /\ EndsTold' /\ TableCoherent'
      /\ told \subseteq told' => ServiceOnObject'
      /\ echoed' = echoed => RunsFromEarly'
    BY <1>3, ObjectsStay
<1>5. e.type # "disconnected" /\ ~Drops(In)
    BY DEF OfSession, LinkCoherent
<1>6. StaleIsOld' /\ LinkCoherent'
    BY <1>1, <1>4, <1>5 DEF StaleIsOld, LinkCoherent
<1>7. k \in Opened /\ PortOf(k) = p /\ place[k].connect = connects
    BY DEF ServerCoherent
<1> QED BY <1>1, <1>2, <1>3, <1>4, <1>5, <1>6, <1>7

(* An instruction keeps it.                                                *)
LEMMA InstructIInv == \A p \in Ports, kind \in Kinds : IInv /\ Instruct(p, kind) => IInv'
<1> SUFFICES ASSUME NEW p \in Ports, NEW kind \in Kinds, IInv, Instruct(p, kind) PROVE IInv'
    OBVIOUS
<1> USE DEF IInv
<1>0. PICK k0 \in Sessions : srv[p] = k0
    BY DEF Instruct, Shapes
<1> DEFINE e == [type |-> "instruction", port |-> p, session |-> k0, kind |-> kind]
<1>1. /\ k0 \notin told /\ told' = told \cup {k0} /\ link = "up" /\ inbox' = Append(inbox, e)
      /\ UNCHANGED <<link, connects, outbox, channels, chan, service, srv, place, sent, echoed>>
    BY <1>0 DEF Instruct, ServerSends, agent
<1>2. /\ e \in Event /\ OfSession(e) /\ e.type = "instruction" /\ e.port = p /\ e.session = k0
    BY DEF Event, OfSession
<1> HIDE DEF e
<1>3. /\ inbox' \in Seq(Event) /\ inbox' # <<>> /\ In' = In \cup {e} /\ InOrder(inbox)'
      /\ \A j : /\ Mentions(In', j) <=> j = k0 \/ Mentions(In, j)
                /\ Has(In', "notify_open", j) <=> Has(In, "notify_open", j)
                /\ Has(In', "notify_close", j) <=> Has(In, "notify_close", j)
      /\ \A j, n : Brings(In', j, n) <=> Brings(In, j, n)
      /\ ~Drops(In) /\ ~Drops(In')
    BY <1>0, <1>1, <1>2, CurrentPut
<1>4. /\ PlacesStay /\ ServicesStay /\ Opened' = Opened
      /\ k0 \in Opened /\ PortOf(k0) = p /\ place[k0].connect = connects
      /\ \A j \in Opened : /\ PortOf(j)' = PortOf(j) /\ (Holds(j)' <=> Holds(j))
                           /\ Kept(j)' = Kept(j)
      /\ \A x : Stale(x)' <=> Stale(x)
      /\ EndsTold' /\ TableCoherent' /\ StaleIsOld' /\ LinkCoherent' /\ ServiceOnObject'
      /\ RunsFromEarly'
    BY <1>0, <1>1, <1>2, CurrentPut
<1>5. service[k0].kind = "none"
    BY <1>1 DEF ServiceOnObject, NoService
<1>6. Shapes'
    BY <1>1, <1>3, <1>4 DEF Shapes
<1>7. ServerCoherent'
    BY <1>1, <1>3, <1>4 DEF ServerCoherent
<1>8. EventsFit'
    BY <1>1, <1>2, <1>3, <1>4, <1>5 DEF EventsFit
<1>9. PacketsFit' /\ EchoInOrder(outbox)' /\ EchoComes'
    <2>1. srv' = srv /\ srv' \in [Ports -> Sessions \cup {None}]
        BY <1>1 DEF Shapes
    <2> QED BY <1>1, <1>4, <2>1, PacketsStay
<1>10. SessionsEnd' /\ OneAfterAnother' /\ SessionsBegin'
    BY <1>0, <1>1, <1>3, <1>4, SessionsStay DEF SessionsBegin
<1>11. DataInOrder'
    BY <1>1, <1>3, <1>4, DataStays DEF DataInOrder
<1> QED BY <1>3, <1>4, <1>6, <1>7, <1>8, <1>9, <1>10, <1>11

(* Data that is sent keeps it.                                             *)
LEMMA RouteIInv == \A p \in Ports : IInv /\ Route(p) => IInv'
<1> SUFFICES ASSUME NEW p \in Ports, IInv, Route(p) PROVE IInv'
    OBVIOUS
<1> USE DEF IInv
<1>0. PICK k0 \in Sessions : srv[p] = k0
    BY DEF Route, Shapes
<1>1. PICK n0 : n0 = sent[k0] + 1
    OBVIOUS
<1> DEFINE e == [type |-> "route", port |-> p, session |-> k0, data |-> n0]
<1>2. /\ sent[k0] < MaxData[k0] /\ sent' = [sent EXCEPT ![k0] = @ + 1] /\ link = "up"
      /\ inbox' = Append(inbox, e)
      /\ UNCHANGED <<link, connects, outbox, channels, chan, service, srv, place, told, echoed>>
    BY <1>0, <1>1 DEF Route, ServerSends, agent
<1>3. /\ sent[k0] \in Nat /\ n0 \in Nat \ {0} /\ n0 > sent[k0] /\ sent \in [Sessions -> Nat]
      /\ n0 <= MaxData[k0]
    <2>1. sent \in [Sessions -> Nat] /\ sent[k0] \in Nat /\ MaxData[k0] \in Nat
        BY SizeAssumption DEF Shapes
    <2> QED BY <1>1, <1>2, <2>1
<1>4. sent'[k0] = n0 /\ \A k \in Sessions \ {k0} : sent'[k] = sent[k]
    BY <1>1, <1>2, <1>3
<1>5. /\ e \in Event /\ OfSession(e) /\ e.type = "route" /\ e.port = p /\ e.session = k0
      /\ e.data = n0
    BY <1>3 DEF Event, OfSession
<1> HIDE DEF e
<1>6. /\ inbox' \in Seq(Event) /\ inbox' # <<>> /\ In' = In \cup {e} /\ InOrder(inbox)'
      /\ \A j : /\ Mentions(In', j) <=> j = k0 \/ Mentions(In, j)
                /\ Has(In', "notify_open", j) <=> Has(In, "notify_open", j)
                /\ Has(In', "notify_close", j) <=> Has(In, "notify_close", j)
      /\ \A j, n : Brings(In', j, n) <=> (j = k0 /\ n = n0) \/ Brings(In, j, n)
      /\ ~Drops(In) /\ ~Drops(In')
    BY <1>0, <1>2, <1>3, <1>5, CurrentPut
<1>7. /\ PlacesStay /\ ServicesStay /\ Opened' = Opened
      /\ k0 \in Opened /\ PortOf(k0) = p /\ place[k0].connect = connects
      /\ \A j \in Opened : /\ PortOf(j)' = PortOf(j) /\ (Holds(j)' <=> Holds(j))
                           /\ Kept(j)' = Kept(j)
      /\ \A x : Stale(x)' <=> Stale(x)
      /\ EndsTold' /\ TableCoherent' /\ StaleIsOld' /\ LinkCoherent' /\ ServiceOnObject'
      /\ RunsFromEarly'
    BY <1>0, <1>2, <1>3, <1>5, CurrentPut
<1>8. Shapes'
    BY <1>2, <1>3, <1>6, <1>7 DEF Shapes
<1>9. ServerCoherent'
    <2>1. \A k \in Sessions : /\ sent'[k] <= MaxData[k]
                              /\ k \notin Opened => sent'[k] = 0
        BY <1>3, <1>4, <1>7 DEF ServerCoherent
    <2> QED BY <1>2, <1>6, <1>7, <2>1 DEF ServerCoherent
<1>10. EventsFit'
    <2>1. \A k \in Sessions : sent[k] \in Nat /\ sent[k] <= sent'[k] /\ sent'[k] \in Nat
        BY <1>3, <1>4
    <2> SUFFICES ASSUME NEW f \in In', OfSession(f)
                 PROVE  /\ f.session \in Opened' /\ f.port = PortOf(f.session)'
                        /\ place'[f.session].connect = connects'
                        /\ f.type = "instruction" =>
                               f.session \in told' /\ service'[f.session].kind = "none"
                        /\ f.type = "route" => f.data <= sent'[f.session]
        BY <1>2, <1>7 DEF EventsFit, PortOf
    <2>2. CASE f = e
        <3>1. e.data <= sent'[k0]
            BY <1>3, <1>4, <1>5
        <3> QED BY <1>2, <1>5, <1>7, <2>2, <3>1 DEF PortOf
    <2>3. CASE f \in In
        <3>1. /\ f.session \in Opened /\ f.port = PortOf(f.session)
              /\ place[f.session].connect = connects
              /\ f.type = "instruction" =>
                     f.session \in told /\ service[f.session].kind = "none"
              /\ f.type = "route" => f.data <= sent[f.session]
            BY <2>3 DEF EventsFit
        <3>2. f.type = "route" => f.data <= sent'[f.session]
            <4>1. ASSUME f.type = "route" PROVE f.data \in Nat
                <5>1. f \in Event
                    BY <2>3, ItemsOf DEF In, Shapes
                <5> QED BY <4>1, <5>1, EventFields
            <4>2. f.session \in Sessions
                BY <3>1, Numbers
            <4> QED BY <2>1, <3>1, <4>1, <4>2
        <3> QED BY <1>2, <1>7, <3>1, <3>2 DEF PortOf
    <2> QED BY <1>6, <2>2, <2>3
<1>11. PacketsFit' /\ EchoInOrder(outbox)' /\ EchoComes'
    <2>1. srv' = srv /\ srv' \in [Ports -> Sessions \cup {None}]
        BY <1>2 DEF Shapes
    <2> QED BY <1>2, <1>7, <2>1, PacketsStay
<1>12. SessionsEnd' /\ OneAfterAnother' /\ SessionsBegin'
    BY <1>0, <1>2, <1>6, <1>7, SessionsStay DEF SessionsBegin
<1>13. DataInOrder'
    <2> SUFFICES ASSUME NEW k \in Opened, Holds(k) \/ Has(In, "notify_open", k)
                 PROVE  DataComes(k)'
        BY <1>6, <1>7 DEF DataInOrder
    <2>1. DataComes(k) /\ Kept(k)' = Kept(k) /\ PortOf(k)' = PortOf(k)
        BY <1>7 DEF DataInOrder
    <2>2. Kept(k) \in Nat /\ k \in Sessions
        BY Counts, Numbers
    <2>3. CASE k # k0
        <3>1. sent'[k] = sent[k] /\ \A n : Brings(In', k, n) <=> Brings(In, k, n)
            BY <1>4, <1>6, <2>2, <2>3
        <3> QED BY <1>2, <2>1, <3>1 DEF DataComes
    <2>4. CASE k = k0
        <3>1. Kept(k) <= sent[k] /\ \A m \in (Kept(k) + 1)..sent[k] : Brings(In, k, m)
            BY <1>0, <1>7, <2>1, <2>4 DEF DataComes
        <3>2. \A m \in (Kept(k) + 1)..n0 : m = n0 \/ m \in (Kept(k) + 1)..sent[k]
            BY <1>1, <1>3, <2>2, <2>4
        <3>3. \A m \in (Kept(k) + 1)..n0 : Brings(In', k, m)
            BY <1>6, <2>4, <3>1, <3>2
        <3>4. n0 > Kept(k)
            BY <1>3, <2>2, <2>4, <3>1
        <3>5. \A n \in Nat : Brings(In', k, n) => n > Kept(k)
            BY <1>6, <2>1, <2>4, <3>4 DEF DataComes
        <3>6. \A n \in Nat : Brings(In', k, n) => \A m \in (Kept(k) + 1)..n : Brings(In', k, m)
            BY <1>6, <2>1, <2>4, <3>3 DEF DataComes
        <3>7. sent'[k] = n0 /\ Kept(k) <= n0
            BY <1>3, <1>4, <2>2, <2>4, <3>4
        <3> QED BY <2>1, <3>3, <3>5, <3>6, <3>7 DEF DataComes
    <2> QED BY <2>3, <2>4
<1> QED BY <1>6, <1>7, <1>8, <1>9, <1>10, <1>11, <1>12, <1>13

(* A session that ends keeps it.                                           *)
LEMMA EndSessionIInv ==
    ASSUME IInv, NEW p \in Ports, EndSession(p), UNCHANGED <<link, connects, agent, place, told, sent>>
    PROVE  /\ inbox' \in Seq(Event) /\ srv' \in [Ports -> Sessions \cup {None}]
           /\ TableCoherent' /\ StaleIsOld' /\ LinkCoherent' /\ ServerCoherent'
           /\ EventsFit' /\ InOrder(inbox)'
           /\ SessionsEnd' /\ OneAfterAnother' /\ SessionsBegin'
           /\ ServiceOnObject' /\ EndsTold' /\ DataInOrder'
           /\ PlacesStay /\ ServicesStay /\ Opened' = Opened
           /\ \A x \in Ports : srv'[x] \in {srv[x], None}
<1> USE DEF IInv
<1>0. PICK k0 \in Sessions : srv[p] = k0
    BY DEF EndSession, Shapes
<1> DEFINE e == [type |-> "notify_close", port |-> p, session |-> k0]
<1>1. /\ srv' = [srv EXCEPT ![p] = None] /\ link = "up" /\ inbox' = Append(inbox, e)
      /\ UNCHANGED <<link, connects, channels, chan, service, place, told, sent>>
    BY <1>0 DEF EndSession, ServerSends, agent
<1>2. /\ e \in Event /\ OfSession(e) /\ e.type = "notify_close" /\ e.port = p /\ e.session = k0
    BY DEF Event, OfSession
<1> HIDE DEF e
<1>3. /\ inbox' \in Seq(Event) /\ inbox' # <<>> /\ In' = In \cup {e} /\ InOrder(inbox)'
      /\ \A j : /\ Mentions(In', j) <=> j = k0 \/ Mentions(In, j)
                /\ Has(In', "notify_open", j) <=> Has(In, "notify_open", j)
                /\ Has(In', "notify_close", j) <=> j = k0 \/ Has(In, "notify_close", j)
      /\ \A j, n : Brings(In', j, n) <=> Brings(In, j, n)
      /\ ~Drops(In) /\ ~Drops(In')
    BY <1>0, <1>1, <1>2, CurrentPut
<1>4. /\ PlacesStay /\ ServicesStay /\ Opened' = Opened
      /\ k0 \in Opened /\ PortOf(k0) = p /\ place[k0].connect = connects
      /\ \A j \in Opened : /\ PortOf(j)' = PortOf(j) /\ (Holds(j)' <=> Holds(j))
                           /\ Kept(j)' = Kept(j)
      /\ \A x : Stale(x)' <=> Stale(x)
      /\ EndsTold' /\ TableCoherent' /\ StaleIsOld' /\ LinkCoherent' /\ ServiceOnObject'
    BY <1>0, <1>1, <1>2, CurrentPut
<1>5. /\ srv'[p] = None /\ \A x \in Ports \ {p} : srv'[x] = srv[x]
      /\ srv' \in [Ports -> Sessions \cup {None}] /\ \A x \in Ports : srv'[x] \in {srv[x], None}
    BY <1>1 DEF Shapes
<1>6. ASSUME NEW k \in Opened
      PROVE  /\ k \in Sessions /\ k # None /\ PortOf(k) \in Ports /\ k \in Nat
             /\ srv'[PortOf(k)] = k <=> srv[PortOf(k)] = k /\ k # k0
    <2>1. k \in Sessions /\ k # None /\ PortOf(k) \in Ports /\ k \in Nat
        BY Numbers
    <2> QED BY <1>0, <1>4, <1>5, <2>1
<1>7. ServerCoherent'
    <2>1. ASSUME NEW x \in Ports, NEW k \in Sessions, srv'[x] = k
          PROVE  /\ k \in Opened /\ PortOf(k) = x /\ place[k].connect = connects
                 /\ ~Has(In', "notify_close", k)
                 /\ \A j \in Opened : PortOf(j) = x => j <= k
        <3>1. srv[x] = k /\ x # p
            BY <1>5, <2>1, Numbers
        <3>2. /\ k \in Opened /\ PortOf(k) = x /\ place[k].connect = connects
              /\ ~Has(In, "notify_close", k)
              /\ \A j \in Opened : PortOf(j) = x => j <= k
            BY <3>1 DEF ServerCoherent
        <3> QED BY <1>3, <1>4, <3>1, <3>2
    <2> QED BY <1>1, <1>4, <2>1 DEF ServerCoherent
<1>8. EventsFit'
    BY <1>1, <1>2, <1>3, <1>4 DEF EventsFit
<1>9. \A k \in Opened : /\ Live(k)' <=> Live(k) \/ k = k0
                        /\ Current(k)' => Current(k)
    BY <1>0, <1>3, <1>4, <1>6 DEF Live, Current
<1>10. SessionsEnd'
    <2> SUFFICES ASSUME NEW k \in Opened, Live(k)'
                 PROVE  srv'[PortOf(k)] = k \/ Has(In', "notify_close", k)
        BY <1>4 DEF SessionsEnd, PortOf
    <2>1. CASE k = k0
        BY <1>3, <2>1
    <2>2. CASE k # k0
        BY <1>3, <1>6, <1>9, <2>2 DEF SessionsEnd
    <2> QED BY <2>1, <2>2
<1>11. OneAfterAnother'
    <2> SUFFICES ASSUME NEW j \in Opened, NEW k \in Opened, j < k, PortOf(j) = PortOf(k),
                        Live(j)', Current(k)'
                 PROVE  Has(In', "notify_close", j) /\ Has(In', "notify_open", k)
        BY <1>4 DEF OneAfterAnother
    <2>1. j # k0
        <3>1. ~(k <= j)
            BY <1>6
        <3> QED BY <1>0, <1>4, <3>1 DEF ServerCoherent
    <2> QED BY <1>3, <1>9, <2>1 DEF OneAfterAnother
<1>12. SessionsBegin'
    <2> SUFFICES ASSUME NEW k \in Opened
                 PROVE  /\ Has(In', "notify_open", k) => ~Holds(k)' /\ service'[k].kind = "none"
                        /\ Current(k)' /\ ~Has(In', "notify_open", k)
                               => Holds(k)' \/ Stale(PortOf(k))
        BY <1>1, <1>4 DEF SessionsBegin, Stale
    <2> QED BY <1>1, <1>3, <1>4, <1>9 DEF SessionsBegin
<1>13. DataInOrder'
    BY <1>1, <1>3, <1>4, <1>5, <1>6, DataStays DEF DataInOrder
<1> QED BY <1>3, <1>4, <1>5, <1>7, <1>8, <1>10, <1>11, <1>12, <1>13

LEMMA CloseSessionIInv == \A p \in Ports : IInv /\ CloseSession(p) => IInv'
<1> SUFFICES ASSUME NEW p \in Ports, IInv, CloseSession(p) PROVE IInv'
    OBVIOUS
<1>1. /\ EndSession(p)
      /\ UNCHANGED <<link, connects, outbox, agent, channels, chan, service, place, told, sent, echoed>>
    BY DEF CloseSession, agent
<1>2. /\ inbox' \in Seq(Event) /\ srv' \in [Ports -> Sessions \cup {None}]
      /\ TableCoherent' /\ StaleIsOld' /\ LinkCoherent' /\ ServerCoherent'
      /\ EventsFit' /\ InOrder(inbox)'
      /\ SessionsEnd' /\ OneAfterAnother' /\ SessionsBegin'
      /\ ServiceOnObject' /\ EndsTold' /\ DataInOrder'
      /\ PlacesStay /\ ServicesStay /\ Opened' = Opened
      /\ \A x \in Ports : srv'[x] \in {srv[x], None}
    BY <1>1, EndSessionIInv
<1>3. PacketsFit' /\ EchoInOrder(outbox)' /\ EchoComes'
    BY <1>1, <1>2, PacketsStay
<1>4. RunsFromEarly'
    BY <1>1, <1>2, ObjectsStay
<1>5. Shapes'
    BY <1>1, <1>2 DEF Shapes, IInv
<1> QED BY <1>2, <1>3, <1>4, <1>5 DEF IInv

-----------------------------------------------------------------------------
(* Packets.                                                                *)

(* The first packet is taken.                                              *)
LEMMA PacketTaken ==
    ASSUME IInv, outbox # <<>>, outbox' = Tail(outbox)
    PROVE  LET h == Head(outbox) IN
           /\ h \in Packet /\ h \in Out /\ Out' \subseteq Out
           /\ outbox' \in Seq(Packet) /\ EchoInOrder(outbox)'
           /\ \A k \in Sessions, n \in Nat :
                  GivesBack(Out, k, n) <=> \/ h.type = "request_send" /\ h.data = <<k, n>>
                                                /\ h.session = k
                                           \/ GivesBack(Out', k, n)
           /\ \A k \in Sessions, n, m \in Nat :
                  h.type = "request_send" /\ h.data = <<k, n>> /\ h.session = k
                      => (GivesBack(Out', k, m) => n < m)
<1> DEFINE h == Head(outbox)
<1>1. outbox \in Seq(Packet) /\ EchoInOrder(outbox)
    BY DEF IInv, Shapes
<1>2. /\ outbox' \in Seq(Packet) /\ h \in Packet /\ Out = {h} \cup Out' /\ EchoInOrder(outbox')
      /\ \A f \in Out' : EchoFollows(h, f)
    BY <1>1, TailItems DEF Out
<1> HIDE DEF h
<1>3. EchoInOrder(outbox)'
    BY <1>2 DEF EchoInOrder
<1>4. \A k \in Sessions, n \in Nat :
          GivesBack(Out, k, n) <=> \/ h.type = "request_send" /\ h.data = <<k, n>>
                                        /\ h.session = k
                                   \/ GivesBack(Out', k, n)
    BY <1>2 DEF GivesBack
<1>5. ASSUME NEW k \in Sessions, NEW n \in Nat, NEW m \in Nat,
             h.type = "request_send", h.data = <<k, n>>, h.session = k, GivesBack(Out', k, m)
      PROVE  n < m
    <2>1. PICK f \in Out' : f.type = "request_send" /\ f.session = k /\ f.data = <<k, m>>
        BY <1>5 DEF GivesBack
    <2>2. IsData(h) /\ IsData(f)
        BY <1>5, <2>1, Numbers DEF IsData, NoData
    <2>3. h.data[2] < f.data[2]
        BY <1>2, <1>5, <2>1, <2>2 DEF EchoFollows
    <2> QED BY <1>5, <2>1, <2>3
<1>6. \A k \in Sessions, n, m \in Nat :
          h.type = "request_send" /\ h.data = <<k, n>> /\ h.session = k
              => (GivesBack(Out', k, m) => n < m)
    BY <1>5
<1>7. Out' \subseteq Out /\ h \in Out
    BY <1>2
<1> QED BY ONLY <1>2, <1>3, <1>4, <1>6, <1>7, Zenon DEF h

(* Packets without data are sent.                                          *)
LEMMA PacketsSent ==
    ASSUME IInv, NEW s \in Seq(Packet), SendAll(s), \A f \in Items(s) : ~IsData(f)
    PROVE  /\ outbox' \in Seq(Packet) /\ EchoInOrder(outbox)'
           /\ Out' \subseteq Out \cup Items(s)
           /\ \A k \in Sessions : \A n : GivesBack(Out', k, n) <=> GivesBack(Out, k, n)
           /\ link = "down" => outbox' = <<>>
<1> USE DEF IInv
<1>1. outbox \in Seq(Packet) /\ EchoInOrder(outbox) /\ (link = "down" => outbox = <<>>)
    BY DEF Shapes, LinkCoherent
<1>2. CASE outbox' = outbox
    <2>1. Out' = Out
        BY <1>2 DEF Out, Items
    <2>2. EchoInOrder(outbox)'
        BY <1>1, <1>2 DEF EchoInOrder
    <2> QED BY <1>1, <1>2, <2>1, <2>2
<1>3. CASE link = "up" /\ outbox' = outbox \o s
    <2>1. Len(outbox) \in Nat /\ Len(s) \in Nat
        BY <1>1, LenProperties
    <2>2. /\ outbox' \in Seq(Packet) /\ Len(outbox') = Len(outbox) + Len(s)
          /\ \A i \in 1..Len(outbox') : outbox'[i] = IF i <= Len(outbox) THEN outbox[i]
                                                     ELSE s[i - Len(outbox)]
        BY <1>1, <1>3, ConcatProperties
    <2>3. \A i \in 1..Len(outbox') : \/ i \in 1..Len(outbox) /\ outbox'[i] = outbox[i]
                                     \/ /\ i - Len(outbox) \in 1..Len(s)
                                        /\ outbox'[i] = s[i - Len(outbox)]
        BY <2>1, <2>2
    <2>4. \A i \in 1..Len(outbox) : i \in 1..Len(outbox') /\ outbox'[i] = outbox[i]
        BY <2>1, <2>2
    <2>5. Out' = {outbox'[i] : i \in 1..Len(outbox')}
        BY DEF Out, Items
    <2>6. Out' \subseteq Out \cup Items(s)
        BY <2>3, <2>5 DEF Out, Items
    <2>7. Out \subseteq Out'
        BY <2>4, <2>5 DEF Out, Items
    <2>8. EchoInOrder(outbox)'
        <3>1. ASSUME NEW i \in 1..Len(outbox'), NEW j \in 1..Len(outbox'), i < j
              PROVE  EchoFollows(outbox'[i], outbox'[j])
            <4>1. ASSUME ~IsData(outbox'[i]) \/ ~IsData(outbox'[j])
                  PROVE  EchoFollows(outbox'[i], outbox'[j])
                BY <4>1 DEF EchoFollows
            <4>2. \A l \in 1..Len(outbox') : l \in 1..Len(outbox) \/ ~IsData(outbox'[l])
                BY <2>3 DEF Items
            <4>3. ASSUME i \in 1..Len(outbox), j \in 1..Len(outbox)
                  PROVE  EchoFollows(outbox'[i], outbox'[j])
                BY <1>1, <2>4, <3>1, <4>3 DEF EchoInOrder
            <4> QED BY <4>1, <4>2, <4>3
        <3> QED BY <3>1 DEF EchoInOrder
    <2>9. ASSUME NEW k \in Sessions, NEW n
          PROVE  GivesBack(Out', k, n) <=> GivesBack(Out, k, n)
        <3>1. \A f \in Items(s) : ~(f.type = "request_send" /\ f.data = <<k, n>>)
            BY Numbers DEF IsData, NoData
        <3> QED BY <2>6, <2>7, <3>1 DEF GivesBack
    <2> QED BY <1>3, <2>2, <2>6, <2>8, <2>9
<1>4. outbox' = outbox \/ (link = "up" /\ outbox' = outbox \o s)
    BY DEF SendAll
<1> QED BY <1>2, <1>3, <1>4

(* Nothing changes but what is on its way to the server and how far a      *)
(* thread is.                                                              *)
LEMMA AgentStays ==
    ASSUME IInv, UNCHANGED <<link, connects, inbox, channels, chan, srv, place, told, sent>>,
           ServicesStay
    PROVE  /\ TableCoherent' /\ StaleIsOld' /\ ServerCoherent' /\ EventsFit' /\ InOrder(inbox)'
           /\ SessionsEnd' /\ OneAfterAnother' /\ SessionsBegin'
           /\ ServiceOnObject' /\ EndsTold' /\ DataInOrder'
           /\ (link = "down" => outbox' = <<>>) => LinkCoherent'
<1> USE DEF IInv
<1>1. PlacesStay /\ Opened' = Opened /\ In' = In
    BY Numbers DEF PlacesStay, Opened, In, Items
<1>2. /\ \A k \in Opened : /\ PortOf(k)' = PortOf(k) /\ (Holds(k)' <=> Holds(k))
                           /\ Kept(k)' = Kept(k)
      /\ \A p : Stale(p)' <=> Stale(p)
      /\ ServiceOnObject' /\ EndsTold' /\ TableCoherent'
    BY <1>1, ObjectsStay
<1>3. StaleIsOld' /\ ServerCoherent' /\ InOrder(inbox)'
    BY <1>1, <1>2 DEF StaleIsOld, ServerCoherent, InOrder
<1>4. EventsFit'
    BY <1>1, <1>2, Numbers DEF EventsFit, ServicesStay
<1>5. SessionsEnd' /\ OneAfterAnother' /\ SessionsBegin'
    <2>1. \A k \in Opened : Has(In, "notify_open", k) => service'[k].kind = "none"
        BY Numbers DEF SessionsBegin, ServicesStay
    <2> QED BY <1>1, <1>2, <2>1, SessionsStay
<1>6. DataInOrder'
    BY <1>1, <1>2, DataStays DEF DataInOrder
<1>7. (link = "down" => outbox' = <<>>) => LinkCoherent'
    BY <1>1 DEF LinkCoherent
<1> QED BY <1>2, <1>3, <1>4, <1>5, <1>6, <1>7

(* The data that the server hands to the user of an EchoService is the     *)
(* next that the service was called with.                                  *)
LEMMA EchoTaken ==
    ASSUME IInv, outbox # <<>>, outbox' = Tail(outbox), NEW k0 \in Sessions,
           Head(outbox).type = "request_send", Head(outbox).session = k0,
           Head(outbox).data # NoData, srv[PortOf(k0)] = k0
    PROVE  /\ Head(outbox).data \in Data /\ service[k0].kind = "echo" /\ k0 \in Opened
           /\ Early(k0) \in Nat /\ echoed[k0] \in Seq(Data)
           /\ Len(echoed[k0]) \in Nat /\ Len(service[k0].got) \in Nat
           /\ Len(echoed[k0]) < Len(service[k0].got)
           /\ Head(outbox).data = <<k0, Early(k0) + Len(echoed[k0]) + 1>>
           /\ Head(outbox).data = service[k0].got[Len(echoed[k0]) + 1]
<1> USE DEF IInv
<1> DEFINE h == Head(outbox)
<1>1. /\ h \in Packet /\ h \in Out
      /\ \A k \in Sessions, n \in Nat :
             GivesBack(Out, k, n) <=> \/ h.type = "request_send" /\ h.data = <<k, n>>
                                           /\ h.session = k
                                      \/ GivesBack(Out', k, n)
      /\ \A k \in Sessions, n, m \in Nat :
             h.type = "request_send" /\ h.data = <<k, n>> /\ h.session = k
                 => (GivesBack(Out', k, m) => n < m)
    BY PacketTaken
<1>2. h.type = "request_send" /\ h.session = k0 /\ h.data # NoData
    OBVIOUS
<1> HIDE DEF h
<1>3. k0 \in Opened /\ service[k0].kind = "echo" /\ h.data[1] = k0
    BY <1>1, <1>2 DEF PacketsFit, IsData
<1>4. h.data \in Data
    BY <1>1, <1>2, PacketFields
<1>5. PICK n0 \in Nat \ {0} : h.data = <<k0, n0>>
    BY <1>3, <1>4 DEF Data
<1>6. PICK a, b, l : a = Early(k0) /\ b = Len(echoed[k0]) /\ l = Len(service[k0].got)
    OBVIOUS
<1>7. a \in Nat /\ b \in Nat /\ l \in Nat /\ echoed[k0] \in Seq(Data)
    BY <1>3, <1>6, Counts
<1>8. b <= l /\ \A n \in Nat : GivesBack(Out, k0, n) <=> n \in (a + b + 1)..(a + l)
    BY <1>3, <1>6 DEF EchoComes
<1>9. GivesBack(Out, k0, n0)
    BY <1>1, <1>2, <1>5
<1>10. n0 \in (a + b + 1)..(a + l)
    BY <1>8, <1>9
<1>11. PICK m0 \in Nat : m0 = a + b + 1
    BY <1>7
<1>12. n0 = a + b + 1
    <2>1. GivesBack(Out, k0, m0) /\ m0 <= n0
        BY <1>7, <1>8, <1>10, <1>11
    <2>2. m0 = n0 \/ GivesBack(Out', k0, m0)
        BY <1>1, <1>5, <2>1
    <2>3. GivesBack(Out', k0, m0) => n0 < m0
        BY <1>1, <1>2, <1>5
    <2> QED BY ONLY <1>11, <2>1, <2>2, <2>3
<1>13. b < l /\ b + 1 \in 1..l /\ a + b + 1 = a + (b + 1)
    BY ONLY <1>7, <1>10, <1>12
<1>14. service[k0].got[b + 1] = <<k0, a + (b + 1)>>
    BY <1>6, <1>13 DEF RunsFromEarly
<1>15. h.data = <<k0, a + b + 1>> /\ h.data = service[k0].got[b + 1]
    BY <1>5, <1>12, <1>13, <1>14
<1> QED BY ONLY <1>3, <1>4, <1>6, <1>7, <1>13, <1>15, Zenon DEF h

(* The server taking a packet keeps it.                                    *)
LEMMA ServerHandlesIInv == IInv /\ ServerHandles => IInv'
<1> SUFFICES ASSUME IInv, ServerHandles PROVE IInv'
    OBVIOUS
<1> USE DEF IInv
<1> DEFINE h == Head(outbox)
<1>1. /\ link = "up" /\ outbox # <<>> /\ outbox' = Tail(outbox)
      /\ UNCHANGED <<link, connects, channels, chan, service, place, told, sent>>
      /\ \/ h.type \in {"request_send", "request_close"} /\ ServerTakes(h)
         \/ h.type \in {"request_join", "pong"} /\ UNCHANGED <<inbox, srv, echoed, strays>>
    BY DEF ServerHandles, agent
<1>2. /\ h \in Packet /\ h \in Out /\ Out' \subseteq Out
      /\ outbox' \in Seq(Packet) /\ EchoInOrder(outbox)'
      /\ \A k \in Sessions, n \in Nat :
             GivesBack(Out, k, n) <=> \/ h.type = "request_send" /\ h.data = <<k, n>>
                                           /\ h.session = k
                                      \/ GivesBack(Out', k, n)
      /\ \A k \in Sessions, n, m \in Nat :
             h.type = "request_send" /\ h.data = <<k, n>> /\ h.session = k
                 => (GivesBack(Out', k, m) => n < m)
    BY <1>1, PacketTaken
<1> HIDE DEF h
<1>3. PlacesStay /\ ServicesStay /\ Opened' = Opened
    BY <1>1, Numbers DEF PlacesStay, ServicesStay, Opened
<1>4. /\ \A k \in Opened : PortOf(k)' = PortOf(k)
      /\ \A k \in Sessions : Early(k)' = Early(k)
      /\ echoed' = echoed => RunsFromEarly'
    BY <1>1, <1>3, ObjectsStay
<1>5. PacketsFit'
    BY <1>1, <1>2, <1>3, <1>4, Numbers DEF PacketsFit
<1>6. CASE h.type \in {"request_close", "request_join", "pong"}
    <2>1. echoed' = echoed
        BY <1>1, <1>6 DEF ServerTakes
    <2>2. \A k \in Sessions, n \in Nat : GivesBack(Out', k, n) <=> GivesBack(Out, k, n)
        BY <1>2, <1>6
    <2>4. ASSUME \A x \in Ports : srv'[x] \in {srv[x], None} PROVE EchoComes'
        <3> SUFFICES ASSUME NEW k \in Opened, srv'[PortOf(k)] = k, service[k].kind = "echo"
                     PROVE  /\ Len(echoed[k]) <= Len(service[k].got)
                            /\ \A n \in Nat : GivesBack(Out', k, n) <=>
                                   n \in (Early(k) + Len(echoed[k]) + 1)..
                                             (Early(k) + Len(service[k].got))
            BY <1>1, <1>3, <1>4, <2>1, Numbers DEF EchoComes
        <3>1. k \in Sessions /\ srv[PortOf(k)] = k
            BY <2>4, Numbers
        <3> QED BY <2>2, <3>1 DEF EchoComes
    <2>5. CASE UNCHANGED <<inbox, srv>>
        <3>1. /\ TableCoherent' /\ StaleIsOld' /\ ServerCoherent' /\ EventsFit' /\ InOrder(inbox)'
              /\ SessionsEnd' /\ OneAfterAnother' /\ SessionsBegin'
              /\ ServiceOnObject' /\ EndsTold' /\ DataInOrder' /\ LinkCoherent'
            BY <1>1, <1>3, <2>5, AgentStays
        <3>2. Shapes'
            BY <1>1, <1>2, <1>3, <2>1, <2>5 DEF Shapes
        <3>3. EchoComes'
            BY <2>4, <2>5
        <3> QED BY <1>2, <1>4, <1>5, <2>1, <3>1, <3>2, <3>3
    <2>6. CASE h.type = "request_close" /\ EndSession(h.port)
        <3>1. h.port \in Ports
            BY <1>2, <2>6, PacketFields
        <3>2. /\ inbox' \in Seq(Event) /\ srv' \in [Ports -> Sessions \cup {None}]
              /\ TableCoherent' /\ StaleIsOld' /\ LinkCoherent' /\ ServerCoherent'
              /\ EventsFit' /\ InOrder(inbox)'
              /\ SessionsEnd' /\ OneAfterAnother' /\ SessionsBegin'
              /\ ServiceOnObject' /\ EndsTold' /\ DataInOrder'
              /\ \A x \in Ports : srv'[x] \in {srv[x], None}
            BY <1>1, <2>6, <3>1, EndSessionIInv DEF agent
        <3>3. Shapes'
            BY <1>1, <1>2, <1>3, <2>1, <3>2 DEF Shapes
        <3>4. EchoComes'
            BY <2>4, <3>2
        <3> QED BY <1>2, <1>4, <1>5, <2>1, <3>2, <3>3, <3>4
    <2> QED BY <1>1, <1>6, <2>5, <2>6 DEF ServerTakes
<1>7. CASE h.type = "request_send"
    <2>1. PICK k0 \in Sessions : h.session = k0
        BY <1>2, <1>7, PacketFields
    <2>2. /\ k0 \in Opened /\ h.port = PortOf(k0) /\ k0 # None
          /\ h.data # NoData => service[k0].kind = "echo" /\ h.data[1] = k0
        BY <1>2, <1>7, <2>1, Numbers DEF PacketsFit, IsData
    <2>3. /\ UNCHANGED <<inbox, srv>>
          /\ echoed' = IF h.data = NoData \/ srv[h.port] # k0 THEN echoed
                       ELSE [echoed EXCEPT ![srv[h.port]] = Append(@, h.data)]
        BY <1>1, <1>7, <2>1 DEF ServerTakes
    <2>4. /\ TableCoherent' /\ StaleIsOld' /\ ServerCoherent' /\ EventsFit' /\ InOrder(inbox)'
          /\ SessionsEnd' /\ OneAfterAnother' /\ SessionsBegin'
          /\ ServiceOnObject' /\ EndsTold' /\ DataInOrder' /\ LinkCoherent'
        BY <1>1, <1>3, <2>3, AgentStays
    <2>5. CASE h.data = NoData \/ srv[PortOf(k0)] # k0
        <3>1. echoed' = echoed
            BY <2>2, <2>3, <2>5
        <3>2. Shapes'
            BY <1>1, <1>2, <1>3, <2>3, <3>1 DEF Shapes
        <3>3. EchoComes'
            <4> SUFFICES ASSUME NEW k \in Opened, srv[PortOf(k)] = k, service[k].kind = "echo"
                         PROVE  /\ Len(echoed[k]) <= Len(service[k].got)
                                /\ \A n \in Nat : GivesBack(Out', k, n) <=>
                                       n \in (Early(k) + Len(echoed[k]) + 1)..
                                                 (Early(k) + Len(service[k].got))
                BY <1>1, <1>3, <1>4, <2>3, <3>1, Numbers DEF EchoComes
            <4>1. k \in Sessions /\ k # None
                BY Numbers
            <4>2. \A n \in Nat : ~(h.data = <<k, n>> /\ h.session = k)
                BY <2>1, <2>5, <4>1 DEF NoData
            <4>3. \A n \in Nat : GivesBack(Out', k, n) <=> GivesBack(Out, k, n)
                BY <1>2, <4>1, <4>2
            <4> QED BY <4>3 DEF EchoComes
        <3> QED BY <1>2, <1>4, <1>5, <2>4, <3>1, <3>2, <3>3
    <2>6. CASE h.data # NoData /\ srv[PortOf(k0)] = k0
        <3>1. /\ h.data \in Data /\ service[k0].kind = "echo"
              /\ echoed' = [echoed EXCEPT ![k0] = Append(@, h.data)]
            BY <1>2, <1>7, <2>2, <2>3, <2>6, PacketFields
        <3>2. PICK n0 \in Nat \ {0} : h.data = <<k0, n0>>
            BY <2>2, <2>6, <3>1 DEF Data
        <3>3. /\ echoed \in [Sessions -> Seq(Data)] /\ echoed[k0] \in Seq(Data)
              /\ Len(echoed[k0]) \in Nat /\ Len(service[k0].got) \in Nat /\ Early(k0) \in Nat
            BY <3>1, Counts DEF Shapes
        <3>4. /\ Append(echoed[k0], h.data) \in Seq(Data)
              /\ Len(Append(echoed[k0], h.data)) = Len(echoed[k0]) + 1
              /\ \A i \in 1..Len(echoed[k0]) : Append(echoed[k0], h.data)[i] = echoed[k0][i]
              /\ Append(echoed[k0], h.data)[Len(echoed[k0]) + 1] = h.data
            BY <3>1, <3>3, AppendProperties
        <3>5. /\ echoed'[k0] = Append(echoed[k0], h.data)
              /\ \A k \in Sessions \ {k0} : echoed'[k] = echoed[k]
              /\ echoed' \in [Sessions -> Seq(Data)]
            BY <3>1, <3>3, <3>4
        <3>6. /\ Len(echoed[k0]) <= Len(service[k0].got)
              /\ \A n \in Nat : GivesBack(Out, k0, n) <=>
                     n \in (Early(k0) + Len(echoed[k0]) + 1)..(Early(k0) + Len(service[k0].got))
            BY <2>2, <2>6, <3>1 DEF EchoComes
        <3>7. GivesBack(Out, k0, n0) /\ ~GivesBack(Out', k0, n0)
            BY <1>2, <1>7, <2>1, <3>2
        <3>8. n0 = Early(k0) + Len(echoed[k0]) + 1 /\ Len(echoed[k0]) < Len(service[k0].got)
            <4>1. /\ h.data = <<k0, Early(k0) + Len(echoed[k0]) + 1>>
                  /\ Len(echoed[k0]) < Len(service[k0].got)
                BY <1>1, <1>7, <2>1, <2>6, EchoTaken DEF h
            <4> QED BY <3>2, <4>1
        <3>9. EchoComes'
            <4> SUFFICES ASSUME NEW k \in Opened, srv[PortOf(k)] = k, service[k].kind = "echo"
                         PROVE  /\ Len(echoed'[k]) <= Len(service[k].got)
                                /\ \A n \in Nat : GivesBack(Out', k, n) <=>
                                       n \in (Early(k) + Len(echoed'[k]) + 1)..
                                                 (Early(k) + Len(service[k].got))
                BY <1>1, <1>3, <1>4, <2>3, Numbers DEF EchoComes
            <4>1. k \in Sessions
                BY Numbers
            <4>2. CASE k = k0
                <5>1. Len(echoed'[k]) = Len(echoed[k0]) + 1
                    BY <3>4, <3>5, <4>2
                <5>2. \A n \in Nat : GivesBack(Out', k0, n) <=>
                                         GivesBack(Out, k0, n) /\ n # n0
                    BY <1>2, <1>7, <2>1, <3>2, <3>7
                <5>3. \A n \in Nat : n \in (Early(k0) + (Len(echoed[k0]) + 1) + 1)..
                                               (Early(k0) + Len(service[k0].got))
                          <=> /\ n \in (Early(k0) + Len(echoed[k0]) + 1)..
                                           (Early(k0) + Len(service[k0].got))
                              /\ n # n0
                    BY <3>3, <3>8
                <5>4. Len(echoed[k0]) + 1 <= Len(service[k0].got)
                    BY <3>3, <3>8
                <5> QED BY <3>6, <4>2, <5>1, <5>2, <5>3, <5>4
            <4>3. CASE k # k0
                <5>1. \A n \in Nat : GivesBack(Out', k, n) <=> GivesBack(Out, k, n)
                    BY <1>2, <2>1, <4>1, <4>3
                <5> QED BY <3>5, <4>1, <4>3, <5>1 DEF EchoComes
            <4> QED BY <4>2, <4>3
        <3>10. RunsFromEarly'
            <4>1. ASSUME NEW k \in Sessions, NEW i \in 1..Len(echoed'[k])
                  PROVE  service[k].kind = "echo" /\ echoed'[k][i] = <<k, Early(k) + i>>
                <5>1. CASE k # k0
                    BY <3>5, <4>1, <5>1 DEF RunsFromEarly
                <5>2. CASE k = k0
                    <6>1. i \in 1..Len(echoed[k0]) \/ i = Len(echoed[k0]) + 1
                        BY <3>3, <3>4, <3>5, <4>1, <5>2
                    <6>2. CASE i \in 1..Len(echoed[k0])
                        BY <3>4, <3>5, <5>2, <6>2 DEF RunsFromEarly
                    <6>3. CASE i = Len(echoed[k0]) + 1
                        <7>1. Early(k0) + i = n0
                            BY <3>3, <3>8, <6>3
                        <7> QED BY <3>1, <3>2, <3>4, <3>5, <5>2, <6>3, <7>1
                    <6> QED BY <6>1, <6>2, <6>3
                <5> QED BY <5>1, <5>2
            <4> QED BY <1>1, <1>4, <4>1 DEF RunsFromEarly
        <3>11. Shapes'
            BY <1>1, <1>2, <1>3, <2>3, <3>5 DEF Shapes
        <3> QED BY <1>2, <1>5, <2>4, <3>9, <3>10, <3>11
    <2> QED BY <2>5, <2>6
<1> QED BY <1>1, <1>6, <1>7

(* A step of a service's thread keeps it.                                  *)
LEMMA ThreadStepIInv == \A k \in Sessions : IInv /\ ThreadStep(k) => IInv'
<1> SUFFICES ASSUME NEW k0 \in Sessions, IInv, ThreadStep(k0) PROVE IInv'
    OBVIOUS
<1> USE DEF IInv
<1> DEFINE Moves(to) ==
              /\ service[k0].kind \in {"thread", "task"}
              /\ service' = [service EXCEPT ![k0] = [@ EXCEPT !.doing = to]]
              /\ UNCHANGED <<link, connects, inbox, channels, chan, srv, place, told, sent, echoed>>
           States == {"idle", "writing", "wrote", "closing", "done"}
           p == PortOf(k0)
<1>1. PICK to \in States : Moves(to)
    BY DEF ThreadStep, WriteChecks, WriteSends, CloseChecks, CloseSends, Does, server
<1>2. \/ outbox' = outbox
      \/ Send(RequestSend(Number(k0), k0, NoData))
      \/ Send(RequestClose(Number(k0), k0))
    BY DEF ThreadStep, WriteChecks, WriteSends, CloseChecks, CloseSends
<1> HIDE DEF p, States, Moves
<1>3. k0 \in Opened /\ p \in Ports /\ Number(k0) = p
    <2>1. k0 \in told /\ chan[service[k0].on].number = PortOf(k0)
        BY <1>1 DEF ServiceOnObject, NoService, Moves
    <2>2. k0 \in Opened
        BY <2>1 DEF Shapes
    <2> QED BY <2>1, <2>2, Numbers DEF Number, p
<1>4. service' \in [Sessions -> Service] /\ ServicesStay
    <2>1. service \in [Sessions -> Service] /\ service[k0] \in Service
        BY DEF Shapes
    <2>2. [service[k0] EXCEPT !.doing = to] \in Service
        BY <2>1 DEF Service, States
    <2>3. service'[k0] = [service[k0] EXCEPT !.doing = to]
          /\ \A k \in Sessions \ {k0} : service'[k] = service[k]
        BY <1>1, <2>1 DEF Moves
    <2>4. /\ service'[k0].kind = service[k0].kind /\ service'[k0].on = service[k0].on
          /\ service'[k0].got = service[k0].got /\ service'[k0].ends = service[k0].ends
        BY <2>1, <2>3 DEF Service
    <2>5. service[k0].kind # "none"
        BY <1>1 DEF Moves
    <2> QED BY <1>1, <2>1, <2>2, <2>3, <2>4, <2>5 DEF ServicesStay, Moves
<1>5. PICK s \in Seq(Packet) :
          /\ SendAll(s)
          /\ \A f \in Items(s) : ~IsData(f) /\ f.session = k0 /\ f.port = p
    <2>1. ASSUME outbox' = outbox
          PROVE  \E s \in Seq(Packet) : /\ SendAll(s)
                                        /\ \A f \in Items(s) : ~IsData(f) /\ f.session = k0 /\ f.port = p
        <3>1. <<>> \in Seq(Packet) /\ Len(<<>>) = 0 /\ 1..0 = {} /\ outbox \o <<>> = outbox
            BY EmptySeq, ConcatEmptySeq DEF Shapes
        <3>2. Items(<<>>) = {}
            BY <3>1 DEF Items
        <3>3. SendAll(<<>>)
            BY <2>1, <3>1 DEF SendAll
        <3> QED BY <3>1, <3>2, <3>3
    <2>2. ASSUME NEW e \in Packet, Send(e), ~IsData(e), e.session = k0, e.port = p
          PROVE  \E s \in Seq(Packet) : /\ SendAll(s)
                                        /\ \A f \in Items(s) : ~IsData(f) /\ f.session = k0 /\ f.port = p
        <3>1. <<e>> \in Seq(Packet) /\ Items(<<e>>) = {e}
            BY DEF Items
        <3> QED BY <2>2, <3>1 DEF Send
    <2>3. /\ RequestSend(p, k0, NoData) \in Packet /\ ~IsData(RequestSend(p, k0, NoData))
          /\ RequestSend(p, k0, NoData).session = k0 /\ RequestSend(p, k0, NoData).port = p
        BY <1>3 DEF RequestSend, Packet, IsData
    <2>4. /\ RequestClose(p, k0) \in Packet /\ ~IsData(RequestClose(p, k0))
          /\ RequestClose(p, k0).session = k0 /\ RequestClose(p, k0).port = p
        BY <1>3 DEF RequestClose, Packet, IsData
    <2> QED BY <1>2, <1>3, <2>1, <2>2, <2>3, <2>4
<1>6. /\ outbox' \in Seq(Packet) /\ EchoInOrder(outbox)'
      /\ Out' \subseteq Out \cup Items(s)
      /\ \A k \in Sessions : \A n : GivesBack(Out', k, n) <=> GivesBack(Out, k, n)
      /\ link = "down" => outbox' = <<>>
    BY <1>5, PacketsSent
<1>7. UNCHANGED <<link, connects, inbox, channels, chan, srv, place, told, sent, echoed>>
    BY <1>1 DEF Moves
<1>8. /\ TableCoherent' /\ StaleIsOld' /\ ServerCoherent' /\ EventsFit' /\ InOrder(inbox)'
      /\ SessionsEnd' /\ OneAfterAnother' /\ SessionsBegin'
      /\ ServiceOnObject' /\ EndsTold' /\ DataInOrder' /\ LinkCoherent'
    BY <1>4, <1>6, <1>7, AgentStays
<1>9. PlacesStay /\ Opened' = Opened
    BY <1>7, Numbers DEF PlacesStay, Opened
<1>10. /\ \A k \in Opened : PortOf(k)' = PortOf(k)
       /\ \A k \in Sessions : Early(k)' = Early(k)
       /\ RunsFromEarly'
    BY <1>4, <1>7, <1>9, ObjectsStay
<1>11. Shapes'
    BY <1>4, <1>6, <1>7, <1>9 DEF Shapes
<1>12. PacketsFit'
    <2> SUFFICES ASSUME NEW f \in Out', f.type \in {"request_send", "request_close"}
                 PROVE  /\ f.session \in Opened /\ f.port = PortOf(f.session)
                        /\ IsData(f) => /\ service'[f.session].kind = "echo"
                                        /\ f.data[1] = f.session
                                        /\ f.data[2] <= Early(f.session)'
                                                            + Len(service'[f.session].got)
        BY <1>9, <1>10 DEF PacketsFit, Early
    <2>1. CASE f \in Out
        BY <1>4, <1>10, <2>1, Numbers DEF PacketsFit, ServicesStay
    <2>2. CASE f \in Items(s)
        BY <1>3, <1>5, <2>2 DEF p
    <2> QED BY <1>6, <2>1, <2>2
<1>13. EchoComes'
    <2> SUFFICES ASSUME NEW k \in Opened, srv[PortOf(k)] = k, service'[k].kind = "echo"
                 PROVE  /\ Len(echoed[k]) <= Len(service'[k].got)
                        /\ \A n \in Nat : GivesBack(Out', k, n) <=>
                               n \in (Early(k) + Len(echoed[k]) + 1)..
                                         (Early(k) + Len(service'[k].got))
        BY <1>7, <1>9, <1>10, Numbers DEF EchoComes
    <2>1. k \in Sessions /\ service[k].kind = "echo" /\ service'[k].got = service[k].got
        BY <1>4, Numbers DEF ServicesStay
    <2> QED BY <1>6, <2>1 DEF EchoComes
<1> QED BY <1>6, <1>8, <1>10, <1>11, <1>12, <1>13

-----------------------------------------------------------------------------
(* The WS thread.                                                          *)

(* What holds after any event, whatever is done with it.                   *)
LEMMA Handled ==
    ASSUME IInv, inbox # <<>>, inbox' = Tail(inbox),
           UNCHANGED <<link, connects, srv, place, told, sent>>
    PROVE  /\ Opened' = Opened /\ PlacesStay
           /\ \A k : PortOf(k)' = PortOf(k) /\ (Afresh(k)' <=> Afresh(k))
           /\ inbox' \in Seq(Event) /\ InOrder(inbox)' /\ ServerCoherent'
           /\ (link = "down" => outbox' = <<>>) => LinkCoherent'
           /\ (\A e \in In' : e.type = "instruction" => service'[e.session].kind = "none")
                  => EventsFit'
<1> USE DEF IInv
<1> DEFINE h == Head(inbox)
<1>1. /\ inbox' \in Seq(Event) /\ InOrder(inbox') /\ In' \subseteq In
      /\ \A t, k : Has(In, t, k) <=> (h.type = t /\ h.session = k) \/ Has(In', t, k)
      /\ Drops(In) <=> h.type = "disconnected" \/ Drops(In')
      /\ h.type = "disconnected" => inbox' = <<>>
    BY EventTaken
<1> HIDE DEF h
<1>2. Opened' = Opened /\ PlacesStay
    BY Numbers DEF PlacesStay, Opened
<1>3. \A k : PortOf(k)' = PortOf(k) /\ (Afresh(k)' <=> Afresh(k))
    BY <1>2 DEF PortOf, Afresh
<1>4. InOrder(inbox)'
    BY <1>1 DEF InOrder
<1>5. ServerCoherent'
    BY <1>1, <1>2, <1>3 DEF ServerCoherent
<1>6. (link = "down" => outbox' = <<>>) => LinkCoherent'
    BY <1>1 DEF LinkCoherent
<1>7. (\A e \in In' : e.type = "instruction" => service'[e.session].kind = "none")
          => EventsFit'
    BY <1>1, <1>2, <1>3 DEF EventsFit
<1> QED BY <1>1, <1>2, <1>3, <1>4, <1>5, <1>6, <1>7

(* What has come of the data of session k stays, and what is taken from    *)
(* the inbox is not of it.                                                 *)
LEMMA OtherDataStays ==
    ASSUME IInv, inbox # <<>>, inbox' = Tail(inbox), UNCHANGED <<srv, place, sent>>,
           NEW k \in Opened, Holds(k)' \/ Has(In', "notify_open", k),
           Holds(k)' => Holds(k), Kept(k)' = Kept(k),
           Head(inbox).type = "route" => Head(inbox).session # k
    PROVE  DataComes(k)'
<1> DEFINE h == Head(inbox)
<1>1. /\ \A t, j : Has(In, t, j) <=> (h.type = t /\ h.session = j) \/ Has(In', t, j)
      /\ \A j, n : Brings(In, j, n) <=> \/ h.type = "route" /\ h.session = j /\ h.data = n
                                        \/ Brings(In', j, n)
    BY EventTaken
<1>2. Holds(k) \/ Has(In, "notify_open", k)
    BY <1>1
<1>3. \A n : Brings(In', k, n) <=> Brings(In, k, n)
    BY <1>1
<1>4. PortOf(k)' = PortOf(k)
    BY DEF PortOf
<1> QED BY <1>2, <1>3, <1>4, DataStays

(* An answer to what is not of a session keeps it.                         *)
LEMMA AnswerIInv == IInv /\ (OnReady \/ OnPing) => IInv'
<1> SUFFICES ASSUME IInv, OnReady \/ OnPing PROVE IInv'
    OBVIOUS
<1> USE DEF IInv
<1> DEFINE h == Head(inbox)
<1>1. /\ inbox # <<>> /\ inbox' = Tail(inbox) /\ h.type \in {"ready", "ping"}
      /\ UNCHANGED <<link, connects, channels, chan, service, srv, place, told, sent, echoed>>
      /\ \E t \in {"request_join", "pong"} : Send([type |-> t])
    BY DEF OnReady, OnPing, Took, agent, server
<1>2. PICK t \in {"request_join", "pong"} : Send([type |-> t])
    BY <1>1
<1> DEFINE e == [type |-> t]
<1>3. e \in Packet /\ e.type \in {"request_join", "pong"} /\ SendAll(<<e>>)
    BY <1>2 DEF Packet, Send
<1> HIDE DEF e
<1>4. <<e>> \in Seq(Packet) /\ Items(<<e>>) = {e} /\ ~IsData(e)
    BY <1>3 DEF Items, IsData
<1>5. /\ outbox' \in Seq(Packet) /\ EchoInOrder(outbox)'
      /\ Out' \subseteq Out \cup {e}
      /\ \A k \in Sessions : \A n : GivesBack(Out', k, n) <=> GivesBack(Out, k, n)
      /\ link = "down" => outbox' = <<>>
    BY <1>3, <1>4, PacketsSent
<1>6. /\ \A s, k : Has(In, s, k) <=> (h.type = s /\ h.session = k) \/ Has(In', s, k)
      /\ \A k : Mentions(In, k) <=> (OfSession(h) /\ h.session = k) \/ Mentions(In', k)
      /\ Drops(In) <=> h.type = "disconnected" \/ Drops(In')
      /\ In' \subseteq In
    BY <1>1, EventTaken
<1>7. /\ Opened' = Opened /\ PlacesStay
      /\ \A k : PortOf(k)' = PortOf(k) /\ (Afresh(k)' <=> Afresh(k))
      /\ inbox' \in Seq(Event) /\ InOrder(inbox)' /\ ServerCoherent' /\ LinkCoherent'
      /\ (\A f \in In' : f.type = "instruction" => service'[f.session].kind = "none")
             => EventsFit'
    BY <1>1, <1>5, Handled
<1>8. EventsFit'
    BY <1>1, <1>6, <1>7 DEF EventsFit, OfSession
<1>9. /\ \A k \in Opened : (Holds(k)' <=> Holds(k)) /\ Kept(k)' = Kept(k)
      /\ \A p : Stale(p)' <=> Stale(p)
      /\ \A k \in Sessions : Early(k)' = Early(k)
      /\ ServiceOnObject' /\ EndsTold' /\ RunsFromEarly' /\ TableCoherent'
    <2>1. ServicesStay /\ PlacesStay
        BY <1>1, <1>7 DEF ServicesStay
    <2> QED BY <1>1, <2>1, ObjectsStay
<1> HIDE DEF h
<1>10. Shapes'
    BY <1>1, <1>5, <1>7 DEF Shapes
<1>11. StaleIsOld'
    BY <1>1, <1>9 DEF StaleIsOld
<1>12. SessionsEnd' /\ OneAfterAnother' /\ SessionsBegin'
    <2>1. \A k \in Opened : Mentions(In', k) => Mentions(In, k)
        BY <1>6
    <2>2. \A s \in {"notify_open", "notify_close"} : \A k : Has(In', s, k) <=> Has(In, s, k)
        BY <1>1, <1>6
    <2>3. Drops(In) => Drops(In')
        BY <1>1, <1>6
    <2>4. \A k \in Opened : Has(In, "notify_open", k) => service'[k].kind = "none"
        BY <1>1 DEF SessionsBegin
    <2> QED BY <1>1, <1>7, <1>9, <2>1, <2>2, <2>3, <2>4, SessionsStay
<1>13. DataInOrder'
    <2> SUFFICES ASSUME NEW k \in Opened, Holds(k)' \/ Has(In', "notify_open", k)
                 PROVE  DataComes(k)'
        BY <1>7 DEF DataInOrder
    <2>1. Head(inbox).type # "route"
        BY <1>1 DEF h
    <2> QED BY <1>1, <1>9, <2>1, OtherDataStays
<1>14. PacketsFit'
    <2> SUFFICES ASSUME NEW f \in Out', f.type \in {"request_send", "request_close"}
                 PROVE  /\ f.session \in Opened /\ f.port = PortOf(f.session)
                        /\ IsData(f) => /\ service[f.session].kind = "echo"
                                        /\ f.data[1] = f.session
                                        /\ f.data[2] <= Early(f.session) + Len(service[f.session].got)
        BY <1>1, <1>7 DEF PacketsFit, Early
    <2> QED BY <1>3, <1>5 DEF PacketsFit
<1>15. EchoComes'
    <2> SUFFICES ASSUME NEW k \in Opened, srv[PortOf(k)] = k, service[k].kind = "echo"
                 PROVE  /\ Len(echoed[k]) <= Len(service[k].got)
                        /\ \A n \in Nat : GivesBack(Out', k, n) <=>
                               n \in (Early(k) + Len(echoed[k]) + 1)..
                                         (Early(k) + Len(service[k].got))
        BY <1>1, <1>7, <1>9, Numbers DEF EchoComes
    <2> QED BY <1>5, Numbers DEF EchoComes
<1> QED BY <1>5, <1>7, <1>8, <1>9, <1>10, <1>11, <1>12, <1>13, <1>14, <1>15

(* Nothing is sent, and what the services of echoes have got stays.        *)
LEMMA EchoesStay ==
    ASSUME IInv, UNCHANGED <<outbox, srv, place, echoed>>,
           \A k \in Sessions : service[k].kind = "echo" =>
               /\ service'[k].kind = "echo" /\ service'[k].got = service[k].got
               /\ Early(k)' = Early(k),
           \A k \in Sessions : service[k].kind # "echo" => service'[k].kind # "echo"
    PROVE  PacketsFit' /\ EchoInOrder(outbox)' /\ EchoComes'
<1> USE DEF IInv
<1>1. Out' = Out /\ Opened' = Opened /\ \A k : PortOf(k)' = PortOf(k)
    BY DEF Out, Items, Opened, PortOf
<1>2. PacketsFit'
    BY <1>1, Numbers DEF PacketsFit
<1>3. EchoInOrder(outbox)'
    BY DEF EchoInOrder
<1>4. EchoComes'
    <2> SUFFICES ASSUME NEW k \in Opened, srv[PortOf(k)] = k, service'[k].kind = "echo"
                 PROVE  /\ Len(echoed[k]) <= Len(service'[k].got)
                        /\ \A n \in Nat : GivesBack(Out, k, n) <=>
                               n \in (Early(k)' + Len(echoed[k]) + 1)..
                                         (Early(k)' + Len(service'[k].got))
        BY <1>1 DEF EchoComes
    <2>1. k \in Sessions /\ service[k].kind = "echo"
        BY Numbers
    <2> QED BY <2>1 DEF EchoComes
<1> QED BY <1>2, <1>3, <1>4

(* The notice that a session is open keeps it: its object is made, unless  *)
(* one of an earlier connection is in the way.                             *)
LEMMA OnNotifyOpenIInv == IInv /\ OnNotifyOpen => IInv'
<1> SUFFICES ASSUME IInv, OnNotifyOpen PROVE IInv'
    OBVIOUS
<1> USE DEF IInv
<1>1. /\ inbox # <<>> /\ inbox' = Tail(inbox) /\ Head(inbox).type = "notify_open"
      /\ UNCHANGED <<link, connects, outbox, service, srv, place, told, sent, echoed>>
    BY DEF OnNotifyOpen, Took, server
<1>2. PICK k0, p : k0 = Head(inbox).session /\ p = Head(inbox).port
    OBVIOUS
<1>3. /\ k0 \in Opened /\ k0 \in Sessions /\ p \in Ports /\ p = PortOf(k0)
      /\ place[k0].connect = connects /\ Live(k0)
      /\ ~Has(In', "notify_open", k0) /\ ~Holds(k0) /\ service[k0].kind = "none"
      /\ \A j \in Opened \ {k0} : PortOf(j) = p /\ Current(j) => k0 < j /\ ~Holds(j)
      /\ channels[p] # None => chan[channels[p]].closed
    BY <1>1, <1>2, SessionTaken DEF OfSession
<1>4. /\ channels' = [channels EXCEPT ![p] = ChannelAt(p)] /\ chan' = WithChannel(p, k0)
      /\ Head(inbox).session = k0
    BY <1>2 DEF OnNotifyOpen, GetChannel
<1>5. /\ inbox' \in Seq(Event) /\ In' \subseteq In
      /\ \A t, k : Has(In, t, k) <=> (t = "notify_open" /\ k = k0) \/ Has(In', t, k)
      /\ \A k : Mentions(In, k) <=> k = k0 \/ Mentions(In', k)
      /\ \A k, n : Brings(In, k, n) <=> Brings(In', k, n)
      /\ Drops(In) <=> Drops(In')
    BY <1>1, <1>4, EventTaken DEF OfSession
<1>6. /\ Opened' = Opened /\ PlacesStay
      /\ \A k : PortOf(k)' = PortOf(k) /\ (Afresh(k)' <=> Afresh(k))
      /\ InOrder(inbox)' /\ ServerCoherent' /\ LinkCoherent'
    BY <1>1, Handled DEF LinkCoherent
<1>7. EventsFit'
    <2>1. \A e \in In' : e.type = "instruction" => service'[e.session].kind = "none"
        BY <1>1, <1>5 DEF EventsFit, OfSession
    <2> QED BY <1>1, <2>1, Handled
<1>8. Len(chan) \in Nat /\ chan \in Seq(Channel) /\ channels \in [Ports -> Nat]
    BY LenProperties DEF Shapes
<1> DEFINE c0 == Len(chan) + 1
(* What is made, if anything is.                                           *)
<1>9. /\ chan' \in Seq(Channel)
      /\ \A c \in 1..Len(chan) : c \in 1..Len(chan') /\ chan'[c] = chan[c]
      /\ \A x \in Ports : channels[x] # None => channels'[x] = channels[x]
      /\ \A x \in Ports \ {p} : channels'[x] = channels[x]
      /\ channels' \in [Ports -> Nat]
      /\ \/ /\ channels[p] # None /\ chan' = chan /\ channels' = channels
         \/ /\ channels[p] = None /\ channels'[p] = c0 /\ c0 \in 1..Len(chan')
            /\ \A c \in 1..Len(chan') : c \in 1..Len(chan) \/ c = c0
            /\ chan'[c0] = NewChannel(p, k0)
    <2>1. CASE channels[p] # None
        <3>1. chan' = chan /\ channels' = channels
            BY <1>3, <1>4, <1>8, <2>1 DEF ChannelAt, WithChannel
        <3> QED BY <1>8, <2>1, <3>1
    <2>2. CASE channels[p] = None
        <3>1. chan' = Append(chan, NewChannel(p, k0)) /\ channels' = [channels EXCEPT ![p] = c0]
            BY <1>4, <2>2 DEF ChannelAt, WithChannel
        <3>2. NewChannel(p, k0) \in Channel
            <4>1. <<>> \in Seq(Data)
                BY EmptySeq
            <4> QED BY <1>3, <4>1 DEF NewChannel, Channel
        <3>3. /\ chan' \in Seq(Channel) /\ Len(chan') = Len(chan) + 1
              /\ \A c \in 1..Len(chan) : chan'[c] = chan[c]
              /\ chan'[c0] = NewChannel(p, k0)
            BY <1>8, <3>1, <3>2, AppendProperties
        <3>4. /\ \A c \in 1..Len(chan) : c \in 1..Len(chan')
              /\ \A c \in 1..Len(chan') : c \in 1..Len(chan) \/ c = c0
              /\ c0 \in 1..Len(chan')
            BY <1>8, <3>3
        <3> QED BY <1>3, <1>8, <2>2, <3>1, <3>3, <3>4
    <2> QED BY <2>1, <2>2
<1>10. c0 \in Nat /\ c0 # None /\ \A c \in 1..Len(chan) : c # c0 /\ c # None
    BY <1>8, Numbers
<1> HIDE DEF c0
<1>11. /\ NewChannel(p, k0).number = p /\ NewChannel(p, k0).session = k0
       /\ ~NewChannel(p, k0).closed /\ NewChannel(p, k0).user = None
       /\ NewChannel(p, k0).deque = <<>>
    BY DEF NewChannel
<1>12. Shapes'
    BY <1>1, <1>5, <1>6, <1>9 DEF Shapes
<1>13. \A k \in Opened : /\ k \in Sessions /\ PortOf(k) \in Ports
                         /\ channels[PortOf(k)] # None => channels[PortOf(k)] \in 1..Len(chan)
    BY Numbers DEF TableCoherent
<1>14. /\ \A k \in Opened : Holds(k) => Holds(k)'
       /\ \A k \in Opened \ {k0} : Holds(k)' <=> Holds(k)
       /\ \A x \in Ports : Stale(x)' <=> Stale(x)
       /\ channels[p] = None <=> Holds(k0)'
    <2>1. ASSUME NEW k \in Opened, Holds(k) PROVE Holds(k)'
        BY <1>6, <1>9, <1>13, <2>1 DEF Holds, Object
    <2>2. ASSUME NEW k \in Opened, Holds(k)' PROVE k = k0 \/ Holds(k)
        BY <1>6, <1>9, <1>11, <1>13, <2>2 DEF Holds, Object
    <2>3. ASSUME NEW x \in Ports, Stale(x) PROVE Stale(x)'
        BY <1>9, <2>3 DEF Stale, TableCoherent
    <2>4. ASSUME NEW x \in Ports, Stale(x)' PROVE Stale(x)
        BY <1>9, <1>11, <2>4 DEF Stale, TableCoherent
    <2>5. ASSUME channels[p] = None PROVE Holds(k0)'
        BY <1>3, <1>6, <1>9, <1>10, <1>11, <2>5 DEF Holds, Object
    <2>6. ASSUME channels[p] # None PROVE ~Holds(k0)'
        BY <1>3, <1>6, <1>9, <2>6 DEF Holds, Object
    <2> QED BY <2>1, <2>2, <2>3, <2>4, <2>5, <2>6
<1>15. TableCoherent'
    <2>1. \A x \in Ports : channels'[x] # None =>
              channels'[x] \in 1..Len(chan') /\ chan'[channels'[x]].number = x
        BY <1>9, <1>11 DEF TableCoherent
    <2>2. ASSUME NEW c \in 1..Len(chan')
          PROVE  /\ chan'[c].session \in Opened /\ PortOf(chan'[c].session) = chan'[c].number
                 /\ ~chan'[c].closed =>
                       /\ channels'[chan'[c].number] = c
                       /\ chan'[c].user \in {None, chan'[c].session}
                       /\ place[chan'[c].session].connect = connects
        <3>1. CASE c \in 1..Len(chan)
            <4>1. chan'[c] = chan[c] /\ chan[c].number \in Ports
                BY <1>9, <3>1, ObjectFields
            <4>2. /\ chan[c].session \in Opened /\ PortOf(chan[c].session) = chan[c].number
                  /\ ~chan[c].closed =>
                         /\ channels[chan[c].number] = c
                         /\ chan[c].user \in {None, chan[c].session}
                         /\ place[chan[c].session].connect = connects
                BY <3>1 DEF TableCoherent
            <4> QED BY <1>9, <1>10, <3>1, <4>1, <4>2
        <3>2. CASE c \notin 1..Len(chan)
            BY <1>3, <1>9, <1>11, <2>2, <3>2
        <3> QED BY <3>1, <3>2
    <2> QED BY <1>1, <1>6, <2>1, <2>2 DEF TableCoherent
<1>16. StaleIsOld'
    <2> SUFFICES ASSUME NEW x \in Ports, Stale(x)'
                 PROVE  place[chan'[channels'[x]].session].connect < connects
        BY <1>1 DEF StaleIsOld
    <2>1. Stale(x) /\ channels[x] # None /\ channels[x] \in 1..Len(chan)
        BY <1>14 DEF Stale, TableCoherent
    <2> QED BY <1>1, <1>9, <2>1 DEF StaleIsOld
<1>17. \A k \in Sessions : service[k].kind # "none" =>
           /\ k \in Opened /\ k # k0
           /\ service[k].on \in 1..Len(chan) /\ chan'[service[k].on] = chan[service[k].on]
           /\ Early(k)' = Early(k)
    <2> SUFFICES ASSUME NEW k \in Sessions, service[k].kind # "none"
                 PROVE  /\ k \in Opened /\ k # k0
                        /\ service[k].on \in 1..Len(chan) /\ chan'[service[k].on] = chan[service[k].on]
                        /\ Early(k)' = Early(k)
        OBVIOUS
    <2>1. k \in Opened
        BY DEF ServiceOnObject, NoService, Shapes
    <2>2. service[k].on \in 1..Len(chan)
        BY DEF ServiceOnObject
    <2> QED BY <1>1, <1>3, <1>9, <2>1, <2>2 DEF Early
<1>18. ServiceOnObject'
    <2>1. ASSUME NEW k \in Sessions, service[k].kind # "none"
          PROVE  LET c == service[k].on IN
                 /\ c \in 1..Len(chan') /\ chan'[c].number = PortOf(k)
                 /\ ~chan'[c].closed =>
                       /\ chan'[c].session = k
                       /\ chan'[c].user = IF service[k].kind \in {"echo", "thread"} THEN k ELSE None
                 /\ service[k].kind \notin {"echo", "thread"} => service[k].got = <<>>
        BY <1>9, <1>17, <2>1 DEF ServiceOnObject
    <2>2. ASSUME NEW c \in 1..Len(chan'), ~chan'[c].closed, chan'[c].user # None
          PROVE  service[chan'[c].user].kind # "none" /\ service[chan'[c].user].on = c
        BY <1>9, <1>11, <2>2 DEF ServiceOnObject
    <2> QED BY <1>1, <1>6, <2>1, <2>2 DEF ServiceOnObject
<1>19. EndsTold'
    <2> SUFFICES ASSUME NEW k \in Sessions
                 PROVE  IF service[k].kind = "thread" /\ chan'[service[k].on].closed
                        THEN service[k].ends = 1 \/ (service[k].ends = 0 /\ Afresh(k))
                        ELSE service[k].ends = 0
        BY <1>1, <1>6 DEF EndsTold
    <2> QED BY <1>17 DEF EndsTold
<1>20. RunsFromEarly'
    <2> SUFFICES ASSUME NEW k \in Sessions
                 PROVE  /\ \A i \in 1..Len(service[k].got) : service[k].got[i] = <<k, Early(k)' + i>>
                        /\ \A i \in 1..Len(echoed[k]) :
                               service[k].kind = "echo" /\ echoed[k][i] = <<k, Early(k)' + i>>
        BY <1>1 DEF RunsFromEarly
    <2>1. CASE service[k].kind # "none"
        BY <1>17, <2>1 DEF RunsFromEarly
    <2>2. CASE service[k].kind = "none"
        <3>1. service[k].got = <<>>
            BY <2>2 DEF ServiceOnObject, NoService
        <3>2. Len(service[k].got) = 0 /\ 1..0 = {}
            BY <3>1, EmptySeq
        <3> QED BY <2>2, <3>2 DEF RunsFromEarly
    <2> QED BY <2>1, <2>2
<1>21. PacketsFit' /\ EchoInOrder(outbox)' /\ EchoComes'
    BY <1>1, <1>17, EchoesStay
<1>22. \A k \in Opened : (Live(k)' => Live(k)) /\ (Current(k)' => Current(k))
    BY <1>1, <1>3, <1>5, <1>6, <1>14 DEF Live, Current
<1>23. SessionsEnd'
    BY <1>1, <1>5, <1>6, <1>22 DEF SessionsEnd
<1>24. OneAfterAnother'
    <2> SUFFICES ASSUME NEW j \in Opened, NEW k \in Opened, j < k, PortOf(j) = PortOf(k),
                        Live(j)', Current(k)'
                 PROVE  Has(In', "notify_close", j) /\ Has(In', "notify_open", k)
        BY <1>6 DEF OneAfterAnother
    <2>1. Has(In, "notify_close", j) /\ Has(In, "notify_open", k)
        BY <1>22 DEF OneAfterAnother
    <2>2. k # k0
        <3>1. j \in Nat /\ k \in Nat
            BY Numbers
        <3>2. j # k /\ ~(k < j)
            BY <3>1
        <3> QED BY <1>3, <1>22, <3>2 DEF Current
    <2> QED BY <1>5, <2>1, <2>2
<1>25. SessionsBegin'
    <2> SUFFICES ASSUME NEW k \in Opened
                 PROVE  /\ Has(In', "notify_open", k) => ~Holds(k)' /\ service[k].kind = "none"
                        /\ Current(k)' /\ ~Has(In', "notify_open", k)
                               => Holds(k)' \/ Stale(PortOf(k))'
        BY <1>1, <1>6 DEF SessionsBegin, Stale
    <2>1. CASE k = k0
        BY <1>3, <1>6, <1>14, <2>1 DEF Stale
    <2>2. CASE k # k0
        <3>1. /\ Has(In, "notify_open", k) => ~Holds(k) /\ service[k].kind = "none"
              /\ Current(k) /\ ~Has(In, "notify_open", k) => Holds(k) \/ Stale(PortOf(k))
            BY DEF SessionsBegin
        <3>2. Stale(PortOf(k))' <=> Stale(PortOf(k))
            BY <1>6, <1>13, <1>14 DEF Stale
        <3> QED BY <1>5, <1>14, <1>22, <2>2, <3>1, <3>2
    <2> QED BY <2>1, <2>2
<1>26. \A k \in Opened : /\ k # k0 => Kept(k)' = Kept(k)
                         /\ k = k0 => Kept(k) = 0 /\ Kept(k)' = 0
    <2>1. ASSUME NEW k \in Opened, k # k0 PROVE Kept(k)' = Kept(k)
        <3>1. CASE ~Holds(k)
            BY <1>14, <2>1, <3>1 DEF Kept
        <3>2. CASE Holds(k)
            <4>1. Object(k)' = Object(k) /\ Object(k) \in 1..Len(chan)
                BY <1>6, <1>9, <1>13, <3>2 DEF Holds, Object
            <4>2. chan'[Object(k)'] = chan[Object(k)]
                BY <1>9, <4>1
            <4>3. Holds(k)'
                BY <1>14, <3>2
            <4> QED BY <1>1, <3>2, <4>2, <4>3 DEF Kept
        <3> QED BY <3>1, <3>2
    <2>2. Kept(k0) = 0
        BY <1>3 DEF Kept
    <2>3. Kept(k0)' = 0
        <3>1. CASE ~Holds(k0)'
            BY <3>1 DEF Kept
        <3>2. CASE Holds(k0)'
            <4>1. chan'[Object(k0)'].deque = <<>>
                BY <1>3, <1>6, <1>9, <1>11, <1>14, <3>2 DEF Object
            <4>2. service'[k0].got = <<>>
                BY <1>1, <1>3 DEF ServiceOnObject, NoService
            <4>3. Len(chan'[Object(k0)'].deque) = 0 /\ Len(service'[k0].got) = 0
                BY <4>1, <4>2, EmptySeq
            <4> QED BY <3>2, <4>3 DEF Kept
        <3> QED BY <3>1, <3>2
    <2> QED BY <2>1, <2>2, <2>3
<1>27. DataInOrder'
    <2> SUFFICES ASSUME NEW k \in Opened, Holds(k)' \/ Has(In', "notify_open", k)
                 PROVE  DataComes(k)'
        BY <1>6 DEF DataInOrder
    <2>1. Holds(k) \/ Has(In, "notify_open", k)
        BY <1>5, <1>14
    <2>2. Kept(k)' = Kept(k)
        BY <1>26
    <2> QED BY <1>1, <1>5, <1>6, <2>1, <2>2, DataStays
<1> QED BY <1>6, <1>7, <1>12, <1>15, <1>16, <1>18, <1>19, <1>20, <1>21, <1>23, <1>24, <1>25, <1>27

(* Objects are closed, and who listens there is called back.               *)
LEMMA Closing ==
    ASSUME IInv, NEW cs, cs \subseteq 1..Len(chan), \A c \in cs : ~chan[c].closed,
           CloseCalled(cs), UNCHANGED <<place, told, echoed>>
    PROVE  /\ chan' \in Seq(Channel) /\ Len(chan') = Len(chan)
           /\ \A c \in 1..Len(chan) :
                  /\ chan'[c].number = chan[c].number /\ chan'[c].session = chan[c].session
                  /\ chan'[c].user = chan[c].user /\ chan'[c].deque = chan[c].deque
                  /\ chan'[c].closed <=> chan[c].closed \/ c \in cs
           /\ service' \in [Sessions -> Service]
           /\ \A k \in Sessions : /\ service'[k].kind = service[k].kind
                                  /\ service'[k].on = service[k].on
                                  /\ service'[k].got = service[k].got
                                  /\ service[k].kind # "none" => Early(k)' = Early(k)
                                  /\ service[k].kind = "none" => service'[k] = service[k]
           /\ ServiceOnObject' /\ EndsTold' /\ RunsFromEarly'
<1> USE DEF IInv
<1>1. /\ chan \in Seq(Channel) /\ Len(chan) \in Nat /\ DOMAIN chan = 1..Len(chan)
      /\ service \in [Sessions -> Service]
    BY LenProperties DEF Shapes
<1>2. chan' = [c \in 1..Len(chan) |-> [chan[c] EXCEPT !.closed = @ \/ c \in cs]]
    BY <1>1 DEF CloseCalled
<1>3. ASSUME NEW c \in 1..Len(chan)
      PROVE  /\ chan'[c] \in Channel
             /\ chan'[c].number = chan[c].number /\ chan'[c].session = chan[c].session
             /\ chan'[c].user = chan[c].user /\ chan'[c].deque = chan[c].deque
             /\ chan'[c].closed <=> chan[c].closed \/ c \in cs
    <2>1. chan[c] \in Channel
        BY <1>1, ElementOfSeq
    <2>2. PICK b \in BOOLEAN : b <=> chan[c].closed \/ c \in cs
        OBVIOUS
    <2>3. chan'[c] = [chan[c] EXCEPT !.closed = @ \/ c \in cs]
        BY <1>2
    <2>4. chan[c].closed \in BOOLEAN /\ (chan[c].closed \/ c \in cs) \in BOOLEAN
        BY <2>1 DEF Channel
    <2> QED BY <2>1, <2>3, <2>4 DEF Channel
<1>4. chan' \in Seq(Channel) /\ Len(chan') = Len(chan)
    <2>1. chan' \in [1..Len(chan) -> Channel]
        BY <1>2, <1>3
    <2> QED BY <1>1, <2>1
<1>5. ASSUME NEW k \in Sessions
      PROVE  /\ service'[k] \in Service
             /\ service'[k].kind = service[k].kind /\ service'[k].on = service[k].on
             /\ service'[k].got = service[k].got
             /\ service[k].kind = "none" => service'[k] = service[k]
             /\ IF service[k].kind = "thread" /\ \E c \in cs : chan[c].user = k
                THEN service'[k].ends = service[k].ends + 1
                ELSE service'[k].ends = service[k].ends
    <2>1. service[k] \in Service /\ service[k].ends \in Nat
        BY <1>1 DEF Service
    <2>2. [service[k] EXCEPT !.ends = @ + 1] \in Service
        BY <2>1 DEF Service
    <2>3. \/ /\ service[k].kind = "thread" /\ \E c \in cs : chan[c].user = k
             /\ service'[k] = [service[k] EXCEPT !.ends = @ + 1]
          \/ /\ ~(service[k].kind = "thread" /\ \E c \in cs : chan[c].user = k)
             /\ service'[k] = service[k]
        BY DEF CloseCalled
    <2>4. CASE service'[k] = service[k] /\ ~(service[k].kind = "thread" /\ \E c \in cs : chan[c].user = k)
        BY <2>1, <2>4
    <2>5. CASE /\ service[k].kind = "thread" /\ \E c \in cs : chan[c].user = k
               /\ service'[k] = [service[k] EXCEPT !.ends = @ + 1]
        <3>1. /\ service'[k].kind = service[k].kind /\ service'[k].on = service[k].on
              /\ service'[k].got = service[k].got /\ service'[k].ends = service[k].ends + 1
            BY <2>1, <2>5 DEF Service
        <3> QED BY <2>2, <2>5, <3>1
    <2> QED BY <2>3, <2>4, <2>5
<1>6. service' \in [Sessions -> Service]
    BY <1>5 DEF CloseCalled
<1>7. /\ Opened' = Opened /\ \A k : PortOf(k)' = PortOf(k) /\ (Afresh(k)' <=> Afresh(k))
    <2>1. Opened' = Opened
        BY DEF Opened
    <2> QED BY <2>1 DEF PortOf, Afresh
<1>8. \A k \in Sessions : service[k].kind # "none" =>
          service[k].on \in 1..Len(chan) /\ Early(k)' = Early(k)
    BY <1>3, <1>5 DEF ServiceOnObject, Early
<1>9. ServiceOnObject'
    <2>1. \A k \in Sessions : k \notin told \/ service[k].kind = "none" => service'[k] = NoService
        BY <1>5 DEF ServiceOnObject, NoService
    <2>2. ASSUME NEW k \in Sessions, service[k].kind # "none"
          PROVE  LET c == service[k].on IN
                 /\ c \in 1..Len(chan) /\ chan'[c].number = PortOf(k)
                 /\ ~chan'[c].closed =>
                       /\ chan'[c].session = k
                       /\ chan'[c].user = IF service[k].kind \in {"echo", "thread"} THEN k ELSE None
                 /\ service[k].kind \notin {"echo", "thread"} => service[k].got = <<>>
        BY <1>3, <1>8, <2>2 DEF ServiceOnObject
    <2>3. ASSUME NEW c \in 1..Len(chan), ~chan'[c].closed, chan'[c].user # None
          PROVE  service'[chan'[c].user].kind # "none" /\ service'[chan'[c].user].on = c
        <3>1. ~chan[c].closed /\ chan[c].user # None /\ chan[c].user \in Sessions
            BY <1>3, <2>3, ObjectFields
        <3> QED BY <1>3, <1>5, <3>1 DEF ServiceOnObject
    <2> QED BY <1>4, <1>5, <1>7, <2>1, <2>2, <2>3 DEF ServiceOnObject
<1>10. EndsTold'
    <2> SUFFICES ASSUME NEW k \in Sessions
                 PROVE  IF service[k].kind = "thread" /\ chan'[service[k].on].closed
                        THEN service'[k].ends = 1 \/ (service'[k].ends = 0 /\ Afresh(k))
                        ELSE service'[k].ends = 0
        BY <1>5, <1>7 DEF EndsTold
    <2>1. CASE service[k].kind # "thread"
        BY <1>5, <2>1 DEF EndsTold
    <2>2. CASE service[k].kind = "thread"
        <3> DEFINE c0 == service[k].on
        <3>1. /\ c0 \in 1..Len(chan) /\ (chan'[c0].closed <=> chan[c0].closed \/ c0 \in cs)
              /\ ~chan[c0].closed => chan[c0].user = k
            BY <1>3, <1>8, <2>2 DEF ServiceOnObject
        <3>2. \A c \in cs : chan[c].user = k => c = c0
            BY Numbers DEF ServiceOnObject
        <3>3. (\E c \in cs : chan[c].user = k) <=> c0 \in cs
            BY <3>1, <3>2
        <3>4. /\ c0 \in cs => service'[k].ends = service[k].ends + 1
              /\ c0 \notin cs => service'[k].ends = service[k].ends
            BY <1>5, <2>2, <3>3
        <3>5. IF chan[c0].closed THEN service[k].ends = 1 \/ (service[k].ends = 0 /\ Afresh(k))
              ELSE service[k].ends = 0
            BY <2>2 DEF EndsTold
        <3> HIDE DEF c0
        <3>6. CASE c0 \in cs
            BY <2>2, <3>1, <3>4, <3>5, <3>6 DEF c0
        <3>7. CASE c0 \notin cs
            BY <2>2, <3>1, <3>4, <3>5, <3>7 DEF c0
        <3> QED BY <3>6, <3>7
    <2> QED BY <2>1, <2>2
<1>11. RunsFromEarly'
    <2> SUFFICES ASSUME NEW k \in Sessions
                 PROVE  /\ \A i \in 1..Len(service[k].got) : service[k].got[i] = <<k, Early(k)' + i>>
                        /\ \A i \in 1..Len(echoed[k]) :
                               service[k].kind = "echo" /\ echoed[k][i] = <<k, Early(k)' + i>>
        BY <1>5 DEF RunsFromEarly
    <2>1. CASE service[k].kind # "none"
        BY <1>8, <2>1 DEF RunsFromEarly
    <2>2. CASE service[k].kind = "none"
        <3>1. service[k].got = <<>>
            BY <2>2 DEF ServiceOnObject, NoService
        <3>2. Len(service[k].got) = 0 /\ 1..0 = {}
            BY <3>1, EmptySeq
        <3> QED BY <2>2, <3>2 DEF RunsFromEarly
    <2> QED BY <2>1, <2>2
<1> QED BY <1>3, <1>4, <1>5, <1>6, <1>8, <1>9, <1>10, <1>11

(* The notice that a session is over keeps it.                             *)
LEMMA OnNotifyCloseIInv == IInv /\ OnNotifyClose => IInv'
<1> SUFFICES ASSUME IInv, OnNotifyClose PROVE IInv'
    OBVIOUS
<1> USE DEF IInv
<1>1. /\ inbox # <<>> /\ inbox' = Tail(inbox) /\ Head(inbox).type = "notify_close"
      /\ UNCHANGED <<link, connects, outbox, srv, place, told, sent, echoed>>
    BY DEF OnNotifyClose, Took, server
<1>2. PICK k0, p, c0 : /\ k0 = Head(inbox).session /\ p = Head(inbox).port
                       /\ c0 = channels[Head(inbox).port]
    OBVIOUS
<1>3. /\ k0 \in Opened /\ k0 \in Sessions /\ p \in Ports /\ p = PortOf(k0)
      /\ ~Mentions(In', k0) /\ (Holds(k0) \/ Stale(p))
      /\ \A j \in Opened \ {k0} : PortOf(j) = p /\ Current(j) => Has(In, "notify_open", j) /\ ~Holds(j)
    BY <1>1, <1>2, SessionTaken DEF OfSession
<1>4. c0 \in 1..Len(chan) /\ chan[c0].number = p /\ channels[p] = c0
    BY <1>2, <1>3 DEF Holds, Object, Stale, TableCoherent
<1> DEFINE cs == {c \in {c0} : ~chan[c].closed}
<1>5. /\ channels' = [channels EXCEPT ![p] = None] /\ CloseCalled(cs)
      /\ channels \in [Ports -> Nat]
    <2>1. DOMAIN chan = 1..Len(chan) /\ channels \in [Ports -> Nat]
        BY LenProperties DEF Shapes
    <2>2. {c0} \cap DOMAIN chan = {c0}
        BY <1>4, <2>1
    <2> QED BY <1>2, <2>1, <2>2 DEF OnNotifyClose, OnClose
<1>6. /\ channels'[p] = None /\ \A x \in Ports \ {p} : channels'[x] = channels[x]
      /\ channels' \in [Ports -> Nat]
    BY <1>3, <1>5 DEF None
<1>7. /\ inbox' \in Seq(Event) /\ In' \subseteq In
      /\ \A t, k : Has(In, t, k) <=> (t = "notify_close" /\ k = k0) \/ Has(In', t, k)
      /\ \A k : Mentions(In, k) <=> k = k0 \/ Mentions(In', k)
      /\ Drops(In) <=> Drops(In')
    BY <1>1, <1>2, EventTaken DEF OfSession
<1>8. /\ Opened' = Opened /\ PlacesStay
      /\ \A k : PortOf(k)' = PortOf(k) /\ (Afresh(k)' <=> Afresh(k))
      /\ InOrder(inbox)' /\ ServerCoherent' /\ LinkCoherent'
    BY <1>1, Handled DEF LinkCoherent
<1>9. /\ chan' \in Seq(Channel) /\ Len(chan') = Len(chan)
      /\ \A c \in 1..Len(chan) :
             /\ chan'[c].number = chan[c].number /\ chan'[c].session = chan[c].session
             /\ chan'[c].user = chan[c].user /\ chan'[c].deque = chan[c].deque
             /\ chan'[c].closed <=> chan[c].closed \/ c \in cs
      /\ service' \in [Sessions -> Service]
      /\ \A k \in Sessions : /\ service'[k].kind = service[k].kind
                             /\ service'[k].on = service[k].on
                             /\ service'[k].got = service[k].got
                             /\ service[k].kind # "none" => Early(k)' = Early(k)
                             /\ service[k].kind = "none" => service'[k] = service[k]
      /\ ServiceOnObject' /\ EndsTold' /\ RunsFromEarly'
    <2>1. cs \subseteq 1..Len(chan) /\ \A c \in cs : ~chan[c].closed
        BY <1>4
    <2> QED BY <1>1, <1>5, <2>1, Closing
<1>10. \A c \in 1..Len(chan) : chan'[c].closed <=> chan[c].closed \/ c = c0
    BY <1>9
<1> HIDE DEF cs
<1>11. EventsFit'
    <2>1. \A e \in In' : e.type = "instruction" => service'[e.session].kind = "none"
        BY <1>7, <1>9, Numbers DEF EventsFit, OfSession
    <2> QED BY <1>1, <2>1, Handled
<1>12. Shapes'
    BY <1>1, <1>6, <1>7, <1>8, <1>9 DEF Shapes
<1>13. TableCoherent'
    <2>1. \A x \in Ports : channels'[x] # None =>
              channels'[x] \in 1..Len(chan) /\ chan'[channels'[x]].number = x
        BY <1>6, <1>9 DEF TableCoherent
    <2>2. ASSUME NEW c \in 1..Len(chan)
          PROVE  /\ chan'[c].session \in Opened /\ PortOf(chan'[c].session) = chan'[c].number
                 /\ ~chan'[c].closed =>
                       /\ channels'[chan'[c].number] = c
                       /\ chan'[c].user \in {None, chan'[c].session}
                       /\ place[chan'[c].session].connect = connects
        <3>1. /\ chan[c].session \in Opened /\ PortOf(chan[c].session) = chan[c].number
              /\ ~chan[c].closed =>
                     /\ channels[chan[c].number] = c
                     /\ chan[c].user \in {None, chan[c].session}
                     /\ place[chan[c].session].connect = connects
              /\ chan[c].number \in Ports
            BY ObjectFields DEF TableCoherent
        <3>2. ~chan'[c].closed => channels'[chan'[c].number] = c
            BY <1>4, <1>6, <1>9, <1>10, <3>1
        <3> QED BY <1>9, <1>10, <3>1, <3>2
    <2> QED BY <1>1, <1>8, <1>9, <2>1, <2>2 DEF TableCoherent
<1>14. \A x \in Ports \ {p} : (Stale(x)' <=> Stale(x)) /\ channels'[x] = channels[x]
    <2> SUFFICES ASSUME NEW x \in Ports \ {p} PROVE Stale(x)' <=> Stale(x)
        BY <1>6
    <2>1. channels'[x] = channels[x]
        BY <1>6
    <2>2. channels[x] # None => channels[x] \in 1..Len(chan) /\ channels[x] # c0
        BY <1>4 DEF TableCoherent
    <2> QED BY <1>10, <2>1, <2>2 DEF Stale
<1>15. StaleIsOld'
    <2> SUFFICES ASSUME NEW x \in Ports, Stale(x)'
                 PROVE  place[chan'[channels'[x]].session].connect < connects
        BY <1>1 DEF StaleIsOld
    <2>1. x # p
        BY <1>6 DEF Stale
    <2>2. Stale(x) /\ channels[x] \in 1..Len(chan) /\ channels'[x] = channels[x]
        BY <1>14, <2>1 DEF Stale, TableCoherent
    <2> QED BY <1>1, <1>9, <2>2 DEF StaleIsOld
<1>16. PacketsFit' /\ EchoInOrder(outbox)' /\ EchoComes'
    BY <1>1, <1>9, EchoesStay
<1>17. ASSUME NEW k \in Opened
       PROVE  /\ k \in Sessions /\ PortOf(k) \in Ports
              /\ Holds(k)' <=> Holds(k) /\ PortOf(k) # p
              /\ PortOf(k) # p => Kept(k)' = Kept(k)
    <2>1. k \in Sessions /\ PortOf(k) \in Ports /\ PortOf(k)' = PortOf(k)
        BY <1>8, Numbers
    <2>2. CASE PortOf(k) = p
        BY <1>6, <2>1, <2>2 DEF Holds, Object
    <2>3. CASE PortOf(k) # p
        <3>1. Object(k)' = Object(k) /\ (Object(k) # None => Object(k) \in 1..Len(chan) /\ Object(k) # c0)
            BY <1>4, <1>6, <2>1, <2>3 DEF Object, TableCoherent
        <3>2. Holds(k)' <=> Holds(k)
            BY <1>9, <1>10, <3>1 DEF Holds
        <3>3. Kept(k)' = Kept(k)
            BY <1>9, <2>1, <3>1, <3>2 DEF Kept, Holds
        <3> QED BY <2>1, <2>3, <3>2, <3>3
    <2> QED BY <2>2, <2>3
<1>18. \A k \in Opened : /\ Live(k)' => Live(k) /\ k # k0
                         /\ Current(k)' => Current(k) /\ k # k0
    <2>1. srv[p] # k0
        BY <1>3, <1>7 DEF ServerCoherent
    <2> QED BY <1>1, <1>3, <1>7, <1>8, <1>17, <2>1 DEF Live, Current
<1>19. SessionsEnd'
    BY <1>1, <1>7, <1>8, <1>18 DEF SessionsEnd
<1>20. OneAfterAnother'
    <2> SUFFICES ASSUME NEW j \in Opened, NEW k \in Opened, j < k, PortOf(j) = PortOf(k),
                        Live(j)', Current(k)'
                 PROVE  Has(In', "notify_close", j) /\ Has(In', "notify_open", k)
        BY <1>8 DEF OneAfterAnother
    <2>1. Has(In, "notify_close", j) /\ Has(In, "notify_open", k)
        BY <1>18 DEF OneAfterAnother
    <2> QED BY <1>7, <1>18, <2>1
<1>21. SessionsBegin'
    <2> SUFFICES ASSUME NEW k \in Opened
                 PROVE  /\ Has(In', "notify_open", k) => ~Holds(k)' /\ service'[k].kind = "none"
                        /\ Current(k)' /\ ~Has(In', "notify_open", k)
                               => Holds(k)' \/ Stale(PortOf(k))'
        BY <1>8 DEF SessionsBegin, Stale
    <2>1. /\ Has(In, "notify_open", k) => ~Holds(k) /\ service[k].kind = "none"
          /\ Current(k) /\ ~Has(In, "notify_open", k) => Holds(k) \/ Stale(PortOf(k))
        BY DEF SessionsBegin
    <2>2. Has(In', "notify_open", k) => ~Holds(k)' /\ service'[k].kind = "none"
        BY <1>7, <1>9, <1>17, <2>1
    <2>3. ASSUME Current(k)', ~Has(In', "notify_open", k) PROVE Holds(k)' \/ Stale(PortOf(k))'
        <3>1. Current(k) /\ k # k0 /\ ~Has(In, "notify_open", k)
            BY <1>7, <1>18, <2>3
        <3>2. PortOf(k) # p
            BY <1>3, <3>1
        <3>3. Stale(PortOf(k))' <=> Stale(PortOf(k))
            BY <1>8, <1>14, <1>17, <3>2 DEF Stale
        <3> QED BY <1>17, <2>1, <3>1, <3>2, <3>3
    <2> QED BY <2>2, <2>3
<1>22. DataInOrder'
    <2> SUFFICES ASSUME NEW k \in Opened, Holds(k)' \/ Has(In', "notify_open", k)
                 PROVE  DataComes(k)'
        BY <1>8 DEF DataInOrder
    <2>1. (Holds(k)' => Holds(k)) /\ Head(inbox).type # "route"
        BY <1>1, <1>17
    <2>2. Kept(k)' = Kept(k)
        <3>1. CASE PortOf(k) # p
            BY <1>17, <3>1
        <3>2. CASE PortOf(k) = p
            <4>1. ~Holds(k)' /\ ~Holds(k)
                BY <1>7, <1>17, <3>2 DEF SessionsBegin
            <4> QED BY <4>1 DEF Kept
        <3> QED BY <3>1, <3>2
    <2> QED BY <1>1, <2>1, <2>2, OtherDataStays
<1> QED BY <1>8, <1>9, <1>11, <1>12, <1>13, <1>15, <1>16, <1>19, <1>20, <1>21, <1>22

(* A lost connection keeps it: every open object is closed.                *)
LEMMA OnDisconnectedIInv == IInv /\ OnDisconnected => IInv'
<1> SUFFICES ASSUME IInv, OnDisconnected PROVE IInv'
    OBVIOUS
<1> USE DEF IInv
<1>1. /\ inbox # <<>> /\ inbox' = Tail(inbox) /\ Head(inbox).type = "disconnected"
      /\ UNCHANGED <<link, connects, outbox, channels, srv, place, told, sent, echoed>>
    BY DEF OnDisconnected, Took, server
<1> DEFINE cs == {c \in InTable : ~chan[c].closed}
<1>2. CloseCalled(cs) /\ cs \subseteq 1..Len(chan) /\ \A c \in cs : ~chan[c].closed
    BY DEF OnDisconnected, OnClose, InTable, TableCoherent
<1>3. \A c \in 1..Len(chan) : ~chan[c].closed => c \in cs
    <2> SUFFICES ASSUME NEW c \in 1..Len(chan), ~chan[c].closed PROVE c \in InTable
        OBVIOUS
    <2>1. channels[chan[c].number] = c /\ chan[c].number \in Ports
        BY ObjectFields DEF TableCoherent
    <2> QED BY <2>1, Numbers DEF InTable
<1> HIDE DEF cs
<1>4. /\ chan' \in Seq(Channel) /\ Len(chan') = Len(chan)
      /\ \A c \in 1..Len(chan) :
             /\ chan'[c].number = chan[c].number /\ chan'[c].session = chan[c].session
             /\ chan'[c].user = chan[c].user /\ chan'[c].deque = chan[c].deque
             /\ chan'[c].closed <=> chan[c].closed \/ c \in cs
      /\ service' \in [Sessions -> Service]
      /\ \A k \in Sessions : /\ service'[k].kind = service[k].kind
                             /\ service'[k].on = service[k].on
                             /\ service'[k].got = service[k].got
                             /\ service[k].kind # "none" => Early(k)' = Early(k)
                             /\ service[k].kind = "none" => service'[k] = service[k]
      /\ ServiceOnObject' /\ EndsTold' /\ RunsFromEarly'
    BY <1>1, <1>2, Closing
<1>5. \A c \in 1..Len(chan) : chan'[c].closed
    BY <1>3, <1>4
<1>6. /\ inbox' \in Seq(Event) /\ inbox' = <<>> /\ In' = {} /\ Drops(In)
    BY <1>1, EventTaken
<1>7. link = "down" /\ \A x \in Ports : srv[x] = None
    BY <1>6 DEF LinkCoherent, Shapes
<1>8. \A t, k : ~Has(In', t, k) /\ ~Mentions(In', k)
    BY <1>6 DEF Has, Mentions
<1>9. /\ Opened' = Opened /\ PlacesStay
      /\ \A k : PortOf(k)' = PortOf(k) /\ (Afresh(k)' <=> Afresh(k))
      /\ InOrder(inbox)' /\ ServerCoherent' /\ LinkCoherent'
    BY <1>1, Handled DEF LinkCoherent
<1>10. EventsFit' /\ StaleIsOld'
    BY <1>1, <1>6, <1>7 DEF EventsFit, StaleIsOld
<1>11. Shapes'
    BY <1>1, <1>4, <1>6, <1>9 DEF Shapes
<1>12. TableCoherent'
    BY <1>1, <1>4, <1>5, <1>9 DEF TableCoherent
<1>13. PacketsFit' /\ EchoInOrder(outbox)' /\ EchoComes'
    BY <1>1, <1>4, EchoesStay
<1>14. \A k \in Opened : ~Holds(k)' /\ ~Live(k)' /\ ~Current(k)'
    <2> SUFFICES ASSUME NEW k \in Opened PROVE ~Holds(k)' /\ ~Live(k)' /\ ~Current(k)'
        OBVIOUS
    <2>1. k # None /\ PortOf(k) \in Ports
        BY Numbers
    <2>2. ~Holds(k)'
        BY <1>1, <1>5, <1>9, <2>1 DEF Holds, Object, TableCoherent
    <2> QED BY <1>1, <1>7, <1>8, <1>9, <2>1, <2>2 DEF Live, Current
<1>15. SessionsEnd' /\ OneAfterAnother' /\ SessionsBegin' /\ DataInOrder'
    BY <1>8, <1>9, <1>14 DEF SessionsEnd, OneAfterAnother, SessionsBegin, DataInOrder
<1> QED BY <1>4, <1>9, <1>10, <1>11, <1>12, <1>13, <1>15

(* What is sent is of session k on port p, and no data.                    *)
SendsNoData(k, p) ==
    /\ outbox' \in Seq(Packet) /\ EchoInOrder(outbox)' /\ (link = "down" => outbox' = <<>>)
    /\ \A f \in Out' \ Out : ~IsData(f) /\ f.session = k /\ f.port = p
    /\ \A j \in Sessions : \A n : GivesBack(Out', j, n) <=> GivesBack(Out, j, n)

(* The object and the service that are changed.                            *)
LEMMA OpeningObjects ==
    ASSUME IInv, inbox # <<>>, inbox' = Tail(inbox), Head(inbox).type = "instruction",
           NEW kind \in {"echo", "thread", "task", "refused"}, NEW doing \in {"idle", "done"},
           NEW k0, NEW p, NEW c0,
           k0 = Head(inbox).session, p = Head(inbox).port, c0 = channels[p],
           Opens(k0, kind, doing, p)
    PROVE  /\ k0 \in Opened /\ k0 \in Sessions /\ p \in Ports /\ p = PortOf(k0)
           /\ place[k0].connect = connects
           /\ ~Has(In', "notify_open", k0) /\ ~Has(In', "instruction", k0)
           /\ Holds(k0) \/ Stale(p)
           /\ c0 \in 1..Len(chan) /\ chan[c0].number = p /\ channels[p] = c0 /\ c0 # None
           /\ service[k0] = NoService /\ service[k0].kind = "none" /\ k0 \in told
           /\ channels' = channels /\ channels \in [Ports -> Nat]
           /\ chan \in Seq(Channel) /\ chan[c0] \in Channel /\ Len(chan) \in Nat
           /\ DOMAIN chan = 1..Len(chan)
           /\ chan' \in Seq(Channel) /\ Len(chan') = Len(chan)
           /\ \A c \in 1..Len(chan) :
                  /\ chan'[c].number = chan[c].number /\ chan'[c].session = chan[c].session
                  /\ chan'[c].closed = chan[c].closed /\ chan'[c].deque = chan[c].deque
                  /\ c # c0 => chan'[c].user = chan[c].user
           /\ chan'[c0].user = IF kind \in {"echo", "thread"} THEN k0 ELSE chan[c0].user
           /\ service' \in [Sessions -> Service]
           /\ service'[k0].kind = kind /\ service'[k0].on = c0
           /\ service'[k0].got = <<>> /\ service'[k0].ends = 0
           /\ \A k \in Sessions \ {k0} : service'[k] = service[k]
           /\ service'[k0].got = service[k0].got
<1> USE DEF IInv
<1>1. /\ k0 \in Opened /\ k0 \in Sessions /\ p \in Ports /\ p = PortOf(k0)
      /\ place[k0].connect = connects
      /\ ~Has(In', "notify_open", k0) /\ ~Has(In', "instruction", k0)
      /\ Holds(k0) \/ Stale(p)
    BY SessionTaken DEF OfSession
<1>2. c0 \in 1..Len(chan) /\ chan[c0].number = p /\ channels[p] = c0 /\ c0 # None
    BY <1>1 DEF Holds, Object, Stale, TableCoherent
<1>3. service[k0].kind = "none" /\ k0 \in told
    <2>1. Head(inbox) \in In
        BY EventTaken
    <2> QED BY <2>1 DEF EventsFit, OfSession
<1>4. service[k0] = NoService
    BY <1>1, <1>3 DEF ServiceOnObject
<1>5. /\ channels' = channels /\ channels \in [Ports -> Nat]
      /\ chan' = IF kind \in {"echo", "thread"} THEN [chan EXCEPT ![c0].user = k0] ELSE chan
      /\ service' = [service EXCEPT ![k0] = [@ EXCEPT !.kind = kind, !.on = c0, !.doing = doing]]
    <2>1. channels \in [Ports -> Nat] /\ ChannelAt(p) = c0 /\ WithChannel(p, k0) = chan
        BY <1>2 DEF Shapes, ChannelAt, WithChannel
    <2>2. channels' = [channels EXCEPT ![p] = c0]
        BY <2>1 DEF Opens, GetChannel
    <2>3. channels' = channels
        BY <1>1, <1>2, <2>1, <2>2
    <2> QED BY <2>1, <2>3 DEF Opens
<1>6. chan \in Seq(Channel) /\ chan[c0] \in Channel /\ Len(chan) \in Nat /\ DOMAIN chan = 1..Len(chan)
    BY <1>2, ObjectFields, LenProperties DEF Shapes
<1>7. /\ chan' \in Seq(Channel) /\ Len(chan') = Len(chan)
      /\ \A c \in 1..Len(chan) :
             /\ chan'[c].number = chan[c].number /\ chan'[c].session = chan[c].session
             /\ chan'[c].closed = chan[c].closed /\ chan'[c].deque = chan[c].deque
             /\ c # c0 => chan'[c].user = chan[c].user
      /\ chan'[c0].user = IF kind \in {"echo", "thread"} THEN k0 ELSE chan[c0].user
    <2>1. CASE kind \in {"echo", "thread"}
        <3>1. [chan[c0] EXCEPT !.user = k0] \in Channel
            BY <1>1, <1>6 DEF Channel
        <3>2. chan' = [chan EXCEPT ![c0] = [chan[c0] EXCEPT !.user = k0]]
            BY <1>5, <2>1
        <3>3. chan' \in Seq(Channel) /\ Len(chan') = Len(chan)
            BY <1>2, <1>6, <3>1, <3>2
        <3>4. chan'[c0] = [chan[c0] EXCEPT !.user = k0]
              /\ \A c \in 1..Len(chan) : c # c0 => chan'[c] = chan[c]
            BY <1>2, <1>6, <3>2
        <3>5. /\ chan'[c0].number = chan[c0].number /\ chan'[c0].session = chan[c0].session
              /\ chan'[c0].closed = chan[c0].closed /\ chan'[c0].deque = chan[c0].deque
              /\ chan'[c0].user = k0
            BY <1>6, <3>4 DEF Channel
        <3> QED BY <2>1, <3>3, <3>4, <3>5
    <2>2. CASE kind \notin {"echo", "thread"}
        BY <1>5, <1>6, <2>2
    <2> QED BY <2>1, <2>2
<1>8. /\ service' \in [Sessions -> Service]
      /\ service'[k0].kind = kind /\ service'[k0].on = c0
      /\ service'[k0].got = <<>> /\ service'[k0].ends = 0
      /\ \A k \in Sessions \ {k0} : service'[k] = service[k]
      /\ service'[k0].got = service[k0].got
    <2>1. service \in [Sessions -> Service] /\ service[k0] \in Service
        BY <1>1 DEF Shapes
    <2>2. service[k0].got = <<>> /\ service[k0].ends = 0
        BY <1>4 DEF NoService
    <2>3. [service[k0] EXCEPT !.kind = kind, !.on = c0, !.doing = doing] \in Service
        <3>1. c0 \in Nat /\ kind \in Kinds \cup {"none", "refused"}
            BY <1>2, <1>6 DEF Kinds
        <3>2. doing \in {"idle", "writing", "wrote", "closing", "done"}
            OBVIOUS
        <3> HIDE DEF Kinds
        <3>3. [service[k0] EXCEPT !.kind = kind] \in Service
            BY ONLY <2>1, <3>1 DEF Service
        <3>4. [[service[k0] EXCEPT !.kind = kind] EXCEPT !.on = c0] \in Service
            BY ONLY <3>1, <3>3 DEF Service
        <3> QED BY ONLY <3>2, <3>4 DEF Service
    <2>4. service'[k0] = [service[k0] EXCEPT !.kind = kind, !.on = c0, !.doing = doing]
        BY <1>1, <1>5, <2>1
    <2>5. /\ service'[k0].kind = kind /\ service'[k0].on = c0
          /\ service'[k0].got = service[k0].got /\ service'[k0].ends = service[k0].ends
        BY <2>1, <2>4 DEF Service
    <2> QED BY <1>5, <2>1, <2>2, <2>3, <2>4, <2>5
<1> QED BY ONLY <1>1, <1>2, <1>3, <1>4, <1>5, <1>6, <1>7, <1>8

(* A service that is opened, or refused, keeps it: it is on the object of  *)
(* its own session, or on one that was closed on an earlier connection.    *)
LEMMA OpeningIInv ==
    ASSUME IInv, inbox # <<>>, inbox' = Tail(inbox), Head(inbox).type = "instruction",
           UNCHANGED <<link, connects, srv, place, told, sent, echoed>>,
           NEW kind \in {"echo", "thread", "task", "refused"}, NEW doing \in {"idle", "done"},
           Opens(Head(inbox).session, kind, doing, Head(inbox).port),
           SendsNoData(Head(inbox).session, Head(inbox).port)
    PROVE  IInv'
<1> USE DEF IInv
<1>1. PICK k0, p, c0 : /\ k0 = Head(inbox).session /\ p = Head(inbox).port
                       /\ c0 = channels[p]
    OBVIOUS
<1>2. /\ k0 \in Opened /\ k0 \in Sessions /\ p \in Ports /\ p = PortOf(k0)
      /\ place[k0].connect = connects
      /\ ~Has(In', "notify_open", k0) /\ ~Has(In', "instruction", k0)
      /\ Holds(k0) \/ Stale(p)
    BY <1>1, OpeningObjects
<1>3. /\ outbox' \in Seq(Packet) /\ EchoInOrder(outbox)' /\ (link = "down" => outbox' = <<>>)
      /\ \A f \in Out' \ Out : ~IsData(f) /\ f.session = k0 /\ f.port = p
      /\ \A j \in Sessions : \A n : GivesBack(Out', j, n) <=> GivesBack(Out, j, n)
    BY <1>1 DEF SendsNoData
<1>4. c0 \in 1..Len(chan) /\ chan[c0].number = p /\ channels[p] = c0 /\ c0 # None
    BY <1>1, OpeningObjects
<1>5. service[k0].kind = "none" /\ k0 \in told
    BY <1>1, OpeningObjects
<1>6. service[k0] = NoService
    BY <1>1, OpeningObjects
<1>7. channels' = channels /\ channels \in [Ports -> Nat]
    BY <1>1, OpeningObjects
<1>8. chan \in Seq(Channel) /\ chan[c0] \in Channel /\ Len(chan) \in Nat /\ DOMAIN chan = 1..Len(chan)
    BY <1>1, OpeningObjects
<1>9. /\ chan' \in Seq(Channel) /\ Len(chan') = Len(chan)
      /\ \A c \in 1..Len(chan) :
             /\ chan'[c].number = chan[c].number /\ chan'[c].session = chan[c].session
             /\ chan'[c].closed = chan[c].closed /\ chan'[c].deque = chan[c].deque
             /\ c # c0 => chan'[c].user = chan[c].user
      /\ chan'[c0].user = IF kind \in {"echo", "thread"} THEN k0 ELSE chan[c0].user
    BY <1>1, OpeningObjects
<1>10. /\ service' \in [Sessions -> Service]
       /\ service'[k0].kind = kind /\ service'[k0].on = c0
       /\ service'[k0].got = <<>> /\ service'[k0].ends = 0
       /\ \A k \in Sessions \ {k0} : service'[k] = service[k]
       /\ service'[k0].got = service[k0].got
    BY <1>1, OpeningObjects
<1>11. /\ inbox' \in Seq(Event) /\ In' \subseteq In
       /\ \A t, k : Has(In, t, k) <=> (t = "instruction" /\ k = k0) \/ Has(In', t, k)
       /\ \A k : Mentions(In, k) <=> k = k0 \/ Mentions(In', k)
       /\ Drops(In) <=> Drops(In')
    BY <1>1, EventTaken DEF OfSession
<1>12. /\ Opened' = Opened /\ PlacesStay
       /\ \A k : PortOf(k)' = PortOf(k) /\ (Afresh(k)' <=> Afresh(k))
       /\ InOrder(inbox)' /\ ServerCoherent' /\ LinkCoherent'
    BY <1>3, Handled
<1>13. EventsFit'
    <2>1. ASSUME NEW e \in In', e.type = "instruction" PROVE service'[e.session].kind = "none"
        <3>1. e.session \in Opened /\ service[e.session].kind = "none"
            BY <1>11, <2>1 DEF EventsFit, OfSession
        <3>2. e.session # k0
            BY <1>2, <2>1 DEF Has
        <3> QED BY <1>10, <3>1, <3>2, Numbers
    <2> QED BY <2>1, Handled
<1>14. Shapes'
    BY <1>7, <1>9, <1>10, <1>11, <1>12, <1>3 DEF Shapes
<1>15. TableCoherent'
    <2>1. ASSUME NEW c \in 1..Len(chan), ~chan[c].closed
          PROVE  chan'[c].user \in {None, chan[c].session}
        <3>1. CASE c # c0
            BY <1>9, <2>1, <3>1 DEF TableCoherent
        <3>2. CASE c = c0
            <4>1. Holds(k0)
                BY <1>2, <1>4, <2>1, <3>2 DEF Stale
            <4>2. chan[c0].session = k0
                BY <1>2, <1>4, <4>1 DEF Holds, Object
            <4>3. chan[c0].user \in {None, k0}
                BY <2>1, <3>2, <4>2 DEF TableCoherent
            <4> QED BY <1>9, <3>2, <4>2, <4>3
        <3> QED BY <3>1, <3>2
    <2> QED BY <1>7, <1>9, <1>12, <2>1 DEF TableCoherent
<1>16. \A x \in Ports : Stale(x)' <=> Stale(x)
    BY <1>7, <1>9 DEF Stale, TableCoherent
<1>17. StaleIsOld'
    <2> SUFFICES ASSUME NEW x \in Ports, Stale(x)'
                 PROVE  place[chan'[channels'[x]].session].connect < connects
        BY DEF StaleIsOld
    <2>1. Stale(x) /\ channels[x] \in 1..Len(chan)
        BY <1>16 DEF Stale, TableCoherent
    <2> QED BY <1>7, <1>9, <2>1 DEF StaleIsOld
<1>18. \A k \in Opened : /\ k \in Sessions /\ PortOf(k) \in Ports
                         /\ Holds(k)' <=> Holds(k)
                         /\ Kept(k)' = Kept(k)
    <2> SUFFICES ASSUME NEW k \in Opened
                 PROVE  (Holds(k)' <=> Holds(k)) /\ Kept(k)' = Kept(k)
        BY Numbers
    <2>1. k \in Sessions /\ PortOf(k) \in Ports
        BY Numbers
    <2>2. Object(k)' = Object(k) /\ (Object(k) # None => Object(k) \in 1..Len(chan))
        BY <1>7, <1>12, <2>1 DEF Object, TableCoherent
    <2>3. Holds(k)' <=> Holds(k)
        BY <1>9, <2>2 DEF Holds
    <2>4. service'[k].got = service[k].got
        BY <1>10, <2>1
    <2> QED BY <1>9, <2>2, <2>3, <2>4 DEF Kept, Holds
<1>19. \A k \in Sessions \ {k0} : service[k].kind # "none" => Early(k)' = Early(k)
    BY <1>9, <1>10 DEF Early, ServiceOnObject
<1>20. ServiceOnObject'
    <2>1. \A k \in Sessions : k \notin told \/ service'[k].kind = "none" => service'[k] = NoService
        BY <1>5, <1>10 DEF ServiceOnObject
    <2>2. ASSUME NEW k \in Sessions, service'[k].kind # "none"
          PROVE  LET c == service'[k].on IN
                 /\ c \in 1..Len(chan) /\ chan'[c].number = PortOf(k)
                 /\ ~chan'[c].closed =>
                       /\ chan'[c].session = k
                       /\ chan'[c].user = IF service'[k].kind \in {"echo", "thread"} THEN k ELSE None
                 /\ service'[k].kind \notin {"echo", "thread"} => service'[k].got = <<>>
        <3>1. CASE k = k0
            <4>1. ASSUME ~chan[c0].closed
                  PROVE  /\ chan[c0].session = k0
                         /\ kind \notin {"echo", "thread"} => chan[c0].user = None
                <5>1. Holds(k0)
                    BY <1>2, <1>4, <4>1 DEF Stale
                <5>2. chan[c0].session = k0
                    BY <1>2, <1>4, <5>1 DEF Holds, Object
                <5>3. chan[c0].user \in {None, k0}
                    BY <1>4, <4>1, <5>2 DEF TableCoherent
                <5>4. chan[c0].user # k0
                    BY <1>2, <1>4, <1>5, <4>1, Numbers DEF ServiceOnObject
                <5> QED BY <5>2, <5>3, <5>4
            <4> QED BY <1>2, <1>4, <1>9, <1>10, <3>1, <4>1
        <3>2. CASE k # k0
            <4>1. service'[k] = service[k] /\ service[k].kind # "none"
                BY <1>10, <2>2, <3>2
            <4>2. /\ service[k].on \in 1..Len(chan) /\ chan[service[k].on].number = PortOf(k)
                  /\ ~chan[service[k].on].closed =>
                        /\ chan[service[k].on].session = k
                        /\ chan[service[k].on].user = IF service[k].kind \in {"echo", "thread"} THEN k ELSE None
                  /\ service[k].kind \notin {"echo", "thread"} => service[k].got = <<>>
                BY <4>1 DEF ServiceOnObject
            <4>3. ~chan[service[k].on].closed => service[k].on # c0
                <5> SUFFICES ASSUME ~chan[c0].closed, service[k].on = c0 PROVE FALSE
                    OBVIOUS
                <5>1. Holds(k0)
                    BY <1>2, <1>4 DEF Stale
                <5>2. chan[c0].session = k0
                    BY <1>2, <1>4, <5>1 DEF Holds, Object
                <5> QED BY <3>2, <4>2, <5>2
            <4> QED BY <1>9, <4>1, <4>2, <4>3
        <3> QED BY <3>1, <3>2
    <2>3. ASSUME NEW c \in 1..Len(chan), ~chan'[c].closed, chan'[c].user # None
          PROVE  service'[chan'[c].user].kind # "none" /\ service'[chan'[c].user].on = c
        <3>1. CASE c = c0 /\ kind \in {"echo", "thread"}
            BY <1>9, <1>10, <3>1
        <3>2. CASE c # c0 \/ kind \notin {"echo", "thread"}
            <4>1. ~chan[c].closed /\ chan'[c].user = chan[c].user /\ chan[c].user \in Sessions
                BY <1>9, <2>3, <3>2, ObjectFields
            <4>2. service[chan[c].user].kind # "none" /\ service[chan[c].user].on = c
                BY <2>3, <4>1 DEF ServiceOnObject
            <4> QED BY <1>5, <1>10, <4>1, <4>2
        <3> QED BY <3>1, <3>2
    <2> QED BY <1>9, <1>12, <2>1, <2>2, <2>3 DEF ServiceOnObject
<1>21. EndsTold'
    <2> SUFFICES ASSUME NEW k \in Sessions
                 PROVE  IF service'[k].kind = "thread" /\ chan'[service'[k].on].closed
                        THEN service'[k].ends = 1 \/ (service'[k].ends = 0 /\ Afresh(k))
                        ELSE service'[k].ends = 0
        BY <1>12 DEF EndsTold
    <2>1. CASE k # k0
        <3>1. service'[k] = service[k]
            BY <1>10, <2>1
        <3>2. service[k].kind = "thread" =>
                  chan'[service[k].on].closed = chan[service[k].on].closed
            BY <1>9 DEF ServiceOnObject
        <3> QED BY <3>1, <3>2 DEF EndsTold
    <2>2. CASE k = k0
        <3>1. ASSUME chan[c0].closed PROVE Afresh(k0)
            <4>1. Stale(p)
                BY <1>4, <3>1 DEF Stale
            <4>2. place[chan[c0].session].connect < place[k0].connect
                BY <1>2, <1>4, <4>1 DEF StaleIsOld
            <4>3. chan[c0].session \in Opened /\ place[chan[c0].session].port = place[k0].port
                BY <1>2, <1>4 DEF TableCoherent, PortOf
            <4> QED BY <4>2, <4>3 DEF Afresh
        <3> QED BY <1>4, <1>9, <1>10, <2>2, <3>1
    <2> QED BY <2>1, <2>2
<1>22. Len(service[k0].got) = 0 /\ Len(service'[k0].got) = 0 /\ Len(echoed[k0]) = 0
    <2>1. \A i \in 1..Len(echoed[k0]) : FALSE
        BY <1>2, <1>5 DEF RunsFromEarly
    <2>2. Len(echoed[k0]) \in Nat
        BY <1>2, Counts
    <2>3. Len(echoed[k0]) = 0
        BY <2>1, <2>2
    <2> QED BY <1>10, <2>3, EmptySeq
<1>23. RunsFromEarly'
    <2> SUFFICES ASSUME NEW k \in Sessions
                 PROVE  /\ \A i \in 1..Len(service'[k].got) : service'[k].got[i] = <<k, Early(k)' + i>>
                        /\ \A i \in 1..Len(echoed[k]) :
                               service'[k].kind = "echo" /\ echoed[k][i] = <<k, Early(k)' + i>>
        BY DEF RunsFromEarly
    <2>1. CASE k = k0
        <3>1. 1..0 = {}
            OBVIOUS
        <3> QED BY <1>22, <2>1, <3>1
    <2>2. CASE k # k0 /\ service[k].kind # "none"
        BY <1>10, <1>19, <2>2 DEF RunsFromEarly
    <2>3. CASE k # k0 /\ service[k].kind = "none"
        <3>1. service'[k] = service[k] /\ service[k].got = <<>>
            BY <1>10, <2>3 DEF ServiceOnObject, NoService
        <3>2. Len(service'[k].got) = 0 /\ 1..0 = {}
            BY <3>1, EmptySeq
        <3> QED BY <2>3, <3>2 DEF RunsFromEarly
    <2> QED BY <2>1, <2>2, <2>3
<1>24. PacketsFit'
    <2> SUFFICES ASSUME NEW f \in Out', f.type \in {"request_send", "request_close"}
                 PROVE  /\ f.session \in Opened /\ f.port = PortOf(f.session)
                        /\ IsData(f) => /\ service'[f.session].kind = "echo"
                                        /\ f.data[1] = f.session
                                        /\ f.data[2] <= Early(f.session)'
                                                            + Len(service'[f.session].got)
        BY <1>12 DEF PacketsFit, Early
    <2>1. CASE f \in Out
        <3>1. /\ f.session \in Opened /\ f.port = PortOf(f.session)
              /\ IsData(f) => /\ service[f.session].kind = "echo" /\ f.data[1] = f.session
                              /\ f.data[2] <= Early(f.session) + Len(service[f.session].got)
            BY <2>1 DEF PacketsFit
        <3>2. service[f.session].kind = "echo" =>
                  service'[f.session] = service[f.session] /\ Early(f.session)' = Early(f.session)
            <4>1. f.session \in Sessions
                BY <3>1, Numbers
            <4> QED BY <1>5, <1>10, <1>19, <4>1
        <3> QED BY <3>1, <3>2
    <2>2. CASE f \notin Out
        BY <1>2, <1>3, <2>2
    <2> QED BY <2>1, <2>2
<1>25. EchoComes'
    <2> SUFFICES ASSUME NEW k \in Opened, srv[PortOf(k)] = k, service'[k].kind = "echo"
                 PROVE  /\ Len(echoed[k]) <= Len(service'[k].got)
                        /\ \A n \in Nat : GivesBack(Out', k, n) <=>
                               n \in (Early(k)' + Len(echoed[k]) + 1)..
                                         (Early(k)' + Len(service'[k].got))
        BY <1>12 DEF EchoComes
    <2>1. k \in Sessions
        BY Numbers
    <2>2. CASE k = k0
        <3>1. Early(k)' \in Nat
            <4>1. Early(k)' = Len(chan[c0].deque)
                BY <1>4, <1>9, <1>10, <2>2 DEF Early
            <4> QED BY <1>4, <4>1, ObjectFields
        <3>2. \A n \in Nat : ~GivesBack(Out, k, n)
            <4> SUFFICES ASSUME NEW n \in Nat, GivesBack(Out, k, n) PROVE FALSE
                OBVIOUS
            <4>1. PICK f \in Out : f.type = "request_send" /\ f.session = k /\ f.data = <<k, n>>
                BY DEF GivesBack
            <4>2. IsData(f)
                BY <2>1, <4>1, Numbers DEF IsData, NoData
            <4> QED BY <1>5, <2>2, <4>1, <4>2 DEF PacketsFit
        <3>3. \A n \in Nat : n \notin (Early(k)' + 0 + 1)..(Early(k)' + 0)
            BY <3>1
        <3> QED BY <1>22, <1>3, <2>1, <2>2, <3>2, <3>3
    <2>3. CASE k # k0
        <3>1. service'[k] = service[k] /\ Early(k)' = Early(k)
            BY <1>10, <1>19, <2>1, <2>3
        <3> QED BY <1>3, <2>1, <3>1 DEF EchoComes
    <2> QED BY <2>2, <2>3
<1>26. SessionsEnd' /\ OneAfterAnother' /\ SessionsBegin'
    <2>1. \A k \in Opened : Mentions(In', k) => Mentions(In, k)
        BY <1>11
    <2>2. \A t \in {"notify_open", "notify_close"} : \A k : Has(In', t, k) <=> Has(In, t, k)
        BY <1>11
    <2>3. \A k \in Opened : Has(In, "notify_open", k) => service'[k].kind = "none"
        BY <1>2, <1>10, <1>18, <2>2 DEF SessionsBegin
    <2> QED BY <1>11, <1>12, <1>16, <1>18, <2>1, <2>2, <2>3, SessionsStay
<1>27. DataInOrder'
    <2> SUFFICES ASSUME NEW k \in Opened, Holds(k)' \/ Has(In', "notify_open", k)
                 PROVE  DataComes(k)'
        BY <1>12 DEF DataInOrder
    <2> QED BY <1>18, OtherDataStays
<1> QED BY <1>3, <1>12, <1>13, <1>14, <1>15, <1>17, <1>20, <1>21, <1>23, <1>24, <1>25, <1>26, <1>27

LEMMA InstructionIInv == IInv /\ (OnInstruction \/ OnRefused) => IInv'
<1> SUFFICES ASSUME IInv, OnInstruction \/ OnRefused PROVE IInv'
    OBVIOUS
<1> DEFINE h == Head(inbox)
           k == h.session
           p == h.port
<1>1. /\ inbox # <<>> /\ inbox' = Tail(inbox) /\ h.type = "instruction"
      /\ UNCHANGED <<link, connects, srv, place, told, sent, echoed>>
    BY DEF OnInstruction, OnRefused, Took, server
<1>2. k \in Sessions /\ p \in Ports /\ h.kind \in Kinds
    <2>1. h \in Event
        BY <1>1, EventTaken
    <2> QED BY <1>1, <2>1, EventFields DEF OfSession
<1>3. outbox \in Seq(Packet) /\ EchoInOrder(outbox) /\ (link = "down" => outbox = <<>>)
    BY DEF IInv, Shapes, LinkCoherent
<1>4. ASSUME outbox' = outbox PROVE SendsNoData(k, p)
    <2>1. Out' = Out
        BY <1>4 DEF Out, Items
    <2> QED BY <1>3, <1>4, <2>1 DEF EchoInOrder, SendsNoData
<1>5. CASE OnInstruction
    <2>1. Opens(k, h.kind, "idle", p) /\ outbox' = outbox
        BY <1>5 DEF OnInstruction
    <2>2. h.kind \in {"echo", "thread", "task", "refused"}
        BY <1>2 DEF Kinds
    <2>3. "idle" \in {"idle", "done"} /\ SendsNoData(k, p)
        BY <1>4, <2>1
    <2> QED BY <1>1, <2>1, <2>2, <2>3, OpeningIInv
<1>6. CASE OnRefused
    <2> DEFINE a == RequestSend(p, k, NoData)
               b == RequestClose(p, k)
    <2>1. PICK kind \in {"thread", "refused"} : Opens(k, kind, "done", p)
        BY <1>6 DEF OnRefused
    <2>2. outbox' = outbox \/ SendAll(<<a, b>>)
        BY <1>6 DEF OnRefused
    <2>3. a \in Packet /\ b \in Packet /\ ~IsData(a) /\ ~IsData(b)
        BY <1>2 DEF RequestSend, RequestClose, Packet, IsData
    <2>4. a.session = k /\ a.port = p /\ b.session = k /\ b.port = p
        BY DEF RequestSend, RequestClose
    <2> HIDE DEF a, b
    <2>5. <<a, b>> \in Seq(Packet) /\ Items(<<a, b>>) = {a, b}
        <3>1. <<a, b>> \in Seq(Packet) /\ Len(<<a, b>>) = 2 /\ <<a, b>>[1] = a /\ <<a, b>>[2] = b
            BY <2>3
        <3>2. 1..2 = {1, 2}
            OBVIOUS
        <3> QED BY <3>1, <3>2 DEF Items
    <2>6. kind \in {"echo", "thread", "task", "refused"} /\ "done" \in {"idle", "done"}
        OBVIOUS
    <2>7. SendsNoData(k, p)
        <3>1. CASE outbox' = outbox
            BY <1>4, <3>1
        <3>2. CASE SendAll(<<a, b>>)
            <4>1. /\ outbox' \in Seq(Packet) /\ EchoInOrder(outbox)'
                  /\ Out' \subseteq Out \cup {a, b}
                  /\ \A j \in Sessions : \A n : GivesBack(Out', j, n) <=> GivesBack(Out, j, n)
                  /\ link = "down" => outbox' = <<>>
                BY <2>3, <2>5, <3>2, PacketsSent
            <4>2. \A f \in {a, b} : ~IsData(f) /\ f.session = k /\ f.port = p
                BY <2>3, <2>4
            <4> QED BY <4>1, <4>2 DEF SendsNoData
        <3> QED BY <2>2, <3>1, <3>2
    <2> QED BY <1>1, <2>1, <2>6, <2>7, OpeningIInv
<1> QED BY <1>5, <1>6

(* Data keeps it: it is the next of its session, and its service gets it,  *)
(* or the deque does, or no one if the object was closed long ago.         *)
LEMMA RouteTaken ==
    ASSUME IInv, inbox # <<>>, inbox' = Tail(inbox), Head(inbox).type = "route",
           UNCHANGED <<link, connects, srv, place, told, sent>>,
           NEW k, NEW p, NEW n,
           k = Head(inbox).session, p = Head(inbox).port, n = Head(inbox).data
    PROVE  /\ k \in Opened /\ k \in Sessions /\ p \in Ports /\ p = PortOf(k) /\ n \in Nat \ {0}
           /\ <<k, n>> \in Data
           /\ ~Has(In', "notify_open", k)
           /\ channels[p] \in 1..Len(chan) /\ chan[channels[p]].number = p
           /\ Holds(k) <=> ~chan[channels[p]].closed
           /\ Holds(k) => n = Kept(k) + 1
           /\ (link = "down" => outbox' = <<>>) => LinkCoherent'
           /\ (\A j \in Sessions : service'[j].kind = service[j].kind) =>
                  /\ EventsFit'
                  /\ (\A j \in Opened : Holds(j)' <=> Holds(j))
                         /\ (\A x \in Ports : Stale(x)' <=> Stale(x))
                         => SessionsEnd' /\ OneAfterAnother' /\ SessionsBegin'
           /\ Holds(k) => (Kept(k)' = Kept(k) + 1 => DataComes(k)')
<1> USE DEF IInv
<1> DEFINE h == Head(inbox)
<1>1. k = h.session /\ p = h.port /\ n = h.data
    OBVIOUS
<1>2. /\ k \in Opened /\ k \in Sessions /\ p \in Ports /\ p = PortOf(k)
      /\ ~Has(In', "notify_open", k)
      /\ Holds(k) \/ Stale(p)
      /\ \A m \in Nat : Brings(In', k, m) => m > n
    BY <1>1, SessionTaken DEF OfSession
<1>3. /\ In' \subseteq In /\ h \in In /\ h \in Event
      /\ \A t, j : Has(In, t, j) <=> (h.type = t /\ h.session = j) \/ Has(In', t, j)
      /\ \A j : Mentions(In, j) <=> j = k \/ Mentions(In', j)
      /\ \A j, m : Brings(In, j, m) <=> (j = k /\ m = n) \/ Brings(In', j, m)
      /\ Drops(In) <=> Drops(In')
    BY <1>1, EventTaken DEF OfSession
<1>4. n \in Nat \ {0} /\ <<k, n>> \in Data
    BY <1>1, <1>2, <1>3, EventFields DEF Data
<1>5. /\ Opened' = Opened /\ PlacesStay
      /\ \A j : PortOf(j)' = PortOf(j)
      /\ (link = "down" => outbox' = <<>>) => LinkCoherent'
    BY Handled
<1>6. channels[p] \in 1..Len(chan) /\ chan[channels[p]].number = p
    BY <1>2 DEF Holds, Object, Stale, TableCoherent
<1>7. Holds(k) <=> ~chan[channels[p]].closed
    BY <1>2, <1>6 DEF Holds, Object, Stale
<1>8. Kept(k) \in Nat
    BY <1>2, Counts
<1>9. Holds(k) => DataComes(k)
    BY <1>2 DEF DataInOrder
<1>10. Holds(k) => n = Kept(k) + 1
    <2> SUFFICES ASSUME Holds(k) PROVE n = Kept(k) + 1
        OBVIOUS
    <2>1. n > Kept(k) /\ \A m \in (Kept(k) + 1)..n : Brings(In, k, m)
        BY <1>3, <1>4, <1>9 DEF DataComes
    <2>2. Brings(In, k, Kept(k) + 1)
        BY <1>4, <1>8, <2>1
    <2>3. Kept(k) + 1 = n \/ Brings(In', k, Kept(k) + 1)
        BY <1>3, <2>2
    <2>4. Kept(k) + 1 \in Nat /\ ~(Kept(k) + 1 > n)
        BY <1>4, <1>8, <2>1
    <2> QED BY <1>2, <2>3, <2>4
<1>11. ASSUME Holds(k), Kept(k)' = Kept(k) + 1 PROVE DataComes(k)'
    <2>1. \A m \in Nat : Brings(In', k, m) => m > Kept(k) + 1
        BY <1>2, <1>10, <1>11
    <2>2. ASSUME NEW m \in Nat, Brings(In', k, m), NEW l \in (Kept(k) + 1 + 1)..m
          PROVE  Brings(In', k, l)
        <3>1. l \in (Kept(k) + 1)..m /\ l # n
            BY <1>8, <1>10, <1>11
        <3>2. Brings(In, k, l)
            BY <1>3, <1>9, <1>11, <2>2, <3>1 DEF DataComes
        <3> QED BY <1>3, <3>1, <3>2
    <2>3. n <= sent[k] /\ sent[k] \in Nat
        BY <1>1, <1>2, <1>3 DEF EventsFit, OfSession, Shapes
    <2>4. ASSUME srv[p] = k
          PROVE  \A l \in (Kept(k) + 1 + 1)..sent[k] : Brings(In', k, l)
        <3>1. \A l \in (Kept(k) + 1)..sent[k] : Brings(In, k, l)
            BY <1>2, <1>9, <1>11, <2>4 DEF DataComes
        <3>2. \A l \in (Kept(k) + 1 + 1)..sent[k] : l \in (Kept(k) + 1)..sent[k] /\ l # n
            BY <1>8, <1>10, <1>11, <2>3
        <3> QED BY <1>3, <3>1, <3>2
    <2> QED BY <1>2, <1>5, <1>10, <1>11, <2>1, <2>2, <2>3, <2>4 DEF DataComes
<1>12. ASSUME \A j \in Sessions : service'[j].kind = service[j].kind
       PROVE  /\ EventsFit'
              /\ (\A j \in Opened : Holds(j)' <=> Holds(j))
                     /\ (\A x \in Ports : Stale(x)' <=> Stale(x))
                     => SessionsEnd' /\ OneAfterAnother' /\ SessionsBegin'
    <2>1. EventsFit'
        <3>1. \A e \in In' : e.type = "instruction" => service'[e.session].kind = "none"
            BY <1>3, <1>12, Numbers DEF EventsFit, OfSession
        <3> QED BY <3>1, Handled
    <2>2. ASSUME \A j \in Opened : Holds(j)' <=> Holds(j),
                 \A x \in Ports : Stale(x)' <=> Stale(x)
          PROVE  SessionsEnd' /\ OneAfterAnother' /\ SessionsBegin'
        <3>1. \A j \in Opened : Mentions(In', j) => Mentions(In, j)
            BY <1>3
        <3>2. \A t \in {"notify_open", "notify_close"} : \A j : Has(In', t, j) <=> Has(In, t, j)
            BY <1>3
        <3>3. \A j \in Opened : Has(In, "notify_open", j) => service'[j].kind = "none"
            BY <1>12, Numbers DEF SessionsBegin
        <3> QED BY <1>3, <1>5, <2>2, <3>1, <3>2, <3>3, SessionsStay
    <2> QED BY <2>1, <2>2
<1> QED BY <1>1, <1>2, <1>4, <1>5, <1>6, <1>7, <1>10, <1>11, <1>12

LEMMA OneMore == \A a, b \in Nat : /\ (a + 1) + b = (a + b) + 1 /\ a + (b + 1) = (a + b) + 1
                                   /\ a + b + 1 = a + (b + 1) /\ a + b + 1 <= a + (b + 1)
    OBVIOUS

(* Packets that wait still fit when a service has been given more data.    *)
LEMMA GiftsFit ==
    ASSUME IInv, Opened' = Opened, \A j : PortOf(j)' = PortOf(j),
           \A k \in Sessions : /\ service'[k].kind = service[k].kind
                               /\ Early(k)' = Early(k)
                               /\ Len(service[k].got) <= Len(service'[k].got)
                               /\ Len(service'[k].got) \in Nat,
           NEW e \in Out, e.type \in {"request_send", "request_close"}
    PROVE  /\ e.session \in Opened' /\ e.port = PortOf(e.session)'
           /\ IsData(e) => /\ service'[e.session].kind = "echo" /\ e.data[1] = e.session
                           /\ e.data[2] <= Early(e.session)' + Len(service'[e.session].got)
<1> USE DEF IInv
<1>1. /\ e.session \in Opened /\ e.session \in Sessions /\ e.port = PortOf(e.session)
      /\ IsData(e) => /\ service[e.session].kind = "echo" /\ e.data[1] = e.session
                      /\ e.data[2] <= Early(e.session) + Len(service[e.session].got)
    BY Numbers DEF PacketsFit
<1>2. SUFFICES ASSUME IsData(e)
               PROVE  e.data[2] <= Early(e.session)' + Len(service'[e.session].got)
    BY <1>1
<1>3. /\ Early(e.session) \in Nat /\ Len(service[e.session].got) \in Nat
      /\ Len(service'[e.session].got) \in Nat
      /\ Len(service[e.session].got) <= Len(service'[e.session].got)
      /\ Early(e.session)' = Early(e.session)
    BY <1>1, <1>2, Counts
<1>4. e.data[2] \in Nat
    <2>1. outbox \in Seq(Packet)
        BY DEF Shapes
    <2>2. e \in Packet
        BY <2>1, ItemsOf DEF Out
    <2> QED BY <1>2, <2>2, PacketFields DEF IsData, Data
<1>5. e.data[2] <= Early(e.session) + Len(service[e.session].got)
    BY <1>1, <1>2
<1>6. PICK a, l, m, d : /\ a = Early(e.session) /\ l = Len(service[e.session].got)
                        /\ m = Len(service'[e.session].got) /\ d = e.data[2]
    OBVIOUS
<1>7. a \in Nat /\ l \in Nat /\ m \in Nat /\ d \in Nat /\ l <= m /\ d <= a + l
    BY ONLY <1>3, <1>4, <1>5, <1>6, Zenon
<1>8. d <= a + m
    BY ONLY <1>7
<1> QED BY ONLY <1>3, <1>6, <1>8, Zenon

(* What the three cases of OnRoute do to object c0 on port p and to its    *)
(* service, with datum n0 of session k0.                                   *)
RouteDoes(k0, p, n0, c0) ==
    \/ chan[c0].closed /\ UNCHANGED <<chan, service, outbox>>
    \/ /\ ~chan[c0].closed /\ chan[c0].user = None /\ UNCHANGED <<service, outbox>>
       /\ chan' = [chan EXCEPT ![c0].deque = Append(@, <<k0, n0>>)]
    \/ /\ ~chan[c0].closed /\ chan[c0].user # None /\ chan' = chan
       /\ service' = [service EXCEPT ![chan[c0].user].got = Append(@, <<k0, n0>>)]
       /\ IF service[chan[c0].user].kind = "echo"
          THEN Send(RequestSend(p, chan[c0].user, <<k0, n0>>)) ELSE UNCHANGED outbox

LEMMA RouteObjects ==
    ASSUME IInv, OnRoute, NEW k0, NEW p, NEW n0, NEW c0,
           k0 = Head(inbox).session, p = Head(inbox).port, n0 = Head(inbox).data,
           c0 = channels[p]
    PROVE  /\ channels' = channels /\ channels \in [Ports -> Nat] /\ c0 # None
           /\ RouteDoes(k0, p, n0, c0)
<1> USE DEF IInv
<1>1. /\ inbox # <<>> /\ inbox' = Tail(inbox) /\ Head(inbox).type = "route"
      /\ UNCHANGED <<link, connects, srv, place, told, sent, echoed>>
    BY DEF OnRoute, Took, server
<1>2. p \in Ports /\ c0 \in 1..Len(chan)
    BY <1>1, RouteTaken
<1>3. channels \in [Ports -> Nat] /\ Len(chan) \in Nat /\ c0 # None
    <2>1. channels \in [Ports -> Nat] /\ Len(chan) \in Nat /\ None = 0
        BY Numbers, LenProperties DEF Shapes
    <2> QED BY ONLY <1>2, <2>1
<1>4. channels' = channels /\ ChannelAt(p) = c0 /\ WithChannel(p, k0) = chan
    <2>1. channels' = [channels EXCEPT ![p] = ChannelAt(p)]
        BY DEF OnRoute, GetChannel
    <2> QED BY <1>2, <1>3, <2>1 DEF ChannelAt, WithChannel
<1>5. /\ IsClosed(c0) <=> chan[c0].closed
      /\ Listener(c0) = IF chan[c0].closed THEN None ELSE chan[c0].user
    BY <1>2, <1>3 DEF IsClosed, Listener
<1>6. RouteDoes(k0, p, n0, c0)
    <2>1. <<k0, n0>>[1] = k0
        OBVIOUS
    <2>2. \/ /\ Listener(c0) # None /\ UNCHANGED chan
             /\ service' = [service EXCEPT ![Listener(c0)].got = Append(@, <<k0, n0>>)]
             /\ IF service[Listener(c0)].kind = "echo"
                THEN Send(RequestSend(p, Listener(c0), <<k0, n0>>)) ELSE UNCHANGED outbox
          \/ /\ Listener(c0) = None /\ ~IsClosed(c0) /\ UNCHANGED <<service, outbox>>
             /\ chan' = [WithChannel(p, <<k0, n0>>[1]) EXCEPT
                             ![c0].deque = Append(@, <<k0, n0>>)]
          \/ /\ Listener(c0) = None /\ IsClosed(c0)
             /\ UNCHANGED <<chan, service, outbox>>
        BY <1>4, Zenon DEF OnRoute
    <2> QED BY ONLY <1>4, <1>5, <2>1, <2>2 DEF RouteDoes
<1> QED BY ONLY <1>3, <1>4, <1>6

LEMMA OnRouteIInv == IInv /\ OnRoute => IInv'
<1> SUFFICES ASSUME IInv, OnRoute PROVE IInv'
    OBVIOUS
<1> USE DEF IInv
<1>1. /\ inbox # <<>> /\ inbox' = Tail(inbox) /\ Head(inbox).type = "route"
      /\ UNCHANGED <<link, connects, srv, place, told, sent, echoed>>
    BY DEF OnRoute, Took, server
<1>2. PICK k0, p, n0 : /\ k0 = Head(inbox).session /\ p = Head(inbox).port
                       /\ n0 = Head(inbox).data
    OBVIOUS
<1>3. PICK c0 : c0 = channels[p]
    OBVIOUS
<1>4. /\ k0 \in Opened /\ k0 \in Sessions /\ p \in Ports /\ p = PortOf(k0) /\ n0 \in Nat \ {0}
      /\ <<k0, n0>> \in Data /\ ~Has(In', "notify_open", k0)
      /\ c0 \in 1..Len(chan) /\ chan[c0].number = p
      /\ Holds(k0) <=> ~chan[c0].closed
      /\ Holds(k0) => n0 = Kept(k0) + 1
      /\ (link = "down" => outbox' = <<>>) => LinkCoherent'
      /\ (\A j \in Sessions : service'[j].kind = service[j].kind) =>
             /\ EventsFit'
             /\ (\A j \in Opened : Holds(j)' <=> Holds(j))
                    /\ (\A x \in Ports : Stale(x)' <=> Stale(x))
                    => SessionsEnd' /\ OneAfterAnother' /\ SessionsBegin'
      /\ Holds(k0) => (Kept(k0)' = Kept(k0) + 1 => DataComes(k0)')
    BY <1>1, <1>2, <1>3, RouteTaken
<1>5. /\ Opened' = Opened /\ PlacesStay
      /\ \A j : PortOf(j)' = PortOf(j) /\ (Afresh(j)' <=> Afresh(j))
      /\ inbox' \in Seq(Event) /\ InOrder(inbox)' /\ ServerCoherent'
    BY <1>1, Handled
<1>6. channels' = channels /\ channels \in [Ports -> Nat] /\ c0 # None
    BY <1>2, <1>3, RouteObjects
<1>7. /\ chan \in Seq(Channel) /\ chan[c0] \in Channel /\ Len(chan) \in Nat
      /\ service \in [Sessions -> Service]
    BY <1>4, ObjectFields, LenProperties DEF Shapes
<1>8. ASSUME NEW k \in Opened, k # k0, Kept(k)' = Kept(k), Holds(k)' <=> Holds(k),
             Holds(k)' \/ Has(In', "notify_open", k)
      PROVE  DataComes(k)'
    BY <1>1, <1>2, <1>8, OtherDataStays
(* A closed object takes nothing.                                          *)
<1>9. CASE chan[c0].closed /\ UNCHANGED <<chan, service, outbox>>
    <2>1. ServicesStay /\ (link = "down" => outbox' = <<>>)
        BY <1>9 DEF ServicesStay, LinkCoherent
    <2>2. /\ \A k \in Opened : (Holds(k)' <=> Holds(k)) /\ Kept(k)' = Kept(k)
          /\ \A x : Stale(x)' <=> Stale(x)
          /\ ServiceOnObject' /\ EndsTold' /\ RunsFromEarly' /\ TableCoherent'
        BY <1>1, <1>5, <1>6, <1>9, <2>1, ObjectsStay
    <2>3. LinkCoherent' /\ EventsFit' /\ SessionsEnd' /\ OneAfterAnother' /\ SessionsBegin'
        BY <1>4, <1>9, <2>1, <2>2
    <2>4. PacketsFit' /\ EchoInOrder(outbox)' /\ EchoComes'
        <3>1. \A k \in Sessions : Early(k)' = Early(k)
            BY <1>9 DEF Early
        <3> QED BY <1>1, <1>9, <3>1, EchoesStay
    <2>5. DataInOrder'
        <3> SUFFICES ASSUME NEW k \in Opened, Holds(k)' \/ Has(In', "notify_open", k)
                     PROVE  DataComes(k)'
            BY <1>5 DEF DataInOrder
        <3>1. k # k0
            BY <1>4, <1>9, <2>2
        <3> QED BY <1>8, <2>2, <3>1
    <2>6. Shapes' /\ StaleIsOld'
        BY <1>1, <1>5, <1>6, <1>9, <2>2 DEF Shapes, StaleIsOld
    <2> QED BY <1>5, <2>2, <2>3, <2>4, <2>5, <2>6
(* No one listens yet: it is put in the deque.                             *)
<1>10. CASE /\ ~chan[c0].closed /\ chan[c0].user = None /\ UNCHANGED <<service, outbox>>
            /\ chan' = [chan EXCEPT ![c0].deque = Append(@, <<k0, n0>>)]
    <2>1. /\ Holds(k0) /\ Object(k0) = c0
        BY <1>3, <1>4, <1>10 DEF Object
    <2>2. chan[c0].deque \in Seq(Data) /\ Len(chan[c0].deque) \in Nat
        BY <1>4, ObjectFields
    <2>3. /\ Append(chan[c0].deque, <<k0, n0>>) \in Seq(Data)
          /\ Len(Append(chan[c0].deque, <<k0, n0>>)) = Len(chan[c0].deque) + 1
        BY <1>4, <2>2, AppendProperties
    <2> DEFINE o == [chan[c0] EXCEPT !.deque = Append(chan[c0].deque, <<k0, n0>>)]
    <2>4. /\ o \in Channel /\ o.number = chan[c0].number /\ o.session = chan[c0].session
          /\ o.closed = chan[c0].closed /\ o.user = chan[c0].user
          /\ Len(o.deque) = Len(chan[c0].deque) + 1
        BY <1>7, <2>3 DEF Channel
    <2>5. chan' = [chan EXCEPT ![c0] = o]
        BY <1>10
    <2> HIDE DEF o
    <2>6. /\ chan' \in Seq(Channel) /\ Len(chan') = Len(chan) /\ chan'[c0] = o
          /\ \A c \in 1..Len(chan) : c # c0 => chan'[c] = chan[c]
        BY <1>4, <1>7, <2>4, <2>5
    <2>7. \A c \in 1..Len(chan) :
              /\ chan'[c].number = chan[c].number /\ chan'[c].session = chan[c].session
              /\ chan'[c].closed = chan[c].closed /\ chan'[c].user = chan[c].user
              /\ c # c0 => chan'[c].deque = chan[c].deque
        BY <2>4, <2>6
    <2>8. chan[c0].session = k0
        BY <2>1 DEF Holds
    <2>9. /\ \A k \in Opened : Holds(k)' <=> Holds(k)
          /\ \A x \in Ports : Stale(x)' <=> Stale(x)
        <3>1. \A k \in Opened : Object(k)' = Object(k) /\ (Object(k) # None => Object(k) \in 1..Len(chan))
            BY <1>5, <1>6, Numbers DEF Object, TableCoherent
        <3>2. \A k \in Opened : Holds(k)' <=> Holds(k)
            BY <2>7, <3>1 DEF Holds
        <3>3. \A x \in Ports : Stale(x)' <=> Stale(x)
            BY <1>6, <2>7 DEF Stale, TableCoherent
        <3> QED BY <3>2, <3>3
    <2>10. (link = "down" => outbox' = <<>>)
        BY <1>10 DEF LinkCoherent
    <2>11. LinkCoherent' /\ EventsFit' /\ SessionsEnd' /\ OneAfterAnother' /\ SessionsBegin'
        BY <1>4, <1>10, <2>9, <2>10
    <2>12. Shapes'
        BY <1>1, <1>5, <1>6, <1>10, <2>6 DEF Shapes
    <2>13. TableCoherent'
        BY <1>1, <1>5, <1>6, <2>6, <2>7 DEF TableCoherent
    <2>14. StaleIsOld'
        <3> SUFFICES ASSUME NEW x \in Ports, Stale(x)'
                     PROVE  place[chan'[channels'[x]].session].connect < connects
            BY <1>1 DEF StaleIsOld
        <3>1. Stale(x) /\ channels[x] \in 1..Len(chan)
            BY <2>9 DEF Stale, TableCoherent
        <3> QED BY <1>1, <1>6, <2>7, <3>1 DEF StaleIsOld
    <2>15. ServiceOnObject' /\ EndsTold'
        <3>1. ServiceOnObject'
            <4>1. \A k \in Sessions : k \notin told \/ service[k].kind = "none" => service[k] = NoService
                BY DEF ServiceOnObject
            <4>2. ASSUME NEW k \in Sessions, service[k].kind # "none"
                  PROVE  LET c == service[k].on IN
                         /\ c \in 1..Len(chan) /\ chan'[c].number = PortOf(k)
                         /\ ~chan'[c].closed =>
                               /\ chan'[c].session = k
                               /\ chan'[c].user = IF service[k].kind \in {"echo", "thread"} THEN k ELSE None
                         /\ service[k].kind \notin {"echo", "thread"} => service[k].got = <<>>
                BY <2>7, <4>2 DEF ServiceOnObject
            <4>3. ASSUME NEW c \in 1..Len(chan), ~chan'[c].closed, chan'[c].user # None
                  PROVE  service[chan'[c].user].kind # "none" /\ service[chan'[c].user].on = c
                BY <2>7, <4>3 DEF ServiceOnObject
            <4> QED BY <1>1, <1>5, <1>10, <2>6, <4>1, <4>2, <4>3 DEF ServiceOnObject
        <3>2. EndsTold'
            <4> SUFFICES ASSUME NEW k \in Sessions
                         PROVE  IF service[k].kind = "thread" /\ chan'[service[k].on].closed
                                THEN service[k].ends = 1 \/ (service[k].ends = 0 /\ Afresh(k))
                                ELSE service[k].ends = 0
                BY <1>5, <1>10 DEF EndsTold
            <4>1. service[k].kind = "thread" => chan'[service[k].on].closed = chan[service[k].on].closed
                BY <2>7 DEF ServiceOnObject
            <4> QED BY <4>1 DEF EndsTold
        <3> QED BY <3>1, <3>2
    <2>16. \A k \in Sessions : service[k].kind \in {"echo", "thread"} => Early(k)' = Early(k)
        <3> SUFFICES ASSUME NEW k \in Sessions, service[k].kind \in {"echo", "thread"}
                     PROVE  Early(k)' = Early(k)
            OBVIOUS
        <3>1. service[k].on \in 1..Len(chan) /\ service[k].on # c0
            BY <1>10, Numbers DEF ServiceOnObject
        <3> QED BY <1>10, <2>7, <3>1 DEF Early
    <2>17. RunsFromEarly'
        <3> SUFFICES ASSUME NEW k \in Sessions
                     PROVE  /\ \A i \in 1..Len(service[k].got) : service[k].got[i] = <<k, Early(k)' + i>>
                            /\ \A i \in 1..Len(echoed[k]) :
                                   service[k].kind = "echo" /\ echoed[k][i] = <<k, Early(k)' + i>>
            BY <1>1, <1>10 DEF RunsFromEarly
        <3>1. CASE service[k].kind \in {"echo", "thread"}
            BY <2>16, <3>1 DEF RunsFromEarly
        <3>2. CASE service[k].kind \notin {"echo", "thread"}
            <4>1. service[k].got = <<>>
                BY <3>2 DEF ServiceOnObject, NoService
            <4>2. Len(service[k].got) = 0 /\ 1..0 = {}
                BY <4>1, EmptySeq
            <4> QED BY <3>2, <4>2 DEF RunsFromEarly
        <3> QED BY <3>1, <3>2
    <2>18. PacketsFit' /\ EchoInOrder(outbox)' /\ EchoComes'
        BY <1>1, <1>10, <2>16, EchoesStay
    <2>19. Kept(k0)' = Kept(k0) + 1
        <3>1. Object(k0)' = c0 /\ Holds(k0)'
            BY <1>4, <1>5, <1>6, <2>1, <2>9 DEF Object
        <3>2. Len(service[k0].got) \in Nat
            BY <1>4, Counts
        <3>3. Kept(k0)' = Len(o.deque) + Len(service[k0].got)
            BY <1>10, <2>6, <3>1 DEF Kept
        <3>4. Kept(k0) = Len(chan[c0].deque) + Len(service[k0].got)
            BY <2>1 DEF Kept
        <3>5. Len(o.deque) = Len(chan[c0].deque) + 1 /\ Len(chan[c0].deque) \in Nat
            BY <2>2, <2>4
        <3> QED BY ONLY <3>2, <3>3, <3>4, <3>5, OneMore, Zenon
    <2>20. \A k \in Opened \ {k0} : Kept(k)' = Kept(k)
        <3> SUFFICES ASSUME NEW k \in Opened \ {k0} PROVE Kept(k)' = Kept(k)
            OBVIOUS
        <3>1. CASE ~Holds(k)
            BY <2>9, <3>1 DEF Kept
        <3>2. CASE Holds(k)
            <4>1. Object(k)' = Object(k) /\ Object(k) \in 1..Len(chan) /\ Object(k) # c0
                BY <1>5, <1>6, <2>8, <3>2, Numbers DEF Object, Holds, TableCoherent
            <4>2. Holds(k)' /\ chan'[Object(k)'].deque = chan[Object(k)].deque
                BY <2>7, <2>9, <3>2, <4>1
            <4>3. Kept(k)' = Len(chan'[Object(k)'].deque) + Len(service'[k].got)
                BY ONLY <4>2 DEF Kept
            <4>4. Kept(k) = Len(chan[Object(k)].deque) + Len(service[k].got)
                BY ONLY <3>2 DEF Kept
            <4>5. service'[k] = service[k]
                BY <1>10
            <4> QED BY ONLY <4>2, <4>3, <4>4, <4>5
        <3> QED BY <3>1, <3>2
    <2>21. DataInOrder'
        <3> SUFFICES ASSUME NEW k \in Opened, Holds(k)' \/ Has(In', "notify_open", k)
                     PROVE  DataComes(k)'
            BY <1>5 DEF DataInOrder
        <3>1. CASE k = k0
            BY <1>4, <1>5, <2>1, <2>19, <3>1
        <3>2. CASE k # k0
            BY <1>8, <2>9, <2>20, <3>2
        <3> QED BY <3>1, <3>2
    <2> QED BY <1>5, <2>11, <2>12, <2>13, <2>14, <2>15, <2>17, <2>18, <2>21
(* The service is called with it, and an EchoService gives it back.        *)
<1>11. CASE /\ ~chan[c0].closed /\ chan[c0].user # None /\ chan' = chan
            /\ service' = [service EXCEPT ![chan[c0].user].got = Append(@, <<k0, n0>>)]
            /\ IF service[chan[c0].user].kind = "echo"
               THEN Send(RequestSend(p, chan[c0].user, <<k0, n0>>)) ELSE UNCHANGED outbox
    <2>1. /\ Holds(k0) /\ Object(k0) = c0 /\ chan[c0].session = k0
        BY <1>3, <1>4, <1>11 DEF Object, Holds
    <2>2. chan[c0].user = k0
        BY <1>4, <1>11, <2>1 DEF TableCoherent
    <2>3. service[k0].kind \in {"echo", "thread"} /\ service[k0].on = c0
        BY <1>4, <1>11, <2>1, <2>2, Numbers DEF ServiceOnObject
    <2> DEFINE g == Append(service[k0].got, <<k0, n0>>)
    <2>4. /\ service[k0] \in Service /\ service[k0].got \in Seq(Data) /\ Len(service[k0].got) \in Nat
          /\ echoed[k0] \in Seq(Data) /\ Len(echoed[k0]) \in Nat
          /\ Early(k0) \in Nat
        BY <1>4, <2>3, Counts
    <2>5. /\ g \in Seq(Data) /\ Len(g) = Len(service[k0].got) + 1
          /\ \A i \in 1..Len(service[k0].got) : g[i] = service[k0].got[i]
          /\ g[Len(service[k0].got) + 1] = <<k0, n0>>
        BY <1>4, <2>4, AppendProperties
    <2> HIDE DEF g
    <2>6. service' = [service EXCEPT ![k0] = [service[k0] EXCEPT !.got = g]]
        BY <1>4, <1>11, <2>2 DEF g
    <2>7. /\ [service[k0] EXCEPT !.got = g] \in Service
          /\ service' \in [Sessions -> Service]
          /\ service'[k0] = [service[k0] EXCEPT !.got = g]
          /\ \A k \in Sessions \ {k0} : service'[k] = service[k]
        <3>1. [service[k0] EXCEPT !.got = g] \in Service
            BY <2>4, <2>5 DEF Service
        <3> QED BY <1>4, <1>7, <2>6, <3>1
    <2>8. /\ service'[k0].got = g /\ service'[k0].kind = service[k0].kind
          /\ service'[k0].on = service[k0].on /\ service'[k0].ends = service[k0].ends
        BY <2>4, <2>7 DEF Service
    <2>9. /\ \A k \in Sessions : /\ service'[k].kind = service[k].kind
                                 /\ service'[k].on = service[k].on
                                 /\ service'[k].ends = service[k].ends
                                 /\ Early(k)' = Early(k)
          /\ \A k \in Sessions \ {k0} : service'[k].got = service[k].got
        <3>1. \A k \in Sessions : /\ service'[k].kind = service[k].kind
                                  /\ service'[k].on = service[k].on
                                  /\ service'[k].ends = service[k].ends
            BY <2>7, <2>8
        <3>2. \A k \in Sessions : Early(k)' = Early(k)
            BY <1>11, <3>1 DEF Early
        <3> QED BY <2>7, <3>1, <3>2
    <2>10. /\ \A k \in Opened : (Holds(k)' <=> Holds(k)) /\ Object(k)' = Object(k)
           /\ \A x \in Ports : Stale(x)' <=> Stale(x)
        BY <1>5, <1>6, <1>11 DEF Holds, Object, Stale
    <2>11. Kept(k0) = Early(k0) + Len(service[k0].got)
        BY <2>1, <2>3 DEF Kept, Early
    <2>12. n0 = Early(k0) + Len(service[k0].got) + 1
        BY <1>4, <2>1, <2>4, <2>11
    <2>13. Kept(k0)' = Kept(k0) + 1
        <3>1. Kept(k0)' = Len(chan[c0].deque) + Len(g)
            BY <1>4, <1>11, <2>1, <2>8, <2>10 DEF Kept
        <3>2. Early(k0) = Len(chan[c0].deque)
            BY <2>3 DEF Early
        <3>3. /\ Len(g) = Len(service[k0].got) + 1 /\ Len(service[k0].got) \in Nat
              /\ Early(k0) \in Nat
            BY <2>4, <2>5
        <3> QED BY ONLY <2>11, <3>1, <3>2, <3>3, OneMore, Zenon
    <2>14. TableCoherent' /\ StaleIsOld'
        BY <1>1, <1>5, <1>6, <1>11, <2>10 DEF TableCoherent, StaleIsOld
    <2>15. ServiceOnObject'
        <3>1. \A k \in Sessions : k \notin told \/ service'[k].kind = "none" => service'[k] = NoService
            BY <2>3, <2>7, <2>9 DEF ServiceOnObject, NoService
        <3>2. ASSUME NEW k \in Sessions, service[k].kind # "none"
              PROVE  LET c == service[k].on IN
                     /\ c \in 1..Len(chan) /\ chan[c].number = PortOf(k)
                     /\ ~chan[c].closed =>
                           /\ chan[c].session = k
                           /\ chan[c].user = IF service[k].kind \in {"echo", "thread"} THEN k ELSE None
                     /\ service[k].kind \notin {"echo", "thread"} => service'[k].got = <<>>
            BY <2>3, <2>9, <3>2 DEF ServiceOnObject
        <3>3. ASSUME NEW c \in 1..Len(chan), ~chan[c].closed, chan[c].user # None
              PROVE  service'[chan[c].user].kind # "none" /\ service'[chan[c].user].on = c
            <4>1. chan[c].user \in Sessions
                BY <3>3, ObjectFields
            <4> QED BY <2>9, <3>3, <4>1 DEF ServiceOnObject
        <3> QED BY <1>1, <1>5, <1>11, <2>9, <3>1, <3>2, <3>3 DEF ServiceOnObject
    <2>16. EndsTold'
        BY <1>5, <1>11, <2>9 DEF EndsTold
    <2>17. RunsFromEarly'
        <3>1. ASSUME NEW k \in Sessions, NEW i \in 1..Len(service'[k].got)
              PROVE  service'[k].got[i] = <<k, Early(k) + i>>
            <4>1. CASE k # k0
                BY <2>9, <3>1, <4>1 DEF RunsFromEarly
            <4>2. CASE k = k0 /\ i \in 1..Len(service[k0].got)
                BY <1>4, <2>5, <2>8, <4>2 DEF RunsFromEarly
            <4>3. CASE k = k0 /\ i = Len(service[k0].got) + 1
                <5>1. Early(k0) + i = n0
                    <6>1. Early(k0) \in Nat /\ Len(service[k0].got) \in Nat
                        BY <2>4
                    <6> QED BY ONLY <2>12, <4>3, <6>1, OneMore, Zenon
                <5> QED BY <2>5, <2>8, <4>3, <5>1
            <4>4. k = k0 => i \in 1..Len(service[k0].got) \/ i = Len(service[k0].got) + 1
                BY <2>4, <2>5, <2>8, <3>1
            <4> QED BY <4>1, <4>2, <4>3, <4>4
        <3> QED BY <1>1, <2>9, <3>1 DEF RunsFromEarly
    <2>18. DataInOrder'
        <3> SUFFICES ASSUME NEW k \in Opened, Holds(k)' \/ Has(In', "notify_open", k)
                     PROVE  DataComes(k)'
            BY <1>5 DEF DataInOrder
        <3>1. CASE k = k0
            BY <1>4, <1>5, <2>1, <2>13, <3>1
        <3>2. CASE k # k0
            <4>1. Kept(k)' = Kept(k)
                <5>1. /\ Holds(k)' <=> Holds(k)
                      /\ Object(k)' = Object(k) /\ chan' = chan /\ service'[k].got = service[k].got
                    BY <1>11, <2>9, <2>10, <3>2, Numbers
                <5>2. Kept(k)' = IF Holds(k)' THEN Len(chan'[Object(k)'].deque) + Len(service'[k].got)
                                 ELSE 0
                    BY ONLY DEF Kept
                <5> QED BY ONLY <5>1, <5>2 DEF Kept
            <4> QED BY <1>8, <2>10, <3>2, <4>1
        <3> QED BY <3>1, <3>2
    <2>19. /\ outbox' \in Seq(Packet) /\ EchoInOrder(outbox)' /\ (link = "down" => outbox' = <<>>)
           /\ PacketsFit' /\ EchoComes'
        <3>1. CASE service[k0].kind # "echo"
            <4>1. outbox' = outbox
                BY <1>11, <2>2, <3>1
            <4>2. PacketsFit' /\ EchoInOrder(outbox)' /\ EchoComes'
                <5>1. \A k \in Sessions : service[k].kind = "echo" => service'[k].got = service[k].got
                    BY <2>9, <3>1
                <5> QED BY <1>1, <2>9, <4>1, <5>1, EchoesStay
            <4> QED BY <4>1, <4>2 DEF Shapes, LinkCoherent
        <3>2. CASE service[k0].kind = "echo"
            <4> DEFINE e == RequestSend(p, k0, <<k0, n0>>)
            <4>1. /\ e \in Packet /\ e.type = "request_send" /\ e.session = k0 /\ e.port = p
                  /\ e.data = <<k0, n0>> /\ IsData(e)
                BY <1>4, Numbers DEF RequestSend, Packet, IsData, NoData
            <4>2. outbox' = IF link = "up" THEN outbox \o <<e>> ELSE outbox
                BY <1>11, <2>2, <3>2 DEF Send, SendAll
            <4> HIDE DEF e
            <4>3. outbox \in Seq(Packet) /\ EchoInOrder(outbox)
                BY DEF Shapes
            <4>4. \A x \in Out : x \in Packet
                BY <4>3, ItemsOf DEF Out
            <4>5. ASSUME srv[p] = k0
                  PROVE  /\ Len(echoed[k0]) <= Len(service[k0].got)
                         /\ \A n \in Nat : GivesBack(Out, k0, n) <=>
                                n \in (Early(k0) + Len(echoed[k0]) + 1)..(Early(k0) + Len(service[k0].got))
                BY <1>4, <3>2, <4>5 DEF EchoComes
            <4>6. \A k \in Sessions : /\ Len(service[k].got) <= Len(service'[k].got)
                                      /\ Len(service'[k].got) \in Nat
                <5>1. \A k \in Sessions : Len(service[k].got) \in Nat
                    BY Counts
                <5>2. Len(service'[k0].got) = Len(service[k0].got) + 1
                    BY <2>5, <2>8
                <5>3. \A k \in Sessions \ {k0} : service'[k].got = service[k].got
                    BY <2>9
                <5> QED BY ONLY <5>1, <5>2, <5>3
            <4>7. \A f \in Out : f.type \in {"request_send", "request_close"} =>
                       /\ f.session \in Opened' /\ f.port = PortOf(f.session)'
                       /\ IsData(f) =>
                             /\ service'[f.session].kind = "echo" /\ f.data[1] = f.session
                             /\ f.data[2] <= Early(f.session)' + Len(service'[f.session].got)
                BY <1>5, <2>9, <4>6, GiftsFit
            <4>8. CASE link = "down"
                <5>1. outbox' = outbox /\ outbox = <<>>
                    BY <4>2, <4>8 DEF LinkCoherent
                <5>2. Out' = Out /\ EchoInOrder(outbox)'
                    BY <4>3, <5>1 DEF Out, Items, EchoInOrder
                <5>3. PacketsFit'
                    BY <4>7, <5>2 DEF PacketsFit
                <5>4. EchoComes'
                    BY <1>1, <1>5, <4>8, Numbers DEF EchoComes, LinkCoherent
                <5> QED BY <4>3, <5>1, <5>2, <5>3, <5>4
            <4>9. CASE link = "up"
                <5>1. outbox' = Append(outbox, e)
                    BY <4>1, <4>2, <4>3, <4>9, AppendIsConcat
                <5>2. Out' = Items(outbox')
                    BY DEF Out, Items
                <5>3. \A f \in Out : EchoFollows(f, e)
                    <6> SUFFICES ASSUME NEW f \in Out, IsData(f), f.session = k0
                                 PROVE  f.data[2] < n0
                        BY <4>1 DEF EchoFollows
                    <6>1. f \in Packet /\ f.type = "request_send" /\ f.data \in Data
                        BY <4>4, PacketFields DEF IsData
                    <6>2. f.data[1] = k0
                        BY <6>1 DEF PacketsFit
                    <6>3. PICK m \in Nat : f.data = <<k0, m>>
                        BY <6>1, <6>2 DEF Data
                    <6>4. GivesBack(Out, k0, m)
                        BY <6>1, <6>3 DEF GivesBack
                    <6>5. f.data[2] <= Early(k0) + Len(service[k0].got)
                        BY <6>1 DEF PacketsFit
                    <6>6. Early(k0) \in Nat /\ Len(service[k0].got) \in Nat /\ f.data[2] = m
                        BY <2>4, <6>3
                    <6> QED BY ONLY <2>12, <6>5, <6>6
                <5>4. outbox' \in Seq(Packet) /\ Out' = Out \cup {e} /\ EchoInOrder(outbox)'
                    BY <4>1, <4>3, <5>1, <5>2, <5>3, AppendItems DEF Out
                <5>5. PacketsFit'
                    <6>1. /\ k0 \in Opened' /\ p = PortOf(k0)' /\ service'[k0].kind = "echo"
                          /\ n0 <= Early(k0)' + Len(service'[k0].got)
                        <7>1. Len(service'[k0].got) = Len(service[k0].got) + 1 /\ Early(k0)' = Early(k0)
                            BY <1>4, <2>5, <2>8, <2>9
                        <7>2. n0 <= Early(k0)' + Len(service'[k0].got)
                            BY ONLY <2>4, <2>12, <7>1, OneMore, Zenon
                        <7> QED BY <1>4, <1>5, <2>8, <3>2, <7>2
                    <6>2. e.data[1] = k0 /\ e.data[2] = n0
                        BY <4>1
                    <6> QED BY <4>1, <4>7, <5>4, <6>1, <6>2 DEF PacketsFit
                <5>6. EchoComes'
                    <6>1. ASSUME NEW k \in Opened, k # k0, srv[PortOf(k)] = k, service[k].kind = "echo"
                          PROVE  /\ Len(echoed[k]) <= Len(service'[k].got)
                                 /\ \A n \in Nat : GivesBack(Out', k, n) <=>
                                        n \in (Early(k)' + Len(echoed[k]) + 1)
                                              ..(Early(k)' + Len(service'[k].got))
                        <7>1. \A n : GivesBack(Out', k, n) <=> GivesBack(Out, k, n)
                            BY <4>1, <5>4, <6>1 DEF GivesBack
                        <7>2. service'[k].got = service[k].got /\ Early(k)' = Early(k)
                            BY <2>9, <6>1, Numbers
                        <7> QED BY <6>1, <7>1, <7>2 DEF EchoComes
                    <6>2. ASSUME srv[p] = k0
                          PROVE  /\ Len(echoed[k0]) <= Len(service'[k0].got)
                                 /\ \A n \in Nat : GivesBack(Out', k0, n) <=>
                                        n \in (Early(k0)' + Len(echoed[k0]) + 1)
                                              ..(Early(k0)' + Len(service'[k0].got))
                        <7>1. \A n \in Nat : GivesBack(Out', k0, n) <=> GivesBack(Out, k0, n) \/ n = n0
                            <8>1. \A n : <<k0, n>> = <<k0, n0>> <=> n = n0
                                OBVIOUS
                            <8> QED BY <4>1, <5>4, <8>1 DEF GivesBack
                        <7>2. Len(service'[k0].got) = Len(service[k0].got) + 1 /\ Early(k0)' = Early(k0)
                            BY <1>4, <2>5, <2>8, <2>9
                        <7>3. /\ Len(echoed[k0]) <= Len(service[k0].got)
                              /\ \A n \in Nat : GivesBack(Out, k0, n) <=>
                                     n \in (Early(k0) + Len(echoed[k0]) + 1)
                                           ..(Early(k0) + Len(service[k0].got))
                            BY <4>5, <6>2
                        <7>4. PICK a, l, x : /\ a = Early(k0) /\ l = Len(service[k0].got)
                                             /\ x = Len(echoed[k0])
                            OBVIOUS
                        <7>5. a \in Nat /\ l \in Nat /\ x \in Nat /\ x <= l /\ n0 = a + l + 1
                            BY ONLY <2>4, <2>12, <7>3, <7>4, Zenon
                        <7>6. x <= l + 1 /\ \A n \in Nat : n \in (a + x + 1)..(a + l) \/ n = n0
                                                       <=> n \in (a + x + 1)..(a + (l + 1))
                            BY ONLY <7>5
                        <7>7. \A n \in Nat : GivesBack(Out, k0, n) <=> n \in (a + x + 1)..(a + l)
                            BY ONLY <7>3, <7>4, Zenon
                        <7>8. /\ Len(service'[k0].got) = l + 1 /\ Early(k0)' = a
                              /\ Len(echoed[k0]) = x
                            BY ONLY <7>2, <7>4, Zenon
                        <7>9. \A n \in Nat : GivesBack(Out', k0, n) <=> n \in (a + x + 1)..(a + (l + 1))
                            BY ONLY <7>1, <7>6, <7>7, Zenon
                        <7> QED BY ONLY <7>6, <7>8, <7>9, Zenon
                    <6>3. ASSUME NEW k \in Opened, srv[PortOf(k)] = k, service[k].kind = "echo"
                          PROVE  /\ Len(echoed[k]) <= Len(service'[k].got)
                                 /\ \A n \in Nat : GivesBack(Out', k, n) <=>
                                        n \in (Early(k)' + Len(echoed[k]) + 1)
                                              ..(Early(k)' + Len(service'[k].got))
                        <7>1. CASE k = k0
                            BY <1>4, <6>2, <6>3, <7>1
                        <7>2. CASE k # k0
                            BY <6>1, <6>3, <7>2
                        <7> QED BY <7>1, <7>2
                    <6>4. \A k \in Opened : /\ srv'[PortOf(k)'] = srv[PortOf(k)]
                                            /\ service'[k].kind = service[k].kind
                                            /\ echoed'[k] = echoed[k]
                        BY <1>1, <1>5, <2>9, Numbers
                    <6> QED BY <1>5, <6>3, <6>4 DEF EchoComes
                <5> QED BY <4>9, <5>4, <5>5, <5>6
            <4>10. link \in {"up", "down"}
                BY DEF Shapes
            <4> QED BY <4>8, <4>9, <4>10
        <3> QED BY <3>1, <3>2
    <2>20. Shapes'
        BY <1>1, <1>5, <1>6, <1>11, <2>7, <2>19 DEF Shapes
    <2>21. LinkCoherent' /\ EventsFit' /\ SessionsEnd' /\ OneAfterAnother' /\ SessionsBegin'
        BY <1>4, <2>9, <2>10, <2>19
    <2> QED BY <1>5, <2>14, <2>15, <2>16, <2>17, <2>18, <2>19, <2>20, <2>21
<1>12. RouteDoes(k0, p, n0, c0)
    BY <1>2, <1>3, RouteObjects
<1> QED BY <1>9, <1>10, <1>11, <1>12 DEF RouteDoes


-----------------------------------------------------------------------------
(* The invariant holds, and what it says of the properties.                *)

(* A step of something else keeps it.                                      *)
LEMMA StutterIInv == IInv /\ UNCHANGED vars => IInv'
<1> SUFFICES ASSUME IInv, UNCHANGED vars PROVE IInv'
    OBVIOUS
<1>1. UNCHANGED <<link, connects, inbox, outbox, channels, chan, service, srv, place, told,
                  sent, echoed>>
    BY DEF vars, agent, server
<1>2. ServicesStay
    BY <1>1 DEF ServicesStay
<1>3. outbox = <<>> \/ link = "up"
    BY DEF IInv, LinkCoherent, Shapes
<1>4. /\ TableCoherent' /\ StaleIsOld' /\ ServerCoherent' /\ EventsFit' /\ InOrder(inbox)'
      /\ SessionsEnd' /\ OneAfterAnother' /\ SessionsBegin'
      /\ ServiceOnObject' /\ EndsTold' /\ DataInOrder' /\ LinkCoherent'
    BY <1>1, <1>2, <1>3, AgentStays DEF IInv, LinkCoherent
<1>5. PlacesStay /\ (\A k \in Sessions : Early(k)' = Early(k)) /\ RunsFromEarly'
    <2>1. PlacesStay
        BY <1>1, Numbers DEF PlacesStay, Opened, IInv
    <2> QED BY <1>1, <1>2, <2>1, ObjectsStay
<1>6. PacketsFit' /\ EchoInOrder(outbox)' /\ EchoComes'
    BY <1>1, <1>5, EchoesStay
<1>7. Shapes'
    BY <1>1, <1>5 DEF IInv, Shapes, Opened
<1> QED BY <1>4, <1>5, <1>6, <1>7 DEF IInv

(* Every step keeps the invariant.                                         *)
LEMMA NextIInv == IInv /\ [Next]_vars => IInv'
<1> SUFFICES ASSUME IInv, [Next]_vars PROVE IInv'
    OBVIOUS
<1>1. CASE Connect \/ Drop \/ Ping \/ ServerHandles
    BY <1>1, ConnectIInv, DropIInv, PingIInv, ServerHandlesIInv
<1>2. ASSUME NEW p \in Ports,
             \/ OpenSession(p) \/ Route(p) \/ CloseSession(p)
             \/ \E kind \in Kinds : Instruct(p, kind)
      PROVE  IInv'
    BY <1>2, OpenSessionIInv, RouteIInv, CloseSessionIInv, InstructIInv
<1>3. CASE OnEvent
    BY <1>3, AnswerIInv, OnNotifyOpenIInv, OnNotifyCloseIInv, InstructionIInv, OnRouteIInv,
       OnDisconnectedIInv DEF OnEvent
<1>4. ASSUME NEW k \in Sessions, ThreadStep(k) PROVE IInv'
    BY <1>4, ThreadStepIInv
<1>5. CASE UNCHANGED vars
    BY <1>5, StutterIInv
<1> QED BY <1>1, <1>2, <1>3, <1>4, <1>5 DEF Next

(* IInv holds in every state that can be reached.                          *)
LEMMA InvariantHolds == Spec => []IInv
<1> QED BY InitIInv, NextIInv, PTL DEF Spec

(* Every variable of the channel table, of the services and of the server  *)
(* keeps to the values the code can give it: an entry of the table is an   *)
(* object with that number, and a service is on an object there is.        *)
THEOREM ChannelTypeOK == Spec => []TypeOK
<1>1. IInv => TypeOK
    <2> SUFFICES ASSUME IInv PROVE TypeOK
        OBVIOUS
    <2> USE DEF IInv
    <2>1. DOMAIN chan = 1..Len(chan)
        BY LenProperties DEF Shapes
    <2>2. channels \in [Ports -> {None} \cup DOMAIN chan]
        BY <2>1 DEF Shapes, TableCoherent
    <2>3. \A p \in Ports : channels[p] # None => chan[channels[p]].number = p
        BY DEF TableCoherent
    <2>4. ASSUME NEW c \in DOMAIN chan
          PROVE  /\ chan[c].number \in Ports /\ chan[c].closed \in BOOLEAN
                 /\ chan[c].session \in Sessions
                 /\ chan[c].user \in Sessions \cup {None}
                 /\ \A i \in DOMAIN chan[c].deque : chan[c].deque[i] \in Data
        <3>1. chan[c].deque \in Seq(Data)
            BY <2>1, ObjectFields
        <3>2. \A i \in DOMAIN chan[c].deque : chan[c].deque[i] \in Data
            BY <3>1, LenProperties, ElementOfSeq
        <3> QED BY <2>1, <3>2, ObjectFields
    <2>5. ASSUME NEW k \in Sessions
          PROVE  /\ service[k].kind \in Kinds \cup {"none", "refused"}
                 /\ service[k].on \in {None} \cup DOMAIN chan
                 /\ service[k].doing \in {"idle", "writing", "wrote", "closing", "done"}
        <3>1. service[k] \in Service
            BY DEF Shapes
        <3>2. service[k].on \in {None} \cup DOMAIN chan
            BY <2>1 DEF ServiceOnObject, NoService
        <3> QED BY <3>1, <3>2 DEF Service
    <2>6. /\ srv \in [Ports -> Opened \cup {None}] /\ Opened \subseteq Sessions
          /\ told \subseteq Opened
        BY Numbers DEF Shapes, ServerCoherent
    <2>7. \A k \in Opened : place[k] \in [port : Ports, connect : 1..connects]
        <3> SUFFICES ASSUME NEW k \in Opened
                     PROVE  place[k] \in [port : Ports, connect : 1..connects]
            OBVIOUS
        <3>1. place[k] \in [port : Ports, connect : Nat]
            BY Numbers, ElementOfSeq DEF Shapes
        <3>2. place[k].connect \in 1..connects
            BY DEF ServerCoherent
        <3> QED BY <3>1, <3>2
    <2>8. \A k \in Sessions : sent[k] \in 0..MaxData[k]
        <3> SUFFICES ASSUME NEW k \in Sessions PROVE sent[k] \in 0..MaxData[k]
            OBVIOUS
        <3> QED BY SizeAssumption DEF Shapes, ServerCoherent
    <2> QED BY <2>2, <2>3, <2>4, <2>5, <2>6, <2>7, <2>8 DEF TypeOK, Shapes
<1> QED BY <1>1, InvariantHolds, PTL

(* A service gets an unbroken run of the data of its own session, and so   *)
(* does the user of an EchoService: no port number, however often it is    *)
(* used again, on one connection or the next, brings a service the data of *)
(* another remote user.                                                    *)
THEOREM DataOfOwnSession == Spec => []RightService
<1>1. ASSUME NEW k, NEW s, NEW base \in Nat, DOMAIN s = 1..Len(s), Len(s) \in Nat,
             \A i \in 1..Len(s) : s[i] = <<k, base + i>>
      PROVE  UnbrokenRun(s, k)
    <2> SUFFICES ASSUME NEW i \in 1..Len(s) PROVE s[i] = <<k, s[1][2] + i - 1>>
        BY <1>1 DEF UnbrokenRun
    <2>1. 1 \in 1..Len(s) /\ i \in Nat
        BY <1>1
    <2>2. s[1][2] = base + 1
        BY <1>1, <2>1
    <2>3. s[1][2] + i - 1 = base + i
        BY <2>1, <2>2
    <2> QED BY <1>1, <2>3
<1>2. IInv => RightService
    <2> SUFFICES ASSUME IInv, NEW k \in Sessions
                 PROVE  UnbrokenRun(service[k].got, k) /\ UnbrokenRun(echoed[k], k)
        BY DEF RightService
    <2> USE DEF IInv
    <2>1. /\ service[k].got \in Seq(Data) /\ echoed[k] \in Seq(Data)
          /\ service[k].kind # "none" => Early(k) \in Nat
        BY Counts
    <2>2. /\ DOMAIN service[k].got = 1..Len(service[k].got) /\ Len(service[k].got) \in Nat
          /\ DOMAIN echoed[k] = 1..Len(echoed[k]) /\ Len(echoed[k]) \in Nat
        BY <2>1, LenProperties
    <2>3. CASE service[k].kind = "none"
        <3>1. service[k].got = <<>>
            BY <2>3 DEF ServiceOnObject, NoService
        <3>2. \A i \in 1..Len(echoed[k]) : FALSE
            BY <2>3 DEF RunsFromEarly
        <3> QED BY <2>2, <3>1, <3>2 DEF UnbrokenRun
    <2>4. CASE service[k].kind # "none"
        <3>1. /\ \A i \in 1..Len(service[k].got) : service[k].got[i] = <<k, Early(k) + i>>
              /\ \A i \in 1..Len(echoed[k]) : echoed[k][i] = <<k, Early(k) + i>>
            BY DEF RunsFromEarly
        <3> QED BY <1>1, <2>1, <2>2, <2>4, <3>1
    <2> QED BY <2>3, <2>4
<1> QED BY <1>2, InvariantHolds, PTL

(* When all events are handled, a channel that is open is of the session   *)
(* the server has open on its port.                                        *)
LEMMA NoGhosts == IInv => NoGhostChannel
<1> SUFFICES ASSUME IInv, inbox = <<>>, NEW p \in Ports, channels[p] # None,
                    ~chan[channels[p]].closed
             PROVE  srv[p] = chan[channels[p]].session
    BY DEF NoGhostChannel
<1>1. PICK k \in Opened : k = chan[channels[p]].session /\ PortOf(k) = p /\ Holds(k)
    BY Holder DEF IInv
<1>2. In = {}
    BY ItemsOf DEF IInv, Shapes, In
<1>3. ~Has(In, "notify_close", k) /\ ~Drops(In)
    BY <1>2 DEF Has, Drops
<1> QED BY <1>1, <1>3 DEF IInv, SessionsEnd, Live

(* No channel survives the session or the connection it was opened for.    *)
THEOREM ChannelsEndWithSession == Spec => []NoGhostChannel
<1> QED BY NoGhosts, InvariantHolds, PTL

(* When all events are handled, the session of a service whose channel is  *)
(* open is open, and holds that channel.                                   *)
LEMMA ServedIsOpen ==
    ASSUME IInv, inbox = <<>>, NEW k \in Sessions, service[k].kind # "none",
           ~chan[service[k].on].closed
    PROVE  k \in Opened /\ Holds(k) /\ Object(k) = service[k].on /\ srv[PortOf(k)] = k
<1> USE DEF IInv
<1>1. /\ service[k].on \in 1..Len(chan) /\ chan[service[k].on].session = k
      /\ chan[service[k].on].number = PortOf(k)
    BY DEF ServiceOnObject
<1>2. /\ k \in Opened /\ PortOf(k) \in Ports /\ channels[PortOf(k)] = service[k].on
      /\ service[k].on # None
    BY <1>1, Numbers DEF TableCoherent
<1>3. Holds(k) /\ Object(k) = service[k].on
    BY <1>1, <1>2 DEF Holds, Object
<1> QED BY <1>1, <1>2, <1>3, NoGhosts DEF NoGhostChannel

(* A terminal or a port forward is told once, and not twice, that its      *)
(* session is over, whatever ended it and however soon its port is used    *)
(* again.                                                                  *)
THEOREM ServiceToldOfEnd == Spec => []ToldOfEnd
<1>1. IInv => ToldOfEnd
    <2> SUFFICES ASSUME IInv, NEW k \in Sessions
                 PROVE  /\ service[k].ends <= 1
                        /\ inbox = <<>> /\ service[k].kind = "thread" /\ Over(k) /\ ~Afresh(k)
                              => service[k].ends = 1
        BY DEF ToldOfEnd
    <2>1. service[k].ends <= 1
        <3>1. service[k].ends \in {0, 1}
            BY DEF IInv, EndsTold
        <3> QED BY <3>1
    <2>2. ASSUME inbox = <<>>, service[k].kind = "thread", Over(k), ~Afresh(k)
          PROVE  service[k].ends = 1
        <3>1. chan[service[k].on].closed
            <4>1. k \in Opened => PortOf(k) \in Ports
                BY Numbers DEF IInv
            <4> QED BY <2>2, <4>1, ServedIsOpen DEF Over
        <3> QED BY <2>2, <3>1 DEF IInv, EndsTold
    <2> QED BY <2>1, <2>2
<1> QED BY <1>1, InvariantHolds, PTL

(* When all events are handled, what was sent on a session is with its     *)
(* service, or in the deque if it came before the service.                 *)
THEOREM AllDataArrives == Spec => []DataArrives
<1>1. IInv => DataArrives
    <2> SUFFICES ASSUME IInv, inbox = <<>>, NEW k \in Sessions, service[k].kind # "none",
                        ~chan[service[k].on].closed
                 PROVE  Len(chan[service[k].on].deque) + Len(service[k].got) = sent[k]
        BY DEF DataArrives
    <2> USE DEF IInv
    <2>1. k \in Opened /\ Holds(k) /\ Object(k) = service[k].on /\ srv[PortOf(k)] = k
        BY ServedIsOpen
    <2>2. Kept(k) = Len(chan[service[k].on].deque) + Len(service[k].got)
        BY <2>1 DEF Kept
    <2>3. In = {}
        BY ItemsOf DEF Shapes, In
    <2>4. /\ Kept(k) <= sent[k] /\ \A m \in (Kept(k) + 1)..sent[k] : Brings(In, k, m)
          /\ Kept(k) \in Nat /\ sent[k] \in Nat
        BY <2>1, Counts DEF DataInOrder, DataComes, Shapes
    <2>5. \A m \in (Kept(k) + 1)..sent[k] : FALSE
        BY <2>3, <2>4 DEF Brings
    <2>6. Kept(k) = sent[k]
        BY ONLY <2>4, <2>5
    <2> QED BY <2>2, <2>6
<1> QED BY <1>1, InvariantHolds, PTL

-----------------------------------------------------------------------------
(* The sessions, as Session has them.                                      *)
UserVars == <<Renumbered, sent, KindOf, Ended, Missed, GotOf, EndsOf, echoed>>

Listens(k) == service[k].kind \in {"echo", "thread"}

(* The values of the mapping.                                              *)
LEMMA Views ==
    ASSUME IInv, NEW k \in Sessions
    PROVE  /\ KindOf[k] = service[k].kind /\ GotOf[k] = service[k].got
           /\ EndsOf[k] = service[k].ends
           /\ Served(k) <=> KindOf[k] # "none" /\ k \notin Ended
           /\ Missed[k] = IF Served(k) /\ Listens(k) THEN Early(k) ELSE 0
           /\ service[k].kind # "none" => service[k].on \in 1..Len(chan)
<1>1. service[k].kind # "none" => service[k].on \in 1..Len(chan)
    BY DEF IInv, ServiceOnObject
<1> QED BY <1>1 DEF KindOf, GotOf, EndsOf, Ended, Served, Missed, Early, Listens

(* Nothing that a user or a service can see happens.                       *)
LEMMA Unseen ==
    ASSUME IInv, UNCHANGED <<place, sent, echoed>>, ServicesStay,
           \A c \in 1..Len(chan) : /\ chan'[c].closed = chan[c].closed
                                   /\ ~chan[c].closed /\ chan[c].user # None =>
                                          chan'[c].deque = chan[c].deque
    PROVE  UNCHANGED UserVars
<1>1. \A k \in Sessions : /\ service'[k].kind = service[k].kind
                          /\ service'[k].on = service[k].on
                          /\ service'[k].got = service[k].got
                          /\ service'[k].ends = service[k].ends
                          /\ service[k].kind # "none" => service[k].on \in 1..Len(chan)
    BY Views DEF ServicesStay
<1>2. \A k \in Sessions : Served(k)' <=> Served(k)
    BY <1>1 DEF Served
<1>3. ASSUME NEW k \in Sessions, Served(k), Listens(k)
      PROVE  chan'[service'[k].on].deque = chan[service[k].on].deque
    <2>1. ~chan[service[k].on].closed /\ chan[service[k].on].user = k
        BY <1>3 DEF IInv, ServiceOnObject, Served, Listens
    <2> QED BY <1>1, <1>3, <2>1, Numbers DEF Served
<1>4. KindOf' = KindOf /\ GotOf' = GotOf /\ EndsOf' = EndsOf
    BY <1>1 DEF KindOf, GotOf, EndsOf
<1>5. Ended' = Ended
    BY <1>1, <1>2 DEF Ended
<1>6. Missed' = Missed
    BY <1>1, <1>2, <1>3 DEF Missed, Listens
<1>7. Renumbered' = Renumbered
    BY DEF Renumbered, Opened, Afresh
<1> QED BY <1>4, <1>5, <1>6, <1>7 DEF UserVars

(* Before the first connection.                                            *)
LEMMA InitSession == Init => User!Init
<1> SUFFICES ASSUME Init PROVE User!Init
    OBVIOUS
<1>1. \A k \in Sessions : service[k] = NoService /\ service[k].kind = "none" /\ ~Served(k)
    BY DEF Init, NoService, Served
<1>2. Renumbered = {}
    <2>1. Opened = {}
        BY EmptySeq DEF Init, Opened
    <2> QED BY <2>1 DEF Renumbered
<1>3. Ended = {}
    BY <1>1 DEF Ended
<1>4. Missed = [k \in Sessions |-> 0]
    BY <1>1 DEF Missed
<1>5. /\ KindOf = [k \in Sessions |-> "none"] /\ GotOf = [k \in Sessions |-> <<>>]
      /\ EndsOf = [k \in Sessions |-> 0]
    BY <1>1 DEF KindOf, GotOf, EndsOf, NoService
<1> QED BY <1>2, <1>3, <1>4, <1>5 DEF Init, User!Init

(* A session is opened, on a port used before or not.                      *)
LEMMA OpenSessionSession ==
    \A p \in Ports : IInv /\ OpenSession(p) => User!Next \/ UNCHANGED UserVars
<1> SUFFICES ASSUME NEW p \in Ports, IInv, OpenSession(p)
             PROVE  User!Next \/ UNCHANGED UserVars
    OBVIOUS
<1> USE DEF IInv
<1>1. PICK k0 : k0 = Len(place) + 1
    OBVIOUS
<1>2. /\ place \in Seq([port : Ports, connect : Nat]) /\ Len(place) \in Nat
      /\ Len(place) < MaxSession /\ Opened = 1..Len(place)
      /\ connects \in Nat /\ k0 \in Sessions /\ k0 \notin Opened
    <2>1. Len(place) \in Nat /\ Opened = 1..Len(place) /\ connects \in Nat /\ MaxSession \in Nat
        BY Numbers, SizeAssumption DEF Shapes
    <2>2. place \in Seq([port : Ports, connect : Nat]) /\ Len(place) < MaxSession
        BY DEF OpenSession, Shapes
    <2>3. PICK n : n = Len(place)
        OBVIOUS
    <2>4. k0 \in 1..MaxSession /\ k0 \notin 1..n
        BY ONLY <1>1, <2>1, <2>2, <2>3
    <2> QED BY ONLY <2>1, <2>2, <2>3, <2>4 DEF Sessions
<1>3. /\ place' = Append(place, [port |-> p, connect |-> connects])
      /\ UNCHANGED <<chan, service, sent, echoed>>
    BY DEF OpenSession, agent
<1>4. /\ Opened' = Opened \cup {k0} /\ place'[k0] = [port |-> p, connect |-> connects]
      /\ \A k \in Opened : place'[k] = place[k] /\ place[k].connect \in 1..connects
    <2>1. [port |-> p, connect |-> connects] \in [port : Ports, connect : Nat]
        BY <1>2
    <2>2. /\ Len(place') = Len(place) + 1 /\ place' \in Seq([port : Ports, connect : Nat])
          /\ \A i \in 1..Len(place) : place'[i] = place[i]
          /\ place'[k0] = [port |-> p, connect |-> connects]
        BY <1>1, <1>2, <1>3, <2>1, AppendProperties
    <2>3. Opened' = 1..k0
        BY <1>1, <2>2, LenProperties DEF Opened
    <2>4. 1..k0 = 1..Len(place) \cup {k0}
        BY <1>1, <1>2
    <2> QED BY <1>2, <2>2, <2>3, <2>4 DEF ServerCoherent
<1>5. \A k \in Opened : Afresh(k)' <=> Afresh(k)
    <2>1. \A k \in Opened : ~(place'[k0].connect < place'[k].connect)
        <3>1. place'[k0].connect = connects
            BY <1>4
        <3> QED BY <1>2, <1>4, <3>1
    <2> QED BY <1>4, <2>1 DEF Afresh
<1>6. Renumbered' = Renumbered \/ Renumbered' = Renumbered \cup {k0}
    BY <1>4, <1>5 DEF Renumbered
<1>7. UNCHANGED <<KindOf, Ended, Missed, GotOf, EndsOf>>
    BY <1>3 DEF KindOf, Ended, Missed, GotOf, EndsOf, Served
<1>8. KindOf[k0] = "none" /\ sent[k0] = 0
    <2>1. k0 \notin told
        BY <1>2 DEF Shapes
    <2>2. service[k0].kind = "none"
        BY <1>2, <2>1 DEF ServiceOnObject, NoService
    <2> QED BY <1>2, <2>2, Views DEF ServerCoherent
<1>9. CASE Renumbered' = Renumbered \cup {k0}
    <2>1. User!NumberedAfresh(k0)
        BY <1>3, <1>7, <1>8, <1>9 DEF User!NumberedAfresh
    <2> QED BY <1>2, <2>1 DEF User!Next
<1> QED BY <1>3, <1>6, <1>7, <1>9 DEF UserVars

(* The user sends data.                                                    *)
LEMMA RouteSession == \A p \in Ports : IInv /\ Route(p) => User!Next
<1> SUFFICES ASSUME NEW p \in Ports, IInv, Route(p) PROVE User!Next
    OBVIOUS
<1>1. PICK k \in Sessions : k = srv[p]
    BY DEF Route, IInv, Shapes
<1>2. sent' = [sent EXCEPT ![k] = @ + 1] /\ UNCHANGED <<chan, service, place, echoed>>
    BY <1>1 DEF Route, agent
<1>3. UNCHANGED <<Renumbered, KindOf, Ended, Missed, GotOf, EndsOf>>
    BY <1>2 DEF Renumbered, Opened, Afresh, KindOf, Ended, Missed, GotOf, EndsOf, Served
<1>4. User!UserSends(k)
    BY <1>2, <1>3 DEF User!UserSends
<1> QED BY <1>4 DEF User!Next

(* A service is started, or refused: nothing that comes now is missed, if  *)
(* its object is not one of an earlier connection.                         *)
LEMMA OpeningSession ==
    ASSUME IInv, inbox # <<>>, inbox' = Tail(inbox), Head(inbox).type = "instruction",
           UNCHANGED <<place, sent, echoed>>,
           NEW kind \in {"echo", "thread", "task", "refused"}, NEW doing \in {"idle", "done"},
           Opens(Head(inbox).session, kind, doing, Head(inbox).port)
    PROVE  User!Next
<1>1. PICK k0, p, c0 : /\ k0 = Head(inbox).session /\ p = Head(inbox).port
                       /\ c0 = channels[p]
    OBVIOUS
<1>2. /\ k0 \in Opened /\ k0 \in Sessions /\ p \in Ports /\ p = PortOf(k0)
      /\ place[k0].connect = connects /\ (Holds(k0) \/ Stale(p))
      /\ c0 \in 1..Len(chan) /\ chan[c0].number = p /\ channels[p] = c0
      /\ service[k0] = NoService /\ service[k0].kind = "none"
      /\ \A c \in 1..Len(chan) : /\ chan'[c].closed = chan[c].closed
                                 /\ chan'[c].deque = chan[c].deque
      /\ service'[k0].kind = kind /\ service'[k0].on = c0
      /\ service'[k0].got = <<>> /\ service'[k0].ends = 0
      /\ \A k \in Sessions \ {k0} : service'[k] = service[k]
    BY <1>1, OpeningObjects
<1>3. /\ KindOf[k0] = "none" /\ KindOf' = [KindOf EXCEPT ![k0] = kind]
      /\ UNCHANGED <<GotOf, EndsOf, Renumbered>> /\ ~Served(k0)
    <2>1. service[k0].got = <<>> /\ service[k0].ends = 0
        BY <1>2 DEF NoService
    <2>2. KindOf[k0] = "none" /\ ~Served(k0)
        BY <1>2 DEF KindOf, Served
    <2>3. KindOf' = [KindOf EXCEPT ![k0] = kind]
        BY <1>2 DEF KindOf
    <2>4. GotOf' = GotOf /\ EndsOf' = EndsOf
        BY <1>2, <2>1 DEF GotOf, EndsOf
    <2>5. Renumbered' = Renumbered
        BY DEF Renumbered, Opened, Afresh
    <2> QED BY <2>2, <2>3, <2>4, <2>5
<1>4. \A k \in Sessions \ {k0} : (k \in Ended' <=> k \in Ended) /\ Missed'[k] = Missed[k]
    <2> SUFFICES ASSUME NEW k \in Sessions \ {k0}
                 PROVE  (k \in Ended' <=> k \in Ended) /\ Missed'[k] = Missed[k]
        OBVIOUS
    <2>1. service[k].kind # "none" => service[k].on \in 1..Len(chan)
        BY Views
    <2>2. Served(k)' <=> Served(k)
        BY <1>2, <2>1 DEF Served
    <2> QED BY <1>2, <2>1, <2>2 DEF Ended, Missed, Served
<1>5. Served(k0)' <=> ~chan[c0].closed
    BY <1>2 DEF Served
<1>6. Ended \subseteq Sessions /\ Ended' \subseteq Sessions /\ k0 \notin Ended
      /\ (k0 \in Ended' <=> chan[c0].closed)
    BY <1>2, <1>5 DEF Ended
<1>7. Missed[k0] = 0 /\ DOMAIN Missed = Sessions
      /\ Missed'[k0] = IF ~chan[c0].closed /\ kind \in {"echo", "thread"}
                       THEN Len(chan[c0].deque) ELSE 0
    BY <1>2, <1>3, <1>5 DEF Missed
<1>8. Missed' = [Missed EXCEPT ![k0] = Missed'[k0]]
    BY <1>2, <1>4, <1>7 DEF Missed
<1>9. CASE ~chan[c0].closed
    <2>1. Ended' = Ended
        <3>1. \A k \in Sessions : k \in Ended' <=> k \in Ended
            BY <1>4, <1>6, <1>9
        <3> QED BY <1>6, <3>1
    <2>2. Holds(k0) /\ Object(k0) = c0
        BY <1>2, <1>9 DEF Stale, Object
    <2>3. PICK n \in Nat : n = Len(chan[c0].deque)
        BY <1>2, ObjectFields DEF IInv
    <2>4. n <= sent[k0] /\ sent[k0] \in Nat
        <3>1. Kept(k0) <= sent[k0]
            BY <1>2, <2>2 DEF IInv, DataInOrder, DataComes
        <3>2. Kept(k0) = n + Len(service[k0].got)
            BY <2>2, <2>3 DEF Kept
        <3>3. Len(service[k0].got) = 0 /\ sent[k0] \in Nat
            BY <1>2, EmptySeq DEF NoService, IInv, Shapes
        <3> QED BY <2>3, <3>1, <3>2, <3>3
    <2>5. Missed'[k0] \in 0..sent[k0]
        BY <1>7, <2>3, <2>4
    <2>6. User!Start(k0, kind)
        BY <1>3, <1>8, <2>1, <2>5 DEF User!Start
    <2> QED BY <1>2, <2>6 DEF User!Next
<1>10. CASE chan[c0].closed
    <2>1. Ended' = Ended \cup {k0}
        BY <1>2, <1>4, <1>6, <1>10
    <2>2. Missed' = Missed
        <3>1. Missed'[k0] = Missed[k0]
            BY <1>7, <1>10
        <3>2. \A k \in Sessions : Missed'[k] = Missed[k]
            BY <1>4, <3>1
        <3> QED BY <3>2 DEF Missed
    <2>3. k0 \in Renumbered
        <3>1. Stale(p)
            BY <1>2, <1>10, Numbers DEF Stale
        <3>2. place[chan[c0].session].connect < place[k0].connect
            BY <1>2, <3>1 DEF IInv, StaleIsOld
        <3>3. chan[c0].session \in Opened /\ place[chan[c0].session].port = place[k0].port
            BY <1>2 DEF IInv, TableCoherent, PortOf
        <3> QED BY <1>2, <3>2, <3>3 DEF Renumbered, Afresh
    <2>4. User!StartTooLate(k0, kind)
        BY <1>3, <2>1, <2>2, <2>3 DEF User!StartTooLate
    <2> QED BY <1>2, <2>4 DEF User!Next
<1> QED BY <1>2, <1>9, <1>10, ObjectFields DEF IInv

LEMMA InstructionSession == IInv /\ (OnInstruction \/ OnRefused) => User!Next
<1> SUFFICES ASSUME IInv, OnInstruction \/ OnRefused PROVE User!Next
    OBVIOUS
<1>1. /\ inbox # <<>> /\ inbox' = Tail(inbox) /\ Head(inbox).type = "instruction"
      /\ UNCHANGED <<place, sent, echoed>>
    BY DEF OnInstruction, OnRefused, Took, server
<1>2. CASE OnInstruction
    <2>1. Head(inbox).kind \in {"echo", "thread", "task", "refused"}
        BY <1>1, EventTaken, EventFields DEF Kinds
    <2>2. Opens(Head(inbox).session, Head(inbox).kind, "idle", Head(inbox).port)
        BY <1>2 DEF OnInstruction
    <2> QED BY <1>1, <2>1, <2>2, OpeningSession
<1>3. CASE OnRefused
    <2>1. PICK kind \in {"thread", "refused"} :
              Opens(Head(inbox).session, kind, "done", Head(inbox).port)
        BY <1>3 DEF OnRefused
    <2> QED BY <1>1, <2>1, OpeningSession
<1> QED BY <1>2, <1>3

(* Channels are closed: the sessions of their services are over.           *)
LEMMA ClosingSession ==
    ASSUME IInv, NEW cs, cs \subseteq 1..Len(chan), \A c \in cs : ~chan[c].closed,
           CloseCalled(cs), UNCHANGED <<place, told, sent, echoed>>
    PROVE  User!Next
<1>1. /\ \A c \in 1..Len(chan) : /\ chan'[c].closed <=> chan[c].closed \/ c \in cs
                                 /\ chan'[c].deque = chan[c].deque
      /\ \A k \in Sessions : /\ service'[k].kind = service[k].kind
                             /\ service'[k].on = service[k].on
                             /\ service'[k].got = service[k].got
    BY Closing
<1> DEFINE ks == {k \in Sessions : service[k].kind # "none" /\ service[k].on \in cs}
<1>2. KindOf' = KindOf /\ GotOf' = GotOf /\ Renumbered' = Renumbered
    BY <1>1 DEF KindOf, GotOf, Renumbered, Opened, Afresh
<1>3. \A k \in Sessions : /\ k \in ks => Served(k)
                          /\ Served(k)' <=> Served(k) /\ k \notin ks
                          /\ Served(k) => service[k].on \in 1..Len(chan)
    <2>1. \A k \in Sessions : service[k].kind # "none" => service[k].on \in 1..Len(chan)
        BY Views
    <2> QED BY <1>1, <2>1 DEF Served
<1>4. \A k \in ks : k \in Sessions /\ service[k].kind # "none" /\ service[k].on \in cs
    OBVIOUS
<1>5. \A k \in Sessions : service[k].kind # "none" /\ service[k].on \in cs => k \in ks
    OBVIOUS
<1> HIDE DEF ks
<1>6. ks \in SUBSET User!Served
    <2>1. \A k \in ks : KindOf[k] # "none" /\ k \notin Ended
        BY <1>3, <1>4, Views
    <2> QED BY <1>4, <2>1 DEF User!Served
<1>7. Ended' = Ended \cup ks
    BY <1>1, <1>3, <1>4 DEF Ended
<1>8. Missed' = [k \in Sessions |-> IF k \in ks THEN 0 ELSE Missed[k]]
    <2>1. \A k \in Sessions :
              Served(k) => Len(chan'[service'[k].on].deque) = Len(chan[service[k].on].deque)
        BY <1>1, <1>3
    <2>2. \A k \in Sessions : Missed'[k] = IF k \in ks THEN 0 ELSE Missed[k]
        BY <1>1, <1>3, <2>1 DEF Missed
    <2> QED BY <2>2 DEF Missed
<1>9. EndsOf' = [k \in Sessions |-> IF k \in ks /\ KindOf[k] = "thread" THEN EndsOf[k] + 1
                                    ELSE EndsOf[k]]
    <2>1. ASSUME NEW k \in Sessions, service[k].kind = "thread", k \in ks
          PROVE  service'[k].ends = service[k].ends + 1
        <3>1. service[k].on \in cs /\ chan[service[k].on].user = k
            BY <1>4, <2>1 DEF IInv, ServiceOnObject
        <3>2. service'[k] = [service[k] EXCEPT !.ends = @ + 1] /\ service[k] \in Service
            BY <2>1, <3>1, Counts DEF CloseCalled
        <3> QED BY <3>2 DEF Service
    <2>2. ASSUME NEW k \in Sessions, service[k].kind = "thread", k \notin ks
          PROVE  service'[k].ends = service[k].ends
        <3>1. \A c \in cs : chan[c].user # k
            BY <1>5, <2>2, Numbers DEF IInv, ServiceOnObject
        <3> QED BY <3>1 DEF CloseCalled
    <2>3. ASSUME NEW k \in Sessions, service[k].kind # "thread"
          PROVE  service'[k].ends = service[k].ends
        BY <2>3 DEF CloseCalled
    <2> QED BY <2>1, <2>2, <2>3 DEF EndsOf, KindOf
<1>10. User!End(ks)
    BY <1>2, <1>7, <1>8, <1>9 DEF User!End
<1> QED BY <1>6, <1>10 DEF User!Next

LEMMA OverSession == IInv /\ (OnNotifyClose \/ OnDisconnected) => User!Next
<1> SUFFICES ASSUME IInv, OnNotifyClose \/ OnDisconnected PROVE User!Next
    OBVIOUS
<1> DEFINE Closed(cs) == {c \in cs : ~chan[c].closed}
<1>1. UNCHANGED <<place, told, sent, echoed>>
    BY DEF OnNotifyClose, OnDisconnected, server
<1>2. PICK cs \in SUBSET (1..Len(chan)) : CloseCalled(Closed(cs))
    <2>1. DOMAIN chan = 1..Len(chan)
        BY LenProperties DEF IInv, Shapes
    <2>2. InTable \subseteq 1..Len(chan)
        BY DEF InTable, IInv, TableCoherent
    <2>3. CASE OnNotifyClose
        BY <2>1, <2>3 DEF OnNotifyClose, OnClose
    <2>4. CASE OnDisconnected
        BY <2>2, <2>4 DEF OnDisconnected, OnClose
    <2> QED BY <2>3, <2>4
<1>3. Closed(cs) \subseteq 1..Len(chan) /\ \A c \in Closed(cs) : ~chan[c].closed
    OBVIOUS
<1> HIDE DEF Closed
<1> QED BY <1>1, <1>2, <1>3, ClosingSession

(* A service is called with the next datum of its session, or its user     *)
(* sees nothing of it.                                                     *)
LEMMA OnRouteSession == IInv /\ OnRoute => User!Next \/ UNCHANGED UserVars
<1> SUFFICES ASSUME IInv, OnRoute PROVE User!Next \/ UNCHANGED UserVars
    OBVIOUS
<1>1. /\ inbox # <<>> /\ inbox' = Tail(inbox) /\ Head(inbox).type = "route"
      /\ UNCHANGED <<link, connects, srv, place, told, sent, echoed>>
    BY DEF OnRoute, Took, server
<1>2. PICK k0, p, n0 : /\ k0 = Head(inbox).session /\ p = Head(inbox).port
                       /\ n0 = Head(inbox).data
    OBVIOUS
<1>3. PICK c0 : c0 = channels[p]
    OBVIOUS
<1>4. /\ k0 \in Opened /\ k0 \in Sessions /\ p \in Ports /\ p = PortOf(k0) /\ n0 \in Nat \ {0}
      /\ c0 \in 1..Len(chan) /\ chan[c0].number = p
      /\ Holds(k0) <=> ~chan[c0].closed
      /\ Holds(k0) => n0 = Kept(k0) + 1
    BY <1>1, <1>2, <1>3, RouteTaken
<1>5. RouteDoes(k0, p, n0, c0)
    BY <1>2, <1>3, RouteObjects
<1>6. CASE UNCHANGED <<chan, service>>
    <2>1. ServicesStay
        BY <1>6 DEF ServicesStay
    <2> QED BY <1>1, <1>6, <2>1, Unseen
<1>7. ASSUME UNCHANGED service, ~chan[c0].closed, chan[c0].user = None,
             chan' = [chan EXCEPT ![c0].deque = Append(@, <<k0, n0>>)]
      PROVE  UNCHANGED UserVars
    <2>1. chan' = [chan EXCEPT ![c0] = [chan[c0] EXCEPT !.deque = Append(@, <<k0, n0>>)]]
        BY <1>7
    <2>2. DOMAIN chan = 1..Len(chan) /\ chan[c0] \in Channel
        BY <1>4, ObjectFields, LenProperties DEF IInv, Shapes
    <2>3. \A c \in 1..Len(chan) : chan'[c].closed = chan[c].closed /\ (c # c0 => chan'[c] = chan[c])
        BY <1>4, <2>1, <2>2 DEF Channel
    <2>4. ServicesStay
        BY <1>7 DEF ServicesStay
    <2> QED BY <1>1, <1>7, <2>3, <2>4, Unseen
<1>8. ASSUME ~chan[c0].closed, chan[c0].user # None, UNCHANGED chan,
             service' = [service EXCEPT ![chan[c0].user].got = Append(@, <<k0, n0>>)]
      PROVE  User!Next
    <2>1. Holds(k0) /\ Object(k0) = c0 /\ chan[c0].user = k0
        <3>1. Holds(k0) /\ Object(k0) = c0 /\ chan[c0].session = k0
            BY <1>3, <1>4, <1>8 DEF Object, Holds
        <3> QED BY <1>4, <1>8, <3>1 DEF IInv, TableCoherent
    <2>2. Listens(k0) /\ service[k0].kind # "none" /\ service[k0].on = c0
        BY <1>4, <1>8, <2>1, Numbers DEF IInv, ServiceOnObject, Listens
    <2>3. Served(k0) /\ k0 \in User!Served
        BY <1>4, <1>8, <2>2, Views DEF Served, User!Served
    <2>4. PICK g : g = Append(service[k0].got, <<k0, n0>>)
        OBVIOUS
    <2>5. /\ service'[k0].got = g
          /\ \A k \in Sessions : /\ service'[k].kind = service[k].kind
                                 /\ service'[k].on = service[k].on
                                 /\ service'[k].ends = service[k].ends
                                 /\ k # k0 => service'[k].got = service[k].got
        <3>1. service' = [service EXCEPT ![k0] = [service[k0] EXCEPT !.got = g]]
            BY <1>8, <2>1, <2>4
        <3>2. \A k \in Sessions : service[k] \in Service
            BY Counts
        <3>3. service'[k0] = [service[k0] EXCEPT !.got = g]
              /\ \A k \in Sessions \ {k0} : service'[k] = service[k]
            BY <1>4, <3>1 DEF IInv, Shapes
        <3> QED BY <1>4, <3>2, <3>3 DEF Service
    <2>6. KindOf' = KindOf /\ EndsOf' = EndsOf /\ \A k \in Sessions : Served(k)' <=> Served(k)
        BY <1>8, <2>5 DEF KindOf, EndsOf, Served
    <2>7. Ended' = Ended /\ Missed' = Missed /\ Renumbered' = Renumbered
        BY <1>1, <1>8, <2>5, <2>6 DEF Ended, Missed, Renumbered, Opened, Afresh
    <2>8. GotOf' = [GotOf EXCEPT ![k0] = Append(@, <<k0, n0>>)]
        BY <1>4, <2>4, <2>5 DEF GotOf
    <2>9. PICK a, b : /\ a = Len(chan[c0].deque) /\ b = Len(service[k0].got)
        OBVIOUS
    <2>10. a \in Nat /\ b \in Nat /\ Missed[k0] = a /\ Len(GotOf[k0]) = b
        <3>1. a \in Nat /\ b \in Nat /\ Len(GotOf[k0]) = b
            BY <1>4, <2>9, ObjectFields, Counts, Views DEF IInv
        <3> QED BY <1>4, <2>2, <2>3, <2>9, <3>1, Views DEF Early
    <2>11. n0 = a + b + 1
        <3>1. Kept(k0) = a + b
            BY <2>1, <2>9 DEF Kept
        <3> QED BY <1>4, <2>1, <3>1
    <2>12. n0 <= sent[k0] /\ sent[k0] \in Nat
        <3>1. Head(inbox) \in In
            BY <1>1, EventTaken
        <3> QED BY <1>1, <1>2, <1>4, <3>1 DEF IInv, EventsFit, OfSession, Shapes
    <2>13. n0 \in 1..sent[k0] /\ n0 = Missed[k0] + Len(GotOf[k0]) + 1
        <3>1. n0 \in 1..sent[k0]
            BY ONLY <2>10, <2>11, <2>12
        <3> QED BY ONLY <2>10, <2>11, <3>1
    <2>14. KindOf[k0] \in {"echo", "thread"}
        BY <1>4, <2>2, Views DEF Listens
    <2>15. User!Deliver(k0)
        BY <1>1, <2>3, <2>6, <2>7, <2>8, <2>13, <2>14 DEF User!Deliver
    <2> QED BY <1>4, <2>15 DEF User!Next
<1> QED BY <1>5, <1>6, <1>7, <1>8 DEF RouteDoes

(* What the server takes comes to the user, or nothing the user sees.      *)
LEMMA ServerHandlesSession == IInv /\ ServerHandles => User!Next \/ UNCHANGED UserVars
<1> SUFFICES ASSUME IInv, ServerHandles PROVE User!Next \/ UNCHANGED UserVars
    OBVIOUS
<1> DEFINE h == Head(outbox)
<1>1. /\ outbox # <<>> /\ outbox' = Tail(outbox)
      /\ UNCHANGED <<chan, service, place, sent>>
      /\ UNCHANGED echoed \/ (h.type \in {"request_send", "request_close"} /\ ServerTakes(h))
    BY DEF ServerHandles, agent
<1>2. UNCHANGED <<Renumbered, KindOf, Ended, Missed, GotOf, EndsOf>>
    BY <1>1 DEF Renumbered, Opened, Afresh, KindOf, Ended, Missed, GotOf, EndsOf, Served
<1>3. CASE UNCHANGED echoed
    BY <1>1, <1>2, <1>3 DEF UserVars
<1>4. ASSUME h.type = "request_send", ServerTakes(h), h.data # NoData, srv[h.port] = h.session
      PROVE  User!Next
    <2>1. h \in Packet /\ h \in Out
        BY <1>1, PacketTaken
    <2>2. PICK k \in Sessions : h.session = k
        BY <1>4, <2>1, PacketFields
    <2>3. k \in Opened /\ h.port = PortOf(k)
        BY <1>4, <2>1, <2>2 DEF IInv, PacketsFit
    <2>4. echoed' = [echoed EXCEPT ![k] = Append(@, h.data)]
        BY <1>4, <2>2 DEF ServerTakes
    <2>5. /\ service[k].kind = "echo" /\ Len(echoed[k]) < Len(service[k].got)
          /\ h.data = service[k].got[Len(echoed[k]) + 1]
        BY <1>1, <1>4, <2>2, <2>3, EchoTaken
    <2>6. KindOf[k] = "echo" /\ GotOf[k] = service[k].got
        BY <2>5, Views
    <2>7. User!GiveBack(k)
        BY <1>1, <1>2, <2>4, <2>5, <2>6 DEF User!GiveBack
    <2> QED BY <2>7 DEF User!Next
<1>5. ServerTakes(h) => \/ UNCHANGED echoed
                        \/ h.type = "request_send" /\ h.data # NoData /\ srv[h.port] = h.session
    BY DEF ServerTakes
<1> QED BY <1>1, <1>3, <1>4, <1>5

(* Every step is one that the abstract channels may make.                  *)
LEMMA StepOfSession == IInv /\ [Next]_vars => [User!Next]_UserVars
<1> SUFFICES ASSUME IInv, [Next]_vars PROVE User!Next \/ UNCHANGED UserVars
    OBVIOUS
<1>1. ASSUME UNCHANGED <<chan, service, place, sent, echoed>> PROVE UNCHANGED UserVars
    BY <1>1 DEF UserVars, Renumbered, Opened, Afresh, KindOf, Ended, Missed, GotOf, EndsOf, Served
<1>2. CASE Connect \/ Drop \/ Ping \/ UNCHANGED vars
    BY <1>1, <1>2 DEF Connect, Drop, Ping, vars, agent, server
<1>3. ASSUME NEW p \in Ports, CloseSession(p) \/ \E kind \in Kinds : Instruct(p, kind)
      PROVE  UNCHANGED UserVars
    BY <1>1, <1>3 DEF CloseSession, Instruct, agent
<1>4. ASSUME NEW p \in Ports, OpenSession(p) \/ Route(p)
      PROVE  User!Next \/ UNCHANGED UserVars
    BY <1>4, OpenSessionSession, RouteSession
<1>5. CASE ServerHandles
    BY <1>5, ServerHandlesSession
<1>6. CASE OnReady \/ OnPing
    BY <1>1, <1>6 DEF OnReady, OnPing, agent, server
<1>7. CASE OnNotifyOpen
    <2>1. /\ UNCHANGED <<service, place, sent, echoed>> /\ Took("notify_open")
          /\ chan' = WithChannel(Head(inbox).port, Head(inbox).session)
        BY <1>7 DEF OnNotifyOpen, server
    <2>2. \A c \in 1..Len(chan) : chan'[c] = chan[c]
        <3>1. OfSession(Head(inbox)) /\ inbox # <<>> /\ inbox' = Tail(inbox)
            BY <2>1 DEF Took, OfSession
        <3>2. Head(inbox).session \in Sessions /\ Head(inbox).port \in Ports
            BY <3>1, EventTaken, EventFields
        <3>3. NewChannel(Head(inbox).port, Head(inbox).session) \in Channel
            BY <3>2, EmptySeq DEF NewChannel, Channel
        <3>4. chan \in Seq(Channel)
            BY DEF IInv, Shapes
        <3> QED BY <2>1, <3>3, <3>4, AppendProperties DEF WithChannel
    <2>3. ServicesStay
        BY <2>1 DEF ServicesStay
    <2> QED BY <2>1, <2>2, <2>3, Unseen
<1>8. CASE OnInstruction \/ OnRefused
    BY <1>8, InstructionSession
<1>9. CASE OnRoute
    BY <1>9, OnRouteSession
<1>10. CASE OnNotifyClose \/ OnDisconnected
    BY <1>10, OverSession
<1>11. ASSUME NEW k \in Sessions, ThreadStep(k) PROVE UNCHANGED UserVars
    <2>1. /\ UNCHANGED <<chan, place, sent, echoed>> /\ service[k].kind # "none"
          /\ \E to \in {"wrote", "writing", "done", "closing"} :
                 service' = [service EXCEPT ![k] = [@ EXCEPT !.doing = to]]
        BY <1>11 DEF ThreadStep, WriteChecks, WriteSends, CloseChecks, CloseSends, Does, server
    <2>2. PICK to : service' = [service EXCEPT ![k] = [service[k] EXCEPT !.doing = to]]
        BY <2>1
    <2>3. \A j \in Sessions : service[j] \in Service
        BY Counts
    <2>4. ServicesStay
        <3>1. service'[k] = [service[k] EXCEPT !.doing = to]
              /\ \A j \in Sessions \ {k} : service'[j] = service[j]
            BY <2>2 DEF IInv, Shapes
        <3> QED BY <2>1, <2>3, <3>1 DEF ServicesStay, Service
    <2> QED BY <2>1, <2>4, Unseen
<1> QED BY <1>2, <1>3, <1>4, <1>5, <1>6, <1>7, <1>8, <1>9, <1>10, <1>11 DEF Next, OnEvent

(* The channels keep what Session promises of them: a port used again      *)
(* brings a service nothing of the session that had it before, and a       *)
(* listener hears of the end of its own session once.                      *)
THEOREM ChannelsImplementSession == Spec => ImplementsSession
<1> QED BY InitSession, StepOfSession, InvariantHolds, PTL
        DEF Spec, ImplementsSession, User!Spec, User!vars, UserVars
=============================================================================
