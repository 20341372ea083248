------------------------------ MODULE Session ------------------------------
(***************************************************************************)
(* What the channels of m2m/wsclient.py promise.  A session is a           *)
(* connection of a remote user to a service of the agent.  An EchoService, *)
(* a terminal or a port forward is called with the data of that user, of   *)
(* no one else, each once and in the order sent, from the moment it is     *)
(* there until the session is over; then it is not called again.  A        *)
(* terminal or a port forward is called back when the session is over.     *)
(* What an EchoService gives back reaches the same user in the same order. *)
(* A file, a command and a service that was refused are never called.      *)
(*                                                                         *)
(* One thing is not promised: if the server numbers its channels afresh on *)
(* a new connection, a service may be started on a session that is over    *)
(* for the agent, and is then neither called nor called back.              *)
(***************************************************************************)
EXTENDS Naturals, Sequences

CONSTANT Sessions

VARIABLES afresh,        \* sessions whose channel number was in use before
          sent,          \* session -> data the remote user has sent
          kind,          \* session -> "none", or the kind of its service
          over,          \* sessions whose service is called no more
          missed,        \* session -> data that came before the service
          got,           \* session -> data the service was called with
          ends,          \* session -> calls of the close callback
          echoed         \* session -> data that came back to the user

vars == <<afresh, sent, kind, over, missed, got, ends, echoed>>

Init == /\ afresh = {}
        /\ sent = [k \in Sessions |-> 0] /\ missed = [k \in Sessions |-> 0]
        /\ kind = [k \in Sessions |-> "none"] /\ over = {}
        /\ got = [k \in Sessions |-> <<>>] /\ echoed = [k \in Sessions |-> <<>>]
        /\ ends = [k \in Sessions |-> 0]

Served == {k \in Sessions : kind[k] # "none"} \ over

NumberedAfresh(k) ==
    /\ kind[k] = "none" /\ sent[k] = 0 /\ afresh' = afresh \cup {k}
    /\ UNCHANGED <<sent, kind, over, missed, got, ends, echoed>>

UserSends(k) == /\ sent' = [sent EXCEPT ![k] = @ + 1]
                /\ UNCHANGED <<afresh, kind, over, missed, got, ends, echoed>>

(* Nothing that is sent from now on is missed, ...                         *)
Start(k, how) ==
    /\ kind[k] = "none" /\ kind' = [kind EXCEPT ![k] = how]
    /\ \E n \in 0..sent[k] : missed' = [missed EXCEPT ![k] = n]
    /\ UNCHANGED <<afresh, sent, over, got, ends, echoed>>
(* ... unless the session is over for the agent.                           *)
StartTooLate(k, how) ==
    /\ k \in afresh
    /\ kind[k] = "none" /\ kind' = [kind EXCEPT ![k] = how]
    /\ over' = over \cup {k}
    /\ UNCHANGED <<afresh, sent, missed, got, ends, echoed>>

Deliver(k) ==
    /\ k \in Served /\ kind[k] \in {"echo", "thread"}
    /\ \E n \in 1..sent[k] : /\ n = missed[k] + Len(got[k]) + 1
                             /\ got' = [got EXCEPT ![k] = Append(@, <<k, n>>)]
    /\ UNCHANGED <<afresh, sent, kind, over, missed, ends, echoed>>

GiveBack(k) ==
    /\ kind[k] = "echo" /\ Len(echoed[k]) < Len(got[k])
    /\ echoed' = [echoed EXCEPT ![k] = Append(@, got[k][Len(@) + 1])]
    /\ UNCHANGED <<afresh, sent, kind, over, missed, got, ends>>

(* Sessions end one at a time, or all with the connection.                 *)
End(ks) ==
    /\ over' = over \cup ks
    /\ ends' = [k \in Sessions |-> IF k \in ks /\ kind[k] = "thread" THEN ends[k] + 1
                                   ELSE ends[k]]
    /\ missed' = [k \in Sessions |-> IF k \in ks THEN 0 ELSE missed[k]]
    /\ UNCHANGED <<afresh, sent, kind, got, echoed>>

Next == \/ \E k \in Sessions :
              \/ NumberedAfresh(k) \/ UserSends(k) \/ Deliver(k) \/ GiveBack(k)
              \/ \E how \in {"echo", "thread", "task", "refused"} :
                     Start(k, how) \/ StartTooLate(k, how)
        \/ \E ks \in SUBSET Served : End(ks)

Spec == Init /\ [][Next]_vars
=============================================================================
