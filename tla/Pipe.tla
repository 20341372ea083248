-------------------------------- MODULE Pipe --------------------------------
(***************************************************************************)
(* What portforward.py promises of a forwarded connection.  The local      *)
(* server receives what the remote user types, from the first chunk on,    *)
(* each once and in order, and sees end of file only after all of it; what *)
(* it has received it keeps, and after end of file nothing more comes.     *)
(* The user receives no more than the server sends.  After it has closed   *)
(* its channel nothing more is taken for it, but what was taken before may *)
(* still come: one chunk at most.                                          *)
(*                                                                         *)
(* A connection may break, for good.  Then chunks may be missing, also     *)
(* from the middle, but none comes twice or late.                          *)
(***************************************************************************)
EXTENDS Naturals, Sequences

CONSTANT Conns

VARIABLES typed,         \* chunks each user has typed, numbered from 1
          got,           \* those its local server has received
          broken,        \* connections on which chunks may get lost
          shut,          \* connections whose server sees end of file
          answers,       \* chunks the local server has sent
          coming,        \* connections with a chunk on its way to the user
          forwarded,     \* how many of them its user has received
          gone           \* connections whose user has closed its channel

vars == <<typed, got, broken, shut, answers, coming, forwarded, gone>>

Upto(n)       == [i \in 1..n |-> i]
Ascending(s)  == \A i, j \in DOMAIN s : i < j => s[i] < s[j]
Extends(s, t) == Len(t) <= Len(s) /\ \A i \in 1..Len(t) : s[i] = t[i]

Init == /\ typed = [c \in Conns |-> 0] /\ got = [c \in Conns |-> <<>>]
        /\ broken = {} /\ shut = {} /\ gone = {} /\ coming = {}
        /\ answers = [c \in Conns |-> 0] /\ forwarded = [c \in Conns |-> 0]

(* The server receives some of what is typed, or nothing.                  *)
Receive(c) ==
    /\ c \notin shut
    /\ got' = [got EXCEPT ![c] = got'[c]]
    /\ Extends(got'[c], got[c])
    /\ Ascending(got'[c]) /\ got'[c] \in Seq(1..typed'[c])
    /\ broken' \in {broken, broken \cup {c}}
    /\ c \notin broken' => got'[c] = Upto(Len(got'[c]))

Flush(c) == Receive(c) /\ UNCHANGED <<typed, shut, answers, coming, forwarded, gone>>
UserTypes(c) ==
    /\ c \notin gone /\ typed' = [typed EXCEPT ![c] = @ + 1]
    /\ Receive(c) /\ UNCHANGED <<shut, answers, coming, forwarded, gone>>
UserCloses(c) ==
    /\ c \notin gone /\ gone' = gone \cup {c}
    /\ Receive(c)
    /\ \/ UNCHANGED shut
       \/ shut' = shut \cup {c} /\ (c \in broken' \/ Len(got'[c]) = typed[c])
    /\ UNCHANGED <<typed, answers, coming, forwarded>>
Break(c) ==
    /\ broken' = broken \cup {c}
    /\ UNCHANGED <<typed, got, shut, answers, coming, forwarded, gone>>

ServerSends(c) ==
    /\ answers' = [answers EXCEPT ![c] = @ + 1]
    /\ UNCHANGED <<typed, got, broken, shut, coming, forwarded, gone>>
Take(c) ==
    /\ c \notin gone /\ c \notin coming /\ forwarded[c] < answers[c]
    /\ coming' = coming \cup {c}
    /\ UNCHANGED <<typed, got, broken, shut, answers, forwarded, gone>>
Forward(c) ==
    /\ c \in coming /\ coming' = coming \ {c}
    /\ forwarded' = [forwarded EXCEPT ![c] = @ + 1]
    /\ UNCHANGED <<typed, got, broken, shut, answers, gone>>

Next == \E c \in Conns : \/ Flush(c) \/ UserTypes(c) \/ UserCloses(c) \/ Break(c)
                         \/ ServerSends(c) \/ Take(c) \/ Forward(c)

Spec == Init /\ [][Next]_vars
=============================================================================
