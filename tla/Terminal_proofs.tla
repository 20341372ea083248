--------------------------- MODULE Terminal_proofs ---------------------------
(***************************************************************************)
(* Proofs about Terminal, for any number of terminals: the typing of its   *)
(* state, that a terminal reads its own shell although the numbers of      *)
(* descriptors are used again, and that what is typed reaches another      *)
(* shell in one window only.                                               *)
(***************************************************************************)
EXTENDS Terminal, TLAPS

(* The places between fork and os.close, where a terminal owns a pty, and  *)
(* those of them where its master_fd is set.  A terminal whose _init_fd    *)
(* raised has ended, and keeps its pty.                                    *)
Holding == {"opened", "copying", "left"}
Holds(t) == \/ at[t] \in Holding
            \/ at[t] \in {"decrement", "ended"} /\ master_fd[t] # None
Owns(t) == at[t] = "forked" \/ Holds(t)

(* Before the first assignment to it a terminal has no master_fd.          *)
NoneYet == \A t \in Terms :
    at[t] \in {"none", "refused", "started", "forked"} => master_fd[t] = None

(* Nothing is counted twice: a chunk is typed before it is written to a    *)
(* pty, and written before it is read.                                     *)
TypedFirst == \A t, u \in Terms : fed[t][u] <= typed
WrittenFirst == \A t \in Terms : output[t].read <= output[t].written
Shapes == TypeOK /\ TypedFirst /\ WrittenFirst

(* A descriptor in use is the pty of a terminal that still owns one, and   *)
(* no terminal owns two.                                                   *)
PtysOwned == \A f \in Fds : fdtable[f] # "free" => Owns(fdtable[f])
OnePtyEach == \A f, g \in Fds :
    fdtable[f] # "free" /\ fdtable[f] = fdtable[g] => f = g

(* A terminal that has set its master_fd and not closed it holds the       *)
(* number of an open descriptor, which is its own.                         *)
HoldsOwnPty == \A t \in Terms :
    Holds(t) => master_fd[t] \in Fds /\ fdtable[master_fd[t]] = t

Descriptors == NoneYet /\ PtysOwned /\ OnePtyEach /\ HoldsOwnPty

Inv == Shapes /\ Descriptors

-----------------------------------------------------------------------------
(* The invariant holds at the start.                                       *)
LEMMA InitInv == Init => Inv
<1> SUFFICES ASSUME Init PROVE Inv
    OBVIOUS
<1>1. Shapes
    BY SizeAssumption DEF Init, Shapes, TypedFirst, WrittenFirst, TypeOK, Places, None
<1>2. NoneYet /\ PtysOwned /\ OnePtyEach /\ HoldsOwnPty
    BY DEF Init, NoneYet, PtysOwned, OnePtyEach, HoldsOwnPty, Holds, Holding
<1> QED BY <1>1, <1>2 DEF Inv, Descriptors

(* The types of what is typed, ...                                         *)
TypedTypes == typed \in 0..MaxTyped /\ fed \in [Terms -> [Terms -> 0..MaxTyped]]
(* ... of what is written, ...                                             *)
OutputTypes == output \in [Terms -> [written : 0..MaxOutput, read : 0..MaxOutput]]
(* ... and of all the rest.                                                *)
OtherTypes ==
    /\ at \in [Terms -> Places] /\ master_fd \in [Terms -> {None} \cup Fds]
    /\ pid \subseteq Terms /\ hung \subseteq Terms
    /\ closed \subseteq Terms /\ asked \subseteq Terms
    /\ fdtable \in [Fds -> Terms \cup {"free"}]
    /\ child \in [Terms -> {"none", "alive", "zombie", "reaped"}]
    /\ signal \in [Terms -> {"none", "hup", "kill"}]
    /\ waiter \in [Terms -> {"none", "waiting", "killing", "done", "failed"}]

(* A step counts a chunk as typed before it counts it as written.          *)
LEMMA TypedInv == OtherTypes /\ TypedTypes /\ TypedFirst /\ [Next]_vars
                      => TypedTypes' /\ TypedFirst'
<1> SUFFICES ASSUME OtherTypes, TypedTypes, TypedFirst, [Next]_vars
             PROVE  TypedTypes' /\ TypedFirst'
    OBVIOUS
<1> USE SizeAssumption DEF TypedTypes, TypedFirst
<1>1. ASSUME NEW t \in Terms, OnData(t) PROVE TypedTypes' /\ TypedFirst'
    <2>1. typed' = typed + 1 /\ typed + 1 \in 0..MaxTyped
        BY <1>1 DEF OnData
    <2>2. CASE UNCHANGED fed
        BY <2>1, <2>2
    <2>3. ASSUME NEW u \in Terms, fed' = [fed EXCEPT ![t][u] = @ + 1]
          PROVE  TypedTypes' /\ TypedFirst'
        <3>1. fed[t][u] + 1 \in 0..MaxTyped /\ fed[t][u] + 1 <= typed + 1
            BY <2>1
        <3> QED BY <2>1, <2>3, <3>1
    <2>4. master_fd[t] # None => master_fd[t] \in Fds
        BY DEF OtherTypes
    <2>5. CASE master_fd[t] # None /\ fdtable[master_fd[t]] # "free"
        <3>1. fdtable[master_fd[t]] \in Terms
            BY <2>4, <2>5 DEF OtherTypes
        <3>2. \/ fed' = [fed EXCEPT ![t][fdtable[master_fd[t]]] = @ + 1]
              \/ UNCHANGED fed
            BY <1>1, <2>5 DEF OnData
        <3> QED BY <2>2, <2>3, <3>1, <3>2
    <2>6. CASE ~(master_fd[t] # None /\ fdtable[master_fd[t]] # "free")
        <3>1. UNCHANGED fed
            BY <1>1, <2>6 DEF OnData
        <3> QED BY <2>2, <3>1
    <2> QED BY <2>5, <2>6
<1>2. CASE \/ UNCHANGED vars
           \/ \E t \in Terms : \/ Launch(t) \/ LaunchFails(t) \/ OnClose(t) \/ ThreadStep(t)
                               \/ Reap(t) \/ NotYet(t) \/ Kill(t) \/ Writes(t) \/ Dies(t)
    <2>1. UNCHANGED <<typed, fed>>
        BY <1>2 DEF vars, channel, Launch, LaunchFails, OnClose, ThreadStep, Proceeds, Fork,
               ForkFails, SetMasterFd, SetPid, Copy, CopyFails, CloseFd, ForgetFd, Decrement,
               Reap, NotYet, Kill, Writes, Dies
    <2> QED BY <2>1
<1> QED BY <1>1, <1>2 DEF Next

(* A shell writes a chunk before the terminal reads it.                    *)
LEMMA OutputInv == OutputTypes /\ WrittenFirst /\ [Next]_vars
                       => OutputTypes' /\ WrittenFirst'
<1> SUFFICES ASSUME OutputTypes, WrittenFirst, [Next]_vars
             PROVE  OutputTypes' /\ WrittenFirst'
    OBVIOUS
<1> USE SizeAssumption DEF OutputTypes, WrittenFirst
<1>1. ASSUME NEW t \in Terms, Copy(t) PROVE OutputTypes' /\ WrittenFirst'
    <2>1. CASE output' = output
        BY <2>1
    <2>2. CASE output[t].written > output[t].read
        <3>1. output' = [output EXCEPT ![t] = [output[t] EXCEPT !.read = @ + 1]]
            BY <1>1, <2>2 DEF Copy
        <3>2. output[t].read + 1 \in 0..MaxOutput
            BY <2>2
        <3> QED BY <2>2, <3>1, <3>2
    <2> QED BY <1>1, <2>1, <2>2 DEF Copy
<1>2. ASSUME NEW t \in Terms, Writes(t) PROVE OutputTypes' /\ WrittenFirst'
    <2>1. output' = [output EXCEPT ![t] = [output[t] EXCEPT !.written = @ + 1]]
        BY <1>2 DEF Writes
    <2>2. output[t].written + 1 \in 0..MaxOutput
        BY <1>2 DEF Writes
    <2> QED BY <2>1, <2>2
<1>3. CASE \/ UNCHANGED vars
           \/ \E t \in Terms : \/ Launch(t) \/ LaunchFails(t) \/ OnData(t) \/ OnClose(t)
                               \/ Fork(t) \/ ForkFails(t) \/ SetMasterFd(t) \/ SetPid(t)
                               \/ CopyFails(t) \/ CloseFd(t) \/ ForgetFd(t) \/ Decrement(t)
                               \/ Reap(t) \/ NotYet(t) \/ Kill(t) \/ Dies(t)
    <2>1. output' = output
        BY <1>3 DEF vars, Launch, LaunchFails, OnData, OnClose, Fork, ForkFails, SetMasterFd,
                    SetPid, CopyFails, CloseFd, ForgetFd, Decrement, Reap, NotYet, Kill, Dies
    <2> QED BY <2>1
<1> QED BY <1>1, <1>2, <1>3 DEF Next, ThreadStep, Proceeds

(* The rest of the state keeps its types.                                  *)
LEMMA OtherInv == OtherTypes /\ [Next]_vars => OtherTypes'
<1> SUFFICES ASSUME OtherTypes, [Next]_vars PROVE OtherTypes'
    OBVIOUS
<1> USE DEF OtherTypes, Places, Goto, channel, kernel, CloseChannel
<1>1. ASSUME NEW t \in Terms, Launch(t) \/ LaunchFails(t) PROVE OtherTypes'
    BY <1>1 DEF Launch, LaunchFails
<1>2. ASSUME NEW t \in Terms, OnData(t) PROVE OtherTypes'
    BY <1>2 DEF OnData
<1>3. ASSUME NEW t \in Terms, OnClose(t) PROVE OtherTypes'
    <2>1. CASE t \in pid \ hung
        BY <1>3, <2>1 DEF OnClose, Close
    <2>2. CASE t \notin pid \ hung
        BY <1>3, <2>2 DEF OnClose, Close
    <2> QED BY <2>1, <2>2
<1>4. ASSUME NEW t \in Terms, Fork(t) \/ ForkFails(t) PROVE OtherTypes'
    BY <1>4 DEF Fork, ForkFails
<1>5. ASSUME NEW t \in Terms, SetMasterFd(t) PROVE OtherTypes'
    BY <1>5 DEF SetMasterFd
<1>6. ASSUME NEW t \in Terms, SetPid(t) \/ Copy(t) \/ CopyFails(t) PROVE OtherTypes'
    BY <1>6 DEF SetPid, Copy, CopyFails
<1>7. ASSUME NEW t \in Terms, CloseFd(t) \/ ForgetFd(t) \/ Decrement(t) PROVE OtherTypes'
    BY <1>7 DEF CloseFd, ForgetFd, Decrement
<1>8. ASSUME NEW t \in Terms, Reap(t) \/ NotYet(t) \/ Kill(t) \/ Dies(t) PROVE OtherTypes'
    BY <1>8 DEF Reap, NotYet, Kill, Dies
<1>9. ASSUME NEW t \in Terms, Writes(t) PROVE OtherTypes'
    BY <1>9 DEF Writes
<1>10. CASE UNCHANGED vars
    BY <1>10 DEF vars
<1> QED BY <1>1, <1>2, <1>3, <1>4, <1>5, <1>6, <1>7, <1>8, <1>9, <1>10
    DEF Next, ThreadStep, Proceeds

(* Together: the types, and what is counted first.                         *)
LEMMA ShapesInv == Shapes /\ [Next]_vars => Shapes'
<1>1. TypeOK <=> OtherTypes /\ TypedTypes /\ OutputTypes
    BY DEF TypeOK, OtherTypes, TypedTypes, OutputTypes
<1>2. TypeOK' <=> OtherTypes' /\ TypedTypes' /\ OutputTypes'
    BY DEF TypeOK, OtherTypes, TypedTypes, OutputTypes
<1> QED BY <1>1, <1>2, TypedInv, OutputInv, OtherInv DEF Shapes

(* The kernel gives a number to one terminal at a time, and a terminal     *)
(* keeps its own until it closes it.                                       *)
LEMMA DescriptorsInv ==
    TypeOK /\ Descriptors /\ [Next]_vars => Descriptors'
<1> SUFFICES ASSUME TypeOK, Descriptors, [Next]_vars PROVE Descriptors'
    OBVIOUS
<1> USE FreeAssumption
        DEF TypeOK, Descriptors, NoneYet, PtysOwned, OnePtyEach, HoldsOwnPty, Owns, Holds,
            Holding, Goto
<1>1. ASSUME NEW t \in Terms, Launch(t) \/ LaunchFails(t) PROVE Descriptors'
    <2>1. /\ at[t] = "none"
          /\ at' = [at EXCEPT ![t] = "started"] \/ at' = [at EXCEPT ![t] = "refused"]
          /\ UNCHANGED <<master_fd, fdtable>>
        BY <1>1 DEF Launch, LaunchFails, kernel
    <2> QED BY <2>1
<1>2. ASSUME NEW t \in Terms, Fork(t) PROVE Descriptors'
    <2>1. PICK f \in Fds : fdtable[f] = "free" /\ fdtable' = [fdtable EXCEPT ![f] = t]
        BY <1>2 DEF Fork, LowestFree
    <2>2. \A g \in Fds : fdtable[g] # t
        BY <1>2 DEF Fork
    <2>3. at[t] = "started" /\ at' = [at EXCEPT ![t] = "forked"] /\ UNCHANGED master_fd
        BY <1>2 DEF Fork
    <2> QED BY <2>1, <2>2, <2>3
<1>3. ASSUME NEW t \in Terms, ForkFails(t) PROVE Descriptors'
    BY <1>3 DEF ForkFails, kernel
<1>4. ASSUME NEW t \in Terms, SetMasterFd(t) PROVE Descriptors'
    BY <1>4 DEF SetMasterFd, kernel
<1>5. ASSUME NEW t \in Terms, SetPid(t) PROVE Descriptors'
    <2>1. /\ at[t] = "opened" /\ master_fd[t] # None
          /\ at' = [at EXCEPT ![t] = "copying"] \/ at' = [at EXCEPT ![t] = "decrement"]
          /\ UNCHANGED <<master_fd, fdtable>>
        BY <1>5 DEF SetPid, kernel, None, Fds
    <2>2. \A u \in Terms : (Holds(u)' <=> Holds(u)) /\ (Owns(u)' <=> Owns(u))
        BY <2>1
    <2>3. NoneYet' /\ OnePtyEach' /\ HoldsOwnPty'
        BY <2>1, <2>2
    <2>4. PtysOwned'
        BY <2>1, <2>2
    <2> QED BY <2>3, <2>4
<1>6. ASSUME NEW t \in Terms, Copy(t) \/ CopyFails(t) PROVE Descriptors'
    BY <1>6 DEF Copy, CopyFails, kernel
<1>7. ASSUME NEW t \in Terms, CloseFd(t) PROVE Descriptors'
    <2>1. at[t] = "left" /\ at' = [at EXCEPT ![t] = "fdclosed"] /\ UNCHANGED master_fd
        BY <1>7 DEF CloseFd
    <2>2. /\ master_fd[t] \in Fds /\ fdtable[master_fd[t]] = t
          /\ fdtable' = [fdtable EXCEPT ![master_fd[t]] = "free"]
        BY <1>7 DEF CloseFd
    <2>3. \A f \in Fds : fdtable'[f] # "free" => fdtable'[f] = fdtable[f] /\ fdtable[f] # t
        BY <2>2
    <2>4. \A u \in Terms : u # t /\ Holds(u) => fdtable'[master_fd[u]] = u
        BY <2>2
    <2> QED BY <2>1, <2>2, <2>3, <2>4
<1>8. ASSUME NEW t \in Terms, ForgetFd(t) PROVE Descriptors'
    <2>1. /\ at[t] = "fdclosed" /\ at' = [at EXCEPT ![t] = "decrement"]
          /\ master_fd' = [master_fd EXCEPT ![t] = None] /\ UNCHANGED fdtable
        BY <1>8 DEF ForgetFd, kernel
    <2> QED BY <2>1
<1>9. ASSUME NEW t \in Terms, Decrement(t) PROVE Descriptors'
    BY <1>9 DEF Decrement, kernel
<1>10. CASE \/ UNCHANGED vars
            \/ \E t \in Terms : \/ OnData(t) \/ OnClose(t) \/ Reap(t) \/ NotYet(t)
                                \/ Kill(t) \/ Writes(t) \/ Dies(t)
    <2>1. UNCHANGED <<at, master_fd, fdtable>>
        BY <1>10 DEF vars, kernel, OnData, OnClose, Reap, NotYet, Kill, Writes, Dies
    <2> QED BY <2>1
<1> QED BY <1>1, <1>2, <1>3, <1>4, <1>5, <1>6, <1>7, <1>8, <1>9, <1>10
    DEF Next, ThreadStep, Proceeds

-----------------------------------------------------------------------------
(* The invariant of the terminals.                                         *)
LEMMA InvariantHolds == Spec => []Inv
<1>1. Inv /\ [Next]_vars => Inv'
    BY ShapesInv, DescriptorsInv DEF Inv, Shapes
<1> QED BY InitInv, <1>1, PTL DEF Spec

(* The state of every terminal keeps its type.                             *)
THEOREM TerminalTypeOK == Spec => []TypeOK
<1>1. Inv => TypeOK
    BY DEF Inv, Shapes
<1> QED BY <1>1, InvariantHolds, PTL

(* A terminal reads the pty of its own shell from the time it has the      *)
(* number to the time it closes it, whatever the others open and close.    *)
THEOREM TerminalReadsOwnPty == Spec => []ReadsOwnPty
<1>1. Inv => ReadsOwnPty
    BY DEF Inv, Descriptors, HoldsOwnPty, Holds, Holding, ReadsOwnPty
<1> QED BY <1>1, InvariantHolds, PTL

(* What is typed on a terminal reaches another shell only between os.close *)
(* and `self.master_fd = None`: before, the number is the terminal's own,  *)
(* and after there is none, unless _init_fd raised and it is still open.   *)
THEOREM TerminalStraysOnlyInClose == Spec => StrayOnlyInClose
<1>1. ASSUME Inv, Next, NEW t \in Terms, NEW u \in Terms,
             fed'[t][u] # fed[t][u], u # t
      PROVE  at[t] = "fdclosed"
    <2>1. PICK v \in Terms : OnData(v)
        BY <1>1 DEF Next, channel, Launch, LaunchFails, OnClose, ThreadStep, Proceeds, Fork,
               ForkFails, SetMasterFd, SetPid, Copy, CopyFails, CloseFd, ForgetFd, Decrement,
               Reap, NotYet, Kill, Writes, Dies
    <2>2. master_fd[v] # None /\ fed' = [fed EXCEPT ![v][fdtable[master_fd[v]]] = @ + 1]
        BY <1>1, <2>1 DEF OnData
    <2>3. master_fd[v] \in Fds /\ fdtable[master_fd[v]] \in Terms \cup {"free"}
        BY <1>1, <2>2 DEF Inv, Shapes, TypeOK
    <2>4. v = t /\ fdtable[master_fd[v]] = u
        BY <1>1, <2>2, <2>3 DEF Inv, Shapes, TypeOK
    <2>5. ~Holds(t)
        BY <1>1, <2>4 DEF Inv, Descriptors, HoldsOwnPty
    <2>6. at[t] \notin {"none", "refused", "started", "forked"}
        BY <1>1, <2>2, <2>4 DEF Inv, Descriptors, NoneYet
    <2> QED BY <1>1, <2>2, <2>4, <2>5, <2>6
            DEF Inv, Shapes, TypeOK, Places, Holds, Holding
<1>2. Inv /\ [Next]_vars => [\A t, u \in Terms :
          fed'[t][u] # fed[t][u] /\ u # t => at[t] = "fdclosed"]_vars
    BY <1>1
<1> QED BY <1>2, InvariantHolds, PTL DEF Spec, StrayOnlyInClose
=============================================================================
