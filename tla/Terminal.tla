------------------------------ MODULE Terminal ------------------------------
(***************************************************************************)
(* Terminals: m2m/remoteprocess.py, m2m/proxy.py and Terminal.launch of    *)
(* m2mmanager.py.  Each terminal is a RemoteProcess with a channel, a      *)
(* thread that forks a shell on a pty and copies its output, and, once the *)
(* channel is closed, a PidWaitThread that reaps the shell or kills it.    *)
(* The WS thread runs the callbacks of the channel while the thread of the *)
(* terminal sets and clears pid and master_fd without a lock, so each of   *)
(* these assignments is a step of its own.                                 *)
(*                                                                         *)
(* The shell and the kernel are external: a shell writes, and may exit at  *)
(* any time, a file descriptor is the lowest free number, and a write to   *)
(* the pty of a shell that has ended may succeed or raise.  Terminal.close *)
(* is never called (Client.close does nothing) and is left out, and so is  *)
(* the waiter that gives up on a process a day after killing it.           *)
(***************************************************************************)
EXTENDS Naturals, FiniteSets

CONSTANTS Terms,         \* terminals that are launched
          MaxTyped,      \* bound: chunks typed on all of them
          MaxOutput      \* bound: chunks each shell writes, a chunk being what
                         \* one os.read returns

ASSUME SizeAssumption == IsFiniteSet(Terms) /\ MaxTyped \in Nat /\ MaxOutput \in Nat
ASSUME FreeAssumption == "free" \notin Terms    \* "free" marks an unused descriptor

None == 0
Fds == 1..Cardinality(Terms)

VARIABLES at,            \* where the thread of each terminal is
          master_fd,     \* Interceptor.master_fd, or None
          pid,           \* terminals whose Interceptor.pid is set
          hung,          \* terminals whose RemoteProcess._closed is set
          closed,        \* channels that are closed
          asked,         \* channels request_close was sent for
          typed,         \* chunks typed, on all the channels
          fed,           \* fed[t][u]: chunks typed on t, written to the pty of u
          fdtable,       \* kernel: descriptor -> terminal whose pty it is, or "free"
          child,         \* kernel: the shell of each terminal
          signal,        \* kernel: the strongest signal sent to it
          output,        \* chunks written by each shell, and read from its pty
          waiter         \* the PidWaitThread of each terminal

channel == <<closed, asked, typed, fed>>
kernel  == <<fdtable, child, signal>>
vars    == <<at, master_fd, pid, hung, channel, kernel, output, waiter>>

Places == {"none", "refused", "started", "forked", "opened", "copying", "left",
            "fdclosed", "decrement", "ended"}

Init == /\ at = [t \in Terms |-> "none"]
        /\ master_fd = [t \in Terms |-> None]
        /\ pid = {} /\ hung = {} /\ closed = {} /\ asked = {}
        /\ typed = 0
        /\ fed = [t \in Terms |-> [u \in Terms |-> 0]]
        /\ fdtable = [f \in Fds |-> "free"]
        /\ child = [t \in Terms |-> "none"]
        /\ signal = [t \in Terms |-> "none"]
        /\ output = [t \in Terms |-> [written |-> 0, read |-> 0]]
        /\ waiter = [t \in Terms |-> "none"]

Goto(t, from, to) == at[t] = from /\ at' = [at EXCEPT ![t] = to]

(* Channel.close(): request a close, unless the channel is closed.         *)
CloseChannel(t) == asked' = IF t \in closed THEN asked ELSE asked \cup {t}

LowestFree(f) == fdtable[f] = "free" /\ \A g \in Fds : g < f => fdtable[g] # "free"

-----------------------------------------------------------------------------
(* Plausible bugs of this code; each must break a property below.          *)
NeverForgets(t) ==               \* spawn without `self.master_fd = None`
    /\ Goto(t, "fdclosed", "decrement")
    /\ UNCHANGED <<master_fd, pid, hung, channel, kernel, output, waiter>>
CloseWithoutWaiter(t) ==         \* SIGHUP, and nobody waits
    /\ signal' = IF t \in pid \ hung THEN [signal EXCEPT ![t] = "hup"] ELSE signal
    /\ UNCHANGED waiter
CopyIgnoresHangup(t) ==          \* POLLHUP left out of the events
    /\ Goto(t, "copying", "copying") /\ output[t].written > output[t].read
    /\ output' = [output EXCEPT ![t].read = @ + 1]
    /\ UNCHANGED <<master_fd, pid, hung, channel, kernel, waiter>>
CopyAnyEvent(t) ==               \* reads on POLLHUP as well, as if it were data
    /\ LET hup == child[t] # "alive"
       IN /\ output[t].written > output[t].read \/ hup
          /\ Goto(t, "copying", IF hup THEN "left" ELSE "copying")
          /\ output' = [output EXCEPT ![t].read = @ + 1]
    /\ UNCHANGED <<master_fd, pid, hung, channel, kernel, waiter>>
ForgetClosesAgain(t) ==          \* os.close(master_fd) a second time
    /\ Goto(t, "fdclosed", "decrement")
    /\ fdtable' = [fdtable EXCEPT ![master_fd[t]] = "free"]
    /\ master_fd' = [master_fd EXCEPT ![t] = None]
    /\ UNCHANGED <<pid, hung, channel, child, signal, output, waiter>>

-----------------------------------------------------------------------------
(* The WS thread.                                                          *)

(* Terminal.launch: the RemoteProcess takes the callbacks of the channel,  *)
(* and its thread is started; if the limit is reached or there are no more *)
(* threads, the channel is told so and closed.                             *)
Launch(t) ==
    /\ t \notin closed /\ Goto(t, "none", "started")
    /\ UNCHANGED <<master_fd, pid, hung, channel, kernel, output, waiter>>
LaunchFails(t) ==
    /\ t \notin closed /\ Goto(t, "none", "refused")
    /\ CloseChannel(t)
    /\ UNCHANGED <<master_fd, pid, hung, closed, typed, fed, kernel, output, waiter>>

(* on_data, write_master: what is typed goes to whatever has the number    *)
(* now.  No number, or one that is not open, raises, and so may a write to *)
(* the pty of a shell that has ended; then the channel is asked to close.  *)
OnData(t) ==
    /\ at[t] # "none" /\ t \notin closed
    /\ typed < MaxTyped /\ typed' = typed + 1
    /\ LET pty == IF master_fd[t] = None THEN "free" ELSE fdtable[master_fd[t]]
       IN  \/ /\ pty # "free"
              /\ fed' = [fed EXCEPT ![t][pty] = @ + 1]
              /\ UNCHANGED asked
           \/ /\ pty # "free" => child[pty] # "alive"
              /\ CloseChannel(t)
              /\ UNCHANGED fed
    /\ UNCHANGED <<at, master_fd, pid, hung, closed, kernel, output, waiter>>

(* RemoteProcess.close: SIGHUP, and a thread to wait for the shell (which  *)
(* "failed to launch" when there are no more threads); nothing if there is *)
(* no pid yet.                                                             *)
Close(t) ==
    IF t \in pid \ hung
    THEN /\ signal' = [signal EXCEPT ![t] = "hup"]
         /\ \E w \in {"waiting", "failed"} : waiter' = [waiter EXCEPT ![t] = w]
    ELSE UNCHANGED <<signal, waiter>>

OnClose(t) ==
    /\ at[t] # "none" /\ t \notin closed /\ closed' = closed \cup {t}
    /\ Close(t) /\ hung' = hung \cup {t}
    /\ UNCHANGED <<at, master_fd, pid, asked, typed, fed, fdtable, child, output>>

-----------------------------------------------------------------------------
(* The thread of a terminal: RemoteProcess.run, Interceptor.spawn.  If the *)
(* fork raises, or _init_fd once pid is set, the thread ends with only the *)
(* decrement: the channel stays open, and so does the descriptor if there  *)
(* is one by then.                                                         *)

Fork(t) ==
    /\ Goto(t, "started", "forked")
    /\ child' = [child EXCEPT ![t] = "alive"]
    /\ \E f \in Fds : LowestFree(f) /\ fdtable' = [fdtable EXCEPT ![f] = t]
    /\ UNCHANGED <<master_fd, pid, hung, channel, signal, output, waiter>>
ForkFails(t) ==
    /\ Goto(t, "started", "decrement")
    /\ UNCHANGED <<master_fd, pid, hung, channel, kernel, output, waiter>>
SetMasterFd(t) ==
    /\ Goto(t, "forked", "opened")
    /\ \E f \in Fds : fdtable[f] = t /\ master_fd' = [master_fd EXCEPT ![t] = f]
    /\ UNCHANGED <<pid, hung, channel, kernel, output, waiter>>
SetPid(t) ==
    /\ Goto(t, "opened", "copying") \/ Goto(t, "opened", "decrement")
    /\ pid' = pid \cup {t}
    /\ UNCHANGED <<master_fd, hung, channel, kernel, output, waiter>>

(* One turn of _copy: at most one read, which goes to the channel, then    *)
(* out if the pty hung up, or if poll or read raises.                      *)
Copy(t) ==
    /\ LET unread == output[t].written > output[t].read
           hup == child[t] # "alive"
       IN /\ unread \/ hup
          /\ Goto(t, "copying", IF hup THEN "left" ELSE "copying")
          /\ output' = IF ~unread THEN output
                       ELSE [output EXCEPT ![t].read = @ + 1]
    /\ UNCHANGED <<master_fd, pid, hung, channel, kernel, waiter>>
CopyFails(t) ==
    /\ Goto(t, "copying", "left")
    /\ UNCHANGED <<master_fd, pid, hung, channel, kernel, output, waiter>>

(* os.close of the number; spawn has it in a variable of its own, which    *)
(* only it copies to self.master_fd.                                       *)
CloseFd(t) ==
    /\ Goto(t, "left", "fdclosed")
    /\ fdtable' = [fdtable EXCEPT ![master_fd[t]] = "free"]
    /\ UNCHANGED <<master_fd, pid, hung, channel, child, signal, output, waiter>>
ForgetFd(t) ==
    /\ Goto(t, "fdclosed", "decrement")
    /\ master_fd' = [master_fd EXCEPT ![t] = None]
    /\ UNCHANGED <<pid, hung, channel, kernel, output, waiter>>
Decrement(t) ==
    /\ Goto(t, "decrement", "ended")
    /\ UNCHANGED <<master_fd, pid, hung, channel, kernel, output, waiter>>

Proceeds(t) == \/ Fork(t) \/ SetMasterFd(t) \/ SetPid(t) \/ Copy(t)
               \/ CloseFd(t) \/ ForgetFd(t) \/ Decrement(t)
ThreadStep(t) == Proceeds(t) \/ ForkFails(t) \/ CopyFails(t)

-----------------------------------------------------------------------------
(* PidWaitThread: waitpid every two seconds, SIGKILL once after fifteen.   *)
Reap(t) ==
    /\ waiter[t] = "waiting" /\ child[t] = "zombie"
    /\ child' = [child EXCEPT ![t] = "reaped"]
    /\ waiter' = [waiter EXCEPT ![t] = "done"]
    /\ UNCHANGED <<at, master_fd, pid, hung, channel, fdtable, signal, output>>
NotYet(t) ==
    /\ waiter[t] = "waiting" /\ child[t] = "alive" /\ signal[t] = "hup"
    /\ waiter' = [waiter EXCEPT ![t] = "killing"]
    /\ UNCHANGED <<at, master_fd, pid, hung, channel, kernel, output>>
Kill(t) ==
    /\ waiter[t] = "killing"
    /\ waiter' = [waiter EXCEPT ![t] = "waiting"]
    /\ signal' = [signal EXCEPT ![t] = "kill"]
    /\ UNCHANGED <<at, master_fd, pid, hung, channel, fdtable, child, output>>

-----------------------------------------------------------------------------
(* The shell.                                                              *)
Writes(t) ==
    /\ child[t] = "alive" /\ output[t].written < MaxOutput
    /\ output' = [output EXCEPT ![t].written = @ + 1]
    /\ UNCHANGED <<at, master_fd, pid, hung, channel, kernel, waiter>>
Dies(t) ==
    /\ child[t] = "alive" /\ child' = [child EXCEPT ![t] = "zombie"]
    /\ UNCHANGED <<at, master_fd, pid, hung, channel, fdtable, signal, output, waiter>>

Next == \E t \in Terms :
          \/ Launch(t) \/ LaunchFails(t) \/ OnData(t) \/ OnClose(t)
          \/ ThreadStep(t) \/ Reap(t) \/ NotYet(t) \/ Kill(t)
          \/ Writes(t) \/ Dies(t)

(* Threads run, and no call need fail; a process that was killed dies.  A  *)
(* shell need not exit, not even on SIGHUP.                                *)
Fairness == \A t \in Terms : /\ WF_vars(Proceeds(t))
                             /\ WF_vars(Reap(t)) /\ WF_vars(NotYet(t)) /\ WF_vars(Kill(t))
                             /\ WF_vars(signal[t] = "kill" /\ Dies(t))

Spec == Init /\ [][Next]_vars /\ Fairness

-----------------------------------------------------------------------------
TypeOK ==
    /\ at \in [Terms -> Places] /\ master_fd \in [Terms -> {None} \cup Fds]
    /\ pid \subseteq Terms /\ hung \subseteq Terms
    /\ closed \subseteq Terms /\ asked \subseteq Terms
    /\ typed \in 0..MaxTyped
    /\ fed \in [Terms -> [Terms -> 0..MaxTyped]]
    /\ fdtable \in [Fds -> Terms \cup {"free"}]
    /\ child \in [Terms -> {"none", "alive", "zombie", "reaped"}]
    /\ signal \in [Terms -> {"none", "hup", "kill"}]
    /\ output \in [Terms -> [written : 0..MaxOutput, read : 0..MaxOutput]]
    /\ waiter \in [Terms -> {"none", "waiting", "killing", "done", "failed"}]

(* What is typed on a terminal is written to another's shell only between  *)
(* os.close and `self.master_fd = None`, never while the terminal has its  *)
(* descriptor and never once its thread has ended, although the WS thread  *)
(* writes to whatever the number stands for.                               *)
StrayOnlyInClose == [][\A t, u \in Terms :
    fed'[t][u] # fed[t][u] /\ u # t => at[t] = "fdclosed"]_vars

(* From the first assignment to master_fd to os.close a terminal's number  *)
(* is the pty of its own shell, so that what the remote user reads is the  *)
(* output of that shell.                                                   *)
ReadsOwnPty == \A t \in Terms :
    at[t] \in {"opened", "copying", "left"} => fdtable[master_fd[t]] = t

(* A hang-up always works once the agent knows the pid: the shell exits on *)
(* SIGHUP or is killed, it is reaped, and the thread ends and gives back   *)
(* its slot.                                                               *)
HangupEnds == \A t \in Terms :
    signal[t] # "none" /\ waiter[t] # "failed"
        ~> child[t] = "reaped" /\ at[t] = "ended"

(* However a shell ends, its thread ends and gives back its slot: the      *)
(* terminals do not run out.                                               *)
ExitEnds == \A t \in Terms : child[t] = "zombie" ~> at[t] = "ended"
=============================================================================
