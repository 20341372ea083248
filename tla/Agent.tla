------------------------------- MODULE Agent -------------------------------
(***************************************************************************)
(* The life of the agent process: App.run and subcommands/run.py make a    *)
(* Client, whose _init starts the WS thread before all that instructions   *)
(* need is there; run_forever polls until it is interrupted; the process   *)
(* ends once no service thread is left, and ClockCheckThread kills it when *)
(* the clock was put forward.  M2MManager.on_instruction starts the        *)
(* services.  What a poll and a service do is left to other modules, and   *)
(* exit_event is left out: nothing calls restart_agent.                    *)
(*                                                                         *)
(* The server, the operator, the clock and the supervisor, which starts    *)
(* the agent again whenever it ended, are external.                        *)
(***************************************************************************)
EXTENDS Naturals, Sequences

CONSTANTS Instructions   \* instructions of the server, by number

VARIABLES main,          \* where the main thread is
          built,         \* what it has built of the Client
          clock,         \* where the ClockCheckThread is
          running,       \* ClockCheckThread.running
          elapsed,       \* what time() - start will be: about a second, "long",
                         \* or "negative"
          frozen,        \* Event.wait does not return, the clock having changed
          serving,       \* instructions with a service thread
          action,        \* the action of each instruction; fixed
          inbox,         \* instructions on their way to the WS thread
          status,        \* what became of each instruction
          late           \* instructions sent when the Client was complete

client == <<main, built>>
check  == <<clock, running, elapsed>>
orders == <<action, inbox, status, late>>
vars   == <<client, check, frozen, serving, orders>>

Places == {"reading", "starting", "adding", "setting", "forwarding", "complete",
           "polling", "waiting", "interrupted", "joining", "leaving", "gone"}
Parts  == {"ws", "shell", "m2m", "port_forward"}

(* "open-portforward" may be for a service the device has not: Unknown.    *)
(* "read-file" stands for "run-command" and "scan-directory" too, which    *)
(* start a thread of their own as well and need no more of the Client.     *)
(* "sync" stands for "open-echo" and "reboot-device", which start none.    *)
NeedsShell   == {"open-terminal"}
NeedsForward == {"open-portforward", "open-portredirect"}
Threaded     == NeedsShell \cup NeedsForward \cup {"read-file"}
Unknown      == "open-portforward unknown"
Actions      == Threaded \cup {Unknown, "sync"}

Init == /\ main = "reading" /\ built = {}
        /\ clock = "none" /\ running = FALSE /\ elapsed = "short" /\ frozen = FALSE
        /\ serving = {} /\ action \in [Instructions -> Actions]
        /\ inbox = <<>> /\ status = [i \in Instructions |-> "none"] /\ late = {}

Goto(from, to) == main = from /\ main' = to
Alive == main # "gone"

-----------------------------------------------------------------------------
(* Plausible bugs of this code; each must break a property below.          *)
StopClockForgotten ==           \* no running = False
    /\ Goto("interrupted", "joining")
    /\ UNCHANGED <<built, check, frozen, serving, orders>>
WakeUnchecked ==                \* does not look at elapsed
    /\ clock = "sleeping" /\ clock' = "looping" /\ elapsed' = "short"
    /\ UNCHANGED <<client, running, frozen, serving, orders>>

-----------------------------------------------------------------------------
(* The process is gone, and with it all of its threads.                    *)
Dies == /\ main' = "gone" /\ built' = {} /\ frozen' = FALSE
        /\ clock' = "none" /\ running' = FALSE /\ elapsed' = "short"
        /\ serving' = {} /\ inbox' = <<>>
        /\ status' = [i \in Instructions |-> IF status[i] = "sent" THEN "lost" ELSE status[i]]
        /\ UNCHANGED <<action, late>>

(* Client._init: serial and auth token are read, which may fail; then the  *)
(* M2MManager starts the WS thread, and adds the terminal after that.      *)
InitFails == /\ Goto("reading", "leaving")
             /\ UNCHANGED <<built, check, frozen, serving, orders>>
ReadSerial == /\ Goto("reading", "starting")
              /\ UNCHANGED <<built, check, frozen, serving, orders>>
Build(part, from, to) == /\ Goto(from, to) /\ built' = built \cup {part}
                         /\ UNCHANGED <<check, frozen, serving, orders>>
StartWS == Build("ws", "starting", "adding")
AddShell == Build("shell", "adding", "setting")
SetM2M == Build("m2m", "setting", "forwarding")
SetPortForward == Build("port_forward", "forwarding", "complete")

(* run_forever.                                                            *)
StartClock == /\ Goto("complete", "polling")
              /\ clock' = "looping" /\ running' = TRUE
              /\ UNCHANGED <<built, elapsed, frozen, serving, orders>>
Poll == /\ Goto("polling", "waiting")
        /\ UNCHANGED <<built, check, frozen, serving, orders>>
Timeout == /\ ~frozen /\ Goto("waiting", "polling")
           /\ UNCHANGED <<built, check, frozen, serving, orders>>

(* The operator interrupts: KeyboardInterrupt, in the loop or out of it.   *)
Interrupt == /\ ~frozen /\ main \notin {"interrupted", "leaving", "gone"}
             /\ main' = IF main \in {"polling", "waiting"} THEN "interrupted" ELSE "leaving"
             /\ UNCHANGED <<built, check, frozen, serving, orders>>
StopClock == /\ Goto("interrupted", "joining") /\ running' = FALSE
             /\ UNCHANGED <<built, clock, elapsed, frozen, serving, orders>>
Join == /\ clock = "over" /\ Goto("joining", "leaving")
        /\ UNCHANGED <<built, check, frozen, serving, orders>>

(* The interpreter waits for the service threads, which are no daemons;    *)
(* the WS thread goes on meanwhile.                                        *)
Leave == main = "leaving" /\ serving = {} /\ Dies

MainStep == \/ InitFails \/ ReadSerial \/ StartWS \/ AddShell \/ SetM2M \/ SetPortForward
            \/ StartClock \/ Poll \/ Timeout \/ StopClock \/ Join \/ Leave

-----------------------------------------------------------------------------
(* ClockCheckThread.run and on_fail.                                       *)
ClockLoop == /\ clock = "looping"
             /\ clock' = IF running THEN "sleeping" ELSE "over"
             /\ UNCHANGED <<client, running, elapsed, frozen, serving, orders>>
Wake == /\ clock = "sleeping" /\ elapsed # "long"
        /\ clock' = "looping" /\ elapsed' = "short"
        /\ UNCHANGED <<client, running, frozen, serving, orders>>
OnFail == clock = "sleeping" /\ elapsed = "long" /\ Dies

ClockStep == ClockLoop \/ Wake \/ OnFail

(* The clock is changed by more than MAX_CLOCK_DISCREPANCY.  A wait then   *)
(* may not return; a thread that sleeps will see the change.               *)
ClockChange(e) ==
    /\ Alive /\ elapsed = "short"
    /\ elapsed' = IF clock = "sleeping" THEN e ELSE elapsed
    /\ frozen' \in {frozen, main = "waiting"}
    /\ UNCHANGED <<client, clock, running, serving, orders>>

-----------------------------------------------------------------------------
(* M2MManager.on_instruction, in the WS thread.  What is missing in the    *)
(* Client is an AttributeError there, or no terminal of this name; a       *)
(* service that is not known is ignored.                                   *)
Take(i, s) == /\ Alive /\ inbox # <<>> /\ i = Head(inbox)
              /\ inbox' = Tail(inbox) /\ status' = [status EXCEPT ![i] = s]
              /\ UNCHANGED <<client, check, frozen, action, late>>
Has(i) == /\ action[i] \in NeedsShell => "shell" \in built
          /\ action[i] \in NeedsForward => {"m2m", "port_forward"} \subseteq built
          /\ action[i] # Unknown

Launch(i) == /\ Has(i) /\ action[i] \in Threaded
             /\ Take(i, "served") /\ serving' = serving \cup {i}
Refuse(i) == /\ Has(i) /\ action[i] \in Threaded     \* SERVER_BUSY, or another error
             /\ Take(i, "refused") /\ UNCHANGED serving
Perform(i) == /\ Has(i) /\ action[i] \notin Threaded
              /\ Take(i, "served") /\ UNCHANGED serving
Drop(i) == ~Has(i) /\ Take(i, "dropped") /\ UNCHANGED serving

OnInstruction(i) == Launch(i) \/ Refuse(i) \/ Perform(i) \/ Drop(i)

-----------------------------------------------------------------------------
(* The server, a service thread that ends, the link, a SIGKILL or SIGTERM, *)
(* and the supervisor.                                                     *)
Instruct(i) == /\ "ws" \in built /\ status[i] = "none"
               /\ inbox' = Append(inbox, i) /\ status' = [status EXCEPT ![i] = "sent"]
               /\ late' = IF "port_forward" \in built THEN late \cup {i} ELSE late
               /\ UNCHANGED <<client, check, frozen, serving, action>>
ServiceEnds(i) == /\ i \in serving /\ serving' = serving \ {i}
                  /\ UNCHANGED <<client, check, frozen, orders>>
LinkDrops == /\ inbox # <<>> /\ inbox' = <<>>
             /\ status' = [i \in Instructions |-> IF status[i] = "sent" THEN "lost" ELSE status[i]]
             /\ UNCHANGED <<client, check, frozen, serving, action, late>>
Killed == Alive /\ Dies
Supervise == /\ Goto("gone", "reading")
             /\ UNCHANGED <<built, check, frozen, serving, orders>>

Next == \/ MainStep \/ ClockStep \/ Interrupt \/ LinkDrops \/ Killed \/ Supervise
        \/ \E e \in {"long", "negative"} : ClockChange(e)
        \/ \E i \in Instructions : Instruct(i) \/ OnInstruction(i) \/ ServiceEnds(i)

(* The threads run and the supervisor does its work.  Nobody need          *)
(* interrupt, and no service need end.                                     *)
Fairness == /\ WF_vars(MainStep) /\ WF_vars(ClockStep) /\ WF_vars(Supervise)
            /\ \A i \in Instructions : WF_vars(OnInstruction(i))

Spec == Init /\ [][Next]_vars /\ Fairness

-----------------------------------------------------------------------------
Statuses == {"none", "sent", "served", "refused", "dropped", "lost"}

TypeOK == /\ main \in Places /\ built \subseteq Parts
          /\ clock \in {"none", "looping", "sleeping", "over"} /\ running \in BOOLEAN
          /\ elapsed \in {"short", "long", "negative"} /\ frozen \in BOOLEAN
          /\ serving \subseteq Instructions
          /\ action \in [Instructions -> Actions] /\ inbox \in Seq(Instructions)
          /\ status \in [Instructions -> Statuses] /\ late \subseteq Instructions

(* An instruction that nobody answers was for a service the device has     *)
(* not, or was sent while the Client was still being built: once it is     *)
(* complete, terminals, forwards and the rest are never found missing,     *)
(* whatever restarts and lost links come between.                          *)
LostOnlyEarly == \A i \in late : status[i] = "dropped" => action[i] = Unknown

(* An agent that was interrupted ends, and is started again, unless        *)
(* services keep it: the clock thread does not.                            *)
AgentExits == <>[](serving = {}) => (main = "interrupted" ~> main = "gone")

(* The agent is started again after a clock was put forward while the      *)
(* ClockCheckThread slept, wherever the main thread was.                   *)
ForwardChangeRestarts == elapsed = "long" ~> main = "reading"

(* "threading.Event objects block indefinitely when the clock changes,     *)
(* causing agent to hang.  This thread kills the current process when the  *)
(* clock changes": also when it was put back.                              *)
BackwardChangeRestarts == frozen /\ elapsed = "negative" ~> main = "reading"
=============================================================================
