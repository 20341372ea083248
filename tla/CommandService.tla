--------------------------- MODULE CommandService ---------------------------
(***************************************************************************)
(* m2m/commandservice.py: a thread runs a shell command, polls the pipes   *)
(* of its stdout and stderr, and writes what stdout gives to a channel.    *)
(* As in FileService, each use of the channel first looks at               *)
(* Channel._closed and then sends; what is sent once the session is over   *)
(* is lost.                                                                *)
(*                                                                         *)
(* The command, the pipes, the link and the remote user are external.  The *)
(* shell may start a child, which has the pipes too; each may close what   *)
(* it has of them and end, in any order.  A pipe holds PipeSize chunks and *)
(* then blocks who writes.  When nobody has it open poll() reports POLLHUP *)
(* for it; at its end Linux reports no POLLIN, other systems do.           *)
(***************************************************************************)
EXTENDS Naturals

CONSTANTS MaxOut,        \* bound: chunks the command writes to each pipe
          PipeSize       \* chunks a pipe holds, one at least

VARIABLES at,            \* where the thread is
          mask,          \* the last poll(): POLLHUP for stdout, POLLIN for stderr
          more_data,     \* the variable of that name
          trouble,       \* poll() or read() raised
          command,       \* each of its processes is "none", "running" or "ended"
          holds,         \* which of them has which pipe open, to write
          stdout,        \* chunks written to the pipe, and read from it
          stderr,        \* as stdout
          closed,        \* Channel._closed
          slot,          \* the service holds a slot of the limiter
          session,       \* the session of the remote user is "up" or "over"
          got,           \* chunks the remote user has
          told,          \* control packets the user has: {"error", "complete"}
          requested,     \* close() was called on the channel
          eof_readable   \* poll() reports POLLIN on a pipe at end of file; fixed

remote  == <<session, got, told, requested>>
process == <<command, holds, stdout, stderr, eof_readable>>
vars    == <<at, mask, more_data, trouble, process, closed, slot, remote>>

Places == {"none", "refused", "spawning", "polling", "reading", "writing", "sending",
           "stderr", "looking", "failing", "sendingError", "completing", "sendingComplete",
           "closing", "sendingClose", "killing", "unspawned", "decrement", "ended"}

Processes == {"shell", "child"}
Pipes     == {"stdout", "stderr"}
Empty     == [written |-> 0, read |-> 0]
NoEvents  == [hup |-> FALSE, err |-> FALSE]

Init == /\ at = "none" /\ mask = NoEvents /\ more_data = TRUE /\ trouble = FALSE
        /\ command = [p \in Processes |-> "none"] /\ holds = {}
        /\ stdout = Empty /\ stderr = Empty
        /\ closed = FALSE /\ slot = FALSE
        /\ session = "up" /\ got = 0 /\ told = {} /\ requested = FALSE
        /\ eof_readable \in BOOLEAN

Goto(from, to) == at = from /\ at' = to
Unread(pipe) == pipe.written - pipe.read
Held(pipe)   == \E p \in Processes : <<p, pipe>> \in holds
AtEof        == ~Held("stdout") /\ Unread(stdout) = 0
Arrives      == session = "up"

-----------------------------------------------------------------------------
(* Plausible bugs of this code; each must break a property below.          *)
LookOnlyAtEof ==              \* no `if channel.is_closed`
    /\ Goto("looking", IF more_data THEN "polling" ELSE "completing")
    /\ UNCHANGED <<mask, more_data, trouble, process, closed, slot, remote>>
StopOnHangup ==               \* break out of both loops on POLLHUP
    /\ Goto("stderr", IF mask.hup THEN "completing" ELSE "looking") /\ mask' = NoEvents
    /\ stderr' = IF mask.err /\ ~mask.hup THEN [stderr EXCEPT !.read = @ + 1] ELSE stderr
    /\ UNCHANGED <<more_data, trouble, command, holds, stdout, eof_readable, closed, slot, remote>>
StderrUnread ==               \* stderr is not registered with poll
    /\ Goto("stderr", "looking") /\ mask' = NoEvents
    /\ UNCHANGED <<more_data, trouble, process, closed, slot, remote>>

-----------------------------------------------------------------------------
(* CommandService.__init__, in the WS thread: a thread with a slot, or an  *)
(* error and a close.                                                      *)
Start == /\ Goto("none", "spawning") /\ slot' = TRUE
         /\ UNCHANGED <<mask, more_data, trouble, process, closed, remote>>
StartFails == /\ Goto("none", "refused") /\ requested' = TRUE
              /\ told' = IF Arrives THEN told \cup {"error"} ELSE told
              /\ UNCHANGED <<mask, more_data, trouble, process, closed, slot, session, got>>

(* Popen; if it raises, run_service sends the error.                       *)
Spawn == /\ Goto("spawning", "polling")
         /\ command' = [command EXCEPT !["shell"] = "running"]
         /\ holds' = {"shell"} \X Pipes
         /\ UNCHANGED <<mask, more_data, trouble, stdout, stderr, eof_readable, closed, slot, remote>>
SpawnFails == /\ Goto("spawning", "unspawned")
              /\ UNCHANGED <<mask, more_data, trouble, process, closed, slot, remote>>
TellUnspawned ==
    /\ Goto("unspawned", "decrement")
    /\ told' = IF ~closed /\ Arrives THEN told \cup {"error"} ELSE told
    /\ UNCHANGED <<mask, more_data, trouble, process, closed, slot, session, got, requested>>

(* poll(), with a timeout of half a second; an exception leaves the loop.  *)
Poll == /\ Goto("polling", IF Unread(stdout) > 0 \/ (AtEof /\ eof_readable)
                           THEN "reading" ELSE "stderr")
        /\ mask' = [hup |-> ~Held("stdout"), err |-> Unread(stderr) > 0]
        /\ UNCHANGED <<more_data, trouble, process, closed, slot, remote>>
PollFails == /\ Goto("polling", "completing") /\ trouble' = TRUE
             /\ UNCHANGED <<mask, more_data, process, closed, slot, remote>>

ReadChunk == /\ Unread(stdout) > 0 /\ Goto("reading", "writing")
             /\ stdout' = [stdout EXCEPT !.read = @ + 1]
             /\ UNCHANGED <<mask, more_data, trouble, command, holds, stderr, eof_readable, closed,
                            slot, remote>>
ReadEof == /\ AtEof /\ Goto("reading", "looking") /\ more_data' = FALSE
           /\ UNCHANGED <<mask, trouble, process, closed, slot, remote>>
ReadFails == /\ at = "reading" \/ (at = "stderr" /\ mask.err /\ ~mask.hup)
             /\ at' = "failing" /\ trouble' = TRUE
             /\ UNCHANGED <<mask, more_data, process, closed, slot, remote>>

(* Channel.write, Channel.send_control and Channel.close.                  *)
Check(from, send, next) ==
    /\ Goto(from, IF closed THEN next ELSE send)
    /\ UNCHANGED <<mask, more_data, trouble, process, closed, slot, remote>>
Tell(from, what, next) ==
    /\ Goto(from, next)
    /\ told' = IF Arrives THEN told \cup {what} ELSE told
    /\ UNCHANGED <<mask, more_data, trouble, process, closed, slot, session, got, requested>>

WriteChecks == Check("writing", "sending", "stderr")
WriteSends == /\ Goto("sending", "stderr")
              /\ got' = IF Arrives THEN got + 1 ELSE got
              /\ UNCHANGED <<mask, more_data, trouble, process, closed, slot, session,
                             told, requested>>

(* The rest of the poll result, which has stdout first: an error event of  *)
(* stdout ends it, else a chunk of stderr is read and logged.              *)
ReadStderr ==
    /\ Goto("stderr", "looking") /\ mask' = NoEvents
    /\ stderr' = IF mask.err /\ ~mask.hup THEN [stderr EXCEPT !.read = @ + 1] ELSE stderr
    /\ UNCHANGED <<more_data, trouble, command, holds, stdout, eof_readable, closed, slot, remote>>

(* if channel.is_closed: break; while more_data                            *)
Look == /\ Goto("looking", IF closed \/ ~more_data THEN "completing" ELSE "polling")
        /\ UNCHANGED <<mask, more_data, trouble, process, closed, slot, remote>>

ErrorChecks    == Check("failing", "sendingError", "completing")
ErrorSends     == Tell("sendingError", "error", "completing")
CompleteChecks == Check("completing", "sendingComplete", "closing")
CompleteSends  == Tell("sendingComplete", "complete", "closing")
CloseChecks    == Check("closing", "sendingClose", "killing")
CloseSends == /\ Goto("sendingClose", "killing")
              /\ requested' = TRUE /\ session' = "over"
              /\ UNCHANGED <<mask, more_data, trouble, process, closed, slot, got, told>>
(* process.kill() is for the shell alone; a child goes on.  With process   *)
(* the read ends of the pipes go.                                          *)
Ends(p) == /\ command[p] = "running" /\ command' = [command EXCEPT ![p] = "ended"]
           /\ holds' = holds \ ({p} \X Pipes)
Kill == /\ Goto("killing", "decrement")
        /\ Ends("shell") \/ (command["shell"] # "running" /\ UNCHANGED <<command, holds>>)
        /\ UNCHANGED <<mask, more_data, trouble, stdout, stderr, eof_readable, closed, slot, remote>>
PipesGone == at \in {"decrement", "ended"}

(* run_service: finally, the limiter is decremented.                       *)
Decrement == /\ Goto("decrement", "ended") /\ slot' = FALSE
             /\ UNCHANGED <<mask, more_data, trouble, process, closed, remote>>

ThreadStep == \/ Spawn \/ SpawnFails \/ TellUnspawned \/ Poll \/ PollFails
              \/ ReadChunk \/ ReadEof \/ ReadFails \/ WriteChecks \/ WriteSends
              \/ ReadStderr \/ Look \/ ErrorChecks \/ ErrorSends
              \/ CompleteChecks \/ CompleteSends \/ CloseChecks \/ CloseSends
              \/ Kill \/ Decrement

-----------------------------------------------------------------------------
(* The command: the shell and its child.                                   *)
Grown(pipe) == [pipe EXCEPT !.written = @ + 1]
HasRoom(pipe) == pipe.written < MaxOut /\ Unread(pipe) < PipeSize
Writes == /\ ~PipesGone
          /\ \/ Held("stdout") /\ HasRoom(stdout) /\ stdout' = Grown(stdout) /\ UNCHANGED stderr
             \/ Held("stderr") /\ HasRoom(stderr) /\ stderr' = Grown(stderr) /\ UNCHANGED stdout
          /\ UNCHANGED <<at, mask, more_data, trouble, command, holds, eof_readable, closed, slot,
                         remote>>
Forks == /\ command["shell"] = "running" /\ command["child"] = "none"
         /\ command' = [command EXCEPT !["child"] = "running"]
         /\ holds' = holds \cup {<<"child", pipe>> : pipe \in {q \in Pipes : <<"shell", q>> \in holds}}
         /\ UNCHANGED <<at, mask, more_data, trouble, stdout, stderr, eof_readable, closed, slot,
                        remote>>
ClosesPipe(p, pipe) ==
    /\ <<p, pipe>> \in holds /\ holds' = holds \ {<<p, pipe>>}
    /\ UNCHANGED <<at, mask, more_data, trouble, command, stdout, stderr, eof_readable, closed,
                   slot, remote>>
Exits(p) == /\ Ends(p)
            /\ UNCHANGED <<at, mask, more_data, trouble, stdout, stderr, eof_readable, closed, slot,
                           remote>>

Command == \/ Writes \/ Forks
           \/ \E p \in Processes : Exits(p) \/ \E pipe \in Pipes : ClosesPipe(p, pipe)

(* The user leaves or the link drops; later the WS thread hears of it, and *)
(* of the notify_close that answers request_close.                         *)
SessionEnds == /\ session = "up" /\ session' = "over"
               /\ UNCHANGED <<at, mask, more_data, trouble, process, closed, slot, got,
                              told, requested>>
OnClose == /\ session = "over" /\ ~closed /\ closed' = TRUE
           /\ UNCHANGED <<at, mask, more_data, trouble, process, slot, remote>>

Next == Start \/ StartFails \/ ThreadStep \/ Command \/ SessionEnds \/ OnClose

(* A started thread runs, with a timeout in poll().  Nobody need write,    *)
(* exit or leave, but the WS thread does hear of an end.                   *)
Fairness == WF_vars(ThreadStep) /\ WF_vars(OnClose)

Spec == Init /\ [][Next]_vars /\ Fairness

-----------------------------------------------------------------------------
Pipe == [written : 0..MaxOut, read : 0..MaxOut]

TypeOK ==
    /\ at \in Places /\ command \in [Processes -> {"none", "running", "ended"}]
    /\ holds \subseteq {p \in Processes : command[p] = "running"} \X Pipes
    /\ stdout \in Pipe /\ stderr \in Pipe
    /\ session \in {"up", "over"} /\ got \in 0..MaxOut /\ told \subseteq {"error", "complete"}
    /\ \A b \in {mask.hup, mask.err, more_data, trouble, closed, slot, requested, eof_readable} : b \in BOOLEAN

(* A user that is told "complete", and of no error, has everything that    *)
(* was written to stdout, however polls, exits and close fall (unless poll *)
(* itself failed).                                                         *)
CompleteMeansAll ==
    "complete" \in told /\ ~trouble => got = stdout.written

(* The remote user sees a transfer of what the command writes to stdout:   *)
(* in order, nothing after the end, and all of it if it is told of no      *)
(* error.                                                                  *)
Outcome == IF "error" \in told THEN "failed"
           ELSE IF "complete" \in told THEN "complete"
           ELSE IF session # "up" THEN "cut" ELSE "open"
User == INSTANCE Transfer WITH written <- stdout.written,
                               ended <- command["shell"] # "none" /\ ~Held("stdout"),
                               outcome <- Outcome
ImplementsTransfer == User!Spec

(* When the remote user leaves or the link drops, the shell is not left    *)
(* running, and the service gives its slot back.                           *)
ClosedKills == closed /\ slot ~> at = "ended" /\ command["shell"] # "running" /\ ~slot

(* A command that has stdout open is never blocked for ever on a full      *)
(* stderr, whoever of it writes there: it is read, or gone.                *)
NeverBlocked == Held("stdout") /\ Unread(stderr) = PipeSize
                    ~> Unread(stderr) < PipeSize \/ ~Held("stdout") \/ PipesGone

(* "The stdout is sent a line at a time, until the command is finished,    *)
(* and the channel is closed": anywhere, so on Linux as well.              *)
Finished == command["shell"] = "ended" /\ command["child"] # "running"
FinishedClosesAnywhere == Finished ~> requested \/ closed
=============================================================================
