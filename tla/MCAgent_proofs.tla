--------------------------- MODULE MCAgent_proofs ---------------------------
(***************************************************************************)
(* Proofs about the services that run under the limiter, and about the     *)
(* process they all run in, as MCAgent puts them side by side: a file of   *)
(* any size, a command with any output and pipes of any size, and any set  *)
(* of instructions.  A file whose channel is closed without an error is    *)
(* whole, and the file service implements Transfer; a command that is      *)
(* "complete" has sent all of stdout; an instruction sent to a complete    *)
(* Client is not dropped.                                                  *)
(***************************************************************************)
EXTENDS MCAgent, Limiter_proofs, SequenceTheorems

-----------------------------------------------------------------------------
(* The parts.                                                              *)

(* A step is one of the limiter, the file service, the command service and *)
(* the agent, and leaves the others where they are.                        *)
LEMMA PartSteps ==
    [PartsNext]_<<part, vars, fileVars, commandVars, agentVars>> =>
        [Next]_vars /\ [F!Next]_fileVars /\ [C!Next]_commandVars /\ [A!Next]_agentVars
BY DEF PartsNext

(* A behaviour of the parts is one of each of them.                        *)
LEMMA EachPart ==
    PartsSpec => /\ Init /\ [][Next]_vars
                 /\ F!Init /\ [][F!Next]_fileVars
                 /\ C!Init /\ [][C!Next]_commandVars
                 /\ A!Init /\ [][A!Next]_agentVars
<1>1. PartsInit => Init /\ F!Init /\ C!Init /\ A!Init
    BY DEF PartsInit
<1> QED BY <1>1, PartSteps, PTL DEF PartsSpec

-----------------------------------------------------------------------------
(* The file service.                                                       *)

InHand == {"have", "writing", "sending"}       \* a chunk is read, not yet sent
Ending == {"closing", "sendingClose", "decrement", "ended"}

(* What the user has follows from where the thread is, for as long as the  *)
(* session is up; the thread may only believe it is over when it is.       *)
Hears == file_closed => link # "up" \/ asked
AskedLate == asked => link = "up" /\ file_at \in {"decrement", "ended", "refused"}
ToldLate == file_told => file_at \in Ending \cup {"refused"}
Refused == file_at = "refused" /\ asked => file_told
ChunkInHand == file_at \in InHand => read > 0
Delivered == link = "up" => file_got = IF file_at \in InHand THEN read - 1 ELSE read
WholeAtEnd == file_at \in Ending /\ link = "up" /\ ~file_told => read = Size

FileInv == /\ F!TypeOK /\ Hears /\ AskedLate /\ ToldLate
           /\ Refused /\ ChunkInHand /\ Delivered /\ WholeAtEnd

(* The file service begins with types ...                                  *)
LEMMA InitFileTypes == F!Init => F!TypeOK
<1> SUFFICES ASSUME F!Init PROVE F!TypeOK
    OBVIOUS
<1>1. /\ file_closed \in BOOLEAN /\ file_slot \in BOOLEAN
      /\ file_told \in BOOLEAN /\ asked \in BOOLEAN
    BY Zenon DEF F!Init
<1>2. /\ file_at \in F!Places /\ read \in 0..Size /\ file_got \in 0..Size
      /\ fate = "none" /\ link = "up"
    BY SizeAssumption DEF F!Init, F!Places
<1> QED BY <1>1, <1>2 DEF F!TypeOK

(* ... that its steps keep.                                                *)
LEMMA NextFileTypes == F!TypeOK /\ [F!Next]_fileVars => F!TypeOK'
<1> SUFFICES ASSUME F!TypeOK, [F!Next]_fileVars PROVE F!TypeOK'
    OBVIOUS
<1> USE SizeAssumption DEF F!TypeOK, F!Places, F!Goto, F!Check
<1>1. CASE F!Start \/ F!Open \/ F!OpenFails
    BY <1>1 DEF F!Start, F!Open, F!OpenFails
<1>7. CASE F!Read \/ F!ReadEnd \/ F!ReadError
    BY <1>7 DEF F!Read, F!ReadEnd, F!ReadError
<1>2. CASE F!StartFails
    BY <1>2 DEF F!StartFails, F!Arrives
<1>3. CASE \/ F!CheckClosed \/ F!WriteChecks \/ F!ErrorChecks
            \/ F!CloseChecks \/ F!Decrement
    BY <1>3 DEF F!CheckClosed, F!WriteChecks, F!ErrorChecks, F!CloseChecks, F!Decrement
<1>4. CASE F!WriteSends
    BY <1>4 DEF F!WriteSends
<1>5. CASE F!ErrorSends \/ F!CloseSends
    BY <1>5 DEF F!ErrorSends, F!CloseSends, F!Arrives
<1>6. CASE F!OnClose \/ F!SessionEnds("left") \/ F!SessionEnds("down") \/ UNCHANGED fileVars
    BY <1>6 DEF F!OnClose, F!SessionEnds, fileVars
<1> QED BY <1>1, <1>2, <1>3, <1>4, <1>5, <1>6, <1>7 DEF F!Next, F!ThreadStep

(* The invariant of the file service.                                      *)
LEMMA InitFileInv == F!Init => FileInv
BY InitFileTypes DEF F!Init, FileInv, Hears, AskedLate, ToldLate, Refused, ChunkInHand,
                     Delivered, WholeAtEnd, InHand, Ending

(* Every step of the service keeps it, ...                                 *)
LEMMA NextFileInv == FileInv /\ [F!Next]_fileVars => FileInv'
<1> SUFFICES ASSUME FileInv, [F!Next]_fileVars PROVE FileInv'
    OBVIOUS
<1> USE DEF FileInv, Hears, AskedLate, ToldLate, Refused, ChunkInHand, Delivered, WholeAtEnd,
            InHand, Ending, F!Goto, F!Check, F!Arrives
<1>0. F!TypeOK' /\ read \in Nat /\ Size \in Nat /\ read <= Size
    BY NextFileTypes, SizeAssumption DEF F!TypeOK
<1>1. CASE F!Start
    BY <1>0, <1>1 DEF F!Start
<1>2. CASE F!StartFails
  <2>1. (file_told' <=> F!Arrives) /\ (asked' <=> F!Arrives)
    BY <1>2, Zenon DEF F!StartFails
  <2>2. /\ file_at = "none" /\ file_at' = "refused"
        /\ UNCHANGED <<read, file_closed, link, file_got>>
    BY <1>0, <1>2 DEF F!StartFails
  <2> QED BY <1>0, <2>1, <2>2
<1>3. CASE F!Open \/ F!OpenFails
    BY <1>0, <1>3 DEF F!Open, F!OpenFails
<1>4. CASE F!Read \/ F!ReadEnd \/ F!ReadError
    BY <1>0, <1>4 DEF F!Read, F!ReadEnd, F!ReadError
<1>5. CASE F!CheckClosed \/ F!WriteChecks
    BY <1>0, <1>5 DEF F!CheckClosed, F!WriteChecks
<1>6. CASE F!WriteSends
    BY <1>0, <1>6 DEF F!WriteSends
<1>7. CASE F!ErrorChecks \/ F!CloseChecks
    BY <1>0, <1>7 DEF F!ErrorChecks, F!CloseChecks
<1>8. CASE F!ErrorSends
  <2>1. file_told' <=> file_told \/ F!Arrives
    BY <1>8, Zenon DEF F!ErrorSends
  <2>2. /\ file_at = "sendingError" /\ file_at' = "closing"
        /\ UNCHANGED <<read, file_closed, link, file_got, asked>>
    BY <1>0, <1>8 DEF F!ErrorSends
  <2> QED BY <1>0, <2>1, <2>2
<1>9. CASE F!CloseSends
  <2>1. asked' <=> asked \/ F!Arrives
    BY <1>9, Zenon DEF F!CloseSends
  <2>2. /\ file_at = "sendingClose" /\ file_at' = "decrement"
        /\ UNCHANGED <<read, file_closed, link, file_got, file_told>>
    BY <1>0, <1>9 DEF F!CloseSends
  <2> QED BY <1>0, <2>1, <2>2
<1>10. CASE F!Decrement
    BY <1>0, <1>10 DEF F!Decrement
<1>11. CASE F!OnClose \/ F!SessionEnds("left") \/ F!SessionEnds("down")
    BY <1>0, <1>11 DEF F!OnClose, F!SessionEnds
<1>12. CASE UNCHANGED fileVars
    BY <1>0, <1>12 DEF fileVars
<1> QED BY <1>1, <1>2, <1>3, <1>4, <1>5, <1>6, <1>7, <1>8, <1>9, <1>10, <1>11, <1>12
        DEF F!Next, F!ThreadStep

(* ... so that it holds throughout.                                        *)
LEMMA FileInvariance == PartsSpec => []FileInv
BY InitFileInv, NextFileInv, EachPart, PTL

(* A close without an error means that the user has the whole file,        *)
(* although the thread looks at the channel before each send and never     *)
(* again, and although lost packets raise nothing.                         *)
THEOREM FileCloseMeansComplete == PartsSpec => []F!CloseMeansComplete
<1>1. FileInv => F!CloseMeansComplete
    BY DEF FileInv, AskedLate, Refused, Delivered, WholeAtEnd, InHand, Ending,
           F!CloseMeansComplete
<1> QED BY <1>1, FileInvariance, PTL

(* What the remote user sees of a file.                                    *)
FileVars == <<Size, TRUE, FALSE, file_got, F!Outcome>>

(* A step of the service is a step of the transfer the user sees, or none. *)
LEMMA FileStep == FileInv /\ [F!Next]_fileVars => [F!User!Next]_FileVars
<1> SUFFICES ASSUME FileInv, [F!Next]_fileVars PROVE [F!User!Next]_FileVars
    OBVIOUS
<1> USE SizeAssumption DEF FileVars, FileInv, F!TypeOK, InHand, Ending, F!Goto, F!Arrives, F!Outcome
<1>1. ASSUME F!WriteSends PROVE F!User!Deliver \/ UNCHANGED FileVars
    BY <1>1 DEF F!WriteSends, AskedLate, ToldLate, Delivered, ChunkInHand, F!User!Deliver
<1>2. ASSUME F!StartFails \/ F!ErrorSends
      PROVE F!User!Fail \/ UNCHANGED FileVars
    BY <1>2 DEF F!StartFails, F!ErrorSends, AskedLate, ToldLate, F!User!Fail, F!User!End
<1>3. ASSUME F!CloseSends PROVE F!User!Complete \/ UNCHANGED FileVars
    BY <1>3 DEF F!CloseSends, AskedLate, Delivered, WholeAtEnd, F!User!Complete, F!User!End
<1>4. ASSUME F!SessionEnds("left") \/ F!SessionEnds("down")
      PROVE F!User!Cut \/ UNCHANGED FileVars
    BY <1>4 DEF F!SessionEnds, F!User!Cut, F!User!End
<1>5. ASSUME UNCHANGED <<file_got, file_told, link, asked>>
      PROVE UNCHANGED FileVars
    BY <1>5
<1>6. ASSUME \/ F!Start \/ F!Open \/ F!OpenFails \/ F!Read \/ F!ReadEnd \/ F!ReadError
             \/ F!CheckClosed \/ F!WriteChecks \/ F!ErrorChecks \/ F!CloseChecks
             \/ F!Decrement \/ F!OnClose \/ UNCHANGED fileVars
      PROVE UNCHANGED <<file_got, file_told, link, asked>>
    BY <1>6 DEF F!Start, F!Open, F!OpenFails, F!Read, F!ReadEnd, F!ReadError, F!CheckClosed,
                F!Check, F!WriteChecks, F!ErrorChecks, F!CloseChecks, F!Decrement, F!OnClose,
                fileVars
<1> QED BY <1>1, <1>2, <1>3, <1>4, <1>5, <1>6 DEF F!Next, F!ThreadStep, F!User!Next

(* The service implements the transfer it promises its remote user: chunks *)
(* in order, nothing after the end, complete unless it is told otherwise.  *)
THEOREM FileImplementsTransfer == PartsSpec => ImplementsTransfer
<1>1. F!Init => F!User!Init
    BY SizeAssumption DEF F!Init, F!User!Init, F!Outcome
<1> QED BY <1>1, FileStep, FileInvariance, EachPart, PTL
        DEF ImplementsTransfer, F!ImplementsTransfer, F!User!Spec, F!User!vars, FileVars

-----------------------------------------------------------------------------
(* The command service.                                                    *)

Unsent == {"writing", "sending"}               \* a chunk is read, not yet sent
Done   == {"closing", "sendingClose", "killing", "decrement", "ended"}

(* What the last poll said of stderr is still there to be read.            *)
StderrThere == /\ mask \in [hup : BOOLEAN, err : BOOLEAN]
               /\ command_at \in {"reading", "stderr"} \cup Unsent /\ mask.err
                     => stderr.read < stderr.written
CloseIsLate == command_closed => session = "over"

(* For as long as the session is up, the user has what was read.           *)
ReadIsSent == LET there == IF command_at \in Unsent THEN command_got + 1 ELSE command_got IN
              there <= stdout.read /\ (session = "up" => there = stdout.read)

(* All of stdout was read when its end was read, ...                       *)
AllRead == ~more_data =>
    /\ command_at \in {"looking", "completing", "sendingComplete"} \cup Done
    /\ ~C!Held("stdout") /\ stdout.read = stdout.written
(* ... and it was, unless something failed, when the user is told so.      *)
InTrouble == command_at \in {"failing", "sendingError"} => trouble
LeavesAtEnd == command_at \in {"completing", "sendingComplete"} /\ session = "up" /\ ~trouble
                   => ~more_data
ToldAtEnd == "complete" \in command_told =>
                 command_at \in Done /\ (~trouble => ~more_data /\ command_got = stdout.read)

CommandInv == /\ C!TypeOK /\ StderrThere /\ CloseIsLate /\ ReadIsSent /\ AllRead
              /\ InTrouble /\ LeavesAtEnd /\ ToldAtEnd

(* The invariant of the command service.                                   *)
LEMMA InitCommandInv == C!Init => CommandInv
<1> SUFFICES ASSUME C!Init PROVE CommandInv
    OBVIOUS
<1>1. /\ more_data = TRUE /\ trouble \in BOOLEAN /\ command_closed \in BOOLEAN
      /\ command_slot \in BOOLEAN /\ requested \in BOOLEAN /\ eof_readable \in BOOLEAN
    BY Zenon DEF C!Init
<1>2. /\ command_at = "none" /\ mask = [hup |-> FALSE, err |-> FALSE] /\ holds = {}
      /\ command = [p \in C!Processes |-> "none"] /\ stdout = C!Empty /\ stderr = C!Empty /\ session = "up" /\ command_got = 0
      /\ command_told = {}
    BY DEF C!Init, C!NoEvents
<1>3. C!TypeOK
    BY <1>1, <1>2, OutputAssumption DEF C!TypeOK, C!Places, C!Pipe, C!Empty
<1>4. ~command_closed
    BY DEF C!Init
<1> QED BY <1>1, <1>2, <1>3, <1>4 DEF CommandInv, StderrThere, CloseIsLate, ReadIsSent, AllRead,
           InTrouble, LeavesAtEnd, ToldAtEnd, C!Empty, Unsent, Done

(* It is kept by the steps that neither read nor send.                     *)
LEMMA CommandMoves ==
    CommandInv /\ (\/ C!Start \/ C!StartFails \/ C!Spawn \/ C!SpawnFails
                   \/ C!TellUnspawned)
        => CommandInv'
<1> SUFFICES ASSUME CommandInv,
                    \/ C!Start \/ C!StartFails \/ C!Spawn \/ C!SpawnFails
                    \/ C!TellUnspawned
             PROVE  CommandInv'
    OBVIOUS
<1> USE DEF CommandInv, C!TypeOK, C!Places, StderrThere, CloseIsLate, ReadIsSent, AllRead,
            InTrouble, LeavesAtEnd, ToldAtEnd, Unsent, Done, C!Goto
<1>1. CASE C!Start
    BY <1>1 DEF C!Start, C!process, C!remote, C!Held
<1>2. CASE C!StartFails
    BY <1>2 DEF C!StartFails, C!process, C!Held
<1>3. CASE C!Spawn
    <2>1. /\ command_at = "spawning" /\ command_at' = "polling" /\ holds' = {"shell"} \X C!Pipes
          /\ command' = [command EXCEPT !["shell"] = "running"]
          /\ UNCHANGED <<mask, more_data, trouble, stdout, stderr, eof_readable, command_closed,
                         command_slot, session, command_got, command_told, requested>>
        BY <1>3 DEF C!Spawn, C!remote
    <2>2. /\ command' \in [C!Processes -> {"none", "running", "ended"}]
          /\ holds' \subseteq {p \in C!Processes : command'[p] = "running"} \X C!Pipes
        BY <2>1 DEF C!Processes
    <2> QED BY <2>1, <2>2
<1>4. CASE C!SpawnFails
    BY <1>4 DEF C!SpawnFails, C!process, C!remote, C!Held
<1>5. CASE C!TellUnspawned
    BY <1>5 DEF C!TellUnspawned, C!process, C!Held
<1> QED BY <1>1, <1>2, <1>3, <1>4, <1>5

(* A poll, and the reads of both pipes, keep it.                           *)
LEMMA CommandReads ==
    CommandInv /\ (\/ C!Poll \/ C!PollFails \/ C!ReadChunk \/ C!ReadEof \/ C!ReadFails
                   \/ C!ReadStderr)
        => CommandInv'
<1> SUFFICES ASSUME CommandInv,
                    \/ C!Poll \/ C!PollFails \/ C!ReadChunk \/ C!ReadEof
                    \/ C!ReadFails \/ C!ReadStderr
             PROVE  CommandInv'
    OBVIOUS
<1> USE OutputAssumption
        DEF CommandInv, C!TypeOK, C!Places, C!Pipe, StderrThere, CloseIsLate, ReadIsSent, AllRead,
            InTrouble, LeavesAtEnd, ToldAtEnd, Unsent, Done, C!Goto
<1>1. CASE C!Poll
    <2>1. mask' = [hup |-> ~C!Held("stdout"), err |-> C!Unread(stderr) > 0]
        BY <1>1 DEF C!Poll
    <2>2. /\ mask' \in [hup : BOOLEAN, err : BOOLEAN]
          /\ mask'.err => stderr.written - stderr.read > 0
        <3>1. C!Held("stdout") \in BOOLEAN
            BY DEF C!Held
        <3>2. (C!Unread(stderr) > 0) \in BOOLEAN
            BY DEF C!Unread
        <3>3. mask'.err <=> stderr.written - stderr.read > 0
            BY <2>1 DEF C!Unread
        <3> QED BY <2>1, <3>1, <3>2, <3>3, Zenon
    <2>3. /\ command_at = "polling" /\ command_at' \in {"reading", "stderr"}
          /\ UNCHANGED <<more_data, trouble, command, holds, stdout, stderr, eof_readable,
                          command_closed, command_slot, session, command_got, command_told,
                          requested>>
        BY <1>1 DEF C!Poll, C!process, C!remote
    <2> QED BY <2>2, <2>3 DEF C!Held
<1>2. CASE C!PollFails
    BY <1>2 DEF C!PollFails, C!process, C!remote, C!Held
<1>3. CASE C!ReadChunk
    BY <1>3 DEF C!ReadChunk, C!Unread, C!remote, C!Held
<1>4. CASE C!ReadEof
    <2>1. /\ command_at = "reading" /\ command_at' = "looking" /\ ~more_data'
          /\ ~C!Held("stdout") /\ stdout.written - stdout.read = 0
          /\ UNCHANGED <<mask, trouble, command, holds, stdout, stderr, eof_readable,
                          command_closed, command_slot, session, command_got, command_told,
                          requested>>
        BY <1>4 DEF C!ReadEof, C!AtEof, C!Unread, C!process, C!remote
    <2>2. more_data' \in BOOLEAN
        BY <1>4, Zenon DEF C!ReadEof
    <2>3. stdout.read = stdout.written
        BY <2>1
    <2> QED BY <2>1, <2>2, <2>3 DEF C!Held
<1>5. CASE C!ReadFails
    BY <1>5 DEF C!ReadFails, C!process, C!remote, C!Held
<1>6. CASE C!ReadStderr
    BY <1>6 DEF C!ReadStderr, C!NoEvents, C!remote, C!Held
<1> QED BY <1>1, <1>2, <1>3, <1>4, <1>5, <1>6

(* So do the checks of the channel and what is sent,                       *)
LEMMA CommandSends ==
    CommandInv /\ (\/ C!WriteChecks \/ C!WriteSends \/ C!ErrorChecks \/ C!ErrorSends
                   \/ C!CompleteChecks \/ C!CompleteSends)
        => CommandInv'
<1> SUFFICES ASSUME CommandInv,
                    \/ C!WriteChecks \/ C!WriteSends \/ C!ErrorChecks \/ C!ErrorSends
                    \/ C!CompleteChecks \/ C!CompleteSends
             PROVE  CommandInv'
    OBVIOUS
<1> USE OutputAssumption
        DEF CommandInv, C!TypeOK, C!Places, C!Pipe, StderrThere, CloseIsLate, ReadIsSent, AllRead,
            InTrouble, LeavesAtEnd, ToldAtEnd, Unsent, Done, C!Goto
<1> USE DEF C!Held
<1>1. CASE C!WriteChecks
    BY <1>1 DEF C!WriteChecks, C!Check, C!process, C!remote
<1>2. CASE C!WriteSends
    BY <1>2 DEF C!WriteSends, C!Arrives, C!process
<1>3. CASE C!ErrorChecks
    BY <1>3 DEF C!ErrorChecks, C!Check, C!process, C!remote
<1>4. CASE C!ErrorSends
    BY <1>4 DEF C!ErrorSends, C!Tell, C!Arrives, C!process
<1>5. CASE C!CompleteChecks
    BY <1>5 DEF C!CompleteChecks, C!Check, C!process, C!remote
<1>6. CASE C!CompleteSends
    BY <1>6 DEF C!CompleteSends, C!Tell, C!Arrives, C!process
<1> QED BY <1>1, <1>2, <1>3, <1>4, <1>5, <1>6

(* A process that ends, or closes a pipe, leaves no pipe held that was     *)
(* not; nor does one that starts.                                          *)
HoldsOK == /\ command \in [C!Processes -> {"none", "running", "ended"}]
           /\ holds \subseteq {p \in C!Processes : command[p] = "running"} \X C!Pipes

LEMMA EndsKeeps ==
    ASSUME HoldsOK, NEW p \in C!Processes, C!Ends(p)
    PROVE  /\ HoldsOK' /\ (C!Held("stdout")' => C!Held("stdout"))
           /\ command'["shell"] # "none" <=> command["shell"] # "none"
<1>1. /\ command[p] = "running" /\ command' = [command EXCEPT ![p] = "ended"]
      /\ holds' = holds \ ({p} \X C!Pipes)
    BY DEF C!Ends
<1>2. \A q \in C!Processes, pipe \in C!Pipes :
          <<q, pipe>> \in holds' <=> <<q, pipe>> \in holds /\ q # p
    BY <1>1
<1>3. HoldsOK'
    BY <1>1, <1>2 DEF HoldsOK
<1>4. C!Held("stdout")' => C!Held("stdout")
    BY <1>1 DEF C!Held
<1> QED BY <1>1, <1>3, <1>4 DEF HoldsOK, C!Processes

LEMMA ForksKeeps ==
    ASSUME HoldsOK, C!Forks
    PROVE  /\ HoldsOK' /\ (C!Held("stdout")' <=> C!Held("stdout"))
           /\ command'["shell"] # "none" <=> command["shell"] # "none"
<1>1. /\ command["shell"] = "running" /\ command' = [command EXCEPT !["child"] = "running"]
      /\ holds' = holds \cup {<<"child", pipe>> :
                                 pipe \in {q \in C!Pipes : <<"shell", q>> \in holds}}
    BY DEF C!Forks
<1>2. HoldsOK'
    <2>1. command' \in [C!Processes -> {"none", "running", "ended"}]
        BY <1>1 DEF HoldsOK, C!Processes
    <2>2. /\ \A q \in C!Processes : command[q] = "running" => command'[q] = "running"
          /\ "child" \in C!Processes /\ command'["child"] = "running"
        BY <1>1 DEF HoldsOK, C!Processes
    <2>3. {<<"child", pipe>> : pipe \in {q \in C!Pipes : <<"shell", q>> \in holds}}
              \subseteq {p \in C!Processes : command'[p] = "running"} \X C!Pipes
        <3> SUFFICES ASSUME NEW pipe \in C!Pipes
                     PROVE  <<"child", pipe>>
                                \in {p \in C!Processes : command'[p] = "running"} \X C!Pipes
            OBVIOUS
        <3> QED BY <2>2
    <2>4. {p \in C!Processes : command[p] = "running"} \X C!Pipes
              \subseteq {p \in C!Processes : command'[p] = "running"} \X C!Pipes
        BY <2>2
    <2> QED BY <1>1, <2>1, <2>3, <2>4 DEF HoldsOK
<1>3. C!Held("stdout")' <=> C!Held("stdout")
    BY <1>1 DEF C!Held, C!Processes, C!Pipes
<1> QED BY <1>1, <1>2, <1>3 DEF HoldsOK, C!Processes

LEMMA ClosesKeeps ==
    ASSUME HoldsOK, NEW p \in C!Processes, NEW pipe \in C!Pipes, C!ClosesPipe(p, pipe)
    PROVE  HoldsOK' /\ (C!Held("stdout")' => C!Held("stdout"))
BY DEF C!ClosesPipe, HoldsOK, C!Held

(* the end of the loop and of the thread,                                  *)
LEMMA CommandEnds ==
    CommandInv /\ (\/ C!Look \/ C!CloseChecks \/ C!CloseSends \/ C!Kill \/ C!Decrement)
        => CommandInv'
<1> SUFFICES ASSUME CommandInv,
                    \/ C!Look \/ C!CloseChecks \/ C!CloseSends \/ C!Kill
                    \/ C!Decrement
             PROVE  CommandInv'
    OBVIOUS
<1> USE OutputAssumption
        DEF CommandInv, C!TypeOK, C!Places, C!Pipe, StderrThere, CloseIsLate, ReadIsSent, AllRead,
            InTrouble, LeavesAtEnd, ToldAtEnd, Unsent, Done, C!Goto
<1>1. CASE C!Look
    BY <1>1 DEF C!Look, C!process, C!remote, C!Held
<1>2. CASE C!CloseChecks
    BY <1>2 DEF C!CloseChecks, C!Check, C!process, C!remote, C!Held
<1>3. CASE C!CloseSends
    BY <1>3 DEF C!CloseSends, C!process, C!Held
<1>4. CASE C!Kill
    <2>1. /\ command_at = "killing" /\ command_at' = "decrement"
          /\ C!Ends("shell") \/ UNCHANGED <<command, holds>>
          /\ UNCHANGED <<mask, more_data, trouble, stdout, stderr, eof_readable, command_closed,
                         command_slot, session, command_got, command_told, requested>>
        BY <1>4 DEF C!Kill, C!remote
    <2>2. HoldsOK' /\ (C!Held("stdout")' => C!Held("stdout"))
        <3>1. HoldsOK /\ "shell" \in C!Processes
            BY DEF HoldsOK, C!Processes
        <3>2. CASE C!Ends("shell")
            BY <3>1, <3>2, EndsKeeps
        <3>3. CASE UNCHANGED <<command, holds>>
            BY <3>1, <3>3 DEF HoldsOK, C!Held
        <3> QED BY <2>1, <3>2, <3>3
    <2> QED BY <2>1, <2>2 DEF HoldsOK
<1>5. CASE C!Decrement
    BY <1>5 DEF C!Decrement, C!process, C!remote, C!Held
<1> QED BY <1>1, <1>2, <1>3, <1>4, <1>5

(* and what the command and the remote user do.                            *)
LEMMA CommandOutside ==
    CommandInv /\ (C!Command \/ C!SessionEnds \/ C!OnClose \/ UNCHANGED commandVars)
        => CommandInv'
<1> SUFFICES ASSUME CommandInv,
                    C!Command \/ C!SessionEnds \/ C!OnClose \/ UNCHANGED commandVars
             PROVE  CommandInv'
    OBVIOUS
<1> USE OutputAssumption
        DEF CommandInv, C!TypeOK, C!Places, C!Pipe, StderrThere, CloseIsLate, ReadIsSent, AllRead,
            InTrouble, LeavesAtEnd, ToldAtEnd, Unsent, Done, C!Goto
<1>0. HoldsOK
    BY DEF HoldsOK
<1>1. CASE C!Writes
    <2>1. /\ UNCHANGED <<command_at, mask, more_data, trouble, command, holds, eof_readable,
                         command_closed, command_slot, session, command_got, command_told,
                         requested>>
          /\ \/ C!Held("stdout") /\ stdout' = C!Grown(stdout) /\ stderr' = stderr
             \/ stdout' = stdout /\ stderr' = C!Grown(stderr)
          /\ stdout'.written \in 0..MaxOut /\ stderr'.written \in 0..MaxOut
        BY <1>1 DEF C!Writes, C!HasRoom, C!Unread, C!Grown, C!remote
    <2>2. /\ stdout' \in C!Pipe /\ stderr' \in C!Pipe
          /\ stdout'.read = stdout.read /\ stderr'.read = stderr.read
          /\ ~C!Held("stdout") => stdout'.written = stdout.written
          /\ stderr.written <= stderr'.written
        BY <2>1 DEF C!Grown
    <2>3. C!Held("stdout")' <=> C!Held("stdout")
        BY <2>1 DEF C!Held
    <2> QED BY <2>1, <2>2, <2>3
<1>2. ASSUME NEW p \in C!Processes, C!Exits(p) PROVE CommandInv'
    <2>1. /\ C!Ends(p)
          /\ UNCHANGED <<command_at, mask, more_data, trouble, stdout, stderr, eof_readable,
                         command_closed, command_slot, session, command_got, command_told,
                         requested>>
        BY <1>2 DEF C!Exits, C!remote
    <2>2. HoldsOK' /\ (C!Held("stdout")' => C!Held("stdout"))
        BY <1>0, <2>1, EndsKeeps
    <2> QED BY <2>1, <2>2 DEF HoldsOK
<1>3. CASE C!SessionEnds
    BY <1>3 DEF C!SessionEnds, C!process, C!Held
<1>4. CASE C!OnClose
    BY <1>4 DEF C!OnClose, C!process, C!remote, C!Held
<1>5. CASE UNCHANGED commandVars
    BY <1>5 DEF commandVars, C!Held
<1>6. ASSUME C!Forks \/ \E p \in C!Processes, pipe \in C!Pipes : C!ClosesPipe(p, pipe)
      PROVE  CommandInv'
    <2>1. UNCHANGED <<command_at, mask, more_data, trouble, stdout, stderr, eof_readable,
                      command_closed, command_slot, session, command_got, command_told,
                      requested>>
        BY <1>6 DEF C!Forks, C!ClosesPipe, C!remote
    <2>2. HoldsOK' /\ (C!Held("stdout")' => C!Held("stdout"))
        BY <1>0, <1>6, ForksKeeps, ClosesKeeps
    <2> QED BY <2>1, <2>2 DEF HoldsOK
<1> QED BY <1>1, <1>2, <1>3, <1>4, <1>5, <1>6 DEF C!Command

(* Every step keeps it.                                                    *)
LEMMA NextCommandInv == CommandInv /\ [C!Next]_commandVars => CommandInv'
BY CommandMoves, CommandReads, CommandSends, CommandEnds, CommandOutside DEF C!Next, C!ThreadStep

(* It holds throughout.                                                    *)
LEMMA CommandInvariance == PartsSpec => []CommandInv
BY InitCommandInv, NextCommandInv, EachPart, PTL

(* A user that is told that the command is complete has all of stdout,     *)
(* unless a poll or a read failed, for any output and pipes of any size.   *)
THEOREM CommandCompleteMeansAll == PartsSpec => []C!CompleteMeansAll
<1>1. CommandInv => C!CompleteMeansAll
    BY DEF CommandInv, ToldAtEnd, AllRead, C!CompleteMeansAll
<1> QED BY <1>1, CommandInvariance, PTL

(* Nothing is said before the loop ended, and nothing sent after.          *)
NothingSaidYet == command_told # {} =>
    command_at \in {"refused", "completing", "sendingComplete"} \cup Done
Unspawned    == {"none", "refused", "spawning", "unspawned"}
SpawnedFirst ==
    /\ command_at \in Unspawned => command["shell"] = "none"
    /\ command["shell"] = "none" => command_at \in Unspawned \cup {"decrement", "ended"}
WasWritten == stdout.read <= stdout.written

OutputInv == CommandInv /\ NothingSaidYet /\ SpawnedFirst /\ WasWritten

(* The invariant that the transfer of an output needs.                     *)
LEMMA InitOutputInv == C!Init => OutputInv
BY InitCommandInv
DEF C!Init, C!Empty, C!Processes, OutputInv, NothingSaidYet, SpawnedFirst, Unspawned, WasWritten

LEMMA NextOutputInv == OutputInv /\ [C!Next]_commandVars => OutputInv'
<1> SUFFICES ASSUME OutputInv, [C!Next]_commandVars PROVE OutputInv'
    OBVIOUS
<1>1. CommandInv'
    BY NextCommandInv DEF OutputInv
<1>2. NothingSaidYet'
    <2> USE DEF OutputInv, NothingSaidYet, Done, C!Goto, C!remote
    <2>1. CASE \/ C!Start \/ C!Spawn \/ C!SpawnFails \/ C!Poll \/ C!PollFails \/ C!ReadChunk
               \/ C!ReadEof \/ C!ReadFails
        BY <2>1 DEF C!Start, C!Spawn, C!SpawnFails, C!Poll, C!PollFails, C!ReadChunk, C!ReadEof,
                    C!ReadFails
    <2>2. CASE C!StartFails \/ C!TellUnspawned \/ C!ErrorSends \/ C!CompleteSends
        BY <2>2 DEF C!StartFails, C!TellUnspawned, C!ErrorSends, C!CompleteSends, C!Tell
    <2>3. CASE \/ C!WriteChecks \/ C!WriteSends \/ C!ErrorChecks \/ C!CompleteChecks
               \/ C!CloseChecks
        BY <2>3 DEF C!WriteChecks, C!WriteSends, C!ErrorChecks, C!CompleteChecks, C!CloseChecks,
                    C!Check
    <2>4. CASE C!ReadStderr \/ C!Look \/ C!CloseSends \/ C!Kill \/ C!Decrement
        BY <2>4 DEF C!ReadStderr, C!Look, C!CloseSends, C!Kill, C!Decrement
    <2>5. CASE C!Command \/ C!SessionEnds \/ C!OnClose \/ UNCHANGED commandVars
        BY <2>5 DEF C!Command, C!Writes, C!Forks, C!ClosesPipe, C!Exits, C!SessionEnds, C!OnClose,
                    commandVars
    <2> QED BY <2>1, <2>2, <2>3, <2>4, <2>5 DEF C!Next, C!ThreadStep
<1>3. SpawnedFirst'
    <2> USE DEF OutputInv, SpawnedFirst, Unspawned, C!Goto, C!process
    <2>0. HoldsOK
        BY DEF CommandInv, C!TypeOK, HoldsOK
    <2>1. CASE \/ C!Start \/ C!StartFails \/ C!Spawn \/ C!SpawnFails \/ C!TellUnspawned
        BY <2>0, <2>1 DEF C!Start, C!StartFails, C!Spawn, C!SpawnFails, C!TellUnspawned, HoldsOK,
                          C!Processes
    <2>2. CASE \/ C!Poll \/ C!PollFails \/ C!ReadChunk \/ C!ReadEof \/ C!ReadFails \/ C!ReadStderr
        BY <2>2 DEF C!Poll, C!PollFails, C!ReadChunk, C!ReadEof, C!ReadFails, C!ReadStderr
    <2>3. CASE \/ C!WriteChecks \/ C!WriteSends \/ C!ErrorChecks \/ C!ErrorSends
               \/ C!CompleteChecks \/ C!CompleteSends \/ C!CloseChecks \/ C!CloseSends
        BY <2>3 DEF C!WriteChecks, C!WriteSends, C!ErrorChecks, C!ErrorSends, C!CompleteChecks,
                    C!CompleteSends, C!CloseChecks, C!CloseSends, C!Check, C!Tell
    <2>4. CASE C!Look \/ C!Decrement
        BY <2>4 DEF C!Look, C!Decrement
    <2>5. CASE C!SessionEnds \/ C!OnClose \/ UNCHANGED commandVars
        BY <2>5 DEF C!SessionEnds, C!OnClose, commandVars
    <2>6. CASE C!Kill
        <3>1. C!Ends("shell") \/ UNCHANGED command
            BY <2>6 DEF C!Kill
        <3>2. command'["shell"] # "none" <=> command["shell"] # "none"
            BY <2>0, <3>1, EndsKeeps DEF C!Processes
        <3> QED BY <2>6, <3>2 DEF C!Kill
    <2>7. CASE C!Command
        <3>1. UNCHANGED command_at
            BY <2>7 DEF C!Command, C!Writes, C!Forks, C!ClosesPipe, C!Exits
        <3>2. command'["shell"] # "none" <=> command["shell"] # "none"
            BY <2>0, <2>7, EndsKeeps, ForksKeeps DEF C!Command, C!Writes, C!ClosesPipe, C!Exits
        <3> QED BY <3>1, <3>2
    <2> QED BY <2>1, <2>2, <2>3, <2>4, <2>5, <2>6, <2>7 DEF C!Next, C!ThreadStep
<1>4. WasWritten'
    <2> USE DEF OutputInv, WasWritten, CommandInv, C!TypeOK, C!Pipe
    <2>1. CASE C!ReadChunk
        BY <2>1, OutputAssumption DEF C!ReadChunk, C!Unread
    <2>2. CASE C!Writes
        BY <2>2, OutputAssumption DEF C!Writes, C!Grown
    <2>3. CASE UNCHANGED stdout
        BY <2>3
    <2>4. C!ReadChunk \/ C!Writes \/ UNCHANGED stdout
        <3>1. CASE C!ThreadStep \/ C!Start \/ C!StartFails
            BY <3>1 DEF C!Start, C!StartFails, C!ThreadStep, C!Spawn, C!SpawnFails,
                C!TellUnspawned, C!Poll, C!PollFails, C!ReadEof, C!ReadFails, C!ReadStderr,
                C!WriteChecks, C!WriteSends, C!ErrorChecks, C!ErrorSends, C!CompleteChecks,
                C!CompleteSends, C!CloseChecks, C!CloseSends, C!Check, C!Tell, C!Look, C!Kill,
                C!Decrement, C!process
        <3>2. CASE C!Command \/ C!SessionEnds \/ C!OnClose \/ UNCHANGED commandVars
            BY <3>2 DEF C!Command, C!Forks, C!ClosesPipe, C!Exits, C!SessionEnds, C!OnClose,
                        commandVars, C!process
        <3> QED BY <3>1, <3>2 DEF C!Next
    <2> QED BY <2>1, <2>2, <2>3, <2>4
<1> QED BY <1>1, <1>2, <1>3, <1>4 DEF OutputInv

LEMMA OutputInvariance == PartsSpec => []OutputInv
BY InitOutputInv, NextOutputInv, EachPart, PTL

(* A step of the command service, or of its command, is a step of the      *)
(* transfer the user sees, or none.                                        *)
OutputEnded == command["shell"] # "none" /\ ~C!Held("stdout")
OutputVars  == <<stdout.written, OutputEnded, trouble, command_got, C!Outcome>>

LEMMA OutputStep == OutputInv /\ [C!Next]_commandVars => [C!User!Next]_OutputVars
<1> SUFFICES ASSUME OutputInv, [C!Next]_commandVars
             PROVE  C!User!Next \/ UNCHANGED OutputVars
    OBVIOUS
<1> USE DEF OutputVars, OutputEnded, C!Outcome
<1>0. HoldsOK
    BY DEF OutputInv, CommandInv, C!TypeOK, HoldsOK
<1>1. CASE C!Writes
    <2>1. /\ UNCHANGED <<command, holds, trouble, command_got, command_told, session>>
          /\ \/ stdout' = stdout
             \/ C!Held("stdout") /\ stdout' = [stdout EXCEPT !.written = @ + 1]
        BY <1>1 DEF C!Writes, C!Grown, C!remote
    <2>2. stdout \in C!Pipe
        BY DEF OutputInv, CommandInv, C!TypeOK
    <2> QED BY <2>1, <2>2 DEF C!Pipe, C!Held, C!User!Next, C!User!Write
<1>2. CASE \/ C!Kill \/ C!Forks
           \/ \E p \in C!Processes : C!Exits(p) \/ \E pipe \in C!Pipes : C!ClosesPipe(p, pipe)
    <2>1. UNCHANGED <<stdout, trouble, command_got, command_told, session>>
        BY <1>2 DEF C!Kill, C!Forks, C!Exits, C!ClosesPipe, C!remote
    <2>2. /\ C!Held("stdout")' => C!Held("stdout")
          /\ command'["shell"] # "none" <=> command["shell"] # "none"
        <3>1. CASE C!Kill
            <4>1. C!Ends("shell") \/ UNCHANGED <<command, holds>>
                BY <3>1 DEF C!Kill
            <4> QED BY <1>0, <4>1, EndsKeeps DEF C!Processes, C!Held
        <3>2. CASE C!Forks
            BY <1>0, <3>2, ForksKeeps
        <3>3. ASSUME NEW p \in C!Processes, C!Exits(p)
              PROVE  /\ C!Held("stdout")' => C!Held("stdout")
                     /\ command'["shell"] # "none" <=> command["shell"] # "none"
            <4>1. C!Ends(p)
                BY <3>3 DEF C!Exits
            <4> QED BY <1>0, <4>1, EndsKeeps
        <3>4. ASSUME NEW p \in C!Processes, NEW pipe \in C!Pipes, C!ClosesPipe(p, pipe)
              PROVE  /\ C!Held("stdout")' => C!Held("stdout")
                     /\ command'["shell"] # "none" <=> command["shell"] # "none"
            <4>1. UNCHANGED command
                BY <3>4 DEF C!ClosesPipe
            <4> QED BY <1>0, <3>4, <4>1, ClosesKeeps
        <3> QED BY <1>2, <3>1, <3>2, <3>3, <3>4
    <2> QED BY <2>1, <2>2 DEF C!User!Next, C!User!Finish
<1>3. CASE C!PollFails \/ C!ReadFails
    BY <1>3 DEF C!PollFails, C!ReadFails, C!process, C!remote, C!Held, C!User!Next, C!User!Trouble
<1>4. CASE C!SessionEnds \/ C!CloseSends
    BY <1>4 DEF C!SessionEnds, C!CloseSends, C!process, C!Held, C!User!Next, C!User!Cut, C!User!End
<1>5. CASE C!WriteSends
    <2>1. /\ command_at = "sending"
          /\ UNCHANGED <<command, holds, stdout, trouble, command_told, session>>
          /\ command_got' = IF session = "up" THEN command_got + 1 ELSE command_got
        BY <1>5 DEF C!WriteSends, C!Goto, C!Arrives, C!process
    <2>2. command_told = {}
        BY <2>1 DEF OutputInv, NothingSaidYet, Done
    <2>3. session = "up" => command_got < stdout.written
        BY <2>1, OutputAssumption
        DEF OutputInv, WasWritten, CommandInv, ReadIsSent, Unsent, C!TypeOK, C!Pipe
    <2> QED BY <2>1, <2>2, <2>3 DEF C!Held, C!User!Next, C!User!Deliver
<1>6. CASE C!StartFails \/ C!TellUnspawned \/ C!ErrorSends
    <2>1. /\ command_at \in {"none", "unspawned", "sendingError"}
          /\ UNCHANGED <<command, holds, stdout, trouble, command_got, session>>
          /\ \/ UNCHANGED command_told
             \/ session = "up" /\ command_told' = command_told \cup {"error"}
        BY <1>6 DEF C!StartFails, C!TellUnspawned, C!ErrorSends, C!Tell, C!Goto, C!Arrives, C!process
    <2>2. command_told = {}
        BY <2>1 DEF OutputInv, NothingSaidYet, Done
    <2> QED BY <2>1, <2>2 DEF C!Held, C!User!Next, C!User!Fail, C!User!End
<1>7. CASE C!CompleteSends
    <2>1. /\ command_at = "sendingComplete"
          /\ UNCHANGED <<command, holds, stdout, trouble, command_got, session>>
          /\ \/ UNCHANGED command_told
             \/ session = "up" /\ command_told' = command_told \cup {"complete"}
        BY <1>7 DEF C!CompleteSends, C!Tell, C!Goto, C!Arrives, C!process
    <2>2. /\ command["shell"] # "none"
          /\ session = "up" /\ ~trouble => /\ ~C!Held("stdout")
                                           /\ command_got = stdout.written
        BY <2>1 DEF OutputInv, SpawnedFirst, Unspawned, CommandInv, LeavesAtEnd, AllRead,
                    ReadIsSent, Unsent
    <2>3. OutputEnded' <=> OutputEnded
        BY <2>1 DEF C!Held
    <2>4. CASE "complete" \notin command_told /\ "complete" \in command_told'
               /\ "error" \notin command_told
        <3>1. C!Outcome = "open" /\ C!Outcome' = "complete"
            BY <2>1, <2>4
        <3>2. trouble \/ (OutputEnded /\ command_got = stdout.written)
            BY <2>1, <2>2, <2>4
        <3> QED BY <2>1, <2>3, <3>1, <3>2 DEF C!User!Next, C!User!Complete, C!User!End
    <2>5. CASE ~("complete" \notin command_told /\ "complete" \in command_told'
                 /\ "error" \notin command_told)
        BY <2>1, <2>3, <2>5
    <2> QED BY <2>4, <2>5
<1>8. CASE \/ C!Start \/ C!Spawn \/ C!SpawnFails \/ C!Poll \/ C!ReadChunk \/ C!ReadEof
           \/ C!WriteChecks \/ C!ReadStderr \/ C!Look \/ C!ErrorChecks \/ C!CompleteChecks
           \/ C!CloseChecks \/ C!Decrement \/ C!OnClose \/ UNCHANGED commandVars
    <2>1. UNCHANGED <<trouble, command_got, command_told, session>>
        BY <1>8 DEF C!Start, C!Spawn, C!SpawnFails, C!Poll, C!ReadChunk, C!ReadEof,
            C!WriteChecks, C!ReadStderr, C!Look, C!ErrorChecks, C!CompleteChecks,
            C!CloseChecks, C!Check, C!Decrement, C!OnClose, C!remote, commandVars
    <2>2. OutputEnded' = OutputEnded
        <3>1. CASE C!Spawn
            <4>1. <<"shell", "stdout">> \in holds' /\ "shell" \in C!Processes
                BY <3>1 DEF C!Spawn, C!Pipes, C!Processes
            <4> QED BY <3>1, <4>1 DEF C!Spawn, C!Goto, C!Held, OutputInv, SpawnedFirst, Unspawned
        <3>2. UNCHANGED <<command, holds>> \/ C!Spawn
            BY <1>8 DEF C!Start, C!SpawnFails, C!Poll, C!ReadChunk, C!ReadEof, C!WriteChecks,
                C!ReadStderr, C!Look, C!ErrorChecks, C!CompleteChecks, C!CloseChecks, C!Check,
                C!Decrement, C!OnClose, C!process, commandVars
        <3> QED BY <3>1, <3>2 DEF C!Held
    <2>3. stdout'.written = stdout.written
        <3>1. stdout \in C!Pipe
            BY DEF OutputInv, CommandInv, C!TypeOK
        <3>2. CASE C!ReadChunk
            BY <3>1, <3>2 DEF C!ReadChunk, C!Pipe
        <3>3. UNCHANGED stdout \/ C!ReadChunk
            BY <1>8 DEF C!Start, C!Spawn, C!SpawnFails, C!Poll, C!ReadEof,
                C!WriteChecks, C!ReadStderr, C!Look, C!ErrorChecks, C!CompleteChecks,
                C!CloseChecks, C!Check, C!Decrement, C!OnClose, C!process, commandVars
        <3> QED BY <3>2, <3>3
    <2> QED BY <2>1, <2>2, <2>3
<1> QED BY <1>1, <1>2, <1>3, <1>4, <1>5, <1>6, <1>7, <1>8 DEF C!Next, C!ThreadStep, C!Command

(* The output of a command is transferred as a file is: what the command   *)
(* writes, in order, nothing after the end, complete unless it is told     *)
(* otherwise.                                                              *)
THEOREM OutputImplementsTransfer == PartsSpec => OutputIsTransfer
<1>1. C!Init => C!User!Init
    <2> SUFFICES ASSUME C!Init PROVE C!User!Init
        OBVIOUS
    <2>1. /\ command["shell"] = "none" /\ stdout = C!Empty /\ command_told = {} /\ session = "up"
          /\ command_got = 0
        BY DEF C!Init, C!Processes
    <2>2. trouble = FALSE
        BY Zenon DEF C!Init
    <2> QED BY <2>1, <2>2 DEF C!Empty, C!Outcome, C!User!Init
<1> QED BY <1>1, OutputStep, OutputInvariance, EachPart, PTL
        DEF OutputIsTransfer, C!ImplementsTransfer, C!User!Spec, C!User!vars, OutputVars, OutputEnded

-----------------------------------------------------------------------------
(* The agent.                                                              *)

(* What was built before the step the main thread is at, and before the    *)
(* last part.                                                              *)
BuiltInOrder == /\ main \in {"reading", "gone"} => built = {}
                /\ main \in {"setting", "forwarding"} => "shell" \in built
                /\ main = "forwarding" => "m2m" \in built
                /\ "port_forward" \in built => {"shell", "m2m"} \subseteq built

(* A late instruction was sent, and finds all of the Client if it is still *)
(* on its way.                                                             *)
LateFindsAll ==
    /\ \A i \in late : status[i] # "none"
    /\ \A k \in 1..Len(inbox) : inbox[k] \in late => "port_forward" \in built

AgentInv == A!TypeOK /\ BuiltInOrder /\ LateFindsAll /\ A!LostOnlyEarly

(* The invariant of the agent.                                             *)
LEMMA InitAgentInv == A!Init => AgentInv
<1> SUFFICES ASSUME A!Init PROVE AgentInv
  OBVIOUS
<1>1. inbox \in Seq(Instructions) /\ Len(inbox) = 0
  BY DEF A!Init
<1>2. A!TypeOK
  BY <1>1 DEF A!Init, A!TypeOK, A!Places, A!Parts, A!Statuses
<1>3. BuiltInOrder /\ LateFindsAll /\ A!LostOnlyEarly
  BY <1>1 DEF A!Init, BuiltInOrder, LateFindsAll, A!LostOnlyEarly
<1> QED
  BY <1>2, <1>3 DEF AgentInv

(* What taking the first element of a sequence leaves.                     *)
LEMMA HeadTail ==
    ASSUME NEW S, NEW s \in Seq(S), s # <<>>
    PROVE  /\ Head(s) = s[1] /\ Head(s) \in S /\ 1 \in 1..Len(s)
           /\ Tail(s) \in Seq(S)
           /\ \A k \in 1..Len(Tail(s)) : k + 1 \in 1..Len(s) /\ Tail(s)[k] = s[k + 1]
BY HeadTailProperties

(* The end of the process.                                                 *)
LEMMA DiesAgentInv == AgentInv /\ A!Dies => AgentInv'
<1> SUFFICES ASSUME AgentInv, A!Dies PROVE AgentInv'
  OBVIOUS
<1> USE DEF AgentInv, A!Dies
<1>1. inbox' \in Seq(Instructions) /\ Len(inbox') = 0
  OBVIOUS
<1>2. A!TypeOK'
  BY <1>1 DEF A!TypeOK, A!Places, A!Parts, A!Statuses
<1>3. BuiltInOrder' /\ LateFindsAll' /\ A!LostOnlyEarly'
  BY <1>1 DEF A!TypeOK, BuiltInOrder, LateFindsAll, A!LostOnlyEarly, A!Statuses
<1> QED
  BY <1>2, <1>3

(* A step of the main thread that builds a part, or none.                  *)
LEMMA MainAgentInv == AgentInv /\ (A!MainStep \/ A!Interrupt \/ A!Supervise) => AgentInv'
<1> SUFFICES ASSUME AgentInv, A!MainStep \/ A!Interrupt \/ A!Supervise PROVE AgentInv'
  OBVIOUS
<1> USE DEF AgentInv, A!TypeOK, BuiltInOrder, LateFindsAll, A!LostOnlyEarly, A!Goto,
            A!orders, A!check, A!Places, A!Parts
<1>1. CASE A!InitFails \/ A!ReadSerial \/ A!Interrupt \/ A!Supervise
  BY <1>1 DEF A!InitFails, A!ReadSerial, A!Interrupt, A!Supervise
<1>2. CASE A!StartWS \/ A!AddShell
  BY <1>2 DEF A!StartWS, A!AddShell, A!Build
<1>3. CASE A!SetM2M \/ A!SetPortForward
  BY <1>3 DEF A!SetM2M, A!SetPortForward, A!Build
<1>4. CASE A!StartClock \/ A!Poll \/ A!Timeout \/ A!StopClock \/ A!Join
  BY <1>4 DEF A!StartClock, A!Poll, A!Timeout, A!StopClock, A!Join
<1>5. CASE A!Leave
  BY <1>5, DiesAgentInv DEF A!Leave
<1> QED
  BY <1>1, <1>2, <1>3, <1>4, <1>5 DEF A!MainStep

(* The clock thread, a kill and a change of the clock.                     *)
LEMMA ClockAgentInv ==
    AgentInv /\ (\/ A!ClockStep \/ A!Killed
                 \/ \E e \in {"long", "negative"} : A!ClockChange(e)) => AgentInv'
<1> SUFFICES ASSUME AgentInv,
                    \/ A!ClockStep \/ A!Killed
                    \/ \E e \in {"long", "negative"} : A!ClockChange(e)
             PROVE  AgentInv'
  OBVIOUS
<1>1. CASE A!OnFail \/ A!Killed
  BY <1>1, DiesAgentInv DEF A!OnFail, A!Killed
<1>2. CASE A!ClockLoop \/ A!Wake \/ \E e \in {"long", "negative"} : A!ClockChange(e)
  BY <1>2 DEF A!ClockLoop, A!Wake, A!ClockChange, AgentInv, A!TypeOK, BuiltInOrder, LateFindsAll,
              A!LostOnlyEarly, A!client, A!orders
<1> QED
  BY <1>1, <1>2 DEF A!ClockStep

(* What the WS thread does with the first instruction.                     *)
LEMMA TakeAgentInv ==
    ASSUME AgentInv, NEW i \in Instructions, A!OnInstruction(i)
    PROVE  AgentInv'
<1> USE DEF AgentInv, A!client, A!check
<1>1. PICK s \in {"served", "refused", "dropped"} :
         A!Take(i, s) /\ (s = "dropped" => ~A!Has(i)) /\ serving' \subseteq Instructions
  BY DEF A!OnInstruction, A!Launch, A!Refuse, A!Perform, A!Drop, A!TypeOK
<1>2. /\ inbox \in Seq(Instructions) /\ inbox # <<>> /\ i = inbox[1] /\ 1 \in 1..Len(inbox)
      /\ inbox' = Tail(inbox) /\ inbox' \in Seq(Instructions)
      /\ \A k \in 1..Len(inbox') : k + 1 \in 1..Len(inbox) /\ inbox'[k] = inbox[k + 1]
  BY <1>1, HeadTail DEF A!TypeOK, A!Take
<1>3. A!TypeOK'
  BY <1>1, <1>2 DEF A!TypeOK, A!Take, A!Statuses
<1>4. BuiltInOrder'
  BY <1>1 DEF BuiltInOrder, A!Take
<1>5. LateFindsAll'
  BY <1>1, <1>2 DEF LateFindsAll, A!Take
<1>6. A!LostOnlyEarly'
  <2>1. ASSUME s = "dropped", i \in late PROVE action[i] = A!Unknown
    <3>1. {"shell", "m2m", "port_forward"} \subseteq built
      BY <1>2, <2>1 DEF LateFindsAll, BuiltInOrder
    <3> QED
      BY <1>1, <2>1, <3>1 DEF A!Has
  <2> QED
    BY <1>1, <2>1 DEF A!LostOnlyEarly, A!Take, A!TypeOK
<1> QED
  BY <1>3, <1>4, <1>5, <1>6

(* A new instruction, a lost link and the end of a service.                *)
LEMMA ServerAgentInv ==
    ASSUME AgentInv, A!LinkDrops \/ \E i \in Instructions : A!Instruct(i) \/ A!ServiceEnds(i)
    PROVE  AgentInv'
<1> USE DEF AgentInv, A!client, A!check, A!orders
<1>1. CASE A!LinkDrops
  BY <1>1 DEF A!LinkDrops, A!TypeOK, A!Statuses, BuiltInOrder, LateFindsAll, A!LostOnlyEarly
<1>2. ASSUME NEW i \in Instructions, A!ServiceEnds(i) PROVE AgentInv'
  BY <1>2 DEF A!ServiceEnds, A!TypeOK, BuiltInOrder, LateFindsAll, A!LostOnlyEarly
<1>3. ASSUME NEW i \in Instructions, A!Instruct(i) PROVE AgentInv'
  <2>1. /\ inbox' \in Seq(Instructions) /\ Len(inbox') = Len(inbox) + 1
        /\ \A k \in 1..Len(inbox') : inbox'[k] = IF k <= Len(inbox) THEN inbox[k] ELSE i
    BY <1>3, AppendProperties DEF A!Instruct, A!TypeOK
  <2>2. A!TypeOK'
    BY <1>3, <2>1 DEF A!Instruct, A!TypeOK, A!Statuses
  <2>3. LateFindsAll'
    <3>0. \A j \in late' : status'[j] # "none"
      BY <1>3 DEF A!Instruct, LateFindsAll, A!TypeOK
    <3> SUFFICES ASSUME NEW k \in 1..Len(inbox'), inbox'[k] \in late', "port_forward" \notin built
                 PROVE  FALSE
      BY <1>3, <3>0 DEF LateFindsAll, A!Instruct
    <3>1. late' = late /\ (k \in 1..Len(inbox) => inbox[k] \notin late)
      BY <1>3 DEF A!Instruct, LateFindsAll
    <3> QED
      BY <1>3, <2>1, <3>1 DEF A!Instruct, LateFindsAll, A!TypeOK
  <2>4. BuiltInOrder' /\ A!LostOnlyEarly'
    BY <1>3 DEF A!Instruct, BuiltInOrder, A!LostOnlyEarly, A!TypeOK
  <2> QED
    BY <2>2, <2>3, <2>4
<1> QED
  BY <1>1, <1>2, <1>3

(* Every step of the agent keeps it, ...                                   *)
LEMMA NextAgentInv == AgentInv /\ [A!Next]_agentVars => AgentInv'
<1> SUFFICES ASSUME AgentInv, [A!Next]_agentVars PROVE AgentInv'
  OBVIOUS
<1>1. CASE UNCHANGED agentVars
  BY <1>1 DEF agentVars, A!client, A!check, A!orders, AgentInv, A!TypeOK, BuiltInOrder,
              LateFindsAll, A!LostOnlyEarly
<1>2. CASE A!Next
  BY <1>2, MainAgentInv, ClockAgentInv, TakeAgentInv, ServerAgentInv DEF A!Next
<1> QED
  BY <1>1, <1>2

(* ... so that it holds throughout.                                        *)
LEMMA AgentInvariance == PartsSpec => []AgentInv
BY InitAgentInv, NextAgentInv, EachPart, PTL

(* No instruction that was sent once the Client was complete is dropped,   *)
(* but for a service the device has not: for any number of instructions,   *)
(* restarts and lost links.                                                *)
THEOREM AgentLosesOnlyEarly == PartsSpec => []LostOnlyEarly
<1>1. AgentInv => LostOnlyEarly
    BY DEF AgentInv, LostOnlyEarly
<1> QED BY <1>1, AgentInvariance, PTL

-----------------------------------------------------------------------------
(* The types of the limiter, of both services and of the agent.            *)
THEOREM PartsTypesOK == PartsSpec => []TypesOK
<1>1. IInv /\ FileInv /\ CommandInv /\ AgentInv => TypesOK
    BY DEF IInv, FileInv, CommandInv, AgentInv, TypesOK
<1>2. Init /\ [][Next]_vars => []IInv
    BY InitIInv, NextIInv, PTL
<1> QED BY <1>1, <1>2, EachPart, FileInvariance, CommandInvariance, AgentInvariance, PTL
==============================================================================
