------------------------------ MODULE MCAgent ------------------------------
(***************************************************************************)
(* Small instances of Limiter, of FileService and CommandService, which    *)
(* run under it, and of Agent, the process they all run in, checked in one *)
(* run: a behaviour is of one of them, and the others do not start.        *)
(***************************************************************************)
EXTENDS Limiter, FileSize

CONSTANTS MaxOut, PipeSize, Instructions

ASSUME OutputAssumption == MaxOut \in Nat

VARIABLES part,          \* what the behaviour is of
          file_at, read, fate, file_closed, file_slot, link, file_got, file_told, asked,
          command_at, mask, more_data, trouble, command, holds, stdout, stderr,
          command_closed, command_slot, session, command_got, command_told, requested, eof_readable,
          main, built, clock, running, elapsed, frozen, serving, action, inbox, status, late

F == INSTANCE FileService
     WITH at <- file_at, closed <- file_closed, slot <- file_slot, got <- file_got,
          told <- file_told
C == INSTANCE CommandService
     WITH at <- command_at, closed <- command_closed, slot <- command_slot,
          got <- command_got, told <- command_told
A == INSTANCE Agent

fileVars    == <<file_at, read, fate, file_closed, file_slot, link, file_got, file_told, asked>>
commandVars == <<command_at, mask, more_data, trouble, command, holds, stdout, stderr,
                 command_closed, command_slot, session, command_got, command_told, requested, eof_readable>>
agentVars   == <<main, built, clock, running, elapsed, frozen, serving, action, inbox,
                 status, late>>

IdleCommand == ~eof_readable
IdleAgent   == action = [i \in Instructions |-> "sync"]
FewActions  == \E i \in Instructions :       \* bound: the others read files
                   \A j \in Instructions \ {i} : action[j] = "read-file"
PartsInit == /\ Init /\ F!Init /\ C!Init /\ A!Init
             /\ \/ part \in {"limiter", "file"} /\ IdleCommand /\ IdleAgent
                \/ part = "command" /\ IdleAgent
                \/ part = "agent" /\ IdleCommand /\ FewActions

PartsNext ==
    /\ UNCHANGED part
    /\ \/ part = "limiter" /\ UNCHANGED <<fileVars, commandVars, agentVars>> /\ Next
       \/ part = "file" /\ UNCHANGED <<vars, commandVars, agentVars>> /\ F!Next
       \/ part = "command" /\ UNCHANGED <<vars, fileVars, agentVars>> /\ C!Next
       \/ part = "agent" /\ UNCHANGED <<vars, fileVars, commandVars>> /\ A!Next
       \/ /\ part \in {"file", "command"}                   \* these may stop
          /\ UNCHANGED <<vars, fileVars, commandVars, agentVars>>

(* A!Fairness, of behaviours that are of Agent.                            *)
AgentFairness ==
    /\ WF_agentVars(part = "agent" /\ A!MainStep)
    /\ WF_agentVars(part = "agent" /\ A!ClockStep)
    /\ WF_agentVars(part = "agent" /\ A!Supervise)
    /\ \A i \in Instructions : WF_agentVars(part = "agent" /\ A!OnInstruction(i))

PartsSpec == /\ PartsInit
             /\ [][PartsNext]_<<part, vars, fileVars, commandVars, agentVars>>
             /\ Fairness /\ F!Fairness /\ C!Fairness /\ AgentFairness

(* The types of each of the modules.                                       *)
TypesOK == TypeOK /\ F!TypeOK /\ C!TypeOK /\ A!TypeOK

(* FileService: the remote user sees a transfer.                           *)
ImplementsTransfer == F!ImplementsTransfer

(* CommandService: so does that of a command, ...                          *)
OutputIsTransfer == C!ImplementsTransfer
(* ... when the user leaves the shell is not left running, ...             *)
ClosedKills == C!ClosedKills
(* ... and stderr does not block it while it has stdout open.              *)
NeverBlocked == C!NeverBlocked

(* Agent: only instructions that come early, or for no known service, are  *)
(* dropped, ...                                                            *)
LostOnlyEarly == A!LostOnlyEarly
(* ... an interrupted agent ends, ...                                      *)
AgentExits == A!AgentExits
(* ... and one whose clock was put forward is started again.               *)
ForwardChangeRestarts == A!ForwardChangeRestarts
=============================================================================
