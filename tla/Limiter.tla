------------------------------ MODULE Limiter ------------------------------
(***************************************************************************)
(* The slot counter of limiter.py and the protocol all of its callers      *)
(* follow: FileService, CommandService, Connection.connect,                *)
(* Service.connect, PortForwardManager.redirect_port and Terminal.launch   *)
(* start one thread inside `with limiter():`, and that thread decrements   *)
(* in the `finally` of its run function.                                   *)
(*                                                                         *)
(* One step of the model is one critical section of the RLock, or one step *)
(* of the caller between two of them; the exit of the `with` is a step of  *)
(* its own, so that a started thread may already be waiting to decrement.  *)
(* What a service does while it runs is left to the other modules.         *)
(***************************************************************************)
EXTENDS Naturals, FiniteSets

CONSTANTS Launchers,   \* threads that launch services: the WS thread
          Services,    \* service threads; a name is reused once its thread ended
          Limit,       \* Limiter._limit
          NoOne        \* nobody owns the lock, no service is being launched

ASSUME LimitAssumption == Limit \in Nat \ {0}     \* assert limit > 0
ASSUME ThreadAssumption == /\ IsFiniteSet(Services)
                           /\ Launchers \cap Services = {}
                           /\ NoOne \notin Launchers \cup Services

VARIABLES value,       \* Limiter._value
          owner,       \* owner of Limiter._lock
          launch,      \* where each launcher is in `with limiter(): start()`
          target,      \* the service each launcher is launching
          life,        \* life of each service thread
          underflow    \* some decrement raised LimiterError

vars == <<value, owner, launch, target, life, underflow>>

LaunchSteps == {"ready", "enter", "counted", "setup", "broken",
                "unwound", "started", "refused"}
Lives == {"none", "asked", "counted", "running", "finishing"}

Free(t) == owner \in {NoOne, t}     \* an RLock lets its owner in again

Counted == {s \in Services : life[s] \in {"counted", "running", "finishing"}}
InLock  == {"setup", "broken", "unwound", "started"}

Init == /\ value = 0
        /\ owner = NoOne
        /\ launch = [l \in Launchers |-> "ready"]
        /\ target = [l \in Launchers |-> NoOne]
        /\ life = [s \in Services |-> "none"]
        /\ underflow = FALSE

Goto(l, from, to) == launch[l] = from /\ launch' = [launch EXCEPT ![l] = to]
Live(s, to) == life' = [life EXCEPT ![s] = to]

-----------------------------------------------------------------------------
(* Plausible bugs of this code; each must break a property below.          *)
IncrementPastLimit(l) ==        \* `>` for `>=`
    /\ Free(l) /\ value <= Limit
    /\ Goto(l, "enter", "counted") /\ Live(target[l], "counted")
    /\ value' = value + 1
    /\ UNCHANGED <<owner, target, underflow>>
LimitReachedEarly(l) ==         \* refuses the last slot too
    /\ Free(l) /\ value >= Limit - 1
    /\ Goto(l, "enter", "refused")
    /\ UNCHANGED <<value, owner, target, life, underflow>>
KeepSlotOnError(l) ==           \* no decrement when the setup raises
    /\ Goto(l, "broken", "unwound") /\ Live(target[l], "asked")
    /\ UNCHANGED <<value, owner, target, underflow>>
LeaveSetupKeepsLock(l) ==
    /\ Goto(l, "started", "ready") /\ target' = [target EXCEPT ![l] = NoOne]
    /\ UNCHANGED <<value, owner, life, underflow>>

-----------------------------------------------------------------------------
(* An instruction asks a launcher for a service: it calls `limiter()`.     *)
Ask(l, s) == /\ life[s] = "none"
             /\ Goto(l, "ready", "enter")
             /\ target' = [target EXCEPT ![l] = s]
             /\ Live(s, "asked")
             /\ UNCHANGED <<value, owner, underflow>>

(* increment(), below the limit.                                           *)
Increment(l) == /\ Free(l) /\ value < Limit
                /\ Goto(l, "enter", "counted") /\ Live(target[l], "counted")
                /\ value' = value + 1
                /\ UNCHANGED <<owner, target, underflow>>

(* increment() raises LimitReached; the lock is released on the way out.   *)
LimitReached(l) == /\ Free(l) /\ value >= Limit
                   /\ Goto(l, "enter", "refused")
                   /\ UNCHANGED <<value, owner, target, life, underflow>>

(* limiter_context takes the lock again, for the setup code.               *)
EnterSetup(l) == /\ Free(l)
                 /\ Goto(l, "counted", "setup") /\ owner' = l
                 /\ UNCHANGED <<value, target, life, underflow>>

(* The caller's setup starts the thread, which runs from now on.           *)
StartThread(l) == /\ Goto(l, "setup", "started") /\ Live(target[l], "running")
                  /\ UNCHANGED <<value, owner, target, underflow>>

(* The setup raises: "could be limit reached, or out of threads".          *)
SetupFails(l) == /\ Goto(l, "setup", "broken")
                 /\ UNCHANGED <<value, owner, target, life, underflow>>

Decrement == IF value <= 0 THEN underflow' = TRUE /\ UNCHANGED value
                           ELSE value' = value - 1 /\ UNCHANGED underflow

(* except Exception: limiter.decrement(), in the lock it already owns.     *)
DecrementOnError(l) == /\ Free(l)
                       /\ Goto(l, "broken", "unwound") /\ Live(target[l], "asked")
                       /\ Decrement
                       /\ UNCHANGED <<owner, target>>

(* `with limiter._lock` ends with the exception on its way to the caller,  *)
(* or normally: the call is over and the thread is on its own.             *)
Reraise(l) == /\ Goto(l, "unwound", "refused") /\ owner' = NoOne
              /\ UNCHANGED <<value, target, life, underflow>>
LeaveSetup(l) == /\ Goto(l, "started", "ready") /\ owner' = NoOne
                 /\ target' = [target EXCEPT ![l] = NoOne]
                 /\ UNCHANGED <<value, life, underflow>>

(* The caller's handler: tell the channel SERVER_BUSY (or the error) and   *)
(* close it.                                                               *)
TellBusy(l) == /\ Goto(l, "refused", "ready") /\ Live(target[l], "none")
               /\ target' = [target EXCEPT ![l] = NoOne]
               /\ UNCHANGED <<value, owner, underflow>>

(* The service's work is over, normally or by an exception ...             *)
Finish(s) == /\ life[s] = "running" /\ Live(s, "finishing")
             /\ UNCHANGED <<value, owner, launch, target, underflow>>

(* ... and its `finally` decrements, once the lock is free.                *)
DecrementAtEnd(s) == /\ life[s] = "finishing" /\ Free(s)
                     /\ Live(s, "none") /\ Decrement
                     /\ UNCHANGED <<owner, launch, target>>

Carry(l) == \/ Increment(l) \/ LimitReached(l) \/ EnterSetup(l)
            \/ StartThread(l) \/ SetupFails(l) \/ DecrementOnError(l)
            \/ Reraise(l) \/ LeaveSetup(l) \/ TellBusy(l)

Next == \/ \E l \in Launchers : Carry(l) \/ \E s \in Services : Ask(l, s)
        \/ \E s \in Services : Finish(s) \/ DecrementAtEnd(s)

(* A launch in progress goes on and a thread in its `finally` decrements   *)
(* when it can get the lock; no instruction need ever come, and no service *)
(* need ever end.                                                          *)
Fairness == /\ \A l \in Launchers : WF_vars(Carry(l))
            /\ \A s \in Services : WF_vars(DecrementAtEnd(s))

Spec == Init /\ [][Next]_vars /\ Fairness

-----------------------------------------------------------------------------
TypeOK == /\ value \in 0..Limit
          /\ owner \in Launchers \cup {NoOne}
          /\ launch \in [Launchers -> LaunchSteps]
          /\ target \in [Launchers -> Services \cup {NoOne}]
          /\ life \in [Services -> Lives]
          /\ underflow \in BOOLEAN

(* The counter is exactly the number of services counted in and not yet    *)
(* counted out, in every interleaving of launches, failed thread starts    *)
(* and threads that end while their launcher still holds the lock.  A slot *)
(* leaked on one path would disable the service for good.                  *)
SlotAccounting == value = Cardinality(Counted)

(* "Counter can't be decremented below 0 ... indicates a bug in the        *)
(* caller": no caller has that bug.                                        *)
NeverUnderflows == ~underflow

(* No more than Limit service threads are alive at once, the ones still in *)
(* their `finally` included.                                               *)
ThreadsBounded ==
    Cardinality({s \in Services : life[s] \in {"running", "finishing"}}) <= Limit

(* The lock is owned exactly while a launcher is inside `with              *)
(* limiter._lock`: no path leaves with the lock, none sets up without it.  *)
LockHeldInSetup == \A l \in Launchers : owner = l <=> launch[l] \in InLock

(* What each launcher's place in the protocol says of the service it is    *)
(* launching, and that no two launchers are launching the same one.        *)
LaunchCoherent ==
    \A l \in Launchers :
        /\ launch[l] = "ready" <=> target[l] = NoOne
        /\ launch[l] \in {"enter", "unwound", "refused"} => life[target[l]] = "asked"
        /\ launch[l] \in {"counted", "setup", "broken"} => life[target[l]] = "counted"
        /\ launch[l] = "started" => life[target[l]] \in {"running", "finishing"}
        /\ \A m \in Launchers \ {l} : launch[l] # "ready" => target[l] # target[m]

(* Once launches stop contending for the lock, every thread that has ended *)
(* its work gives its slot back.                                           *)
SlotsReturned == <>[](\A l \in Launchers : launch[l] = "ready")
                    => \A s \in Services : life[s] = "finishing" ~> life[s] = "none"

(* The counter and the lock implement the pool that never blocks: a        *)
(* service is denied only when Limit others hold a slot or its own setup   *)
(* failed, and never holds one twice.                                      *)
Denied(s) == \E l \in Launchers : target[l] = s /\ launch[l] \in {"unwound", "refused"}
TaskOf(s) == IF life[s] = "none" THEN "idle"
             ELSE IF s \in Counted THEN "held"
             ELSE IF Denied(s) THEN "denied" ELSE "asked"
Pool == INSTANCE SlotPool WITH Tasks <- Services,
                               task <- [s \in Services |-> TaskOf(s)]
ImplementsPool == Pool!Spec
=============================================================================
