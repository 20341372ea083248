------------------------------ MODULE SlotPool ------------------------------
(***************************************************************************)
(* What limiter.py promises its callers: "a threadsafe object to enforce   *)
(* limits ... simpler [than a Semaphore] because we never want to block".  *)
(* A task asks for a slot and is told at once: it holds a slot while fewer *)
(* than Limit tasks hold one, and is denied otherwise.  A task whose       *)
(* thread could not be started is denied after it was granted.             *)
(***************************************************************************)
EXTENDS Naturals, FiniteSets

CONSTANTS Tasks,   \* the services a client may ask the agent to run
          Limit    \* slots of the pool

VARIABLE task      \* [Tasks -> {"idle", "asked", "held", "denied"}]

Holding == {t \in Tasks : task[t] = "held"}

Init == task = [t \in Tasks |-> "idle"]

Become(t, from, to) == task[t] = from /\ task' = [task EXCEPT ![t] = to]

Ask(t)      == Become(t, "idle", "asked")
Grant(t)    == Become(t, "asked", "held") /\ Cardinality(Holding) < Limit
Deny(t)     == Become(t, "asked", "denied") /\ Cardinality(Holding) >= Limit
GiveUp(t)   == Become(t, "held", "denied")
Return(t)   == Become(t, "held", "idle")
Told(t)     == Become(t, "denied", "idle")

Next == \E t \in Tasks : \/ Ask(t) \/ Grant(t) \/ Deny(t)
                         \/ GiveUp(t) \/ Return(t) \/ Told(t)

Spec == Init /\ [][Next]_task
=============================================================================
