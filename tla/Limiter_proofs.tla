--------------------------- MODULE Limiter_proofs ---------------------------
(***************************************************************************)
(* Proofs about Limiter, for any number of launchers and services and any  *)
(* limit: its slot accounting, its lock discipline, and that it implements *)
(* SlotPool.                                                               *)
(***************************************************************************)
EXTENDS Limiter, FiniteSetTheorems, TLAPS

(* The inductive invariant: the accounting needs the lock discipline (a    *)
(* thread in its `finally` must find its launcher out of the lock) and the *)
(* coherence of the launches (a decrement must meet a counted service).    *)
IInv == TypeOK /\ SlotAccounting /\ NeverUnderflows /\ LockHeldInSetup /\ LaunchCoherent

USE LimitAssumption, ThreadAssumption

LEMMA CountedFinite == /\ IsFiniteSet(Counted) /\ Cardinality(Counted) \in Nat
                       /\ \A s \in Counted : Cardinality(Counted) > 0
BY FS_Subset, FS_CardinalityType, FS_EmptySet DEF Counted

(* Counting one service in or out changes the size of Counted by one.      *)
LEMMA CountIn == ASSUME NEW s \in Services, s \notin Counted, Counted' = Counted \cup {s}
                 PROVE  Cardinality(Counted') = Cardinality(Counted) + 1
BY CountedFinite, FS_AddElement

LEMMA CountOut == ASSUME NEW s \in Services, s \in Counted, Counted' = Counted \ {s}
                  PROVE  Cardinality(Counted') = Cardinality(Counted) - 1
BY CountedFinite, FS_RemoveElement

LEMMA InitIInv == Init => IInv
<1> SUFFICES ASSUME Init PROVE IInv
    OBVIOUS
<1>1. TypeOK
    <2>1. value \in 0..Limit /\ owner \in Launchers \cup {NoOne}
        BY DEF Init
    <2>3. underflow \in BOOLEAN
        BY Zenon DEF Init
    <2>2. /\ launch \in [Launchers -> LaunchSteps]
          /\ target \in [Launchers -> Services \cup {NoOne}]
          /\ life \in [Services -> Lives]
        BY DEF Init, LaunchSteps, Lives
    <2> QED BY <2>1, <2>2, <2>3 DEF TypeOK
<1>2. Counted = {}
    BY DEF Init, Counted
<1>3. SlotAccounting
    BY <1>2, FS_EmptySet DEF Init, SlotAccounting
<1>4. NeverUnderflows /\ LockHeldInSetup /\ LaunchCoherent
    BY DEF Init, NeverUnderflows, LockHeldInSetup, LaunchCoherent, InLock
<1> QED BY <1>1, <1>3, <1>4 DEF IInv

LEMMA NextIInv == IInv /\ [Next]_vars => IInv'
<1> SUFFICES ASSUME IInv, [Next]_vars PROVE IInv'
    OBVIOUS
<1> USE DEF IInv
<1> DEFINE Rest == (TypeOK /\ LockHeldInSetup /\ LaunchCoherent)'
<1>1. ASSUME NEW l \in Launchers, NEW s \in Services, Ask(l, s) PROVE IInv'
    <2>1. Counted' = Counted
        BY <1>1 DEF Ask, Live, Counted, TypeOK
    <2>2. Rest
        BY <1>1 DEF Ask, Goto, Live, TypeOK, LaunchSteps, Lives, LockHeldInSetup, InLock, LaunchCoherent
    <2> QED BY <1>1, <2>1, <2>2 DEF Ask, SlotAccounting, NeverUnderflows
<1>2. ASSUME NEW l \in Launchers, Increment(l) PROVE IInv'
    <2>1. target[l] \in Services /\ life[target[l]] = "asked"
        BY <1>2 DEF Increment, Goto, TypeOK, LaunchCoherent
    <2>2. Counted' = Counted \cup {target[l]} /\ target[l] \notin Counted
        BY <1>2, <2>1 DEF Increment, Live, Counted, TypeOK
    <2>3. SlotAccounting'
        BY <1>2, <2>1, <2>2, CountIn DEF Increment, SlotAccounting
    <2>4. Rest
        BY <1>2, <2>1 DEF Increment, Goto, Live, TypeOK, LaunchSteps, Lives, LockHeldInSetup, InLock, LaunchCoherent
    <2> QED BY <1>2, <2>3, <2>4 DEF Increment, NeverUnderflows
<1>3. ASSUME NEW l \in Launchers, LimitReached(l) PROVE IInv'
    <2>1. Counted' = Counted
        BY <1>3 DEF LimitReached, Counted
    <2>2. Rest
        BY <1>3 DEF LimitReached, Goto, TypeOK, LaunchSteps, LockHeldInSetup, InLock, LaunchCoherent
    <2> QED BY <1>3, <2>1, <2>2 DEF LimitReached, SlotAccounting, NeverUnderflows
<1>4. ASSUME NEW l \in Launchers, EnterSetup(l) PROVE IInv'
    <2>1. Counted' = Counted
        BY <1>4 DEF EnterSetup, Counted
    <2>2. Rest
        BY <1>4 DEF EnterSetup, Goto, Free, TypeOK, LaunchSteps, LockHeldInSetup, InLock, LaunchCoherent
    <2> QED BY <1>4, <2>1, <2>2 DEF EnterSetup, SlotAccounting, NeverUnderflows
<1>5. ASSUME NEW l \in Launchers, StartThread(l) PROVE IInv'
    <2>1. target[l] \in Services /\ life[target[l]] = "counted"
        BY <1>5 DEF StartThread, Goto, TypeOK, LaunchCoherent
    <2>2. Counted' = Counted
        BY <1>5, <2>1 DEF StartThread, Live, Counted, TypeOK
    <2>3. Rest
        BY <1>5, <2>1 DEF StartThread, Goto, Live, TypeOK, LaunchSteps, Lives, LockHeldInSetup, InLock, LaunchCoherent
    <2> QED BY <1>5, <2>2, <2>3 DEF StartThread, SlotAccounting, NeverUnderflows
<1>6. ASSUME NEW l \in Launchers, SetupFails(l) PROVE IInv'
    <2>1. Counted' = Counted
        BY <1>6 DEF SetupFails, Counted
    <2>2. Rest
        BY <1>6 DEF SetupFails, Goto, TypeOK, LaunchSteps, LockHeldInSetup, InLock, LaunchCoherent
    <2> QED BY <1>6, <2>1, <2>2 DEF SetupFails, SlotAccounting, NeverUnderflows
<1>7. ASSUME NEW l \in Launchers, DecrementOnError(l) PROVE IInv'
    <2>1. target[l] \in Services /\ life[target[l]] = "counted"
        BY <1>7 DEF DecrementOnError, Goto, TypeOK, LaunchCoherent
    <2>2. Counted' = Counted \ {target[l]} /\ target[l] \in Counted
        BY <1>7, <2>1 DEF DecrementOnError, Live, Counted, TypeOK
    <2>3. value > 0
        BY <2>2, CountedFinite DEF SlotAccounting
    <2>4. value' = value - 1 /\ underflow' = underflow
        BY <1>7, <2>3 DEF DecrementOnError, Decrement, TypeOK
    <2>5. SlotAccounting'
        BY <2>1, <2>2, <2>4, CountOut DEF SlotAccounting
    <2>6. Rest
        BY <1>7, <2>1, <2>3, <2>4 DEF DecrementOnError, Goto, Live, TypeOK, LaunchSteps, Lives, LockHeldInSetup, InLock, LaunchCoherent
    <2> QED BY <2>4, <2>5, <2>6 DEF NeverUnderflows
<1>8. ASSUME NEW l \in Launchers, Reraise(l) PROVE IInv'
    <2>1. Counted' = Counted
        BY <1>8 DEF Reraise, Counted
    <2>2. Rest
        BY <1>8 DEF Reraise, Goto, TypeOK, LaunchSteps, LockHeldInSetup, InLock, LaunchCoherent
    <2> QED BY <1>8, <2>1, <2>2 DEF Reraise, SlotAccounting, NeverUnderflows
<1>9. ASSUME NEW l \in Launchers, LeaveSetup(l) PROVE IInv'
    <2>1. Counted' = Counted
        BY <1>9 DEF LeaveSetup, Counted
    <2>2. Rest
        BY <1>9 DEF LeaveSetup, Goto, TypeOK, LaunchSteps, LockHeldInSetup, InLock, LaunchCoherent
    <2> QED BY <1>9, <2>1, <2>2 DEF LeaveSetup, SlotAccounting, NeverUnderflows
<1>10. ASSUME NEW l \in Launchers, TellBusy(l) PROVE IInv'
    <2>1. target[l] \in Services /\ life[target[l]] = "asked"
        BY <1>10 DEF TellBusy, Goto, TypeOK, LaunchCoherent
    <2>2. Counted' = Counted
        BY <1>10, <2>1 DEF TellBusy, Live, Counted, TypeOK
    <2>3. Rest
        BY <1>10, <2>1 DEF TellBusy, Goto, Live, TypeOK, LaunchSteps, Lives, LockHeldInSetup, InLock, LaunchCoherent
    <2> QED BY <1>10, <2>2, <2>3 DEF TellBusy, SlotAccounting, NeverUnderflows
<1>11. ASSUME NEW s \in Services, Finish(s) PROVE IInv'
    <2>1. Counted' = Counted
        BY <1>11 DEF Finish, Live, Counted, TypeOK
    <2>2. Rest
        BY <1>11 DEF Finish, Live, TypeOK, Lives, LockHeldInSetup, LaunchCoherent
    <2> QED BY <1>11, <2>1, <2>2 DEF Finish, SlotAccounting, NeverUnderflows
<1>12. ASSUME NEW s \in Services, DecrementAtEnd(s) PROVE IInv'
    <2>1. life[s] = "finishing" /\ owner = NoOne
        BY <1>12 DEF DecrementAtEnd, Free, TypeOK
    <2>2. Counted' = Counted \ {s} /\ s \in Counted
        BY <1>12, <2>1 DEF DecrementAtEnd, Live, Counted, TypeOK
    <2>3. value > 0
        BY <2>2, CountedFinite DEF SlotAccounting
    <2>4. value' = value - 1 /\ underflow' = underflow
        BY <1>12, <2>3 DEF DecrementAtEnd, Decrement, TypeOK
    <2>5. SlotAccounting'
        BY <2>2, <2>4, CountOut DEF SlotAccounting
    <2>6. \A l \in Launchers : launch[l] # "ready" => target[l] # s
        BY <2>1 DEF TypeOK, LaunchSteps, LockHeldInSetup, InLock, LaunchCoherent
    <2>7. TypeOK' /\ LockHeldInSetup'
        BY <1>12, <2>3, <2>4 DEF DecrementAtEnd, Live, TypeOK, Lives, LockHeldInSetup
    <2>8. LaunchCoherent'
        BY <1>12, <2>6 DEF DecrementAtEnd, Live, TypeOK, LaunchCoherent
    <2> QED BY <2>4, <2>5, <2>7, <2>8 DEF NeverUnderflows
<1>13. CASE UNCHANGED vars
    BY <1>13 DEF vars, TypeOK, SlotAccounting, Counted, NeverUnderflows, LockHeldInSetup, LaunchCoherent
<1> QED BY <1>1, <1>2, <1>3, <1>4, <1>5, <1>6, <1>7, <1>8, <1>9, <1>10, <1>11, <1>12, <1>13 DEF Next, Carry

LEMMA Invariance == Spec => []IInv
BY InitIInv, NextIInv, PTL DEF Spec

-----------------------------------------------------------------------------
(* Every variable keeps its type; the counter never leaves 0.._limit.      *)
THEOREM LimiterTypeOK == Spec => []TypeOK
BY Invariance, PTL DEF IInv

(* _value is the number of services counted in and not yet out: no launch, *)
(* failed start or thread end leaks a slot or gives one back twice.        *)
THEOREM LimiterAccounts == Spec => []SlotAccounting
BY Invariance, PTL DEF IInv

(* decrement() never raises LimiterError.                                  *)
THEOREM LimiterNeverUnderflows == Spec => []NeverUnderflows
BY Invariance, PTL DEF IInv

(* The RLock is held exactly during the setup of a launch.                 *)
THEOREM LimiterLock == Spec => []LockHeldInSetup
BY Invariance, PTL DEF IInv

(* No more than _limit service threads are alive at once.                  *)
THEOREM LimiterBoundsThreads == Spec => []ThreadsBounded
<1>1. IInv => ThreadsBounded
    <2> SUFFICES ASSUME IInv PROVE ThreadsBounded
        OBVIOUS
    <2> DEFINE Alive == {s \in Services : life[s] \in {"running", "finishing"}}
    <2>1. Cardinality(Counted) <= Limit
        BY DEF IInv, TypeOK, SlotAccounting
    <2>2. Alive \in SUBSET Counted
        BY DEF Counted
    <2>3. Cardinality(Alive) <= Cardinality(Counted) /\ Cardinality(Alive) \in Nat
        BY <2>2, CountedFinite, FS_Subset, FS_CardinalityType
    <2>4. Cardinality(Alive) <= Limit
        BY <2>1, <2>3, CountedFinite
    <2> QED BY <2>4 DEF ThreadsBounded
<1> QED BY <1>1, Invariance, PTL

-----------------------------------------------------------------------------
(* The refinement.  Every step moves at most the task of one service.      *)
Tasks == [s \in Services |-> TaskOf(s)]

LEMMA MovesOneTask ==
    ASSUME NEW s \in Services, NEW from, NEW to, TaskOf(s) = from, TaskOf(s)' = to,
           \A r \in Services \ {s} : TaskOf(r)' = TaskOf(r)
    PROVE  Pool!Become(s, from, to)
<1>1. Tasks' = [Tasks EXCEPT ![s] = to]
    BY DEF Tasks
<1> QED BY <1>1 DEF Tasks, Pool!Become

LEMMA PoolCardinality == \A S : Pool!Cardinality(S) = Cardinality(S)
BY DEF Pool!Cardinality, Cardinality

LEMMA HoldingIsCounted == TypeOK => Pool!Holding = Counted
BY DEF TypeOK, Lives, Pool!Holding, TaskOf, Counted, Denied

LEMMA StepRefines == IInv /\ [Next]_vars => [Pool!Next]_Tasks
<1> SUFFICES ASSUME IInv, [Next]_vars PROVE [Pool!Next]_Tasks
    OBVIOUS
<1> USE DEF IInv
<1>1. ASSUME NEW l \in Launchers, NEW s \in Services, Ask(l, s) PROVE Pool!Ask(s)
    <2>1. TaskOf(s) = "idle"
        BY <1>1 DEF Ask, TaskOf
    <2>2. ~Denied(s)' /\ life'[s] = "asked"
        BY <1>1 DEF Ask, Goto, Live, TypeOK, LaunchCoherent, Denied
    <2>3. TaskOf(s)' = "asked"
        BY <2>2 DEF TaskOf, Counted
    <2>4. \A r \in Services \ {s} : TaskOf(r)' = TaskOf(r)
        BY <1>1 DEF Ask, Goto, Live, TypeOK, TaskOf, Counted, Denied, LaunchCoherent
    <2> QED BY <2>1, <2>3, <2>4, MovesOneTask DEF Pool!Ask
<1>2. ASSUME NEW l \in Launchers, NEW s \in Services, s = target[l], Increment(l)
      PROVE  Pool!Grant(s)
    <2>1. life[s] = "asked" /\ ~Denied(s)
        BY <1>2 DEF Increment, Goto, TypeOK, LaunchCoherent, Denied
    <2>2. TaskOf(s) = "asked"
        BY <2>1 DEF TaskOf, Counted
    <2>3. life' = [life EXCEPT ![s] = "counted"] /\ target' = target
        BY <1>2 DEF Increment, Live
    <2>4. TaskOf(s)' = "held"
        BY <1>2, <2>1, <2>3 DEF TypeOK, TaskOf, Counted
    <2>5. \A r \in Services \ {s} : TaskOf(r)' = TaskOf(r)
        BY <1>2, <2>1, <2>3 DEF Increment, Goto, TypeOK, TaskOf, Counted, Denied
    <2>6. Pool!Become(s, "asked", "held")
        BY <2>1, <2>2, <2>4, <2>5, MovesOneTask
    <2>7. Pool!Cardinality(Pool!Holding) < Limit
        BY <1>2, HoldingIsCounted, PoolCardinality DEF Increment, SlotAccounting
    <2> QED BY <2>6, <2>7 DEF Pool!Grant
<1>3. ASSUME NEW l \in Launchers, NEW s \in Services, s = target[l], LimitReached(l)
      PROVE  Pool!Deny(s)
    <2>1. life[s] = "asked" /\ ~Denied(s)
        BY <1>3 DEF LimitReached, Goto, TypeOK, LaunchCoherent, Denied
    <2>2. TaskOf(s) = "asked"
        BY <2>1 DEF TaskOf, Counted
    <2>3. life' = life /\ target' = target /\ launch' = [launch EXCEPT ![l] = "refused"]
        BY <1>3 DEF LimitReached, Goto
    <2>4. TaskOf(s)' = "denied"
        BY <1>3, <2>1, <2>3 DEF TypeOK, TaskOf, Counted, Denied
    <2>5. \A r \in Services \ {s} : TaskOf(r)' = TaskOf(r)
        BY <1>3, <2>1, <2>3 DEF TypeOK, TaskOf, Counted, Denied
    <2>6. Pool!Become(s, "asked", "denied")
        BY <2>1, <2>2, <2>4, <2>5, MovesOneTask
    <2>7. Pool!Cardinality(Pool!Holding) >= Limit
        BY <1>3, HoldingIsCounted, PoolCardinality DEF LimitReached, SlotAccounting
    <2> QED BY <2>6, <2>7 DEF Pool!Deny
<1>4. ASSUME NEW l \in Launchers, EnterSetup(l) \/ SetupFails(l) \/ Reraise(l)
      PROVE  Tasks' = Tasks
    <2>1. life' = life /\ target' = target
        BY <1>4 DEF EnterSetup, SetupFails, Reraise
    <2>2. \A r \in Services : Denied(r)' <=> Denied(r)
        BY <1>4, <2>1 DEF EnterSetup, SetupFails, Reraise, Goto, TypeOK, Denied
    <2>9. \A r \in Services : TaskOf(r)' = TaskOf(r)
        BY <2>1, <2>2 DEF TaskOf, Counted
    <2> QED BY <2>9 DEF Tasks
<1>5. ASSUME NEW l \in Launchers, StartThread(l) PROVE Tasks' = Tasks
    <2>1. target[l] \in Services /\ life[target[l]] = "counted"
        BY <1>5 DEF StartThread, Goto, TypeOK, LaunchCoherent
    <2>2. life' = [life EXCEPT ![target[l]] = "running"] /\ target' = target
        BY <1>5 DEF StartThread, Live
    <2>3. \A r \in Services : Denied(r)' <=> Denied(r)
        BY <1>5, <2>2 DEF StartThread, Goto, TypeOK, Denied
    <2>4. \A r \in Services : /\ r \in Counted' <=> r \in Counted
                              /\ life'[r] = "none" <=> life[r] = "none"
        BY <2>1, <2>2 DEF TypeOK, Counted
    <2>9. \A r \in Services : TaskOf(r)' = TaskOf(r)
        BY <2>3, <2>4 DEF TaskOf
    <2> QED BY <2>9 DEF Tasks
<1>6. ASSUME NEW l \in Launchers, NEW s \in Services, s = target[l], DecrementOnError(l)
      PROVE  Pool!GiveUp(s)
    <2>1. life[s] = "counted"
        BY <1>6 DEF DecrementOnError, Goto, TypeOK, LaunchCoherent
    <2>2. TaskOf(s) = "held"
        BY <2>1 DEF TaskOf, Counted
    <2>3. /\ life' = [life EXCEPT ![s] = "asked"] /\ target' = target
          /\ launch[l] = "broken" /\ launch' = [launch EXCEPT ![l] = "unwound"]
        BY <1>6 DEF DecrementOnError, Live, Goto
    <2>4. TaskOf(s)' = "denied"
        BY <1>6, <2>1, <2>3 DEF TypeOK, TaskOf, Counted, Denied
    <2>5. \A r \in Services \ {s} : TaskOf(r)' = TaskOf(r)
        BY <1>6, <2>1, <2>3 DEF TypeOK, TaskOf, Counted, Denied
    <2> QED BY <2>1, <2>2, <2>4, <2>5, MovesOneTask DEF Pool!GiveUp
<1>7. ASSUME NEW l \in Launchers, LeaveSetup(l) PROVE Tasks' = Tasks
    <2>1. /\ life' = life /\ target' = [target EXCEPT ![l] = NoOne]
          /\ launch[l] = "started" /\ launch' = [launch EXCEPT ![l] = "ready"]
        BY <1>7 DEF LeaveSetup, Goto
    <2>2. \A r \in Services : Denied(r)' <=> Denied(r)
        BY <2>1 DEF TypeOK, Denied
    <2>9. \A r \in Services : TaskOf(r)' = TaskOf(r)
        BY <2>1, <2>2 DEF TaskOf, Counted
    <2> QED BY <2>9 DEF Tasks
<1>8. ASSUME NEW l \in Launchers, NEW s \in Services, s = target[l], TellBusy(l)
      PROVE  Pool!Told(s)
    <2>1. life[s] = "asked" /\ Denied(s)
        BY <1>8 DEF TellBusy, Goto, TypeOK, LaunchCoherent, Denied
    <2>2. TaskOf(s) = "denied"
        BY <2>1 DEF TaskOf, Counted
    <2>3. /\ life' = [life EXCEPT ![s] = "none"]
          /\ target' = [target EXCEPT ![l] = NoOne]
          /\ launch' = [launch EXCEPT ![l] = "ready"]
        BY <1>8 DEF TellBusy, Live, Goto
    <2>4. TaskOf(s)' = "idle"
        BY <1>8, <2>1, <2>3 DEF TypeOK, TaskOf
    <2>5. \A r \in Services \ {s} : TaskOf(r)' = TaskOf(r)
        BY <1>8, <2>1, <2>3 DEF TypeOK, TaskOf, Counted, Denied
    <2> QED BY <2>1, <2>2, <2>4, <2>5, MovesOneTask DEF Pool!Told
<1>9. ASSUME NEW s \in Services, Finish(s) PROVE Tasks' = Tasks
    <2>1. /\ life[s] = "running" /\ life' = [life EXCEPT ![s] = "finishing"]
          /\ target' = target /\ launch' = launch
        BY <1>9 DEF Finish, Live
    <2>2. \A r \in Services : /\ r \in Counted' <=> r \in Counted
                              /\ life'[r] = "none" <=> life[r] = "none"
        BY <2>1 DEF TypeOK, Counted
    <2>9. \A r \in Services : TaskOf(r)' = TaskOf(r)
        BY <2>1, <2>2 DEF TaskOf, Denied
    <2> QED BY <2>9 DEF Tasks
<1>10. ASSUME NEW s \in Services, DecrementAtEnd(s) PROVE Pool!Return(s)
    <2>1. /\ life[s] = "finishing" /\ life' = [life EXCEPT ![s] = "none"]
          /\ target' = target /\ launch' = launch
        BY <1>10 DEF DecrementAtEnd, Live
    <2>2. TaskOf(s) = "held" /\ TaskOf(s)' = "idle"
        BY <2>1 DEF TypeOK, TaskOf, Counted
    <2>3. \A r \in Services \ {s} : TaskOf(r)' = TaskOf(r)
        BY <2>1 DEF TypeOK, TaskOf, Counted, Denied
    <2> QED BY <2>2, <2>3, MovesOneTask DEF Pool!Return
<1>11. ASSUME UNCHANGED vars PROVE Tasks' = Tasks
    BY <1>11 DEF vars, Tasks, TaskOf, Counted, Denied
<1>12. ASSUME NEW l \in Launchers, Carry(l) PROVE [Pool!Next]_Tasks
    <2>1. launch[l] # "ready"
        BY <1>12 DEF Carry, Increment, LimitReached, EnterSetup, StartThread,
                     SetupFails, DecrementOnError, Reraise, LeaveSetup, TellBusy, Goto
    <2>2. PICK s \in Services : s = target[l]
        BY <2>1 DEF TypeOK, LaunchCoherent
    <2> QED BY <1>2, <1>3, <1>4, <1>5, <1>6, <1>7, <1>8, <1>12, <2>2 DEF Carry, Pool!Next
<1> QED BY <1>1, <1>9, <1>10, <1>11, <1>12 DEF Next, Pool!Next

(* The counter and its lock implement the pool that never blocks and never *)
(* over-grants: what the first lines of limiter.py promise.                *)
THEOREM LimiterImplementsPool == Spec => ImplementsPool
<1>1. Init => Pool!Init
    <2> SUFFICES ASSUME Init PROVE Pool!Init
        OBVIOUS
    <2>1. \A s \in Services : TaskOf(s) = "idle"
        BY DEF Init, TaskOf
    <2> QED BY <2>1 DEF Pool!Init
<1>2. IInv /\ [Next]_vars => [Pool!Next]_[s \in Services |-> TaskOf(s)]
    BY StepRefines DEF Tasks
<1> QED BY <1>1, <1>2, Invariance, PTL DEF Spec, ImplementsPool, Pool!Spec
=============================================================================
