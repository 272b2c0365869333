-------------------------- MODULE WorkerWakeProofs --------------------------
(***************************************************************************)
(* What WorkerWake guarantees for any orders and any number of lanes. The  *)
(* inductive invariant adds that lanes only run inside a drain.            *)
(***************************************************************************)
EXTENDS WorkerWake, TLAPS

DrainInv ==
  /\ TypeOK
  /\ ~current => AllOff
  /\ StopsCleanly
  /\ NoWakeLost

LEMMA DrainInit == Init => DrainInv
<1> SUFFICES ASSUME Init PROVE DrainInv
  OBVIOUS
<1>1. /\ order \in [Orders -> {"unpaid", "waiting", "delivering", "resting", "done"}]
      /\ lane \in [Lanes -> {"off", "claim"} \cup Orders]
      /\ \A l \in Lanes : lane[l] = "off" /\ lane[l] \notin Orders
  BY WorkerAssumption DEF Init
<1>2. trouble \in 0..MaxTrouble
  BY WorkerAssumption DEF Init
<1>3. TypeOK
  BY <1>1, <1>2 DEF Init, TypeOK, Waiting
<1> QED
  BY <1>1, <1>3 DEF Init, DrainInv, AllOff, StopsCleanly, NoWakeLost

LEMMA QueueFills ==
  ASSUME DrainInv, NEW o \in Orders, Pay(o) \/ Requeue(o) \/ Due(o)
  PROVE  DrainInv'
<1>1. /\ order[o] \in {"unpaid", "resting"}
      /\ order' = [order EXCEPT ![o] = "waiting"]
      /\ bell' \in {bell, bell \cup {o}}
      /\ UNCHANGED <<lane, current, wakeRequested, phase, locked, called, passed, trouble>>
  BY DEF Pay, Requeue, Due, calls
<1>2. Waiting \subseteq Waiting'
  BY <1>1 DEF Waiting, DrainInv, TypeOK
<1>3. TypeOK'
  BY <1>1, <1>2 DEF DrainInv, TypeOK
<1> QED
  BY <1>1, <1>3 DEF DrainInv, AllOff, StopsCleanly, NoWakeLost

\* Whoever calls run() is heard: by a lane that starts, or by wakeRequested.
LEMMA RunHeard ==
  ASSUME DrainInv, Run, UNCHANGED <<order, phase, locked, trouble>>, bell' \subseteq Orders
  PROVE  DrainInv'
<1>1. called' = Waiting /\ passed' = {} /\ Waiting' = Waiting
  BY DEF Run, Waiting
<1>2. CASE current
  <2>1. wakeRequested' = TRUE /\ UNCHANGED <<lane, current>>
    BY <1>2 DEF Run
  <2>2. TypeOK'
    BY <1>1, <2>1 DEF DrainInv, TypeOK
  <2> QED
    BY <1>2, <2>1, <2>2 DEF DrainInv, AllOff, StopsCleanly, NoWakeLost
<1>3. CASE ~current
  <2>1. /\ current' = TRUE /\ wakeRequested' = FALSE
        /\ lane' = [l \in Lanes |-> IF phase = "up" THEN "claim" ELSE "off"]
    BY <1>3 DEF Run, StartLanes
  <2>2. TypeOK'
    BY <1>1, <2>1, WorkerAssumption DEF DrainInv, TypeOK
  <2>3. StopsCleanly' /\ NoWakeLost'
    BY <2>1, WorkerAssumption DEF AllOff, StopsCleanly, NoWakeLost
  <2> QED
    BY <2>1, <2>2, <2>3 DEF DrainInv
<1> QED
  BY <1>2, <1>3

LEMMA ClaimStep ==
  ASSUME DrainInv, NEW l \in Lanes, NEW o \in Orders, Claim(l, o)
  PROVE  DrainInv'
<1>1. /\ lane[l] = "claim" /\ order[o] = "waiting"
      /\ lane' = [lane EXCEPT ![l] = o]
      /\ order' = [order EXCEPT ![o] = "delivering"]
      /\ o \notin locked
      /\ called' = called \ {o} /\ passed' = passed \ {o}
      /\ UNCHANGED <<bell, current, wakeRequested, phase, locked, trouble>>
  BY DEF Claim, Waiting
<1>2. TypeOK'
  <2>1. Waiting' = Waiting \ {o}
    BY <1>1 DEF Waiting, DrainInv, TypeOK
  <2>2. locked' \subseteq Waiting' /\ called' \subseteq Waiting' /\ passed' \subseteq called'
    BY <1>1, <2>1 DEF DrainInv, TypeOK
  <2> QED
    BY <1>1, <2>2, WorkerAssumption DEF DrainInv, TypeOK
<1>3. lane'[l] = o /\ o \notin {"off", "claim"}
  BY <1>1, WorkerAssumption DEF DrainInv, TypeOK
<1>4. ~AllOff
  BY <1>1 DEF AllOff
<1> QED
  BY <1>1, <1>2, <1>3, <1>4 DEF DrainInv, StopsCleanly, NoWakeLost

\* A lane that ends has passed over what it was called for, or is told to stop.
LEMMA LaneMovesOn ==
  ASSUME DrainInv, NEW l \in Lanes, ClaimNone(l) \/ Delivered(l)
  PROVE  DrainInv'
<1>1. CASE ClaimNone(l)
  <2>1. /\ lane[l] = "claim" /\ lane' = [lane EXCEPT ![l] = "off"]
        /\ passed' = called
        /\ UNCHANGED <<order, bell, current, wakeRequested, phase, locked, called, trouble>>
    BY <1>1 DEF ClaimNone
  <2>2. TypeOK'
    BY <2>1, WorkerAssumption DEF DrainInv, TypeOK, Waiting
  <2>3. ~AllOff
    BY <2>1 DEF AllOff
  <2> QED
    BY <2>1, <2>2, <2>3 DEF DrainInv, StopsCleanly, NoWakeLost
<1>2. CASE Delivered(l)
  <2>1. /\ lane[l] \in Orders
        /\ \E s \in {"done", "resting"} : order' = [order EXCEPT ![lane[l]] = s]
        /\ lane' = [lane EXCEPT ![l] = IF phase = "up" THEN "claim" ELSE "off"]
        /\ UNCHANGED <<bell, current, wakeRequested, phase, locked, called, passed>>
    BY <1>2 DEF Delivered, calls
  <2>2. trouble' \in 0..MaxTrouble
    BY <1>2, WorkerAssumption DEF Delivered, Trouble, DrainInv, TypeOK
  <2>3. TypeOK'
    <3>1. Waiting' = Waiting
      BY <2>1 DEF Waiting, DrainInv, TypeOK
    <3>2. locked' \subseteq Waiting' /\ called' \subseteq Waiting' /\ passed' \subseteq called'
      BY <2>1, <3>1 DEF DrainInv, TypeOK
    <3> QED
      BY <2>1, <2>2, <3>2, WorkerAssumption DEF DrainInv, TypeOK
  <2>4. lane[l] # "off"
    BY <2>1, WorkerAssumption
  <2>5. ~AllOff
    BY <2>4 DEF AllOff
  <2>6. phase = "up" => lane'[l] = "claim"
    BY <2>1 DEF DrainInv, TypeOK
  <2> QED
    BY <2>1, <2>3, <2>5, <2>6 DEF DrainInv, StopsCleanly, NoWakeLost
<1> QED
  BY <1>1, <1>2

LEMMA DrainTurns ==
  ASSUME DrainInv, DrainAgain \/ DrainEnds
  PROVE  DrainInv'
<1>1. CASE DrainAgain
  <2>1. /\ current /\ phase = "up" /\ wakeRequested' = FALSE
        /\ lane' = [l \in Lanes |-> "claim"]
        /\ UNCHANGED <<order, bell, current, phase, locked, called, passed, trouble>>
    BY <1>1 DEF DrainAgain, StartLanes
  <2>2. TypeOK'
    BY <2>1, WorkerAssumption DEF DrainInv, TypeOK, Waiting
  <2>3. NoWakeLost'
    BY <2>1, WorkerAssumption DEF NoWakeLost
  <2> QED
    BY <2>1, <2>2, <2>3 DEF DrainInv, StopsCleanly
<1>2. CASE DrainEnds
  <2>1. /\ AllOff /\ current' = FALSE /\ ~(wakeRequested /\ phase = "up")
        /\ phase' = IF phase = "up" THEN "up" ELSE "stopped"
        /\ UNCHANGED <<order, bell, lane, wakeRequested, locked, called, passed, trouble>>
    BY <1>2 DEF DrainEnds, calls
  <2>2. TypeOK'
    BY <2>1 DEF DrainInv, TypeOK, Waiting
  <2>3. AllOff'
    BY <2>1 DEF AllOff
  <2>4. NoWakeLost'
    BY <2>1 DEF DrainInv, NoWakeLost, AllOff
  <2> QED
    BY <2>2, <2>3, <2>4 DEF DrainInv, StopsCleanly
<1> QED
  BY <1>1, <1>2

LEMMA ProcessTurns ==
  ASSUME DrainInv, Stop \/ Restart \/ Crash
  PROVE  DrainInv'
<1>1. CASE Stop
  <2>1. /\ phase' = IF current THEN "stopping" ELSE "stopped"
        /\ UNCHANGED <<order, bell, lane, current, wakeRequested, locked, called, passed>>
    BY <1>1 DEF Stop, calls
  <2>2. trouble' \in 0..MaxTrouble
    BY <1>1, WorkerAssumption DEF Stop, Trouble, DrainInv, TypeOK
  <2>3. TypeOK'
    BY <2>1, <2>2 DEF DrainInv, TypeOK, Waiting
  <2> QED
    BY <2>1, <2>3 DEF DrainInv, AllOff, StopsCleanly, NoWakeLost
<1>2. CASE Restart \/ Crash
  <2>1. NewProcess
    BY <1>2 DEF Restart, Crash
  <2>2. trouble' \in 0..MaxTrouble
    BY <1>2, WorkerAssumption DEF Restart, Crash, Trouble, DrainInv, TypeOK
  <2>3. /\ lane' = [l \in Lanes |-> "off"] /\ bell' = {} /\ called' = {} /\ passed' = {}
        /\ current' = FALSE /\ wakeRequested' = FALSE /\ phase' = "up"
    BY <2>1 DEF NewProcess
  <2>4. order' \in [Orders -> {"unpaid", "waiting", "delivering", "resting", "done"}]
    BY <2>1 DEF NewProcess, DrainInv, TypeOK
  <2>5. locked' \subseteq Waiting'
    <3> SUFFICES ASSUME NEW o \in locked PROVE o \in Waiting'
      BY <2>1 DEF NewProcess
    <3>1. o \in Orders /\ order[o] = "waiting"
      BY DEF DrainInv, TypeOK, Waiting
    <3>2. \A l \in Lanes : lane[l] # o
      BY <3>1 DEF DrainInv, TypeOK
    <3> QED
      BY <2>1, <3>1, <3>2 DEF NewProcess, Waiting
  <2>6. TypeOK'
    BY <2>2, <2>3, <2>4, <2>5, WorkerAssumption DEF TypeOK
  <2> QED
    BY <2>3, <2>6 DEF DrainInv, AllOff, StopsCleanly, NoWakeLost
<1> QED
  BY <1>1, <1>2

\* A lock on the row of a waiting order changes nothing the drain looks at.
LEMMA RowsLocked ==
  ASSUME DrainInv, NEW o \in Orders, Locks(o) \/ Unlocks(o)
  PROVE  DrainInv'
<1>1. /\ locked' \in {locked \cup {o}, locked \ {o}} /\ locked' \subseteq Waiting
      /\ UNCHANGED <<order, bell, lane, current, wakeRequested, phase, called, passed>>
  BY DEF Locks, Unlocks, calls, DrainInv, TypeOK
<1>2. trouble' \in 0..MaxTrouble
  BY WorkerAssumption DEF Locks, Unlocks, Trouble, DrainInv, TypeOK
<1>3. TypeOK'
  BY <1>1, <1>2 DEF DrainInv, TypeOK, Waiting
<1> QED
  BY <1>1, <1>3 DEF DrainInv, AllOff, StopsCleanly, NoWakeLost

LEMMA DrainStep == DrainInv /\ [Next]_vars => DrainInv'
<1> SUFFICES ASSUME DrainInv, [Next]_vars PROVE DrainInv'
  OBVIOUS
<1>1. ASSUME NEW o \in Orders, Pay(o) \/ Requeue(o) \/ Due(o)
      PROVE  DrainInv'
  BY <1>1, QueueFills
<1>2. ASSUME NEW o \in Orders, Wake(o)
      PROVE  DrainInv'
  <2>1. bell' \subseteq Orders
    BY <1>2 DEF Wake, DrainInv, TypeOK
  <2> QED
    BY <1>2, <2>1, RunHeard DEF Wake
<1>3. CASE Poll
  <2>1. bell' \subseteq Orders
    BY <1>3 DEF Poll, DrainInv, TypeOK
  <2> QED
    BY <1>3, <2>1, RunHeard DEF Poll
<1>4. ASSUME NEW l \in Lanes, LaneStep(l)
      PROVE  DrainInv'
  BY <1>4, ClaimStep, LaneMovesOn DEF LaneStep
<1>5. CASE DrainAgain \/ DrainEnds
  BY <1>5, DrainTurns
<1>6. CASE Stop \/ Restart \/ Crash
  BY <1>6, ProcessTurns
<1>7. ASSUME NEW o \in Orders, Locks(o) \/ Unlocks(o)
      PROVE  DrainInv'
  BY <1>7, RowsLocked
<1>8. CASE UNCHANGED vars
  BY <1>8 DEF vars, DrainInv, TypeOK, Waiting, AllOff, StopsCleanly, NoWakeLost
<1> QED
  BY <1>1, <1>2, <1>3, <1>4, <1>5, <1>6, <1>7, <1>8 DEF Next

\* The inductive invariant: lanes run only inside a drain, and a drain with
\* nothing left to do has answered every call (run, drain, lane).
THEOREM DrainCorrect == Spec => []DrainInv
BY DrainInit, DrainStep, PTL DEF Spec

\* No two lanes of a worker ever deliver the same order.
THEOREM WorkerTypes == Spec => []TypeOK
<1>1. DrainInv => TypeOK
  BY DEF DrainInv
<1> QED
  BY <1>1, DrainCorrect, PTL

\* An order that was waiting when run() was last called, and that no lane passed
\* over since, is looked for by a lane or by another drain, at whatever moment of
\* a drain the call came and whatever rows are locked (run, drain, lane).
THEOREM WakesAnswered == Spec => []NoWakeLost
<1>1. DrainInv => NoWakeLost
  BY DEF DrainInv
<1> QED
  BY <1>1, DrainCorrect, PTL

\* onModuleDestroy does not return while a lane works.
THEOREM CleanStop == Spec => []StopsCleanly
<1>1. DrainInv => StopsCleanly
  BY DEF DrainInv
<1> QED
  BY <1>1, DrainCorrect, PTL
=============================================================================
