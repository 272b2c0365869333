----------------------------- MODULE WorkerWake -----------------------------
(***************************************************************************)
(* When the delivery worker of one process looks at the queue: a single    *)
(* drain of several lanes, started by wake() and by a timer, and the       *)
(* wake-ups that arrive while it runs.                                     *)
(*                                                                         *)
(* JavaScript runs to completion: one action is what happens between two   *)
(* awaits. Which waiting order a lane claims, and what delivering it does, *)
(* is in OrderDelivery. A claim that fails rejects the drain, which nobody *)
(* handles, so the process ends: Crash.                                    *)
(***************************************************************************)
EXTENDS Naturals

CONSTANTS
  Orders,
  Lanes,      \* DELIVERY_CONCURRENCY of them
  MaxTrouble  \* bound on restarts, deliveries that settle nothing, and locks

ASSUME WorkerAssumption ==
  /\ Lanes # {} /\ MaxTrouble \in Nat
  /\ Orders \cap {"off", "claim"} = {}

VARIABLES
  order,         \* where an order is
  bell,          \* orders moved to paid, with wake() still to be called
  lane,          \* what a lane waits for: its claim, or the delivery of an order
  current,       \* a drain is running
  wakeRequested,
  phase,         \* up, stopping, or stopped: onModuleDestroy has returned
  locked,        \* waiting orders whose row another transaction holds
  called,        \* history: the orders waiting since before the last run(), ...
  passed,        \* ... and those of them a lane passed over since
  trouble

vars == <<order, bell, lane, current, wakeRequested, phase, locked, called, passed, trouble>>

\* What there is of the calls of wake(), in the code and as history.
calls == <<bell, wakeRequested, called, passed>>

Waiting == {o \in Orders : order[o] = "waiting"}
AllOff == \A l \in Lanes : lane[l] = "off"

\* An order a lane delivers is nobody else's, and is not in the queue.
TypeOK ==
  /\ order \in [Orders -> {"unpaid", "waiting", "delivering", "resting", "done"}]
  /\ lane \in [Lanes -> {"off", "claim"} \cup Orders]
  /\ \A l \in Lanes : lane[l] \in Orders => order[lane[l]] = "delivering"
  /\ \A l, m \in Lanes : lane[l] \in Orders /\ lane[l] = lane[m] => l = m
  /\ bell \subseteq Orders
  /\ current \in BOOLEAN /\ wakeRequested \in BOOLEAN
  /\ phase \in {"up", "stopping", "stopped"}
  /\ locked \subseteq Waiting /\ called \subseteq Waiting /\ passed \subseteq called
  /\ trouble \in 0..MaxTrouble

Init ==
  /\ order = [o \in Orders |-> "unpaid"]
  /\ bell = {}
  /\ lane = [l \in Lanes |-> "off"]
  /\ current = FALSE
  /\ wakeRequested = FALSE
  /\ phase = "up"
  /\ locked = {} /\ called = {} /\ passed = {}
  /\ trouble = 0

Trouble == trouble < MaxTrouble /\ trouble' = trouble + 1

------------------------------------------------------------------------------
(* The queue fills.                                                        *)

\* A payment is applied; after the commit, wake().
Pay(o) ==
  /\ order[o] = "unpaid"
  /\ order' = [order EXCEPT ![o] = "waiting"]
  /\ bell' = bell \cup {o}
  /\ UNCHANGED <<lane, current, wakeRequested, phase, locked, called, passed, trouble>>

\* The sweep or the operator puts an order back; then wake().
Requeue(o) ==
  /\ order[o] = "resting"
  /\ order' = [order EXCEPT ![o] = "waiting"]
  /\ bell' = bell \cup {o}
  /\ UNCHANGED <<lane, current, wakeRequested, phase, locked, called, passed, trouble>>

\* not_before passes, and nobody says so.
Due(o) ==
  /\ order[o] = "resting"
  /\ order' = [order EXCEPT ![o] = "waiting"]
  /\ UNCHANGED <<lane, current, phase, locked, calls, trouble>>

------------------------------------------------------------------------------
(* The drain.                                                              *)

\* A lane that is told to stop ends before its first claim.
StartLanes == lane' = [l \in Lanes |-> IF phase = "up" THEN "claim" ELSE "off"]

\* Faulty variant: a wake-up during a drain is dropped.
RunDrops ==
  /\ called' = Waiting /\ passed' = {}
  /\ IF current THEN UNCHANGED <<lane, current, wakeRequested>>
                ELSE current' = TRUE /\ wakeRequested' = FALSE /\ StartLanes

Run ==
  /\ called' = Waiting /\ passed' = {}
  /\ IF current THEN wakeRequested' = TRUE /\ UNCHANGED <<lane, current>>
                ELSE current' = TRUE /\ wakeRequested' = FALSE /\ StartLanes

Wake(o) ==
  /\ o \in bell
  /\ bell' = bell \ {o}
  /\ Run
  /\ UNCHANGED <<order, phase, locked, trouble>>

\* Faulty variant: the timer only follows up on the calls it knows of.
PollForCalls ==
  /\ phase = "up" /\ called # {}
  /\ Run
  /\ UNCHANGED <<order, bell, phase, locked, trouble>>

\* The timer: for orders nobody called for, or whose call a crash lost.
Poll ==
  /\ phase = "up"
  /\ Run
  /\ UNCHANGED <<order, bell, phase, locked, trouble>>

\* Another transaction takes the row of a waiting order, to see its status: a
\* second payment event for it. It leaves the order as it is, and calls nobody.
Locks(o) ==
  /\ o \in Waiting \ locked
  /\ locked' = locked \cup {o}
  /\ Trouble
  /\ UNCHANGED <<order, lane, current, phase, calls>>

Unlocks(o) ==
  /\ o \in locked
  /\ locked' = locked \ {o}
  /\ UNCHANGED <<order, lane, current, phase, calls, trouble>>

\* Faulty variant: the order stays in the queue.
ClaimUnmarked(l, o) ==
  /\ lane[l] = "claim" /\ o \in Waiting \ locked
  /\ lane' = [lane EXCEPT ![l] = o]
  /\ UNCHANGED <<order, current, phase, locked, calls, trouble>>

Claim(l, o) ==
  /\ lane[l] = "claim" /\ o \in Waiting \ locked
  /\ lane' = [lane EXCEPT ![l] = o]
  /\ order' = [order EXCEPT ![o] = "delivering"]
  /\ called' = called \ {o} /\ passed' = passed \ {o}
  /\ UNCHANGED <<bell, current, wakeRequested, phase, locked, trouble>>

\* SKIP LOCKED: nothing is waiting, or nothing whose row is free.
ClaimNone(l) ==
  /\ lane[l] = "claim" /\ Waiting \subseteq locked
  /\ lane' = [lane EXCEPT ![l] = "off"]
  /\ passed' = called
  /\ UNCHANGED <<order, bell, current, wakeRequested, phase, locked, called, trouble>>

\* The delivery is over. An order that is deferred, parked or left delivering
\* by a failed pass rests.
Delivered(l) ==
  /\ lane[l] \in Orders
  /\ \/ order' = [order EXCEPT ![lane[l]] = "done"] /\ UNCHANGED trouble
     \/ order' = [order EXCEPT ![lane[l]] = "resting"] /\ Trouble
  /\ lane' = [lane EXCEPT ![l] = IF phase = "up" THEN "claim" ELSE "off"]
  /\ UNCHANGED <<current, phase, locked, calls>>

\* All lanes have ended, and somebody called meanwhile.
DrainAgain ==
  /\ current /\ AllOff /\ wakeRequested /\ phase = "up"
  /\ wakeRequested' = FALSE
  /\ StartLanes
  /\ UNCHANGED <<order, bell, current, phase, locked, called, passed, trouble>>

DrainEnds ==
  /\ current /\ AllOff /\ ~(wakeRequested /\ phase = "up")
  /\ current' = FALSE
  /\ phase' = IF phase = "up" THEN "up" ELSE "stopped"
  /\ UNCHANGED <<order, lane, locked, calls, trouble>>

------------------------------------------------------------------------------
(* Shutdown and restart.                                                   *)

\* Faulty variant: the running drain is not awaited.
StopAtOnce ==
  /\ phase = "up" /\ Trouble
  /\ phase' = "stopped"
  /\ UNCHANGED <<order, lane, current, locked, calls>>

\* onModuleDestroy: clear the timer, stop, and await the drain if one runs.
Stop ==
  /\ phase = "up" /\ Trouble
  /\ phase' = IF current THEN "stopping" ELSE "stopped"
  /\ UNCHANGED <<order, lane, current, locked, calls>>

\* What was in memory is gone: also the calls between a commit and its wake().
NewProcess ==
  /\ order' = [o \in Orders |-> IF \E l \in Lanes : lane[l] = o THEN "resting"
                                                                ELSE order[o]]
  /\ lane' = [l \in Lanes |-> "off"]
  /\ bell' = {} /\ called' = {} /\ passed' = {}
  /\ current' = FALSE /\ wakeRequested' = FALSE
  /\ phase' = "up"
  /\ UNCHANGED locked

Restart == phase = "stopped" /\ NewProcess /\ UNCHANGED trouble

Crash == Trouble /\ NewProcess

LaneStep(l) == \/ \E o \in Orders : Claim(l, o)
               \/ ClaimNone(l)
               \/ Delivered(l)

Next == \/ \E o \in Orders : \/ Pay(o) \/ Requeue(o) \/ Due(o) \/ Wake(o)
                              \/ Locks(o) \/ Unlocks(o)
        \/ \E l \in Lanes : LaneStep(l)
        \/ Poll \/ DrainAgain \/ DrainEnds
        \/ Stop \/ Restart \/ Crash

Spec == Init /\ [][Next]_vars

\* The timer fires, queries answer, transactions and deliveries end (every call
\* has a timeout), and a process that was stopped is started again.
FairSpec ==
  /\ Spec
  /\ WF_vars(Poll) /\ WF_vars(DrainAgain) /\ WF_vars(DrainEnds) /\ WF_vars(Restart)
  /\ \A l \in Lanes : WF_vars(LaneStep(l))
  /\ \A o \in Orders : WF_vars(Unlocks(o))

------------------------------------------------------------------------------
(* Properties.                                                             *)

\* An order that was in the queue when run() was last called does not wait for
\* the timer, unless a lane passed it over since because its row was locked: a
\* lane still works and will claim again, or another drain follows
\* (wakeRequested, lane).
NoWakeLost ==
  phase = "up" /\ called # passed =>
    (\E l \in Lanes : lane[l] # "off") \/ (current /\ wakeRequested)

\* "Called right after a payment is applied so delivery starts without waiting
\* for the next poll" (wake), whatever else goes on with the order.
StartsWithoutPoll ==
  phase = "up" /\ called # {} =>
    (\E l \in Lanes : lane[l] # "off") \/ (current /\ wakeRequested)

\* When onModuleDestroy returns, no lane holds an order or goes on to claim one,
\* also if wake() is called afterwards.
StopsCleanly == phase = "stopped" => AllOff

\* Every order in the queue is claimed, whichever calls get lost in a restart and
\* whichever rows are locked when a lane looks (claim, the timer).
EveryOrderClaimed == \A o \in Orders : order[o] = "waiting" ~> order[o] # "waiting"

\* "one supplier stuck in retries does not hold up every other order": a lane
\* that has ended is not idle while an order waits that wake() was called for.
NoIdleLane ==
  phase = "up" /\ called # {} =>
    \/ \E l \in Lanes : lane[l] = "claim"
    \/ \A l \in Lanes : lane[l] \in Orders
    \/ AllOff
=============================================================================
