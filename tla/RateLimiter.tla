---------------------------- MODULE RateLimiter ----------------------------
(***************************************************************************)
(* The sliding-window limit on calls to one supplier, kept in the table    *)
(* supplier_calls before a call is made, and the supplier's own window in  *)
(* which the calls arrive.                                                 *)
(*                                                                         *)
(* A call is paid for in a transaction that first waits for the supplier's *)
(* advisory lock. now() is the moment the transaction began, so the stamp  *)
(* of a slot is older than the lock, and older still than the call. The    *)
(* wait for the lock has no bound, and neither the way to the supplier nor *)
(* the answer, after which the lookup comes, need fit into the margin.     *)
(* Suppliers do not share a limit: one is enough. A limit of 0 is none.    *)
(***************************************************************************)
EXTENDS Naturals, FiniteSets

CONSTANTS
  Callers,  \* the passes and audits, in all instances of the app
  Limit,    \* SUPPLIER_RATE_LIMIT, and the supplier's own
  Window,   \* SUPPLIER_RATE_WINDOW_MS, and the supplier's own
  Safety,   \* SAFETY_MS
  MaxTime   \* bound on the clock

ASSUME LimiterAssumption ==
  /\ Limit \in Nat \ {0}
  /\ Window \in Nat /\ Safety \in Nat
  /\ MaxTime \in Nat

\* Our window is longer than the supplier's.
Ours == Window + Safety

VARIABLES
  now,     \* the clock
  calls,   \* supplier_calls
  nextId,  \* its serial
  caller,  \* what a caller is about to do
  arrivals \* the supplier's: the requests in its window when the last one came,
           \* each with the slot it was paid for with and the stamp of that slot

vars == <<now, calls, nextId, caller, arrivals>>

Row == [id : Nat, at : Nat]
Arrival == [slot : Nat, of : {"call", "lookup"}, stamp : Nat, at : Nat]
Caller == [pc : {"idle", "begun", "send", "answered", "deferred"},
           kind : {"issue", "statement"}, start : Nat, slot : Nat, until : Nat]

Idle == [pc |-> "idle", kind |-> "issue", start |-> 0, slot |-> 0, until |-> 0]

\* Never more rows than the limit, each with an id of its own.
TypeOK ==
  /\ now \in Nat
  /\ calls \subseteq Row /\ IsFiniteSet(calls) /\ Cardinality(calls) <= Limit
  /\ \A r, q \in calls : r.id = q.id => r = q
  /\ nextId \in Nat
  /\ caller \in [Callers -> Caller]
  /\ arrivals \subseteq Arrival /\ IsFiniteSet(arrivals)

Init ==
  /\ now = 0
  /\ calls = {}
  /\ nextId = 0
  /\ caller = [c \in Callers |-> Idle]
  /\ arrivals = {}

Moves(c, p) == caller' = [caller EXCEPT ![c] = p]

------------------------------------------------------------------------------
(* Our side: tryAcquire.                                                   *)

\* An issue is paid for together with the lookup that follows it.
Cost(kind) == IF kind = "issue" /\ Limit > 1 THEN 2 ELSE 1

\* Faulty variant: the supplier's window, without the margin.
KeptTight(t) == {r \in calls : r.at + Window >= t}

\* What the DELETE leaves, for a transaction that began at t.
Kept(t) == {r \in calls : r.at + Ours >= t}

\* Faulty variant: one free slot is enough.
RoomForOne(rows, kind) == Cardinality(rows) < Limit

Room(rows, kind) == Cardinality(rows) + Cost(kind) <= Limit

\* Faulty variant: the newest call decides.
NextSlotNewest(rows) == Ours + CHOOSE t \in {r.at : r \in rows} :
                                 \A r \in rows : r.at <= t

\* When the oldest call leaves the window.
NextSlot(rows) == Ours + CHOOSE t \in {r.at : r \in rows} :
                           \A r \in rows : t <= r.at

\* The transaction begins. An order that was parked meanwhile may ask again
\* before its not_before, and so may an audit.
Begin(c) ==
  /\ caller[c].pc \in {"idle", "deferred"}
  /\ \E k \in {"issue", "statement"} :
       Moves(c, [Idle EXCEPT !.pc = "begun", !.kind = k, !.start = now])
  /\ UNCHANGED <<now, calls, nextId, arrivals>>

Acquire(c) ==
  LET p == caller[c]
      rows == Kept(p.start)
  IN /\ p.pc = "begun" /\ Room(rows, p.kind)
     /\ calls' = rows \cup {[id |-> n, at |-> p.start] :
                            n \in nextId..(nextId + Cost(p.kind) - 1)}
     /\ nextId' = nextId + Cost(p.kind)
     /\ Moves(c, [p EXCEPT !.pc = "send", !.slot = nextId])
     /\ UNCHANGED <<now, arrivals>>

Refuse(c) ==
  LET p == caller[c]
      rows == Kept(p.start)
  IN /\ p.pc = "begun" /\ ~Room(rows, p.kind)
     /\ calls' = rows
     /\ Moves(c, [p EXCEPT !.pc = "deferred", !.start = 0, !.until = NextSlot(rows)])
     /\ UNCHANGED <<now, nextId, arrivals>>

------------------------------------------------------------------------------
(* The calls, as the supplier counts them.                                 *)

\* admit: requests older than the window are forgotten, this one counts.
Admit(slot, of, stamp) ==
  arrivals' = {a \in arrivals : a.at + Window > now}
              \cup {[slot |-> slot, of |-> of, stamp |-> stamp, at |-> now]}

Call(c) ==
  LET p == caller[c] IN
    /\ p.pc = "send"
    /\ Admit(p.slot, "call", p.start)
    /\ Moves(c, IF p.kind = "issue" THEN [p EXCEPT !.pc = "answered"] ELSE Idle)
    /\ UNCHANGED <<now, calls, nextId>>

\* The lookup takes the second slot of the issue before it, if there is one.
Lookup(c) ==
  LET p == caller[c] IN
    /\ p.pc = "answered"
    /\ Admit(p.slot + Cost("issue") - 1, "lookup", p.start)
    /\ Moves(c, Idle)
    /\ UNCHANGED <<now, calls, nextId>>

\* The call is not made: the connection is refused, the answer was "out of
\* stock", the next attempt comes first, or the process dies.
Leave(c) ==
  /\ caller[c].pc \in {"begun", "send", "answered"}
  /\ Moves(c, Idle)
  /\ UNCHANGED <<now, calls, nextId, arrivals>>

Tick ==
  /\ now < MaxTime
  /\ now' = now + 1
  /\ UNCHANGED <<calls, nextId, caller, arrivals>>

Next == \/ \E c \in Callers : \/ Begin(c) \/ Acquire(c) \/ Refuse(c)
                              \/ Call(c) \/ Lookup(c) \/ Leave(c)
        \/ Tick

Spec == Init /\ [][Next]_vars

------------------------------------------------------------------------------
(* Properties.                                                             *)

\* Arrived within the margin of its slot's stamp, and has a slot of its own:
\* with a limit of one the lookup has none.
Timely(a) == a.at <= a.stamp + Safety /\ (a.of = "call" \/ Limit > 1)

\* The requests that arrive within the margin never exceed the limit in the
\* supplier's window: over every instance of the app, in whatever order the
\* transactions get the lock and after whatever wait, and whichever other
\* requests come late (SupplierLimiter, peakInWindow).
TimelyWithinLimit == Cardinality({a \in arrivals : Timely(a)}) <= Limit

\* "Never more than limit calls in any window" (SupplierLimiter), in full: it
\* takes every request to be timely.
WithinLimit == Cardinality(arrivals) <= Limit

\* The same, when every call arrives within the margin: the lookups that follow
\* the calls need not.
PromptCallsWithinLimit ==
  (\A a \in arrivals : a.of = "call" => a.at <= a.stamp + Safety) => WithinLimit

\* A caller that was sent away missed nothing: until the moment it was told,
\* nobody who needs as many slots could have been let in (nextSlotAt).
NotHeldUp ==
  \A c \in Callers :
    LET p == caller[c] IN
      p.pc = "deferred" /\ now <= p.until => ~Room(Kept(now), p.kind)
=============================================================================
