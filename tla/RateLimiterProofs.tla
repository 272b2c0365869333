-------------------------- MODULE RateLimiterProofs --------------------------
(***************************************************************************)
(* What RateLimiter guarantees for every limit, window and number of       *)
(* callers.                                                                *)
(*                                                                         *)
(* Nothing is assumed of when requests arrive. TimelyWithinLimit speaks of *)
(* those that arrive within the safety margin of their slot's stamp: each  *)
(* of them still in the supplier's window has a row of its own in          *)
(* supplier_calls (HeldInv, PaidInv), where there are never more than      *)
(* Limit. A slot that is used later than that pays for nothing, and its    *)
(* row may be gone.                                                        *)
(***************************************************************************)
EXTENDS RateLimiter, FiniteSetTheorems, TLAPS

\* Ids grow.
RowsInv == TypeOK /\ \A r \in calls : r.id < nextId

\* Those who were sent away left too many rows behind, which stay.
Blocking(u) == {r \in calls : r.at + Ours >= u}

WaitInv ==
  \A c \in Callers :
    LET p == caller[c] IN
      /\ p.pc = "begun" => p.start <= now
      /\ p.pc = "deferred" /\ now <= p.until
           => Cardinality(Blocking(p.until)) + Cost(p.kind) > Limit

------------------------------------------------------------------------------
(* The table.                                                              *)

LEMMA CostBounds ==
  ASSUME NEW k \in {"issue", "statement"}
  PROVE  Cost(k) \in {1, 2} /\ Cost(k) <= Limit
BY LimiterAssumption DEF Cost

LEMMA KeptRows ==
  ASSUME RowsInv, NEW t \in Nat
  PROVE  /\ Kept(t) \subseteq calls /\ IsFiniteSet(Kept(t))
         /\ Cardinality(Kept(t)) \in Nat /\ Cardinality(Kept(t)) <= Limit
<1>1. Kept(t) \in SUBSET calls /\ IsFiniteSet(calls) /\ Cardinality(calls) <= Limit
  BY DEF Kept, RowsInv, TypeOK
<1>2. IsFiniteSet(Kept(t)) /\ Cardinality(Kept(t)) <= Cardinality(calls)
  BY <1>1, FS_Subset
<1>3. Cardinality(Kept(t)) \in Nat /\ Cardinality(calls) \in Nat
  BY <1>1, <1>2, FS_CardinalityType
<1> QED
  BY <1>1, <1>2, <1>3, LimiterAssumption

\* One or two rows more.
LEMMA AddedRows ==
  ASSUME NEW rows, IsFiniteSet(rows), NEW one, NEW two, NEW new, NEW k,
         (k = 1 /\ new = {one}) \/ (k = 2 /\ new = {one, two})
  PROVE  /\ IsFiniteSet(rows \cup new)
         /\ Cardinality(rows \cup new) <= Cardinality(rows) + k
<1>1. Cardinality(rows) \in Nat
  BY FS_CardinalityType
<1>2. /\ IsFiniteSet(rows \cup {one})
      /\ Cardinality(rows \cup {one}) \in {Cardinality(rows), Cardinality(rows) + 1}
  BY FS_AddElement
<1>3. CASE k = 1 /\ new = {one}
  BY <1>1, <1>2, <1>3
<1>4. CASE k = 2 /\ new = {one, two}
  <2>1. rows \cup new = (rows \cup {one}) \cup {two}
    BY <1>4
  <2>2. /\ IsFiniteSet((rows \cup {one}) \cup {two})
        /\ Cardinality((rows \cup {one}) \cup {two})
             \in {Cardinality(rows \cup {one}), Cardinality(rows \cup {one}) + 1}
    BY <1>2, FS_AddElement
  <2> QED
    BY <1>1, <1>2, <1>4, <2>1, <2>2
<1> QED
  BY <1>3, <1>4

\* The oldest row exists, so a refusal always names a moment.
LEMMA OldestRow ==
  ASSUME NEW rows, rows \subseteq Row, rows # {}
  PROVE  /\ NextSlot(rows) \in Nat
         /\ \A r \in rows : r.at + Ours >= NextSlot(rows)
<1> DEFINE stamps == {r.at : r \in rows}
<1>1. stamps \subseteq Nat /\ stamps # {}
  BY DEF Row
<1>2. \E t \in stamps : \A u \in stamps : ~(<<u, t>> \in OpToRel(<, Nat))
  BY <1>1, NatLessThanWellFounded, WFMin, Zenon
<1>3. \E t \in stamps : \A u \in stamps : ~(u < t)
  BY <1>1, <1>2, Zenon DEF OpToRel
<1>4. \E t \in stamps : \A r \in rows : t <= r.at
  <2>1. PICK t \in stamps : \A u \in stamps : ~(u < t)
    BY <1>3
  <2>2. ASSUME NEW r \in rows PROVE t <= r.at
    <3>1. r.at \in stamps
      BY <2>2, Zenon
    <3>2. t \in Nat /\ r.at \in Nat
      BY <1>1, <3>1, Zenon
    <3>3. ~(r.at < t)
      BY <2>1, <3>1, Zenon
    <3> QED
      BY <3>2, <3>3
  <2> QED
    BY <2>1, <2>2
<1> DEFINE first == CHOOSE t \in stamps : \A r \in rows : t <= r.at
<1>5. first \in stamps /\ \A r \in rows : first <= r.at
  BY <1>4, Zenon
<1>6. NextSlot(rows) = Ours + first
  BY DEF NextSlot
<1>7. first \in Nat /\ Ours \in Nat /\ \A r \in rows : r.at \in Nat
  BY <1>1, <1>5, LimiterAssumption DEF Ours, Row
<1> HIDE DEF first
<1> QED
  BY <1>5, <1>6, <1>7

------------------------------------------------------------------------------
(* What the steps do.                                                      *)

LEMMA MovesEffect ==
  ASSUME TypeOK, NEW c \in Callers, NEW p \in Caller, Moves(c, p)
  PROVE  /\ caller' \in [Callers -> Caller] /\ caller'[c] = p
         /\ \A d \in Callers : d # c => caller'[d] = caller[d]
BY DEF Moves, TypeOK

LEMMA IdleIsCaller == Idle \in Caller
BY DEF Idle, Caller

\* A slot taken: what is kept, and fresh rows with the transaction's stamp.
LEMMA AcquireEffect ==
  ASSUME RowsInv, NEW c \in Callers, Acquire(c),
         NEW p, p = caller[c], NEW k, k = Cost(p.kind)
  PROVE  /\ p.start \in Nat /\ p.pc = "begun" /\ p.kind \in {"issue", "statement"}
         /\ k \in {1, 2} /\ k = Cost(p.kind)
         /\ calls' = Kept(p.start) \cup {[id |-> m, at |-> p.start] : m \in nextId..(nextId + k - 1)}
         /\ Kept(p.start) \subseteq calls'
         /\ \A r \in calls' : \/ r \in Kept(p.start)
                              \/ r.at = p.start /\ r.id \in nextId..(nextId + k - 1)
         /\ \A m \in nextId..(nextId + k - 1) : [id |-> m, at |-> p.start] \in calls'
         /\ nextId' = nextId + k
         /\ caller' \in [Callers -> Caller]
         /\ caller'[c] = [p EXCEPT !.pc = "send", !.slot = nextId]
         /\ \A d \in Callers : d # c => caller'[d] = caller[d]
         /\ UNCHANGED <<now, arrivals>>
         /\ RowsInv'
<1>1. /\ p \in Caller /\ p.start \in Nat /\ p.pc = "begun"
      /\ p.kind \in {"issue", "statement"} /\ nextId \in Nat
  BY DEF RowsInv, TypeOK, Caller, Acquire
<1>2. k \in {1, 2}
  BY <1>1, CostBounds
<1> DEFINE new == {[id |-> m, at |-> p.start] : m \in nextId..(nextId + k - 1)}
<1>3. /\ calls' = Kept(p.start) \cup new
      /\ nextId' = nextId + k
      /\ Moves(c, [p EXCEPT !.pc = "send", !.slot = nextId])
      /\ UNCHANGED <<now, arrivals>>
      /\ Room(Kept(p.start), p.kind)
  BY DEF Acquire
<1>4. [p EXCEPT !.pc = "send", !.slot = nextId] \in Caller
  BY <1>1 DEF Caller
<1>5. /\ caller' \in [Callers -> Caller]
      /\ caller'[c] = [p EXCEPT !.pc = "send", !.slot = nextId]
      /\ \A d \in Callers : d # c => caller'[d] = caller[d]
  BY <1>3, <1>4, MovesEffect DEF RowsInv
<1>6. /\ \A r \in new : r \in Row /\ r.at = p.start /\ r.id \in nextId..(nextId + k - 1)
      /\ \A r, q \in new : r.id = q.id => r = q
      /\ \A m \in nextId..(nextId + k - 1) : [id |-> m, at |-> p.start] \in new
  BY <1>1, <1>2 DEF Row
<1>7. /\ Kept(p.start) \subseteq calls /\ IsFiniteSet(Kept(p.start))
      /\ Cardinality(Kept(p.start)) \in Nat
  BY <1>1, KeptRows
<1>8. /\ IsFiniteSet(calls')
      /\ Cardinality(calls') <= Cardinality(Kept(p.start)) + k
  <2> DEFINE one == [id |-> nextId, at |-> p.start]
             two == [id |-> nextId + 1, at |-> p.start]
  <2>1. (k = 1 /\ new = {one}) \/ (k = 2 /\ new = {one, two})
    <3>1. CASE k = 1
      <4>1. nextId..(nextId + k - 1) = {nextId}
        BY <1>1, <3>1
      <4> QED
        BY <3>1, <4>1
    <3>2. CASE k = 2
      <4>1. nextId..(nextId + k - 1) = {nextId, nextId + 1}
        BY <1>1, <3>2
      <4> QED
        BY <3>2, <4>1
    <3> QED
      BY <1>2, <3>1, <3>2
  <2> HIDE DEF new, one, two
  <2>2. /\ IsFiniteSet(Kept(p.start) \cup new)
        /\ Cardinality(Kept(p.start) \cup new) <= Cardinality(Kept(p.start)) + k
    BY <1>7, <2>1, AddedRows
  <2> QED
    BY <1>3, <2>2
<1>9. Cardinality(calls') <= Limit
  <2>1. Cardinality(Kept(p.start)) + k <= Limit
    BY <1>3 DEF Room
  <2>2. Cardinality(calls') \in Nat
    BY <1>8, FS_CardinalityType
  <2> QED
    BY <1>2, <1>7, <1>8, <2>1, <2>2, LimiterAssumption
<1> HIDE DEF new
<1>10. /\ calls' \subseteq Row
       /\ \A r, q \in calls' : r.id = q.id => r = q
       /\ \A r \in calls' : r.id < nextId'
  <2>1. \A r \in calls : r \in Row /\ r.id \in Nat /\ r.id < nextId
    BY DEF RowsInv, TypeOK, Row
  <2>2. \A r, q \in calls : r.id = q.id => r = q
    BY DEF RowsInv, TypeOK
  <2>3. \A r \in new : r.id \in Nat /\ r.id >= nextId /\ r.id < nextId + k
    BY <1>1, <1>2, <1>6
  <2> QED
    BY <1>1, <1>2, <1>3, <1>6, <1>7, <2>1, <2>2, <2>3
<1>11. TypeOK'
  BY <1>1, <1>2, <1>3, <1>5, <1>8, <1>9, <1>10 DEF RowsInv, TypeOK
<1>12. /\ Kept(p.start) \subseteq calls'
       /\ \A r \in calls' : \/ r \in Kept(p.start)
                            \/ r.at = p.start /\ r.id \in nextId..(nextId + k - 1)
       /\ \A m \in nextId..(nextId + k - 1) : [id |-> m, at |-> p.start] \in calls'
  BY <1>3, <1>6
<1> QED
  BY <1>1, <1>2, <1>3, <1>5, <1>10, <1>11, <1>12 DEF RowsInv, new

LEMMA RefuseEffect ==
  ASSUME RowsInv, NEW c \in Callers, Refuse(c), NEW p, p = caller[c],
         NEW u, u = NextSlot(Kept(p.start))
  PROVE  /\ p.start \in Nat /\ p.pc = "begun" /\ p.kind \in {"issue", "statement"}
         /\ calls' = Kept(p.start) /\ calls' \subseteq calls
         /\ u \in Nat
         /\ Cardinality(Kept(p.start)) + Cost(p.kind) > Limit
         /\ \A r \in Kept(p.start) : r.at + Ours >= u
         /\ caller' \in [Callers -> Caller]
         /\ caller'[c].pc = "deferred" /\ caller'[c].until = u
         /\ caller'[c].kind = p.kind
         /\ \A d \in Callers : d # c => caller'[d] = caller[d]
         /\ UNCHANGED <<now, nextId, arrivals>>
         /\ RowsInv'
<1>1. /\ p \in Caller /\ p.start \in Nat /\ p.pc = "begun"
      /\ p.kind \in {"issue", "statement"} /\ calls \subseteq Row
  BY DEF RowsInv, TypeOK, Caller, Refuse
<1>2. /\ calls' = Kept(p.start)
      /\ ~Room(Kept(p.start), p.kind)
      /\ Moves(c, [p EXCEPT !.pc = "deferred", !.start = 0, !.until = u])
      /\ UNCHANGED <<now, nextId, arrivals>>
  BY DEF Refuse
<1>3. /\ Kept(p.start) \subseteq calls /\ IsFiniteSet(Kept(p.start))
      /\ Cardinality(Kept(p.start)) \in Nat /\ Cardinality(Kept(p.start)) <= Limit
  BY <1>1, KeptRows
<1>4. Cardinality(Kept(p.start)) + Cost(p.kind) > Limit
  <2>1. Cost(p.kind) \in {1, 2}
    BY <1>1, CostBounds
  <2> QED
    BY <1>2, <1>3, <2>1, LimiterAssumption DEF Room
<1>5. Kept(p.start) # {}
  <2>1. Cardinality({}) = 0
    BY FS_EmptySet
  <2>2. Cost(p.kind) \in {1, 2} /\ Cost(p.kind) <= Limit
    BY <1>1, CostBounds
  <2>3. Cardinality(Kept(p.start)) # 0
    BY <1>4, <2>2, LimiterAssumption
  <2> QED
    BY <2>1, <2>3
<1>6. u \in Nat /\ \A r \in Kept(p.start) : r.at + Ours >= u
  BY <1>1, <1>3, <1>5, OldestRow
<1>7. [p EXCEPT !.pc = "deferred", !.start = 0, !.until = u] \in Caller
  BY <1>1, <1>6 DEF Caller
<1>8. /\ caller' \in [Callers -> Caller]
      /\ caller'[c] = [p EXCEPT !.pc = "deferred", !.start = 0, !.until = u]
      /\ \A d \in Callers : d # c => caller'[d] = caller[d]
  BY <1>2, <1>7, MovesEffect DEF RowsInv
<1>9. RowsInv'
  BY <1>2, <1>3, <1>8 DEF RowsInv, TypeOK
<1>10. /\ caller'[c].pc = "deferred" /\ caller'[c].until = u
       /\ caller'[c].kind = p.kind
  BY <1>1, <1>8 DEF Caller
<1> QED
  BY <1>1, <1>2, <1>3, <1>4, <1>6, <1>8, <1>9, <1>10

LEMMA AdmitEffect ==
  ASSUME TypeOK, NEW s \in Nat, NEW of \in {"call", "lookup"}, NEW t \in Nat,
         Admit(s, of, t)
  PROVE  arrivals' \subseteq Arrival /\ IsFiniteSet(arrivals')
<1> DEFINE old == {a \in arrivals : a.at + Window > now}
           one == [slot |-> s, of |-> of, stamp |-> t, at |-> now]
<1>1. old \in SUBSET arrivals /\ IsFiniteSet(arrivals) /\ arrivals \subseteq Arrival
  BY DEF TypeOK
<1>2. one \in Arrival
  BY DEF TypeOK, Arrival
<1>3. arrivals' = old \cup {one}
  BY DEF Admit
<1> HIDE DEF old, one
<1>4. IsFiniteSet(old)
  BY <1>1, FS_Subset
<1>5. IsFiniteSet(old \cup {one})
  BY <1>4, FS_AddElement
<1> QED
  BY <1>1, <1>2, <1>3, <1>5

\* The other steps leave the table alone.
LEMMA CallEffect ==
  ASSUME TypeOK, NEW c \in Callers, Begin(c) \/ Call(c) \/ Lookup(c) \/ Leave(c)
  PROVE  /\ TypeOK' /\ UNCHANGED <<now, calls, nextId>>
         /\ caller'[c].pc \in {"idle", "begun", "answered"}
         /\ caller'[c].pc = "begun" => caller'[c].start = now
         /\ \A d \in Callers : d # c => caller'[d] = caller[d]
<1>1. caller[c] \in Caller /\ Idle \in Caller /\ now \in Nat
  BY IdleIsCaller DEF TypeOK
<1>2. CASE Begin(c)
  <2>1. PICK k \in {"issue", "statement"} :
          Moves(c, [Idle EXCEPT !.pc = "begun", !.kind = k, !.start = now])
    BY <1>2 DEF Begin
  <2> DEFINE p == [Idle EXCEPT !.pc = "begun", !.kind = k, !.start = now]
  <2>2. p \in Caller /\ p.pc = "begun" /\ p.start = now /\ Moves(c, p)
    BY <1>1, <2>1 DEF Caller
  <2> HIDE DEF p
  <2>3. /\ caller' \in [Callers -> Caller]
        /\ caller'[c].pc = "begun" /\ caller'[c].start = now
        /\ \A d \in Callers : d # c => caller'[d] = caller[d]
    BY <2>2, MovesEffect
  <2> QED
    BY <1>2, <2>3 DEF Begin, TypeOK
<1>3. CASE Leave(c)
  <2>1. Moves(c, Idle)
    BY <1>3 DEF Leave
  <2>2. /\ caller' \in [Callers -> Caller] /\ caller'[c] = Idle
        /\ \A d \in Callers : d # c => caller'[d] = caller[d]
    BY <1>1, <2>1, MovesEffect
  <2>3. Idle.pc = "idle"
    BY DEF Idle
  <2> QED
    BY <1>3, <2>2, <2>3 DEF Leave, TypeOK
<1>4. CASE Call(c)
  <2> DEFINE p == IF caller[c].kind = "issue" THEN [caller[c] EXCEPT !.pc = "answered"]
                                              ELSE Idle
  <2>1. /\ Moves(c, p) /\ Admit(caller[c].slot, "call", caller[c].start)
        /\ UNCHANGED <<now, calls, nextId>>
    BY <1>4 DEF Call
  <2>2. p \in Caller /\ p.pc \in {"idle", "answered"}
    BY <1>1 DEF Caller, Idle
  <2> HIDE DEF p
  <2>3. /\ caller' \in [Callers -> Caller] /\ caller'[c] = p
        /\ \A d \in Callers : d # c => caller'[d] = caller[d]
    BY <2>1, <2>2, MovesEffect
  <2>4. caller[c].slot \in Nat /\ caller[c].start \in Nat
    BY <1>1 DEF Caller
  <2>5. arrivals' \subseteq Arrival /\ IsFiniteSet(arrivals')
    BY <2>1, <2>4, AdmitEffect
  <2> QED
    BY <2>1, <2>2, <2>3, <2>5 DEF TypeOK
<1>5. CASE Lookup(c)
  <2>1. /\ Moves(c, Idle) /\ Admit(caller[c].slot + Cost("issue") - 1, "lookup", caller[c].start)
        /\ UNCHANGED <<now, calls, nextId>>
    BY <1>5 DEF Lookup
  <2>2. caller[c].slot + Cost("issue") - 1 \in Nat /\ caller[c].start \in Nat
    BY <1>1, CostBounds DEF Caller
  <2>3. arrivals' \subseteq Arrival /\ IsFiniteSet(arrivals')
    BY <2>1, <2>2, AdmitEffect
  <2>4. /\ caller' \in [Callers -> Caller] /\ caller'[c] = Idle
        /\ \A d \in Callers : d # c => caller'[d] = caller[d]
    BY <1>1, <2>1, MovesEffect
  <2>5. Idle.pc = "idle"
    BY DEF Idle
  <2> QED
    BY <2>1, <2>3, <2>4, <2>5 DEF TypeOK
<1> QED
  BY <1>2, <1>3, <1>4, <1>5

------------------------------------------------------------------------------
(* The table never holds more rows than the limit.                         *)

LEMMA RowsInit == Init => RowsInv
<1> SUFFICES ASSUME Init PROVE RowsInv
  OBVIOUS
<1>1. IsFiniteSet({}) /\ Cardinality({}) = 0
  BY FS_EmptySet
<1> QED
  BY <1>1, IdleIsCaller, LimiterAssumption DEF Init, RowsInv, TypeOK

LEMMA RowsStep == RowsInv /\ [Next]_vars => RowsInv'
<1> SUFFICES ASSUME RowsInv, [Next]_vars PROVE RowsInv'
  OBVIOUS
<1>1. ASSUME NEW c \in Callers, Begin(c) \/ Call(c) \/ Lookup(c) \/ Leave(c)
      PROVE  RowsInv'
  BY <1>1, CallEffect DEF RowsInv
<1>2. ASSUME NEW c \in Callers, Acquire(c)
      PROVE  RowsInv'
  BY <1>2, AcquireEffect
<1>3. ASSUME NEW c \in Callers, Refuse(c)
      PROVE  RowsInv'
  BY <1>3, RefuseEffect
<1>4. CASE Tick
  BY <1>4 DEF Tick, RowsInv, TypeOK
<1>5. CASE UNCHANGED vars
  BY <1>5 DEF vars, RowsInv, TypeOK
<1> QED
  BY <1>1, <1>2, <1>3, <1>4, <1>5 DEF Next

\* Every reachable state is well typed; above all, supplier_calls never holds
\* more rows than the limit, whatever the order of the transactions.
THEOREM LimiterTypes == Spec => []TypeOK
<1>1. RowsInv => TypeOK
  BY DEF RowsInv
<1> QED
  BY <1>1, RowsInit, RowsStep, PTL DEF Spec

------------------------------------------------------------------------------
(* Nobody is sent away for longer than needed.                             *)

LEMMA BlockingStays ==
  ASSUME TypeOK, TypeOK', NEW u \in Nat, Blocking(u) \subseteq calls'
  PROVE  /\ Cardinality(Blocking(u)) \in Nat /\ Cardinality(Blocking(u)') \in Nat
         /\ Cardinality(Blocking(u)) <= Cardinality(Blocking(u)')
<1>1. Blocking(u) \in SUBSET calls /\ Blocking(u)' \in SUBSET calls'
  BY DEF Blocking
<1>2. IsFiniteSet(calls) /\ IsFiniteSet(calls')
  BY DEF TypeOK
<1>3. IsFiniteSet(Blocking(u)) /\ IsFiniteSet(Blocking(u)')
  BY <1>1, <1>2, FS_Subset
<1>4. Blocking(u) \in SUBSET Blocking(u)'
  BY DEF Blocking
<1>5. Cardinality(Blocking(u)) <= Cardinality(Blocking(u)')
  BY <1>3, <1>4, FS_Subset
<1>6. Cardinality(Blocking(u)) \in Nat /\ Cardinality(Blocking(u)') \in Nat
  BY <1>3, FS_CardinalityType
<1> QED
  BY <1>5, <1>6

\* Whoever waits goes on waiting behind the same rows.
WaitOK(c) ==
  LET p == caller[c] IN
    /\ p.pc = "begun" => p.start <= now
    /\ p.pc = "deferred" /\ now <= p.until
         => Cardinality(Blocking(p.until)) + Cost(p.kind) > Limit

LEMMA WaitKept ==
  ASSUME TypeOK, TypeOK', NEW d \in Callers, WaitOK(d), caller'[d] = caller[d],
         now' \in {now, now + 1},
         \A r \in calls : r.at + Ours >= now => r \in calls'
  PROVE  WaitOK(d)'
<1>1. /\ caller[d] \in Caller /\ now \in Nat /\ caller[d].until \in Nat
      /\ caller[d].start \in Nat /\ caller[d].kind \in {"issue", "statement"}
  BY DEF TypeOK, Caller
<1>2. caller[d].pc = "begun" => caller[d].start <= now'
  BY <1>1 DEF WaitOK
<1>3. ASSUME caller[d].pc = "deferred", now' <= caller[d].until
      PROVE  Cardinality(Blocking(caller[d].until)') + Cost(caller[d].kind) > Limit
  <2>1. PICK u \in Nat : u = caller[d].until
    BY <1>1
  <2>2. now <= u
    BY <1>1, <1>3, <2>1
  <2>3. Cardinality(Blocking(u)) + Cost(caller[d].kind) > Limit
    BY <1>3, <2>1, <2>2 DEF WaitOK
  <2>4. Blocking(u) \subseteq calls'
    <3>1. ASSUME NEW r \in calls, r.at + Ours >= u
          PROVE  r \in calls'
      <4>1. r.at \in Nat /\ Ours \in Nat
        BY LimiterAssumption DEF TypeOK, Row, Ours
      <4>2. r.at + Ours >= now
        BY <1>1, <2>2, <3>1, <4>1
      <4> QED
        BY <4>2
    <3> QED
      BY <3>1 DEF Blocking
  <2>5. /\ Cardinality(Blocking(u)) \in Nat /\ Cardinality(Blocking(u)') \in Nat
        /\ Cardinality(Blocking(u)) <= Cardinality(Blocking(u)')
    BY <2>4, BlockingStays
  <2>6. Cost(caller[d].kind) \in {1, 2}
    BY <1>1, CostBounds
  <2>7. Cardinality(Blocking(u)') + Cost(caller[d].kind) > Limit
    BY <2>3, <2>5, <2>6, LimiterAssumption
  <2> QED
    BY <1>1, <2>1, <2>7 DEF Blocking
<1> QED
  BY <1>2, <1>3 DEF WaitOK, Blocking

LEMMA WaitInit == Init => WaitInv
BY DEF Init, WaitInv, Idle

\* A transaction deletes only what is too old for anybody who still waits.
LEMMA OldRowsGo ==
  ASSUME TypeOK, NEW t \in Nat, t <= now
  PROVE  \A r \in calls : r.at + Ours >= now => r \in Kept(t)
<1> SUFFICES ASSUME NEW r \in calls, r.at + Ours >= now PROVE r \in Kept(t)
  OBVIOUS
<1>1. r.at \in Nat /\ Ours \in Nat /\ now \in Nat
  BY LimiterAssumption DEF TypeOK, Row, Ours
<1> QED
  BY <1>1 DEF Kept

LEMMA WaitStep ==
  ASSUME RowsInv, WaitInv, [Next]_vars
  PROVE  WaitInv'
<1>1. TypeOK /\ TypeOK' /\ \A c \in Callers : WaitOK(c)
  BY RowsStep DEF RowsInv, WaitInv, WaitOK
<1>2. ASSUME NEW c \in Callers, Begin(c) \/ Call(c) \/ Lookup(c) \/ Leave(c)
      PROVE  WaitInv'
  <2>1. /\ UNCHANGED <<now, calls>> /\ now \in Nat
        /\ caller'[c].pc \in {"idle", "begun", "answered"}
        /\ caller'[c].pc = "begun" => caller'[c].start = now
        /\ \A d \in Callers : d # c => caller'[d] = caller[d]
    BY <1>1, <1>2, CallEffect DEF TypeOK
  <2>2. WaitOK(c)'
    BY <2>1 DEF WaitOK
  <2>3. ASSUME NEW d \in Callers, d # c PROVE WaitOK(d)'
    BY <1>1, <2>1, <2>3, WaitKept
  <2> QED
    BY <2>2, <2>3 DEF WaitInv, WaitOK
<1>3. ASSUME NEW c \in Callers, Acquire(c)
      PROVE  WaitInv'
  <2>1. PICK p : p = caller[c]
    OBVIOUS
  <2>2. /\ p.pc = "begun" /\ p.start \in Nat /\ Kept(p.start) \subseteq calls' /\ now' = now
        /\ caller'[c] = [p EXCEPT !.pc = "send", !.slot = nextId]
        /\ \A d \in Callers : d # c => caller'[d] = caller[d]
    <3>1. PICK k : k = Cost(p.kind)
      OBVIOUS
    <3>2. p.pc = "begun" /\ p.start \in Nat
      BY <1>3, <2>1, <3>1, AcquireEffect
    <3>3. now' = now
      BY <1>3, <2>1, <3>1, AcquireEffect
    <3>4. caller'[c] = [p EXCEPT !.pc = "send", !.slot = nextId]
      BY <1>3, <2>1, <3>1, AcquireEffect
    <3>5. \A d \in Callers : d # c => caller'[d] = caller[d]
      BY <1>3, <2>1, <3>1, AcquireEffect
    <3>6. Kept(p.start) \subseteq calls'
      BY <1>3, <2>1, <3>1, AcquireEffect
    <3> QED
      BY <3>2, <3>3, <3>4, <3>5, <3>6
  <2>3. p.start <= now
    BY <1>1, <2>1, <2>2 DEF WaitOK
  <2>4. \A r \in calls : r.at + Ours >= now => r \in calls'
    BY <1>1, <2>2, <2>3, OldRowsGo
  <2>5. WaitOK(c)'
    <3>1. caller'[c].pc = "send"
      BY <1>1, <2>1, <2>2 DEF TypeOK, Caller
    <3> QED
      BY <3>1 DEF WaitOK
  <2>6. ASSUME NEW d \in Callers, d # c PROVE WaitOK(d)'
    BY <1>1, <2>2, <2>4, <2>6, WaitKept
  <2> QED
    BY <2>5, <2>6 DEF WaitInv, WaitOK
<1>4. ASSUME NEW c \in Callers, Refuse(c)
      PROVE  WaitInv'
  <2>1. PICK p : p = caller[c]
    OBVIOUS
  <2>2. PICK u : u = NextSlot(Kept(p.start))
    OBVIOUS
  <2>3. /\ p.pc = "begun" /\ p.start \in Nat /\ calls' = Kept(p.start) /\ now' = now
        /\ Cardinality(Kept(p.start)) + Cost(p.kind) > Limit
        /\ \A r \in Kept(p.start) : r.at + Ours >= u
        /\ caller'[c].pc = "deferred" /\ caller'[c].until = u
        /\ caller'[c].kind = p.kind
        /\ \A d \in Callers : d # c => caller'[d] = caller[d]
    <3>1. /\ p.pc = "begun" /\ p.start \in Nat
          /\ calls' = Kept(p.start) /\ now' = now
      BY <1>4, <2>1, <2>2, RefuseEffect
    <3>2. Cardinality(Kept(p.start)) + Cost(p.kind) > Limit
      BY <1>4, <2>1, <2>2, RefuseEffect
    <3>3. ASSUME NEW r \in Kept(p.start) PROVE r.at + Ours >= u
      BY <1>4, <2>1, <2>2, <3>3, RefuseEffect
    <3>4. /\ caller'[c].pc = "deferred" /\ caller'[c].until = u
          /\ caller'[c].kind = p.kind
      BY <1>4, <2>1, <2>2, RefuseEffect
    <3>5. \A d \in Callers : d # c => caller'[d] = caller[d]
      BY <1>4, <2>1, <2>2, RefuseEffect
    <3> QED
      BY <3>1, <3>2, <3>3, <3>4, <3>5
  <2>4. p.start <= now
    BY <1>1, <2>1, <2>3 DEF WaitOK
  <2>5. \A r \in calls : r.at + Ours >= now => r \in calls'
    BY <1>1, <2>3, <2>4, OldRowsGo
  <2>6. WaitOK(c)'
    <3>1. /\ caller'[c].pc = "deferred" /\ caller'[c].until = u
          /\ caller'[c].kind = p.kind
      BY <2>3
    <3>2. Blocking(u)' = Kept(p.start)
      <4>1. {r \in calls' : r.at + Ours >= u} = calls'
        BY <2>3, Zenon
      <4> QED
        BY <2>3, <4>1 DEF Blocking
    <3>3. Cardinality(Blocking(u)') + Cost(p.kind) > Limit
      BY <2>3, <3>2
    <3> QED
      BY <3>1, <3>3 DEF WaitOK, Blocking
  <2>7. ASSUME NEW d \in Callers, d # c PROVE WaitOK(d)'
    BY <1>1, <2>3, <2>5, <2>7, WaitKept
  <2> QED
    BY <2>6, <2>7 DEF WaitInv, WaitOK
<1>5. CASE Tick
  <2>1. now' = now + 1 /\ UNCHANGED <<calls, caller>>
    BY <1>5 DEF Tick
  <2>2. ASSUME NEW d \in Callers PROVE WaitOK(d)'
    BY <1>1, <2>1, WaitKept
  <2> QED
    BY <2>2 DEF WaitInv, WaitOK
<1>6. CASE UNCHANGED vars
  BY <1>6 DEF vars, WaitInv, Blocking
<1> QED
  BY <1>2, <1>3, <1>4, <1>5, <1>6 DEF Next

\* A caller sent away missed nothing until the moment it was told
\* (tryAcquire's nextSlotAt), for any limit, window and callers.
THEOREM NeverHeldUp == Spec => []NotHeldUp
<1>1. Init => RowsInv /\ WaitInv
  BY RowsInit, WaitInit
<1>2. RowsInv /\ WaitInv /\ [Next]_vars => (RowsInv /\ WaitInv)'
  BY RowsStep, WaitStep
<1>3. ASSUME RowsInv, WaitInv PROVE NotHeldUp
  <2>1. ASSUME NEW c \in Callers, caller[c].pc = "deferred", now <= caller[c].until
        PROVE  ~Room(Kept(now), caller[c].kind)
    <3>1. /\ caller[c].until \in Nat /\ now \in Nat
          /\ caller[c].kind \in {"issue", "statement"}
      BY <1>3 DEF RowsInv, TypeOK, Caller
    <3>2. Cardinality(Blocking(caller[c].until)) + Cost(caller[c].kind) > Limit
      BY <1>3, <2>1 DEF WaitInv
    <3>3. Blocking(caller[c].until) \in SUBSET Kept(now)
      <4>1. ASSUME NEW r \in calls, r.at + Ours >= caller[c].until
            PROVE  r.at + Ours >= now
        <5>1. r.at \in Nat /\ Ours \in Nat
          BY <1>3, LimiterAssumption DEF RowsInv, TypeOK, Row, Ours
        <5> QED
          BY <2>1, <3>1, <4>1, <5>1
      <4> QED
        BY <4>1 DEF Blocking, Kept
    <3>4. IsFiniteSet(Kept(now)) /\ Cardinality(Kept(now)) \in Nat
      BY <1>3, <3>1, KeptRows
    <3>5. IsFiniteSet(Blocking(caller[c].until))
          /\ Cardinality(Blocking(caller[c].until)) <= Cardinality(Kept(now))
      BY <3>3, <3>4, FS_Subset
    <3>6. Cardinality(Blocking(caller[c].until)) \in Nat
      BY <3>5, FS_CardinalityType
    <3>7. Cost(caller[c].kind) \in {1, 2}
      BY <3>1, CostBounds
    <3> QED
      BY <3>2, <3>4, <3>5, <3>6, <3>7, LimiterAssumption DEF Room
  <2> QED
    BY <2>1 DEF NotHeldUp
<1> QED
  BY <1>1, <1>2, <1>3, PTL DEF Spec
------------------------------------------------------------------------------
(* Every recent arrival has a row of its own.                              *)

\* The arrivals that are paid for.
Paid == {a \in arrivals : Timely(a)}

\* The slots a caller has taken, has not used, and can still use in time.
Holds(c, n) ==
  LET p == caller[c] IN
    /\ now <= p.start + Safety
    /\ \/ p.pc = "send" /\ n = p.slot
       \/ /\ p.pc \in {"send", "answered"} /\ p.kind = "issue"
          /\ Limit > 1 /\ n = p.slot + 1

InOrder(c) ==
  LET p == caller[c] IN
    /\ p.pc = "begun" => p.start <= now
    /\ p.pc = "answered" => p.kind = "issue"

\* A paid slot is in the table, is nobody else's, and is not used yet.
HeldInv ==
  /\ \A c \in Callers : InOrder(c)
  /\ \A c \in Callers, n \in Nat : Holds(c, n) => [id |-> n, at |-> caller[c].start] \in calls
  /\ \A c, d \in Callers, n \in Nat : Holds(c, n) /\ Holds(d, n) => c = d
  /\ \A c \in Callers, a \in Paid : ~Holds(c, a.slot)

\* Such an arrival is out of the supplier's window or has its row, and used it alone.
PaidInv ==
  /\ \A a \in Paid : a.slot < nextId
  /\ \A a, b \in Paid : a.slot = b.slot => a = b
  /\ \A a \in Paid : \/ a.at + Window <= now
                     \/ \E r \in calls : r.id = a.slot /\ a.at <= r.at + Safety

LEMMA HeldInit == Init => HeldInv /\ PaidInv
BY DEF Init, HeldInv, PaidInv, Paid, InOrder, Holds, Idle

\* A transaction deletes neither a row still to be used nor one that pays for
\* an arrival in the window.
LEMMA PaidRows ==
  ASSUME RowsInv, HeldInv, PaidInv, now' = now,
         \A r \in calls : r.at + Ours >= now => r \in calls'
  PROVE  /\ \A c \in Callers, n \in Nat :
              Holds(c, n) => [id |-> n, at |-> caller[c].start] \in calls'
         /\ \A a \in Paid : \/ a.at + Window <= now
                            \/ \E r \in calls' : r.id = a.slot /\ a.at <= r.at + Safety
<1>1. /\ now \in Nat /\ Window \in Nat /\ Safety \in Nat /\ Ours = Window + Safety
      /\ \A r \in calls : r.at \in Nat
      /\ \A a \in Paid : a.at \in Nat
      /\ \A c \in Callers : caller[c] \in Caller /\ caller[c].start \in Nat
  BY LimiterAssumption DEF RowsInv, TypeOK, Row, Arrival, Caller, Ours, Paid
<1>2. ASSUME NEW c \in Callers, NEW n \in Nat, Holds(c, n)
      PROVE  [id |-> n, at |-> caller[c].start] \in calls'
  <2>1. PICK r : r = [id |-> n, at |-> caller[c].start]
    OBVIOUS
  <2>2. r \in calls /\ r.at = caller[c].start
    BY <1>2, <2>1 DEF HeldInv
  <2>3. now <= caller[c].start + Safety
    BY <1>2 DEF Holds
  <2>4. r.at + Ours >= now
    BY <1>1, <2>2, <2>3
  <2> QED
    BY <2>1, <2>2, <2>4
<1>3. ASSUME NEW a \in Paid, ~(a.at + Window <= now)
      PROVE  \E r \in calls' : r.id = a.slot /\ a.at <= r.at + Safety
  <2>1. PICK r \in calls : r.id = a.slot /\ a.at <= r.at + Safety
    BY <1>3 DEF PaidInv
  <2>2. r.at + Ours >= now
    BY <1>1, <1>3, <2>1
  <2> QED
    BY <2>1, <2>2
<1> QED
  BY <1>2, <1>3

\* As many arrivals in the window as rows, at most.
LEMMA Counted ==
  ASSUME NEW some, NEW rows, IsFiniteSet(some), IsFiniteSet(rows),
         \A a, b \in some : a.slot = b.slot => a = b,
         \A a \in some : \E r \in rows : r.id = a.slot
  PROVE  Cardinality(some) <= Cardinality(rows)
<1> DEFINE row == [a \in some |-> CHOOSE r \in rows : r.id = a.slot]
<1>1. \A a \in some : row[a] \in rows /\ row[a].id = a.slot
  OBVIOUS
<1>2. row \in [some -> rows]
  BY <1>1
<1> HIDE DEF row
<1>3. \A a, b \in some : row[a] = row[b] => a = b
  BY <1>1
<1>4. Cardinality(some) \in Nat /\ Cardinality(rows) \in Nat
  BY FS_CardinalityType
<1>5. ~(Cardinality(rows) < Cardinality(some))
  BY <1>2, <1>3, FS_PigeonHole
<1> QED
  BY <1>4, <1>5

\* A step that pays for nothing and calls nobody.
LEMMA NothingHeld ==
  ASSUME RowsInv, HeldInv, PaidInv,
         UNCHANGED <<now, nextId, arrivals>>,
         \A r \in calls : r.at + Ours >= now => r \in calls',
         NEW c \in Callers,
         caller'[c].pc \in {"idle", "begun", "deferred"},
         caller'[c].pc = "begun" => caller'[c].start = now,
         \A d \in Callers : d # c => caller'[d] = caller[d]
  PROVE  HeldInv' /\ PaidInv'
<1>1. /\ \A d \in Callers, n \in Nat :
           Holds(d, n) => [id |-> n, at |-> caller[d].start] \in calls'
      /\ \A a \in Paid : \/ a.at + Window <= now
                         \/ \E r \in calls' : r.id = a.slot /\ a.at <= r.at + Safety
  BY PaidRows
<1>2. Paid' = Paid /\ PaidInv'
  BY <1>1 DEF PaidInv, Paid
<1>3. \A d \in Callers : InOrder(d)'
  BY LimiterAssumption DEF HeldInv, InOrder, RowsInv, TypeOK
<1>4. ASSUME NEW d \in Callers, NEW n, Holds(d, n)'
      PROVE  Holds(d, n) /\ caller'[d] = caller[d]
  BY <1>4 DEF Holds
<1>5. \A d \in Callers, n \in Nat :
        Holds(d, n)' => [id |-> n, at |-> caller'[d].start] \in calls'
  BY <1>1, <1>4
<1>6. \A d, e \in Callers, n \in Nat : Holds(d, n)' /\ Holds(e, n)' => d = e
  BY <1>4 DEF HeldInv
<1>7. \A d \in Callers, a \in Paid' : ~Holds(d, a.slot)'
  BY <1>2, <1>4 DEF HeldInv
<1> QED
  BY <1>2, <1>3, <1>5, <1>6, <1>7 DEF HeldInv

\* A slot is taken: its rows are new, so nobody else's and not used.
LEMMA SlotHeld ==
  ASSUME RowsInv, HeldInv, PaidInv, WaitInv, NEW c \in Callers, Acquire(c)
  PROVE  HeldInv' /\ PaidInv'
<1>0. ASSUME UNCHANGED arrivals PROVE Paid' = Paid
  BY <1>0 DEF Paid
<1>1. PICK p : p = caller[c]
  OBVIOUS
<1>2. PICK k : k = Cost(p.kind)
  OBVIOUS
<1>3. /\ p.start \in Nat /\ p.pc = "begun" /\ p.kind \in {"issue", "statement"}
      /\ k \in {1, 2} /\ nextId' = nextId + k
      /\ UNCHANGED <<now, arrivals>>
  <2>1. p.start \in Nat /\ p.pc = "begun" /\ p.kind \in {"issue", "statement"}
    BY <1>1, <1>2, AcquireEffect
  <2>2. k \in {1, 2}
    BY <1>2, <2>1, CostBounds
  <2>3. nextId' = nextId + k
    BY <1>1, <1>2 DEF Acquire
  <2>4. UNCHANGED <<now, arrivals>>
    BY <1>1, <1>2, AcquireEffect
  <2> QED
    BY <2>1, <2>2, <2>3, <2>4
<1>4. \A m \in nextId..(nextId + k - 1) : [id |-> m, at |-> p.start] \in calls'
  BY <1>1, <1>2, AcquireEffect
<1>5. Kept(p.start) \subseteq calls'
  BY <1>1, <1>2, AcquireEffect
<1>6. /\ caller'[c] = [p EXCEPT !.pc = "send", !.slot = nextId]
      /\ \A d \in Callers : d # c => caller'[d] = caller[d]
  BY <1>1, <1>2, AcquireEffect
<1>7. /\ caller'[c].pc = "send" /\ caller'[c].slot = nextId
      /\ caller'[c].start = p.start /\ caller'[c].kind = p.kind
  BY <1>1, <1>6 DEF RowsInv, TypeOK, Caller
<1>8. nextId \in Nat /\ now \in Nat /\ Safety \in Nat
  BY LimiterAssumption DEF RowsInv, TypeOK
<1>9. p.start <= now
  BY <1>1, <1>3 DEF HeldInv, InOrder
<1>10. p.kind = "issue" /\ Limit > 1 => k = 2
  BY <1>2, <1>3 DEF Cost
<1>11. \A r \in calls : r.at + Ours >= now => r \in calls'
  <2>1. \A r \in calls : r.at + Ours >= now => r \in Kept(p.start)
    BY <1>3, <1>9, OldRowsGo DEF RowsInv
  <2> QED
    BY <1>5, <2>1
<1>12. /\ \A d \in Callers, n \in Nat :
            Holds(d, n) => [id |-> n, at |-> caller[d].start] \in calls'
       /\ \A a \in Paid : \/ a.at + Window <= now
                          \/ \E r \in calls' : r.id = a.slot /\ a.at <= r.at + Safety
  BY <1>3, <1>11, PaidRows
<1>13. PaidInv'
  <2>1. \A a \in Paid : a.slot \in Nat
    BY DEF RowsInv, TypeOK, Arrival, Paid
  <2>2. \A a \in Paid : a.slot < nextId'
    BY <1>3, <1>8, <2>1 DEF PaidInv
  <2> QED
    BY <1>0, <1>3, <1>12, <2>2 DEF PaidInv
<1>14. \A n : Holds(c, n)' => n \in nextId..(nextId + k - 1)
  BY <1>3, <1>7, <1>8, <1>10 DEF Holds
<1>15. ASSUME NEW d \in Callers, d # c, NEW n \in Nat, Holds(d, n)'
       PROVE  Holds(d, n) /\ caller'[d] = caller[d] /\ n < nextId
  <2>1. Holds(d, n) /\ caller'[d] = caller[d]
    BY <1>3, <1>6, <1>15 DEF Holds
  <2>2. PICK r : r = [id |-> n, at |-> caller[d].start]
    OBVIOUS
  <2>3. r \in calls /\ r.id = n
    BY <2>1, <2>2 DEF HeldInv
  <2> QED
    BY <2>1, <2>3 DEF RowsInv
<1>16. \A d \in Callers : InOrder(d)'
  BY <1>3, <1>6, <1>7, <1>9 DEF HeldInv, InOrder
<1>17. ASSUME NEW d \in Callers, NEW n \in Nat, Holds(d, n)'
       PROVE  [id |-> n, at |-> caller'[d].start] \in calls'
  <2>1. CASE d = c
    BY <1>4, <1>7, <1>14, <1>17, <2>1
  <2>2. CASE d # c
    BY <1>12, <1>15, <1>17, <2>2
  <2> QED
    BY <2>1, <2>2
<1>18. \A d, e \in Callers, n \in Nat : Holds(d, n)' /\ Holds(e, n)' => d = e
  BY <1>8, <1>14, <1>15 DEF HeldInv
<1>19. ASSUME NEW d \in Callers, NEW a \in Paid', Holds(d, a.slot)'
       PROVE  FALSE
  <2>1. a \in Paid /\ a.slot \in Nat /\ a.slot < nextId
    BY <1>0, <1>3, <1>19 DEF PaidInv, RowsInv, TypeOK, Arrival, Paid
  <2>2. CASE d = c
    BY <1>8, <1>14, <1>19, <2>1, <2>2
  <2>3. CASE d # c
    BY <1>15, <1>19, <2>1, <2>3 DEF HeldInv
  <2> QED
    BY <2>2, <2>3
<1> QED
  BY <1>13, <1>16, <1>17, <1>18, <1>19 DEF HeldInv

\* A paid slot is used: the arrival has its row, and no other arrival has it.
LEMMA SlotUsed ==
  ASSUME RowsInv, HeldInv, PaidInv, arrivals' \subseteq Arrival, IsFiniteSet(arrivals'),
         UNCHANGED <<now, calls, nextId>>,
         NEW c \in Callers, NEW s \in Nat, NEW of \in {"call", "lookup"},
         Holds(c, s), Admit(s, of, caller[c].start), InOrder(c)', ~Holds(c, s)',
         \A n \in Nat : Holds(c, n)' => Holds(c, n) /\ caller'[c].start = caller[c].start,
         \A d \in Callers : d # c => caller'[d] = caller[d]
  PROVE  HeldInv' /\ PaidInv' /\ TimelyWithinLimit'
<1>1. PICK one : one = [slot |-> s, of |-> of, stamp |-> caller[c].start, at |-> now]
  OBVIOUS
<1>2. /\ one.slot = s /\ one.at = now
      /\ \A a \in Paid' : a = one \/ (a \in Paid /\ a.at + Window > now)
  BY <1>1 DEF Admit, Paid, Timely
<1>3. PICK r : r = [id |-> s, at |-> caller[c].start]
  OBVIOUS
<1>4. /\ r \in calls /\ r.id = s /\ r.at = caller[c].start
      /\ now <= caller[c].start + Safety
  BY <1>3 DEF HeldInv, Holds
<1>5. /\ now \in Nat /\ Window \in Nat /\ nextId \in Nat
      /\ \A a \in Paid : a.at \in Nat /\ a.slot \in Nat
  BY LimiterAssumption DEF RowsInv, TypeOK, Arrival, Paid
<1>6. \A a \in Paid' : \E q \in calls : q.id = a.slot /\ a.at <= q.at + Safety
  <2>1. ASSUME NEW a \in Paid, a.at + Window > now
        PROVE  \E q \in calls : q.id = a.slot /\ a.at <= q.at + Safety
    BY <1>5, <2>1 DEF PaidInv
  <2> QED
    BY <1>2, <1>4, <2>1
<1>7. \A a \in Paid : a.slot # s
  BY DEF HeldInv
<1>8. \A a, b \in Paid' : a.slot = b.slot => a = b
  BY <1>2, <1>7 DEF PaidInv
<1>9. s < nextId
  BY <1>4 DEF RowsInv
<1>10. PaidInv'
  <2>1. \A a \in Paid' : a.slot < nextId'
    BY <1>2, <1>9 DEF PaidInv
  <2> QED
    BY <1>6, <1>8, <2>1 DEF PaidInv
<1>11. TimelyWithinLimit'
  <2>1. IsFiniteSet(calls) /\ Cardinality(calls) <= Limit
    BY DEF RowsInv, TypeOK
  <2>2. PICK some : some = Paid' /\ IsFiniteSet(some)
    <3>1. Paid' \subseteq arrivals'
      BY DEF Paid
    <3>2. IsFiniteSet(Paid')
      BY <3>1, FS_Subset
    <3> QED
      BY <3>2
  <2>3. Cardinality(some) <= Cardinality(calls)
    BY <1>6, <1>8, <2>1, <2>2, Counted
  <2>4. Cardinality(some) \in Nat /\ Cardinality(calls) \in Nat
    BY <2>1, <2>2, FS_CardinalityType
  <2>5. Cardinality(some) <= Limit
    BY <2>1, <2>3, <2>4, LimiterAssumption
  <2>6. some = {a \in arrivals' : Timely(a)}
    BY <2>2 DEF Paid, Timely
  <2> QED
    BY <2>5, <2>6 DEF TimelyWithinLimit, Timely
<1>12. ASSUME NEW d \in Callers, NEW n \in Nat, Holds(d, n)'
       PROVE  Holds(d, n) /\ caller'[d].start = caller[d].start /\ n # s
  <2>1. CASE d = c
    BY <1>12, <2>1
  <2>2. CASE d # c
    <3>1. Holds(d, n) /\ caller'[d].start = caller[d].start
      BY <1>12, <2>2 DEF Holds
    <3> QED
      BY <2>2, <3>1 DEF HeldInv
  <2> QED
    BY <2>1, <2>2
<1>13. \A d \in Callers : InOrder(d)'
  BY DEF HeldInv, InOrder
<1>14. \A d \in Callers, n \in Nat :
         Holds(d, n)' => [id |-> n, at |-> caller'[d].start] \in calls'
  BY <1>12 DEF HeldInv
<1>15. \A d, e \in Callers, n \in Nat : Holds(d, n)' /\ Holds(e, n)' => d = e
  BY <1>12 DEF HeldInv
<1>16. \A d \in Callers, a \in Paid' : ~Holds(d, a.slot)'
  <2>1. ASSUME NEW d \in Callers, NEW a \in Paid', Holds(d, a.slot)'
        PROVE  FALSE
    <3>1. a.slot \in Nat
      BY <1>2, <1>5
    <3> QED
      BY <1>2, <1>12, <2>1, <3>1 DEF HeldInv
  <2> QED
    BY <2>1
<1> QED
  BY <1>10, <1>11, <1>13, <1>14, <1>15, <1>16 DEF HeldInv

\* An arrival that is not paid for only pushes others out of the window.
LEMMA PaidGo ==
  ASSUME TypeOK, HeldInv, PaidInv, TimelyWithinLimit,
         UNCHANGED <<now, calls, nextId>>, Paid' \subseteq Paid,
         NEW c \in Callers, InOrder(c)', \A n : ~Holds(c, n)',
         \A d \in Callers : d # c => caller'[d] = caller[d]
  PROVE  HeldInv' /\ PaidInv' /\ TimelyWithinLimit'
<1>1. PaidInv'
  BY DEF PaidInv
<1>2. \A d \in Callers : InOrder(d)'
  BY DEF HeldInv, InOrder
<1>3. ASSUME NEW d \in Callers, NEW n, Holds(d, n)'
      PROVE  Holds(d, n) /\ caller'[d] = caller[d]
  BY <1>3 DEF Holds
<1>4. HeldInv'
  BY <1>2, <1>3 DEF HeldInv
<1>5. PICK few, many : few = Paid' /\ many = Paid
  OBVIOUS
<1>6. IsFiniteSet(many) /\ few \subseteq many
  <2>1. Paid \subseteq arrivals /\ IsFiniteSet(arrivals)
    BY DEF Paid, TypeOK
  <2> QED
    BY <1>5, <2>1, FS_Subset
<1>7. IsFiniteSet(few) /\ Cardinality(few) <= Cardinality(many)
  BY <1>6, FS_Subset
<1>8. Cardinality(few) \in Nat /\ Cardinality(many) \in Nat
  BY <1>6, <1>7, FS_CardinalityType
<1>9. few = {a \in arrivals' : Timely(a)} /\ many = {a \in arrivals : Timely(a)}
  BY <1>5 DEF Paid, Timely
<1>10. Cardinality(many) <= Limit
  BY <1>9 DEF TimelyWithinLimit
<1>11. Cardinality(few) <= Limit
  BY <1>7, <1>8, <1>10, LimiterAssumption
<1> QED
  BY <1>1, <1>4, <1>9, <1>11 DEF TimelyWithinLimit, Timely

LEMMA PaidStep ==
  ASSUME RowsInv, HeldInv, PaidInv, WaitInv, TimelyWithinLimit, [Next]_vars
  PROVE  HeldInv' /\ PaidInv' /\ TimelyWithinLimit'
<1>1. TypeOK /\ RowsInv' /\ TypeOK'
  BY RowsStep DEF RowsInv
<1>2. ASSUME NEW c \in Callers, Begin(c) \/ Leave(c)
      PROVE  HeldInv' /\ PaidInv' /\ TimelyWithinLimit'
  <2>1. /\ UNCHANGED <<now, calls, nextId, arrivals>>
        /\ caller'[c].pc \in {"idle", "begun"}
    <3>1. UNCHANGED <<now, calls, nextId, arrivals>>
      BY <1>2 DEF Begin, Leave
    <3>2. CASE Begin(c)
      BY <1>1, <3>1, <3>2 DEF Begin, Moves, TypeOK, Idle
    <3>3. CASE Leave(c)
      BY <1>1, <3>1, <3>3 DEF Leave, Moves, TypeOK, Idle
    <3> QED
      BY <1>2, <3>2, <3>3
  <2>2. /\ caller'[c].pc = "begun" => caller'[c].start = now
        /\ \A d \in Callers : d # c => caller'[d] = caller[d]
    BY <1>1, <1>2, CallEffect
  <2>3. HeldInv' /\ PaidInv'
    BY <2>1, <2>2, NothingHeld
  <2> QED
    BY <2>1, <2>3 DEF TimelyWithinLimit, Paid
<1>3. ASSUME NEW c \in Callers, Refuse(c)
      PROVE  HeldInv' /\ PaidInv' /\ TimelyWithinLimit'
  <2>1. PICK p : p = caller[c]
    OBVIOUS
  <2>2. PICK u : u = NextSlot(Kept(p.start))
    OBVIOUS
  <2>3. /\ p.start \in Nat /\ p.pc = "begun" /\ calls' = Kept(p.start)
        /\ UNCHANGED <<now, nextId, arrivals>>
    BY <1>3, <2>1, <2>2, RefuseEffect
  <2>4. /\ caller'[c].pc = "deferred"
        /\ \A d \in Callers : d # c => caller'[d] = caller[d]
    BY <1>3, <2>1, <2>2, RefuseEffect
  <2>5. p.start <= now
    BY <2>1, <2>3 DEF HeldInv, InOrder
  <2>6. \A r \in calls : r.at + Ours >= now => r \in calls'
    BY <1>1, <2>3, <2>5, OldRowsGo
  <2>7. HeldInv' /\ PaidInv'
    BY <2>3, <2>4, <2>6, NothingHeld
  <2> QED
    BY <2>3, <2>7 DEF TimelyWithinLimit, Paid
<1>4. ASSUME NEW c \in Callers, Acquire(c)
      PROVE  HeldInv' /\ PaidInv' /\ TimelyWithinLimit'
  <2>1. HeldInv' /\ PaidInv'
    BY <1>4, SlotHeld
  <2> QED
    BY <1>4, <2>1 DEF Acquire, TimelyWithinLimit, Paid
<1>5. ASSUME NEW c \in Callers, Call(c)
      PROVE  HeldInv' /\ PaidInv' /\ TimelyWithinLimit'
  <2>1. PICK p : p = caller[c]
    OBVIOUS
  <2>2. p \in Caller /\ p.slot \in Nat /\ p.pc = "send"
    BY <1>1, <1>5, <2>1 DEF Call, TypeOK, Caller
  <2>3. /\ Admit(p.slot, "call", p.start) /\ UNCHANGED <<now, calls, nextId>>
        /\ Moves(c, IF p.kind = "issue" THEN [p EXCEPT !.pc = "answered"] ELSE Idle)
    BY <1>5, <2>1 DEF Call
  <2>4. arrivals' \subseteq Arrival /\ IsFiniteSet(arrivals')
    BY <1>1 DEF TypeOK
  <2>5. \A d \in Callers : d # c => caller'[d] = caller[d]
    BY <1>1, <1>5, CallEffect
  <2>6. \/ /\ p.kind = "issue" /\ caller'[c].pc = "answered" /\ caller'[c].kind = p.kind
           /\ caller'[c].slot = p.slot /\ caller'[c].start = p.start
        \/ caller'[c].pc = "idle"
    BY <1>1, <2>2, <2>3 DEF Moves, TypeOK, Caller, Idle
  <2>7. InOrder(c)'
    BY <2>1, <2>2, <2>3, <2>6 DEF HeldInv, InOrder
  <2>8. CASE now <= p.start + Safety
    <3>1. Holds(c, p.slot)
      BY <2>1, <2>2, <2>8 DEF Holds
    <3>2. ~Holds(c, p.slot)'
      BY <2>2, <2>6 DEF Holds
    <3>3. \A n \in Nat : Holds(c, n)' => Holds(c, n) /\ caller'[c].start = caller[c].start
      BY <2>1, <2>2, <2>3, <2>6 DEF Holds
    <3> QED
      BY <2>1, <2>2, <2>3, <2>4, <2>5, <2>7, <3>1, <3>2, <3>3, SlotUsed
  <2>9. CASE ~(now <= p.start + Safety)
    <3>1. Paid' \subseteq Paid
      BY <2>3, <2>9 DEF Admit, Paid, Timely
    <3>2. \A n : ~Holds(c, n)'
      BY <2>3, <2>6, <2>9 DEF Holds
    <3> QED
      BY <1>1, <2>3, <2>5, <2>7, <3>1, <3>2, PaidGo
  <2> QED
    BY <2>8, <2>9
<1>6. ASSUME NEW c \in Callers, Lookup(c)
      PROVE  HeldInv' /\ PaidInv' /\ TimelyWithinLimit'
  <2>1. PICK p : p = caller[c]
    OBVIOUS
  <2>2. /\ p \in Caller /\ p.slot \in Nat /\ p.pc = "answered" /\ p.kind = "issue"
    BY <1>1, <1>6, <2>1 DEF Lookup, HeldInv, InOrder, TypeOK, Caller
  <2>3. /\ Admit(p.slot + Cost("issue") - 1, "lookup", p.start) /\ UNCHANGED <<now, calls, nextId>>
        /\ Moves(c, Idle)
    BY <1>6, <2>1 DEF Lookup
  <2>4. arrivals' \subseteq Arrival /\ IsFiniteSet(arrivals')
    BY <1>1 DEF TypeOK
  <2>5. \A d \in Callers : d # c => caller'[d] = caller[d]
    BY <1>1, <1>6, CallEffect
  <2>6. InOrder(c)' /\ \A n : ~Holds(c, n)'
    <3>1. caller'[c].pc = "idle"
      BY <1>1, <2>3 DEF Moves, TypeOK, Idle
    <3> QED
      BY <3>1 DEF InOrder, Holds
  <2>7. CASE now <= p.start + Safety /\ Limit > 1
    <3>1. Cost("issue") = 2
      BY <2>7 DEF Cost
    <3>2. p.slot + 2 - 1 = p.slot + 1
      BY <2>2
    <3>3. Admit(p.slot + 1, "lookup", p.start)
      BY <2>3, <3>1, <3>2
    <3>4. Holds(c, p.slot + 1) /\ p.slot + 1 \in Nat
      BY <2>1, <2>2, <2>7 DEF Holds
    <3> QED
      BY <2>1, <2>3, <2>4, <2>5, <2>6, <3>3, <3>4, SlotUsed
  <2>8. CASE ~(now <= p.start + Safety /\ Limit > 1)
    <3>1. Paid' \subseteq Paid
      BY <2>3, <2>8 DEF Admit, Paid, Timely
    <3> QED
      BY <1>1, <2>3, <2>5, <2>6, <3>1, PaidGo
  <2> QED
    BY <2>7, <2>8
<1>7. CASE Tick
  <2>1. now' = now + 1 /\ UNCHANGED <<calls, nextId, caller, arrivals>>
    BY <1>7 DEF Tick
  <2>2. /\ now \in Nat /\ Window \in Nat /\ Safety \in Nat
        /\ \A a \in Paid : a.at \in Nat /\ a.slot \in Nat
        /\ \A c \in Callers : caller[c].start \in Nat
    BY <1>1, LimiterAssumption DEF TypeOK, Arrival, Caller, Paid
  <2>3. \A c \in Callers : InOrder(c)'
    BY <2>1, <2>2 DEF HeldInv, InOrder
  <2>4. \A d \in Callers, n \in Nat : Holds(d, n)' => Holds(d, n)
    BY <2>1, <2>2 DEF Holds
  <2>5. HeldInv'
    BY <2>1, <2>2, <2>3, <2>4 DEF HeldInv, Paid
  <2>6. PaidInv'
    <3>1. Paid' = Paid
      BY <2>1 DEF Paid
    <3> QED
      BY <2>1, <2>2, <3>1 DEF PaidInv
  <2> QED
    BY <2>1, <2>5, <2>6 DEF TimelyWithinLimit, Paid
<1>8. CASE UNCHANGED vars
  BY <1>8 DEF vars, HeldInv, PaidInv, TimelyWithinLimit, Paid, InOrder, Holds
<1> QED
  BY <1>2, <1>3, <1>4, <1>5, <1>6, <1>7, <1>8 DEF Next

\* Whatever arrives within the safety margin of the stamp it was paid for with
\* fits into the supplier's window: for any limit, window and margin, any number
\* of instances, any wait for the lock, and whatever else arrives too late
\* (SupplierLimiter).
THEOREM TimelyNeverExceed == Spec => []TimelyWithinLimit
<1>1. Init => RowsInv /\ WaitInv /\ HeldInv /\ PaidInv
  BY RowsInit, WaitInit, HeldInit
<1>2. Init => TimelyWithinLimit
  <2>1. Cardinality({}) = 0
    BY FS_EmptySet
  <2>2. Init => Paid = {}
    BY DEF Init, Paid
  <2> QED
    BY <2>1, <2>2, LimiterAssumption DEF TimelyWithinLimit, Paid
<1>3. RowsInv /\ WaitInv /\ HeldInv /\ PaidInv /\ TimelyWithinLimit /\ [Next]_vars
        => (RowsInv /\ WaitInv /\ HeldInv /\ PaidInv /\ TimelyWithinLimit)'
  BY RowsStep, WaitStep, PaidStep
<1> QED
  BY <1>1, <1>2, <1>3, PTL DEF Spec
=============================================================================
