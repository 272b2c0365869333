------------------------- MODULE SupplierAuditProofs -------------------------
(***************************************************************************)
(* What the audit can rely on, for any number of units, suppliers, rounds, *)
(* keys and overlapping audits. Every behaviour of the composition is one  *)
(* of SupplierProtocol, so ChainInv holds in it: a delivered code is the   *)
(* booked one, and a settled unit is left alone. From that, what an audit  *)
(* has concluded from tables read at different moments stays true until it *)
(* is written down, and after.                                             *)
(***************************************************************************)
EXTENDS SupplierAudit, SupplierProtocolProofs

------------------------------------------------------------------------------
(* What a step of the passes leaves to the audit.                          *)

\* A unit is worked on only while it is pending.
LEMMA WorksOnPending ==
  ASSUME NEW i \in Items, PassOK(i), Undisturbed(i) \/ Disturbed(i)
  PROVE  itemStatus[i] = "pending"
<1>1. pass[i].pc # "idle" => itemStatus[i] = "pending"
  BY DEF PassOK
<1>2. CASE Begin(i)
  BY <1>2 DEF Begin
<1>3. CASE ~Begin(i)
  BY <1>1, <1>3 DEF Undisturbed, Disturbed, Turn, DecideRefund, Issues, OutOfStock,
       RecordOk, RecordOutOfStock, RecordNoAnswer, LookupFinds, LookupEmpty,
       VerifyEmpty, VerifyFinds, Complete, RejectTaken, Fails, TooLate, LeftInFlight,
       Unreachable, AnswersForeign, AnswersBookedTwice, Limited, LookupLimited,
       LookupFails, Crash
<1> QED
  BY <1>2, <1>3

LEMMA RoundsOnlyGrow ==
  ASSUME ChainInv, NEW i \in Items, Undisturbed(i) \/ Disturbed(i), NEW s \in Suppliers
  PROVE  rejected[i][s] <= rejected'[i][s]
<1>1. TypeOK /\ UnitOK(i) /\ rejected[i][s] \in Nat
  BY SupplierAssumption DEF ChainInv, UnitOK, TypeOK
<1>2. CASE VerifyEmpty(i) \/ RejectTaken(i)
  <2>1. Reject(i) /\ pass[i].pc \in Busy
    BY <1>2 DEF VerifyEmpty, RejectTaken, Busy
  <2>2. pass[i].at \in Suppliers
    BY <1>1, <2>1, ReqType DEF UnitOK
  <2>3. PICK t \in Suppliers : t = pass[i].at
    BY <2>2
  <2>4. /\ \A u \in Suppliers : u # t => rejected'[i][u] = rejected[i][u]
        /\ rejected'[i][t] = rejected[i][t] + 1
    BY <1>1, <2>1, <2>3, RejectEffect
  <2>5. CASE s = t
    BY <1>1, <2>4, <2>5
  <2>6. CASE s # t
    BY <1>1, <2>4, <2>6
  <2> QED
    BY <2>5, <2>6
<1>3. CASE ~(VerifyEmpty(i) \/ RejectTaken(i))
  <2>1. rejected' = rejected
    BY <1>3 DEF Undisturbed, Disturbed, Begin, Turn, DecideRefund, Issues, OutOfStock,
       RecordOk, RecordOutOfStock, RecordNoAnswer, LookupFinds, LookupEmpty,
       VerifyFinds, Complete, Fails, TooLate, LeftInFlight, Unreachable,
       AnswersForeign, AnswersBookedTwice, Limited, LookupLimited, LookupFails,
       Crash, tables
  <2> QED
    BY <1>1, <2>1
<1> QED
  BY <1>2, <1>3

\* What is settled for a unit that is decided.
Decided(i) ==
  /\ itemStatus'[i] = itemStatus[i]
  /\ deliveries'[i] = deliveries[i] /\ source'[i] = source[i]
  /\ rejected'[i] = rejected[i]

\* What holds of every step: books only grow, rounds only grow, and a decided
\* unit is left alone.
ChainKept ==
  /\ BookKept
  /\ \A i \in Items : itemStatus[i] # "pending" => Decided(i)
  /\ \A i \in Items : \A s \in Suppliers : rejected[i][s] <= rejected'[i][s]

LEMMA ChainKeeps ==
  ASSUME ChainInv, [Next]_vars
  PROVE  ChainKept
<1>1. /\ TypeOK
      /\ \A i \in Items : PassOK(i)
      /\ \A i \in Items : \A s \in Suppliers : rejected[i][s] \in Nat
  BY SupplierAssumption DEF ChainInv, TypeOK
<1>2. ASSUME NEW i \in Items, Undisturbed(i) \/ Disturbed(i)
      PROVE  ChainKept
  <2>1. Good(i)
    BY <1>2, ChainStepUnit
  <2>2. itemStatus[i] = "pending"
    BY <1>1, <1>2, WorksOnPending
  <2>3. \A j \in Items : itemStatus[j] # "pending" => Decided(j)
    BY <2>1, <2>2 DEF Good, Kept, Decided
  <2>4. ASSUME NEW j \in Items, NEW s \in Suppliers
        PROVE  rejected[j][s] <= rejected'[j][s]
    <3>1. CASE j = i
      BY <1>2, <3>1, RoundsOnlyGrow
    <3>2. CASE j # i
      BY <1>1, <2>1, <3>2 DEF Good, Kept
    <3> QED
      BY <3>1, <3>2
  <2> QED
    BY <2>1, <2>3, <2>4 DEF ChainKept, Good
<1>3. ASSUME NEW r \in flight, Lands(r)
      PROVE  ChainKept
  BY <1>1, <1>3, LandsKeeps DEF ChainKept, Kept, Decided
<1>4. CASE UNCHANGED vars
  BY <1>1, <1>4 DEF vars, tables, suppliersSide, ChainKept, BookKept, Decided
<1> QED
  BY <1>2, <1>3, <1>4 DEF Next

------------------------------------------------------------------------------
(* What was delivered, and what is claimed about it.                       *)

LEMMA DeliveredFacts ==
  ASSUME ChainInv, NEW e \in Entries, DeliveredCode(e) # NoCode
  PROVE  /\ e \in Requests /\ e[1] \in Items /\ e[2] \in Suppliers
         /\ itemStatus[e[1]] = "delivered"
         /\ DeliveredCode(e) = book[e]
<1>1. /\ e[1] \in Items /\ source[e[1]] = e[2] /\ Round(e[1], e[2]) = e[3]
      /\ DeliveredCode(e) = deliveries[e[1]]
  BY DEF DeliveredCode
<1>2. DeliveryOK(e[1]) /\ itemStatus[e[1]] = "delivered"
  BY <1>1 DEF ChainInv, DeliveryOK
<1>3. e[2] \in Suppliers /\ deliveries[e[1]] = book[Current(e[1], e[2])]
  BY <1>1, <1>2 DEF DeliveryOK
<1>4. e = <<e[1], e[2], e[3]>> /\ e[3] \in 1..MaxRounds
  BY DEF Entries, Requests
<1>5. e \in Requests
  BY <1>1, <1>3, <1>4 DEF Requests
<1>6. Current(e[1], e[2]) = e
  BY <1>1, <1>4 DEF Current
<1> QED
  BY <1>1, <1>2, <1>3, <1>5, <1>6

\* A unit that is decided keeps what it was delivered, or was not.
LEMMA DecidedCode ==
  ASSUME NEW e \in Entries, e \in Requests, Decided(e[1])
  PROVE  DeliveredCode(e)' = DeliveredCode(e)
<1>1. Round(e[1], e[2])' = Round(e[1], e[2])
  BY DEF Decided, Round
<1> QED
  BY <1>1 DEF DeliveredCode, Decided

LEMMA RoundGrows ==
  ASSUME ChainInv, ChainKept, TypeOK', NEW i \in Items, NEW s \in Suppliers,
         NEW n \in Nat, n < Round(i, s)
  PROVE  n < Round(i, s)'
<1>1. /\ rejected[i][s] \in Nat /\ rejected'[i][s] \in Nat
      /\ rejected[i][s] <= rejected'[i][s]
  BY SupplierAssumption DEF ChainInv, TypeOK, ChainKept
<1> QED
  BY <1>1 DEF Round

\* A claim that is true stays true.
LEMMA JustifiedStays ==
  ASSUME ChainInv, ChainKept, TypeOK', NEW e \in Entries, NEW kind, Justified(e, kind),
         forged[e] # NoCode => forged'[e] # NoCode,
         \A i \in refunded : itemStatus[i] = "refunding",
         refunded \subseteq refunded'
  PROVE  Justified(e, kind)'
<1>1. kind = "code_mismatch" => forged'[e] # NoCode /\ DeliveredCode(e)' # NoCode
  <2> SUFFICES ASSUME kind = "code_mismatch"
               PROVE  forged'[e] # NoCode /\ DeliveredCode(e)' # NoCode
    OBVIOUS
  <2>1. forged[e] # NoCode /\ DeliveredCode(e) # NoCode
    BY DEF Justified
  <2>2. e \in Requests /\ e[1] \in Items /\ itemStatus[e[1]] = "delivered"
    BY <2>1, DeliveredFacts
  <2>3. DeliveredCode(e)' = DeliveredCode(e)
    BY <2>2, DecidedCode DEF ChainKept
  <2> QED
    BY <2>1, <2>3
<1>2. kind = "unused_issue" => e \in Requests /\ Settled(e[1])'
  <2> SUFFICES ASSUME kind = "unused_issue"
               PROVE  e \in Requests /\ Settled(e[1])'
    OBVIOUS
  <2>1. e \in Requests /\ Settled(e[1])
    BY DEF Justified
  <2>2. e[1] \in Items
    BY <2>1 DEF Requests
  <2> QED
    BY <2>1, <2>2 DEF Settled, ChainKept, Decided
<1>3. kind = "rejected" => e \in Requests /\ e[3] < Round(e[1], e[2])'
  <2> SUFFICES ASSUME kind = "rejected"
               PROVE  e \in Requests /\ e[3] < Round(e[1], e[2])'
    OBVIOUS
  <2>1. e \in Requests /\ e[3] < Round(e[1], e[2])
    BY DEF Justified
  <2>2. e[1] \in Items /\ e[2] \in Suppliers /\ e[3] \in Nat
    BY <2>1, SupplierAssumption DEF Requests
  <2> QED
    BY <2>1, <2>2, RoundGrows
<1> QED
  BY <1>1, <1>2, <1>3 DEF Justified

------------------------------------------------------------------------------
(* AuditInv is inductive.                                                  *)

\* What every step does, seen from the audit.
Frame ==
  /\ ChainInv /\ ChainInv' /\ ChainKept
  /\ refunded \subseteq refunded'
  /\ \A e \in Entries : forged[e] # NoCode => forged'[e] = forged[e]

LEMMA StillJustified ==
  ASSUME AuditInv, Frame, NEW e \in Entries, NEW kind, Justified(e, kind)
  PROVE  Justified(e, kind)'
<1>1. ChainInv /\ ChainKept /\ TypeOK'
  BY DEF Frame, ChainInv
<1>2. /\ forged[e] # NoCode => forged'[e] # NoCode
      /\ refunded \subseteq refunded'
      /\ \A i \in refunded : itemStatus[i] = "refunding"
  BY DEF Frame, AuditInv
<1> QED
  BY <1>1, <1>2, JustifiedStays

\* What an audit has in memory stays true while others move.
LEMMA MemoryStays ==
  ASSUME AuditInv, Frame, NEW m \in AuditState, MemoryOK(m)
  PROVE  MemoryOK(m)'
<1>1. ASSUME NEW e \in Entries, m.book[e] # NoCode
      PROVE  forged'[e] # NoCode \/ (e \in Requests /\ m.book[e] = book'[e])
  <2>1. forged[e] # NoCode \/ (e \in Requests /\ m.book[e] = book[e])
    BY <1>1 DEF MemoryOK
  <2>2. CASE forged[e] # NoCode
    BY <2>2 DEF Frame
  <2>3. CASE e \in Requests /\ m.book[e] = book[e]
    BY <1>1, <2>3 DEF Frame, ChainKept, BookKept
  <2> QED
    BY <2>1, <2>2, <2>3
<1>2. ASSUME NEW f \in m.todo
      PROVE  f[2] \notin {"rejected", "corrected"} /\ Justified(f[1], f[2])'
  <2>1. f[1] \in Entries /\ f[2] \notin {"rejected", "corrected"} /\ Justified(f[1], f[2])
    BY DEF MemoryOK, AuditState
  <2> QED
    BY <2>1, StillJustified
<1> QED
  BY <1>1, <1>2 DEF MemoryOK

LEMMA FindingsStay ==
  ASSUME AuditInv, Frame
  PROVE  \A f \in discrepancies : Justified(f[1], f[2])'
<1> SUFFICES ASSUME NEW f \in discrepancies PROVE Justified(f[1], f[2])'
  OBVIOUS
<1>1. f[1] \in Entries /\ Justified(f[1], f[2])
  BY DEF AuditInv, AuditTypeOK, AccusationsAreTrue
<1> QED
  BY <1>1, StillJustified

LEMMA RefundsStay ==
  ASSUME AuditInv, Frame, NEW i \in Items, i \in refunded
  PROVE  itemStatus'[i] = "refunding"
BY DEF AuditInv, AuditTypeOK, Frame, ChainKept, Decided

\* The audits are as they were, or one has moved to a state that is true.
LEMMA AuditsStay ==
  ASSUME AuditInv, Frame, UNCHANGED audit, NEW a \in Auditors
  PROVE  MemoryOK(audit[a])'
<1>1. PICK m \in AuditState : m = audit[a]
  BY DEF AuditInv, AuditTypeOK
<1>2. MemoryOK(m)'
  BY <1>1, MemoryStays DEF AuditInv
<1>3. audit'[a] = m
  BY <1>1
<1> QED
  BY <1>2, <1>3 DEF MemoryOK

\* A step of the audit a to m, that may write down one of its findings.
LEMMA AuditMoves ==
  ASSUME AuditInv, Frame, NEW a \in Auditors, NEW m \in AuditState, MemoryOK(m),
         audit' = [audit EXCEPT ![a] = m],
         UNCHANGED <<vars, attempts, refunded, forged>>,
         mishaps' \in 0..MaxMishaps,
         \/ UNCHANGED discrepancies
         \/ \E f \in audit[a].todo : Notes(f[1], f[2])
  PROVE  AuditInv'
<1>1. /\ audit' \in [Auditors -> AuditState] /\ audit'[a] = m
      /\ \A b \in Auditors : b # a => audit'[b] = audit[b]
  BY DEF AuditInv, AuditTypeOK
<1>2. ASSUME NEW b \in Auditors
      PROVE  MemoryOK(audit[b])'
  <2>1. PICK n \in AuditState : n = audit'[b] /\ MemoryOK(n)
    BY <1>1 DEF AuditInv, AuditTypeOK
  <2>2. MemoryOK(n)'
    BY <2>1, MemoryStays
  <2> QED
    BY <2>1, <2>2 DEF MemoryOK
<1>3. discrepancies' \subseteq Entries \X Kinds /\ AccusationsAreTrue'
  <2>1. CASE UNCHANGED discrepancies
    BY <2>1, FindingsStay DEF AuditInv, AuditTypeOK, AccusationsAreTrue
  <2>2. CASE \E f \in audit[a].todo : Notes(f[1], f[2])
    <3>1. PICK f \in audit[a].todo : discrepancies' = discrepancies \cup {<<f[1], f[2]>>}
      BY <2>2 DEF Notes
    <3>2. f \in Entries \X Kinds /\ f[1] \in Entries /\ Justified(f[1], f[2])
      BY DEF AuditInv, AuditTypeOK, AuditState, MemoryOK
    <3>3. Justified(f[1], f[2])' /\ f = <<f[1], f[2]>>
      BY <3>2, StillJustified
    <3>4. \A g \in discrepancies : Justified(g[1], g[2])'
      BY FindingsStay
    <3>5. discrepancies' = discrepancies \cup {f}
      BY <3>1, <3>3
    <3>6. AccusationsAreTrue'
      BY <3>3, <3>4, <3>5 DEF AccusationsAreTrue
    <3> QED
      BY <3>2, <3>5, <3>6 DEF AuditInv, AuditTypeOK
  <2> QED
    BY <2>1, <2>2
<1>4. AuditTypeOK' /\ \A i \in refunded' : itemStatus'[i] = "refunding"
  BY <1>1, <1>3 DEF AuditInv, AuditTypeOK, vars, tables
<1> QED
  BY <1>2, <1>3, <1>4 DEF AuditInv

\* Steps of the passes: the audits stand still.
LEMMA OthersMove ==
  ASSUME AuditInv, Frame, UNCHANGED audit, AuditTypeOK',
         \A f \in discrepancies' \ discrepancies : Justified(f[1], f[2])',
         \A i \in refunded' \ refunded : itemStatus'[i] = "refunding"
  PROVE  AuditInv'
<1>1. AccusationsAreTrue'
  BY FindingsStay DEF AccusationsAreTrue
<1>2. \A i \in refunded' : itemStatus'[i] = "refunding"
  BY RefundsStay DEF AuditInv, AuditTypeOK
<1> QED
  BY <1>1, <1>2, AuditsStay DEF AuditInv

------------------------------------------------------------------------------
(* Step by step.                                                           *)

\* Every step is one of SupplierProtocol, or leaves its variables alone.
LEMMA ChainMoves == [AuditNext]_allVars => [Next]_vars
<1>1. ASSUME NEW i \in Items, PassStep(i)
      PROVE  Next
  <2>1. Undisturbed(i)
    BY <1>1 DEF PassStep, Attempts, Rejects, TakesFromBook, Verifies, Silent, Undisturbed
  <2> QED
    BY <2>1 DEF Next
<1>2. ASSUME NEW i \in Items, PassDisturbed(i)
      PROVE  Next
  BY <1>2 DEF PassDisturbed, Next
<1>3. ASSUME NEW r \in flight, LandsUnseen(r)
      PROVE  Next
  BY <1>3 DEF LandsUnseen, Next
<1>4. ASSUME NEW i \in Items, RefundDone(i)
      PROVE  UNCHANGED vars
  BY <1>4 DEF RefundDone
<1>5. ASSUME NEW e \in Entries, NEW c \in Codes, Forges(e, c)
      PROVE  UNCHANGED vars
  BY <1>5 DEF Forges
<1>6. ASSUME NEW a \in Auditors, AuditStep(a) \/ NoStatement(a) \/ AuditFails(a)
      PROVE  UNCHANGED vars
  BY <1>6 DEF AuditStep, AuditStarts, ReadStatement, ReadDeliveries, ReadRequests,
       ReadExplained, Record, NextSupplier, AuditEnds, NoStatement, AuditFails, Audits
<1>7. CASE UNCHANGED allVars
  BY <1>7 DEF allVars
<1> QED
  BY <1>1, <1>2, <1>3, <1>4, <1>5, <1>6, <1>7 DEF AuditNext

LEMMA StepFrame ==
  ASSUME ChainInv, AuditInv, [AuditNext]_allVars
  PROVE  Frame
<1>1. [Next]_vars
  BY ChainMoves
<1>2. ChainInv' /\ ChainKept
  BY <1>1, ChainStep, ChainKeeps
<1>3. /\ refunded \subseteq refunded'
      /\ \A e \in Entries : forged[e] # NoCode => forged'[e] = forged[e]
  <2>1. ASSUME NEW e \in Entries, NEW c \in Codes, Forges(e, c)
        PROVE  <1>3!1 /\ <1>3!2
    BY <2>1 DEF Forges, AuditInv, AuditTypeOK
  <2>2. CASE UNCHANGED <<refunded, forged>>
    BY <2>2
  <2>3. ASSUME NEW i \in Items, RefundDone(i)
        PROVE  <1>3!1 /\ <1>3!2
    BY <2>3 DEF RefundDone
  <2>4. ASSUME NEW i \in Items, PassStep(i) \/ PassDisturbed(i)
        PROVE  UNCHANGED <<refunded, forged>>
    BY <2>4 DEF PassStep, PassDisturbed, auditTables
  <2>5. ASSUME NEW r \in flight, LandsUnseen(r)
        PROVE  UNCHANGED <<refunded, forged>>
    BY <2>5 DEF LandsUnseen, auditTables
  <2>6. ASSUME NEW a \in Auditors, AuditStep(a) \/ NoStatement(a) \/ AuditFails(a)
        PROVE  UNCHANGED <<refunded, forged>>
    BY <2>6 DEF AuditStep, AuditStarts, ReadStatement, ReadDeliveries, ReadRequests,
         ReadExplained, Record, NextSupplier, AuditEnds, NoStatement, AuditFails, Audits
  <2>7. CASE UNCHANGED allVars
    BY <2>7 DEF allVars, auditTables
  <2> QED
    BY <2>1, <2>2, <2>3, <2>4, <2>5, <2>6, <2>7 DEF AuditNext
<1> QED
  BY <1>2, <1>3 DEF Frame

LEMMA PassAudited ==
  ASSUME AuditInv, Frame, NEW i \in Items, PassStep(i)
  PROVE  AuditInv'
<1>1. UNCHANGED <<refunded, forged, audit, mishaps>>
  BY DEF PassStep
<1>2. TypeOK /\ PassOK(i) /\ UnitOK(i)
  BY DEF Frame, ChainInv, UnitOK
<1>3. pass[i].pc \in Busy => Req(i) \in Requests /\ pass[i].at \in Suppliers
  BY <1>2, ReqType
<1>4. PICK r : r = Req(i)
  OBVIOUS
<1>5. CASE Attempts(i)
  <2>1. r \in Requests /\ attempts' = attempts \cup {r} /\ UNCHANGED discrepancies
    BY <1>3, <1>4, <1>5 DEF Attempts, RecordOk, RecordOutOfStock, RecordNoAnswer, Busy
  <2> QED
    BY <1>1, <2>1, OthersMove DEF AuditInv, AuditTypeOK
<1>6. CASE Rejects(i)
  <2>1. Reject(i) /\ pass[i].pc \in Busy
    BY <1>6 DEF Rejects, VerifyEmpty, RejectTaken, Busy
  <2>2. PICK s \in Suppliers : s = pass[i].at
    BY <1>3, <2>1
  <2>3. /\ r \in Requests /\ r = Current(i, s)
        /\ rejected[i][s] \in 0..MaxRounds
    BY <1>2, <1>3, <1>4, <2>1, <2>2, ReqType
  <2>4. rejected'[i][s] = rejected[i][s] + 1
    BY <1>2, <2>1, <2>2, RejectEffect
  <2>5. discrepancies' = discrepancies \cup {<<r, "rejected">>} /\ UNCHANGED attempts
    BY <1>4, <1>6 DEF Rejects, Notes
  <2>6. r[1] = i /\ r[2] = s /\ r[3] < Round(i, s)'
    BY <2>3, <2>4, SupplierAssumption DEF Current, Round
  <2>7. Justified(r, "rejected")'
    BY <2>3, <2>6 DEF Justified
  <2>8. r \in Entries /\ "rejected" \in Kinds
    BY <2>3 DEF Entries, Kinds
  <2> QED
    BY <1>1, <2>5, <2>7, <2>8, OthersMove DEF AuditInv, AuditTypeOK
<1>7. CASE TakesFromBook(i) \/ Verifies(i)
  <2>1. /\ r \in Requests /\ UNCHANGED attempts
        /\ discrepancies' \in {discrepancies, discrepancies \cup {<<r, "corrected">>}}
    BY <1>3, <1>4, <1>7 DEF TakesFromBook, Verifies, LookupFinds, VerifyFinds, Busy, Notes
  <2>2. Justified(r, "corrected")'
    BY DEF Justified
  <2>3. r \in Entries /\ "corrected" \in Kinds
    BY <2>1 DEF Entries, Kinds
  <2> QED
    BY <1>1, <2>1, <2>2, <2>3, OthersMove DEF AuditInv, AuditTypeOK
<1>8. CASE Silent(i)
  BY <1>1, <1>8, OthersMove DEF Silent, AuditInv, AuditTypeOK
<1> QED
  BY <1>5, <1>6, <1>7, <1>8 DEF PassStep

LEMMA OutsideAudited ==
  ASSUME AuditInv, Frame,
         \/ \E i \in Items : PassDisturbed(i) \/ RefundDone(i)
         \/ \E r \in flight : LandsUnseen(r)
         \/ \E e \in Entries, c \in Codes : Forges(e, c)
  PROVE  AuditInv'
<1>1. CASE \/ \E i \in Items : PassDisturbed(i)
           \/ \E r \in flight : LandsUnseen(r)
  <2>1. UNCHANGED <<auditTables, audit, mishaps>>
    BY <1>1 DEF PassDisturbed, LandsUnseen
  <2> QED
    BY <2>1, OthersMove DEF AuditInv, AuditTypeOK, auditTables
<1>2. ASSUME NEW i \in Items, RefundDone(i)
      PROVE  AuditInv'
  BY <1>2, OthersMove DEF RefundDone, AuditInv, AuditTypeOK, vars, tables
<1>3. ASSUME NEW e \in Entries, NEW c \in Codes, Forges(e, c)
      PROVE  AuditInv'
  <2>1. /\ forged' \in [Entries -> Codes \cup {NoCode}]
        /\ mishaps' \in 0..MaxMishaps
        /\ UNCHANGED <<attempts, refunded, discrepancies, audit>>
    BY <1>3, AuditAssumption DEF Forges, Mishap, AuditInv, AuditTypeOK
  <2> QED
    BY <2>1, OthersMove DEF AuditInv, AuditTypeOK
<1> QED
  BY <1>1, <1>2, <1>3

LEMMA AsleepType ==
  /\ NoBook \in [Entries -> Codes \cup {NoCode}]
  /\ \A e \in Entries : NoBook[e] = NoCode
  /\ Asleep \in AuditState
BY DEF NoBook, Asleep, AuditState

\* The supplier's statement is what it has booked, or has forged.
LEMMA ReadStatementAudited ==
  ASSUME AuditInv, Frame, NEW a \in Auditors, ReadStatement(a)
  PROVE  AuditInv'
<1>1. PICK s \in audit[a].left :
        audit' = [audit EXCEPT ![a] = [audit[a] EXCEPT !.pc = "deliveries", !.left = @ \ {s},
          !.book = [e \in Entries |-> IF e[2] = s THEN Shown(e) ELSE NoCode]]]
  BY DEF ReadStatement, Audits
<1>2. PICK b \in [Entries -> Codes \cup {NoCode}] :
        b = [e \in Entries |-> IF e[2] = s THEN Shown(e) ELSE NoCode]
  <2>1. \A e \in Entries : Shown(e) \in Codes \cup {NoCode}
    BY DEF Shown, AuditInv, AuditTypeOK, Frame, ChainInv, TypeOK
  <2> QED
    BY <2>1
<1>3. audit[a] \in AuditState /\ MemoryOK(audit[a])
  BY DEF AuditInv, AuditTypeOK
<1>4. PICK m \in AuditState :
        /\ m = [audit[a] EXCEPT !.pc = "deliveries", !.left = @ \ {s}, !.book = b]
        /\ m.book = b /\ m.todo = audit[a].todo
  <2> DEFINE q == [audit[a] EXCEPT !.pc = "deliveries", !.left = @ \ {s}, !.book = b]
  <2>1. q \in AuditState
    BY <1>3 DEF AuditState
  <2>2. q.book = b /\ q.todo = audit[a].todo
    BY <1>3 DEF AuditState
  <2> HIDE DEF q
  <2> QED
    BY <2>1, <2>2 DEF q
<1>5. \A e \in Entries : b[e] # NoCode =>
        forged[e] # NoCode \/ (e \in Requests /\ b[e] = book[e])
  BY <1>2 DEF Shown
<1>6. MemoryOK(m)
  BY <1>3, <1>4, <1>5 DEF MemoryOK
<1>7. audit' = [audit EXCEPT ![a] = m]
  BY <1>1, <1>2, <1>4
<1> QED
  BY <1>6, <1>7, AuditMoves DEF ReadStatement, Audits, AuditInv, AuditTypeOK

\* A delivered code is the booked one: if the statement says otherwise, it
\* was forged before the statement was read.
LEMMA ReadDeliveriesAudited ==
  ASSUME AuditInv, Frame, NEW a \in Auditors, ReadDeliveries(a)
  PROVE  AuditInv'
<1> DEFINE booked == {e \in Entries : audit[a].book[e] # NoCode}
           rest == {e \in booked : DeliveredCode(e) = NoCode}
           todo == {<<e, "code_mismatch">> : e \in
                      {d \in booked : DeliveredCode(d) \notin {NoCode, audit[a].book[d]}}}
<1>1. audit' = [audit EXCEPT ![a] = [audit[a] EXCEPT !.pc = "requests", !.book = NoBook,
                                       !.rest = rest, !.todo = todo]]
  BY DEF ReadDeliveries, Audits
<1>2. audit[a] \in AuditState /\ MemoryOK(audit[a])
  BY DEF AuditInv, AuditTypeOK
<1>3. rest \in SUBSET Entries /\ todo \in SUBSET (Entries \X Kinds)
  BY DEF Kinds
<1>4. \A f \in todo : f[2] \notin {"rejected", "corrected"} /\ Justified(f[1], f[2])
  <2> SUFFICES ASSUME NEW f \in todo
               PROVE  f[2] \notin {"rejected", "corrected"} /\ Justified(f[1], f[2])
    OBVIOUS
  <2>1. PICK e \in Entries : /\ f = <<e, "code_mismatch">>
                             /\ audit[a].book[e] # NoCode
                             /\ DeliveredCode(e) \notin {NoCode, audit[a].book[e]}
    OBVIOUS
  <2>2. DeliveredCode(e) = book[e]
    BY <2>1, DeliveredFacts DEF Frame
  <2>3. forged[e] # NoCode
    BY <1>2, <2>1, <2>2 DEF MemoryOK
  <2> QED
    BY <2>1, <2>3 DEF Justified
<1> HIDE DEF rest, todo, booked
<1>5. PICK m \in AuditState :
        /\ m = [audit[a] EXCEPT !.pc = "requests", !.book = NoBook, !.rest = rest, !.todo = todo]
        /\ m.book = NoBook /\ m.todo = todo
  <2> DEFINE q == [audit[a] EXCEPT !.pc = "requests", !.book = NoBook, !.rest = rest, !.todo = todo]
  <2>1. q \in AuditState
    BY <1>2, <1>3, AsleepType DEF AuditState
  <2>2. q.book = NoBook /\ q.todo = todo
    BY <1>2, <1>3, AsleepType DEF AuditState
  <2> HIDE DEF q
  <2> QED
    BY <2>1, <2>2 DEF q
<1>6. MemoryOK(m)
  BY <1>4, <1>5, AsleepType DEF MemoryOK
<1> QED
  BY <1>1, <1>5, <1>6, AuditMoves DEF ReadDeliveries, Audits, AuditInv, AuditTypeOK

\* Only a unit that is settled when its status is read counts as done without
\* the code.
LEMMA ReadRequestsAudited ==
  ASSUME AuditInv, Frame, NEW a \in Auditors, ReadRequests(a)
  PROVE  AuditInv'
<1> DEFINE todo == audit[a].todo
              \cup {<<e, "unknown_request">> : e \in audit[a].rest \ attempts}
              \cup {<<e, "unused_issue">> : e \in {d \in audit[a].rest : Unused(d)}}
<1>1. audit' = [audit EXCEPT ![a] = [audit[a] EXCEPT !.pc = "explained", !.rest = {},
                                       !.todo = todo]]
  BY DEF ReadRequests, Audits
<1>2. audit[a] \in AuditState /\ MemoryOK(audit[a]) /\ attempts \subseteq Requests
  BY DEF AuditInv, AuditTypeOK
<1>3. todo \in SUBSET (Entries \X Kinds)
  BY <1>2 DEF Kinds, AuditState
<1>4. \A f \in todo : f[2] \notin {"rejected", "corrected"} /\ Justified(f[1], f[2])
  <2> SUFFICES ASSUME NEW f \in todo
               PROVE  f[2] \notin {"rejected", "corrected"} /\ Justified(f[1], f[2])
    OBVIOUS
  <2>1. CASE f \in audit[a].todo
    BY <1>2, <2>1 DEF MemoryOK
  <2>2. CASE f \in {<<e, "unknown_request">> : e \in audit[a].rest \ attempts}
    BY <2>2 DEF Justified
  <2>3. CASE f \in {<<e, "unused_issue">> : e \in {d \in audit[a].rest : Unused(d)}}
    BY <1>2, <2>3 DEF Justified, Unused
  <2> QED
    BY <2>1, <2>2, <2>3
<1> HIDE DEF todo
<1>5. PICK m \in AuditState :
        /\ m = [audit[a] EXCEPT !.pc = "explained", !.rest = {}, !.todo = todo]
        /\ m.book = audit[a].book /\ m.todo = todo
  <2> DEFINE q == [audit[a] EXCEPT !.pc = "explained", !.rest = {}, !.todo = todo]
  <2>1. q \in AuditState
    BY <1>2, <1>3 DEF AuditState
  <2>2. q.book = audit[a].book /\ q.todo = todo
    BY <1>2, <1>3 DEF AuditState
  <2> HIDE DEF q
  <2> QED
    BY <2>1, <2>2 DEF q
<1>6. MemoryOK(m)
  BY <1>2, <1>4, <1>5 DEF MemoryOK
<1> QED
  BY <1>1, <1>5, <1>6, AuditMoves DEF ReadRequests, Audits, AuditInv, AuditTypeOK

\* The other steps forget findings, or write them down.
LEMMA ForgetfulAudited ==
  ASSUME AuditInv, Frame, NEW a \in Auditors, NEW m \in AuditState,
         audit' = [audit EXCEPT ![a] = m],
         UNCHANGED <<vars, attempts, refunded, forged>>,
         mishaps' \in 0..MaxMishaps,
         m.book = NoBook \/ m.book = audit[a].book,
         m.todo \subseteq audit[a].todo,
         \/ UNCHANGED discrepancies
         \/ \E f \in audit[a].todo : Notes(f[1], f[2])
  PROVE  AuditInv'
<1>1. MemoryOK(audit[a])
  BY DEF AuditInv
<1>2. MemoryOK(m)
  BY <1>1, AsleepType DEF MemoryOK
<1> QED
  BY <1>2, AuditMoves

LEMMA OtherStepsAudited ==
  ASSUME AuditInv, Frame, NEW a \in Auditors,
         \/ AuditStarts(a) \/ ReadExplained(a) \/ Record(a) \/ NextSupplier(a)
         \/ AuditEnds(a) \/ NoStatement(a) \/ AuditFails(a)
  PROVE  AuditInv'
<1>1. audit[a] \in AuditState /\ UNCHANGED <<vars, attempts, refunded, forged>>
  BY DEF AuditInv, AuditTypeOK, AuditStarts, ReadExplained, Record, NextSupplier,
     AuditEnds, NoStatement, AuditFails, Audits
<1>2. mishaps' \in 0..MaxMishaps
  BY AuditAssumption DEF AuditInv, AuditTypeOK, AuditStarts, ReadExplained, Record,
     NextSupplier, AuditEnds, NoStatement, AuditFails, Mishap
<1>3. CASE AuditEnds(a) \/ AuditFails(a)
  <2>1. audit' = [audit EXCEPT ![a] = Asleep] /\ UNCHANGED discrepancies
    BY <1>3 DEF AuditEnds, AuditFails, Audits
  <2> QED
    BY <1>1, <1>2, <2>1, AsleepType, ForgetfulAudited DEF Asleep
<1>4. CASE AuditStarts(a)
  <2>1. PICK m \in AuditState :
          /\ m = [Asleep EXCEPT !.pc = "statement", !.left = Suppliers]
          /\ m.book = NoBook /\ m.todo = {}
    <3> DEFINE q == [Asleep EXCEPT !.pc = "statement", !.left = Suppliers]
    <3>1. q \in AuditState
      BY AsleepType DEF Asleep, AuditState
    <3>2. q.book = NoBook /\ q.todo = {}
      BY AsleepType DEF Asleep, AuditState
    <3> HIDE DEF q
    <3> QED
      BY <3>1, <3>2 DEF q
  <2> QED
    BY <1>1, <1>2, <1>4, <2>1, ForgetfulAudited DEF AuditStarts, Audits
<1>5. CASE ReadExplained(a)
  <2>1. PICK m \in AuditState :
          /\ m = [audit[a] EXCEPT !.pc = "record", !.todo = {f \in @ : ~Explained(f[1])}]
          /\ m.book = audit[a].book /\ m.todo \subseteq audit[a].todo
    <3> DEFINE q == [audit[a] EXCEPT !.pc = "record", !.todo = {f \in @ : ~Explained(f[1])}]
    <3>1. q \in AuditState
      BY <1>1 DEF AuditState
    <3>2. q.book = audit[a].book /\ q.todo \subseteq audit[a].todo
      BY <1>1 DEF AuditState
    <3> HIDE DEF q
    <3> QED
      BY <3>1, <3>2 DEF q
  <2> QED
    BY <1>1, <1>2, <1>5, <2>1, ForgetfulAudited DEF ReadExplained, Audits
<1>6. CASE Record(a)
  <2>1. PICK f \in audit[a].todo :
          /\ Notes(f[1], f[2])
          /\ audit' = [audit EXCEPT ![a] = [audit[a] EXCEPT !.todo = @ \ {f}]]
    BY <1>6 DEF Record, Audits
  <2>2. PICK m \in AuditState :
          /\ m = [audit[a] EXCEPT !.todo = @ \ {f}]
          /\ m.book = audit[a].book /\ m.todo \subseteq audit[a].todo
    <3> DEFINE q == [audit[a] EXCEPT !.todo = @ \ {f}]
    <3>1. q \in AuditState
      BY <1>1 DEF AuditState
    <3>2. q.book = audit[a].book /\ q.todo \subseteq audit[a].todo
      BY <1>1 DEF AuditState
    <3> HIDE DEF q
    <3> QED
      BY <3>1, <3>2 DEF q
  <2> QED
    BY <1>1, <1>2, <2>1, <2>2, ForgetfulAudited
<1>7. CASE NextSupplier(a)
  <2>1. PICK m \in AuditState :
          /\ m = [audit[a] EXCEPT !.pc = "statement"]
          /\ m.book = audit[a].book /\ m.todo = audit[a].todo
    <3> DEFINE q == [audit[a] EXCEPT !.pc = "statement"]
    <3>1. q \in AuditState
      BY <1>1 DEF AuditState
    <3>2. q.book = audit[a].book /\ q.todo = audit[a].todo
      BY <1>1 DEF AuditState
    <3> HIDE DEF q
    <3> QED
      BY <3>1, <3>2 DEF q
  <2> QED
    BY <1>1, <1>2, <1>7, <2>1, ForgetfulAudited DEF NextSupplier, Audits
<1>8. CASE NoStatement(a)
  <2>1. PICK s \in audit[a].left :
          audit' = [audit EXCEPT ![a] = [audit[a] EXCEPT !.left = @ \ {s}]]
    BY <1>8 DEF NoStatement, Audits
  <2>2. PICK m \in AuditState :
          /\ m = [audit[a] EXCEPT !.left = @ \ {s}]
          /\ m.book = audit[a].book /\ m.todo = audit[a].todo
    <3> DEFINE q == [audit[a] EXCEPT !.left = @ \ {s}]
    <3>1. q \in AuditState
      BY <1>1 DEF AuditState
    <3>2. q.book = audit[a].book /\ q.todo = audit[a].todo
      BY <1>1 DEF AuditState
    <3> HIDE DEF q
    <3> QED
      BY <3>1, <3>2 DEF q
  <2> QED
    BY <1>1, <1>2, <1>8, <2>1, <2>2, ForgetfulAudited DEF NoStatement
<1> QED
  BY <1>3, <1>4, <1>5, <1>6, <1>7, <1>8

------------------------------------------------------------------------------
(* The theorems.                                                           *)

LEMMA AuditInvInit == AuditInit => AuditInv
<1> SUFFICES ASSUME AuditInit PROVE AuditInv
  OBVIOUS
<1>1. AuditTypeOK
  BY AsleepType, AuditAssumption DEF AuditInit, AuditTypeOK
<1>2. ASSUME NEW a \in Auditors
      PROVE  MemoryOK(audit[a])
  BY AsleepType DEF AuditInit, MemoryOK, Asleep
<1> QED
  BY <1>1, <1>2 DEF AuditInit, AuditInv, AccusationsAreTrue

LEMMA AuditInvStep ==
  ASSUME ChainInv, AuditInv, [AuditNext]_allVars
  PROVE  AuditInv'
<1>1. Frame
  BY StepFrame
<1>2. CASE \E i \in Items : PassStep(i)
  BY <1>1, <1>2, PassAudited
<1>3. CASE \/ \E i \in Items : PassDisturbed(i) \/ RefundDone(i)
           \/ \E r \in flight : LandsUnseen(r)
           \/ \E e \in Entries, c \in Codes : Forges(e, c)
  BY <1>1, <1>3, OutsideAudited
<1>4. CASE \E a \in Auditors : AuditStep(a) \/ NoStatement(a) \/ AuditFails(a)
  BY <1>1, <1>4, ReadStatementAudited, ReadDeliveriesAudited, ReadRequestsAudited,
     OtherStepsAudited DEF AuditStep
<1>5. CASE UNCHANGED allVars
  BY <1>1, <1>5, OthersMove DEF allVars, auditTables, AuditInv, AuditTypeOK
<1> QED
  BY <1>2, <1>3, <1>4, <1>5 DEF AuditNext

\* The audit takes no part in deliveries: with it, and whatever the suppliers
\* forge afterwards, the passes behave as in SupplierProtocol.
THEOREM AuditOnlyWatches == AuditSpec => Spec
<1>1. AuditInit => Init
  BY DEF AuditInit
<1> QED
  BY <1>1, ChainMoves, PTL DEF AuditSpec, Spec

\* The inductive invariant of the audit holds in every reachable state.
THEOREM AuditCorrect == AuditSpec => []AuditInv
<1>1. AuditSpec => []ChainInv
  BY AuditOnlyWatches, ChainCorrect, PTL
<1>2. AuditInit => AuditInv
  BY AuditInvInit
<1>3. ChainInv /\ AuditInv /\ [AuditNext]_allVars => AuditInv'
  BY AuditInvStep
<1> QED
  BY <1>1, <1>2, <1>3, PTL DEF AuditSpec

\* However deliveries go on between its reads, the audit accuses no supplier of
\* a change that did not happen, and calls no unit settled that is not.
THEOREM AccusationsHold == AuditSpec => []AccusationsAreTrue
<1>1. AuditInv => AccusationsAreTrue
  BY DEF AuditInv
<1> QED
  BY <1>1, AuditCorrect, PTL

\* A code that was written off and that nobody has is never handed out later.
THEOREM WrittenOffForGood == AuditSpec => WrittenOffStaysOff
<1> DEFINE Stays == \A e \in Entries, kind \in {"rejected", "unused_issue"} :
       <<e, kind>> \in discrepancies /\ DeliveredCode(e) = NoCode
         => DeliveredCode(e)' = NoCode
<1>1. ChainInv /\ AuditInv /\ [AuditNext]_allVars => [Stays]_allVars
  <2> SUFFICES ASSUME ChainInv, AuditInv, [AuditNext]_allVars,
                      NEW e \in Entries, NEW kind \in {"rejected", "unused_issue"},
                      <<e, kind>> \in discrepancies, DeliveredCode(e) = NoCode
               PROVE  DeliveredCode(e)' = NoCode
    OBVIOUS
  <2>1. Frame /\ TypeOK'
    BY StepFrame DEF Frame, ChainInv
  <2>2. e \in Requests /\ e[1] \in Items /\ e[2] \in Suppliers
    BY DEF AuditInv, AccusationsAreTrue, Justified, Requests
  <2>3. CASE kind = "unused_issue"
    <3>1. Settled(e[1])
      BY <2>3 DEF AuditInv, AccusationsAreTrue, Justified
    <3>2. itemStatus[e[1]] # "pending"
      BY <3>1 DEF Settled, AuditInv
    <3> QED
      BY <2>1, <2>2, <3>2, DecidedCode DEF Frame, ChainKept
  <2>4. CASE kind = "rejected"
    <3>1. e[3] < Round(e[1], e[2]) /\ e[3] \in Nat
      BY <2>2, <2>4, SupplierAssumption DEF AuditInv, AccusationsAreTrue, Justified, Requests
    <3>2. e[3] < Round(e[1], e[2])'
      BY <2>1, <2>2, <3>1, RoundGrows DEF Frame
    <3>3. Round(e[1], e[2])' \in Nat
      BY <2>1, <2>2, SupplierAssumption DEF TypeOK, Round
    <3>4. Round(e[1], e[2])' # e[3]
      BY <3>1, <3>2, <3>3
    <3> QED
      BY <2>2, <3>4 DEF DeliveredCode
  <2> QED
    BY <2>3, <2>4
<1>2. AuditSpec => []ChainInv
  BY AuditOnlyWatches, ChainCorrect, PTL
<1> QED
  BY <1>1, <1>2, AuditCorrect, PTL DEF AuditSpec, WrittenOffStaysOff

------------------------------------------------------------------------------
(* Reconciliation's list of mismatches.                                    *)

\* A supplier can only have changed an entry away from what was delivered.
ForgedInv ==
  \A e \in Requests : forged[e] # NoCode => DeliveredCode(e) \notin {NoCode, forged[e]}

LEMMA ForgedStep ==
  ASSUME ChainInv, AuditInv, ForgedInv, [AuditNext]_allVars
  PROVE  ForgedInv'
<1> SUFFICES ASSUME NEW e \in Requests, forged'[e] # NoCode
             PROVE  DeliveredCode(e)' \notin {NoCode, forged'[e]}
  BY DEF ForgedInv
<1>1. Frame /\ e \in Entries /\ e[1] \in Items
  BY StepFrame DEF Entries, Requests
<1>2. CASE forged[e] # NoCode
  <2>1. forged'[e] = forged[e] /\ DeliveredCode(e) \notin {NoCode, forged[e]}
    BY <1>1, <1>2 DEF Frame, ForgedInv
  <2>2. itemStatus[e[1]] = "delivered"
    BY <1>1, <2>1, DeliveredFacts
  <2>3. DeliveredCode(e)' = DeliveredCode(e)
    BY <1>1, <2>2, DecidedCode DEF Frame, ChainKept
  <2> QED
    BY <2>1, <2>3
<1>3. CASE forged[e] = NoCode
  <2>1. PICK d \in Entries, c \in Codes : Forges(d, c)
    <3>1. forged' # forged
      BY <1>3
    <3> QED
      BY <3>1 DEF AuditNext, allVars, auditTables, PassStep, PassDisturbed, RefundDone,
           LandsUnseen, AuditStep, AuditStarts, ReadStatement, ReadDeliveries, ReadRequests,
           ReadExplained, Record, NextSupplier, AuditEnds, NoStatement, AuditFails, Audits
  <2>2. d = e /\ forged'[e] = c
    BY <1>1, <1>3, <2>1 DEF Forges, AuditInv, AuditTypeOK
  <2>3. DeliveredCode(e) # NoCode /\ Shown(e) # c /\ UNCHANGED vars
    BY <2>1, <2>2 DEF Forges
  <2>4. DeliveredCode(e) = book[e] /\ Shown(e) = book[e]
    BY <1>1, <1>3, <2>3, DeliveredFacts DEF Shown
  <2>5. DeliveredCode(e)' = DeliveredCode(e)
    BY <2>3 DEF vars, tables, DeliveredCode, Round
  <2> QED
    BY <2>2, <2>3, <2>4, <2>5
<1> QED
  BY <1>2, <1>3

\* Reconciliation lists the delivered entries the supplier changed, and no other,
\* for any suppliers, units and disturbances (accept, complete, report).
THEOREM MismatchListIsExact == AuditSpec => []MismatchesAreForged
<1>1. ChainInv /\ ForgedInv => MismatchesAreForged
  <2> SUFFICES ASSUME ChainInv, ForgedInv, NEW e \in Entries
               PROVE  e \in CodeMismatches <=> e \in Requests /\ forged[e] # NoCode
    BY DEF MismatchesAreForged, CodeMismatches, Entries
  <2>1. ASSUME e \in CodeMismatches PROVE e \in Requests /\ forged[e] # NoCode
    <3>1. DeliveredCode(e) # NoCode /\ DeliveredCode(e) # Shown(e)
      BY <2>1 DEF CodeMismatches
    <3>2. e \in Requests /\ DeliveredCode(e) = book[e]
      BY <3>1, DeliveredFacts
    <3> QED
      BY <3>1, <3>2 DEF Shown
  <2>2. ASSUME e \in Requests, forged[e] # NoCode PROVE e \in CodeMismatches
    BY <2>2 DEF ForgedInv, CodeMismatches, Shown
  <2> QED
    BY <2>1, <2>2
<1>2. AuditInit => ForgedInv
  BY DEF AuditInit, NoBook, ForgedInv, Entries
<1>3. ChainInv /\ AuditInv /\ ForgedInv /\ [AuditNext]_allVars => ForgedInv'
  BY ForgedStep
<1>4. AuditSpec => []ChainInv
  BY AuditOnlyWatches, ChainCorrect, PTL
<1> QED
  BY <1>1, <1>2, <1>3, <1>4, AuditCorrect, PTL DEF AuditSpec
=============================================================================
