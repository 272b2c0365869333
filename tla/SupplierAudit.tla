---------------------------- MODULE SupplierAudit ----------------------------
(***************************************************************************)
(* The periodic audit of the suppliers' books, composed with the passes of *)
(* SupplierProtocol. An audit reads a supplier's statement, then, with a   *)
(* query each, the deliveries, the attempts with the status of their       *)
(* units, and the discrepancies already known; then it writes down what it *)
(* finds. Passes, suppliers and other audits go on in between.             *)
(***************************************************************************)
EXTENDS SupplierProtocol

CONSTANTS
  Auditors,   \* audits that may overlap: the timers of all instances
  NoItem,     \* stands for the unit of a request_id that is not one of ours
  MaxMishaps  \* bound: how often an audit fails or a supplier forges its book

ASSUME AuditAssumption == NoItem \notin Items /\ MaxMishaps \in Nat

\* The request_ids a book may show: ours, and any a supplier made up.
Entries == Requests \cup {NoItem} \X Suppliers \X (1..MaxRounds)

\* What is noted about a request_id. By a pass: the code was rejected
\* (duplicate_code, unbooked_code), or the answer was corrected from the book
\* (error_but_issued, code_mismatch). By the audit: the other three.
Kinds == {"rejected", "corrected", "code_mismatch", "unused_issue", "unknown_request"}

VARIABLES
  attempts,      \* delivery_attempts: the request_ids with a row
  refunded,      \* the units whose refund is carried out
  discrepancies, \* supplier_discrepancies, unique by request_id and kind
  forged,        \* what a supplier has written into its book unasked
  audit,         \* what a running audit holds in memory
  mishaps        \* failed audits and forgeries so far

auditTables == <<attempts, refunded, discrepancies, forged>>
allVars == <<vars, auditTables, audit, mishaps>>

AuditState == [pc : {"idle", "statement", "deliveries", "requests", "explained", "record"},
               left : SUBSET Suppliers,               \* suppliers still to audit
               book : [Entries -> Codes \cup {NoCode}],
               rest : SUBSET Entries,                 \* booked, not delivered
               todo : SUBSET (Entries \X Kinds)]

NoBook == [e \in Entries |-> NoCode]
Asleep == [pc |-> "idle", left |-> {}, book |-> NoBook, rest |-> {}, todo |-> {}]

AuditTypeOK ==
  /\ attempts \subseteq Requests
  /\ refunded \subseteq Items
  /\ discrepancies \subseteq Entries \X Kinds
  /\ forged \in [Entries -> Codes \cup {NoCode}]
  /\ audit \in [Auditors -> AuditState]
  /\ mishaps \in 0..MaxMishaps

AuditInit ==
  /\ Init
  /\ attempts = {}
  /\ refunded = {}
  /\ discrepancies = {}
  /\ forged = NoBook
  /\ audit = [a \in Auditors |-> Asleep]
  /\ mishaps = 0

\* The code handed to a customer under this request_id.
DeliveredCode(e) ==
  IF e[1] \in Items /\ source[e[1]] = e[2] /\ Round(e[1], e[2]) = e[3]
    THEN deliveries[e[1]] ELSE NoCode

\* What the supplier's book shows under this request_id.
Shown(e) ==
  IF forged[e] # NoCode THEN forged[e]
  ELSE IF e \in Requests THEN book[e] ELSE NoCode

\* order_items.status is delivered or refunded.
Settled(i) == itemStatus[i] = "delivered" \/ i \in refunded

------------------------------------------------------------------------------
(* The passes, with the rows they leave to the audit, and the outside.     *)

Notes(e, kind) == discrepancies' = discrepancies \cup {<<e, kind>>}

\* Every answer of POST /issue leaves an attempt row.
Attempts(i) ==
  /\ RecordOk(i) \/ RecordOutOfStock(i) \/ RecordNoAnswer(i)
  /\ attempts' = attempts \cup {Req(i)}
  /\ UNCHANGED discrepancies

Rejects(i) ==
  /\ VerifyEmpty(i) \/ RejectTaken(i)
  /\ Notes(Req(i), "rejected")
  /\ UNCHANGED attempts

\* The book has a code after a 5xx. Of the earlier attempts of this pass the
\* model keeps only whether one timed out, so they may have met a 5xx or not.
TakesFromBook(i) ==
  /\ LookupFinds(i)
  /\ \/ /\ pass[i].answer = "error" \/ pass[i].attempt > 1
        /\ Notes(Req(i), "corrected")
     \/ pass[i].answer # "error" /\ UNCHANGED discrepancies
  /\ UNCHANGED attempts

Verifies(i) ==
  /\ VerifyFinds(i)
  /\ IF pass[i].code = book[Req(i)] THEN UNCHANGED discrepancies
                                    ELSE Notes(Req(i), "corrected")
  /\ UNCHANGED attempts

Silent(i) ==
  /\ \/ Begin(i) \/ Turn(i) \/ DecideRefund(i)
     \/ Issues(i) \/ OutOfStock(i) \/ LookupEmpty(i) \/ Complete(i)
  /\ UNCHANGED <<attempts, discrepancies>>

PassStep(i) ==
  /\ Attempts(i) \/ Rejects(i) \/ TakesFromBook(i) \/ Verifies(i) \/ Silent(i)
  /\ UNCHANGED <<refunded, forged, audit, mishaps>>

PassDisturbed(i) == Disturbed(i) /\ UNCHANGED <<auditTables, audit, mishaps>>

LandsUnseen(r) == Lands(r) /\ UNCHANGED <<auditTables, audit, mishaps>>

\* The money of a unit goes back.
RefundDone(i) ==
  /\ itemStatus[i] = "refunding" /\ i \notin refunded
  /\ refunded' = refunded \cup {i}
  /\ UNCHANGED <<vars, attempts, discrepancies, forged, audit, mishaps>>

Mishap == mishaps < MaxMishaps /\ mishaps' = mishaps + 1

\* A supplier changes an entry whose code is delivered, or makes one up.
Forges(e, c) ==
  /\ e \notin Requests \/ DeliveredCode(e) # NoCode
  /\ Shown(e) # c
  /\ Mishap
  /\ forged[e] = NoCode
  /\ forged' = [forged EXCEPT ![e] = c]
  /\ UNCHANGED <<vars, attempts, refunded, discrepancies, audit>>

------------------------------------------------------------------------------
(* audit(): supplier after supplier, read after read.                      *)

Audits(a, state) ==
  /\ audit' = [audit EXCEPT ![a] = state]
  /\ UNCHANGED <<vars, attempts, refunded, forged>>

AuditStarts(a) ==
  /\ audit[a].pc = "idle"
  /\ Audits(a, [Asleep EXCEPT !.pc = "statement", !.left = Suppliers])
  /\ UNCHANGED <<discrepancies, mishaps>>

ReadStatement(a) ==
  /\ audit[a].pc = "statement"
  /\ \E s \in audit[a].left :
       Audits(a, [audit[a] EXCEPT !.pc = "deliveries", !.left = @ \ {s},
                    !.book = [e \in Entries |-> IF e[2] = s THEN Shown(e) ELSE NoCode]])
  /\ UNCHANGED <<discrepancies, mishaps>>

\* The supplier has no statement to show, or the rate limit is spent on
\* deliveries: not in this audit.
NoStatement(a) ==
  /\ audit[a].pc = "statement"
  /\ \E s \in audit[a].left : Audits(a, [audit[a] EXCEPT !.left = @ \ {s}])
  /\ Mishap
  /\ UNCHANGED discrepancies

\* A delivered entry is done with here: it is right, or the book changed.
ReadDeliveries(a) ==
  LET booked == {e \in Entries : audit[a].book[e] # NoCode} IN
    /\ audit[a].pc = "deliveries"
    /\ Audits(a, [audit[a] EXCEPT !.pc = "requests", !.book = NoBook,
         !.rest = {e \in booked : DeliveredCode(e) = NoCode},
         !.todo = {<<e, "code_mismatch">> : e \in
                     {d \in booked : DeliveredCode(d) \notin {NoCode, audit[a].book[d]}}}])
    /\ UNCHANGED <<discrepancies, mishaps>>

\* Faulty variants: units still in flight, or those refunded, go wrong.
UnusedAtOnce(e) == e \in attempts
UnusedIfDelivered(e) == e \in attempts /\ itemStatus[e[1]] = "delivered"

\* We asked for it, and its unit is settled; pending and refunding are still
\* in flight.
Unused(e) == e \in attempts /\ Settled(e[1])

ReadRequests(a) ==
  /\ audit[a].pc = "requests"
  /\ Audits(a, [audit[a] EXCEPT !.pc = "explained", !.rest = {},
       !.todo = @ \cup {<<e, "unknown_request">> : e \in audit[a].rest \ attempts}
                  \cup {<<e, "unused_issue">> : e \in {d \in audit[a].rest : Unused(d)}}])
  /\ UNCHANGED <<discrepancies, mishaps>>

Explained(e) == \E kind \in Kinds : <<e, kind>> \in discrepancies

\* What already has a discrepancy is not looked at again.
ReadExplained(a) ==
  /\ audit[a].pc = "explained"
  /\ Audits(a, [audit[a] EXCEPT !.pc = "record",
                  !.todo = {f \in @ : ~Explained(f[1])}])
  /\ UNCHANGED <<discrepancies, mishaps>>

Record(a) ==
  /\ audit[a].pc = "record"
  /\ \E f \in audit[a].todo :
       /\ Notes(f[1], f[2])
       /\ Audits(a, [audit[a] EXCEPT !.todo = @ \ {f}])
  /\ UNCHANGED mishaps

NextSupplier(a) ==
  /\ audit[a].left # {}
  /\ audit[a].pc = "record" /\ audit[a].todo = {}
  /\ Audits(a, [audit[a] EXCEPT !.pc = "statement"])
  /\ UNCHANGED <<discrepancies, mishaps>>

AuditEnds(a) ==
  /\ audit[a].left = {}
  /\ audit[a].pc = "statement" \/ (audit[a].pc = "record" /\ audit[a].todo = {})
  /\ Audits(a, Asleep)
  /\ UNCHANGED <<discrepancies, mishaps>>

\* The process dies, or a statement fails.
AuditFails(a) ==
  /\ audit[a].pc # "idle"
  /\ Mishap
  /\ Audits(a, Asleep)
  /\ UNCHANGED discrepancies

AuditStep(a) ==
  \/ AuditStarts(a) \/ ReadStatement(a) \/ ReadDeliveries(a) \/ ReadRequests(a)
  \/ ReadExplained(a) \/ Record(a) \/ NextSupplier(a) \/ AuditEnds(a)

AuditNext ==
  \/ \E i \in Items : PassStep(i) \/ PassDisturbed(i) \/ RefundDone(i)
  \/ \E r \in flight : LandsUnseen(r)
  \/ \E e \in Entries, c \in Codes : Forges(e, c)
  \/ \E a \in Auditors : AuditStep(a) \/ NoStatement(a) \/ AuditFails(a)

AuditSpec == AuditInit /\ [][AuditNext]_allVars

\* As in SupplierProtocol; a decided refund is carried out, and the timer
\* starts an audit whenever the last one is over.
AuditFairness ==
  /\ \A i \in Items : WF_allVars(PassStep(i)) /\ WF_allVars(RefundDone(i))
  /\ \A r \in Requests : WF_allVars(LandsUnseen(r))
  /\ \A a \in Auditors : WF_allVars(AuditStep(a))

FairAuditSpec == AuditSpec /\ AuditFairness

------------------------------------------------------------------------------
(* Properties.                                                             *)

\* What a discrepancy of a kind claims.
Justified(e, kind) ==
  /\ kind = "code_mismatch" => forged[e] # NoCode /\ DeliveredCode(e) # NoCode
  /\ kind = "unused_issue" => e \in Requests /\ Settled(e[1])
  /\ kind = "rejected" => e \in Requests /\ e[3] < Round(e[1], e[2])

\* A code_mismatch found by the audit accuses a supplier only of what it did:
\* the unit was delivered under that request_id and the book changed after
\* that. An unused issue is only ever claimed of a unit that is settled, and a
\* rejected request is never sent again (audit: the order in which the book,
\* the deliveries and the statuses are read; accept).
AccusationsAreTrue == \A f \in discrepancies : Justified(f[1], f[2])

\* What an audit holds in memory is still true when it is written down: an
\* entry read from the book is the entry booked, or a forged one.
MemoryOK(memory) ==
  /\ \A e \in Entries : memory.book[e] # NoCode =>
       forged[e] # NoCode \/ (e \in Requests /\ memory.book[e] = book[e])
  /\ \A f \in memory.todo : f[2] \notin {"rejected", "corrected"} /\ Justified(f[1], f[2])

\* The inductive invariant: types, true findings written down and to be
\* written down, and refunds only where they were decided.
AuditInv ==
  /\ AuditTypeOK
  /\ AccusationsAreTrue
  /\ \A i \in refunded : itemStatus[i] = "refunding"
  /\ \A a \in Auditors : MemoryOK(audit[a])

\* A code that was written off, by a pass that rejected it or by the audit as
\* unused, and that nobody has, is never handed to anybody later, while the
\* dispute about it is on (accept, audit).
WrittenOffStaysOff ==
  [][\A e \in Entries, kind \in {"rejected", "unused_issue"} :
       <<e, kind>> \in discrepancies /\ DeliveredCode(e) = NoCode
         => DeliveredCode(e)' = NoCode]_allVars

\* What reconciliation finds in the books, of which it lists a hundred rows each:
\* entries nothing was delivered for and nothing is said about, and delivered
\* codes that are not the booked ones.
IssuesWithoutDelivery ==
  {e \in Entries : Shown(e) # NoCode /\ DeliveredCode(e) = NoCode /\ ~Explained(e)}

CodeMismatches ==
  {e \in Entries : Shown(e) # NoCode /\ DeliveredCode(e) \notin {NoCode, Shown(e)}}

\* Reconciliation's query for mismatches, which "must be empty", is exact: it
\* finds a delivered code if the supplier changed its book after the delivery,
\* and no other, whatever was answered, rejected or lost before (accept,
\* complete, report).
MismatchesAreForged == CodeMismatches = {e \in Requests : forged[e] # NoCode}

\* No charge goes unnoticed: what a book shows under a request_id is in the
\* end the code delivered under it, or there is a discrepancy for it, whatever
\* was lost, refused or crashed on the way: it leaves reconciliation's lists
\* or is explained (audit, report).
ChargesAccountedFor ==
  \A e \in Entries :
    Shown(e) # NoCode ~> /\ e \notin IssuesWithoutDelivery
                         /\ e \in CodeMismatches => Explained(e)

\* Said by the resolution the audit writes: an unused issue is a code nobody
\* got ("item settled without this code; not used, dispute the charge").
DisputedIsUnused ==
  \A e \in Entries : <<e, "unused_issue">> \in discrepancies => DeliveredCode(e) = NoCode

\* Said by supplier-discrepancy.entity.ts: an unknown request is one we never sent.
UnknownWasNeverSent ==
  \A e \in Entries : <<e, "unknown_request">> \in discrepancies => e \notin Requests

\* Said by the comment on the service: it catches a delivered code that no
\* longer matches the book.
ChangedBookIsCaught ==
  \A e \in Entries :
    DeliveredCode(e) \notin {NoCode, Shown(e)} ~> <<e, "code_mismatch">> \in discrepancies
=============================================================================
