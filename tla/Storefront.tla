------------------------------ MODULE Storefront ------------------------------
(***************************************************************************)
(* The storefront's listing while sales and the operator change the stock: *)
(* CatalogService.storefront, one page a request, in the order of the SKUs *)
(* and continued after the last one shown, and setStock. The listing is of *)
(* one client, who asks for pages until there is no cursor; Skus are the   *)
(* active products of the type he asks for.                                *)
(***************************************************************************)
EXTENDS OrderDelivery

CONSTANTS
  Rank,      \* [Skus -> Nat]: the order of the SKUs
  PageLimit, \* the limit of the query
  Levels,    \* what the operator sets a counter to
  MaxSets    \* bound: how often he does

ASSUME StorefrontAssumption ==
  /\ Rank \in [Skus -> Nat \ {0}]
  /\ \A s, t \in Skus : Rank[s] = Rank[t] => s = t
  /\ PageLimit \in Nat \ {0}
  /\ Levels \subseteq Nat
  /\ MaxSets \in Nat

VARIABLES
  listing, \* what the client has been shown, and the cursor he was given
  sets     \* how often the operator has set a counter

\* cursor is the rank of a SKU, or 0. always is not in the code: the SKUs
\* that have been in stock ever since the client began.
NoListing == [pc |-> "idle", cursor |-> 0, shown |-> <<>>, always |-> {}]

StorefrontInit == listing = NoListing /\ sets = 0

InStock == {s \in Skus : stock[s] > 0}

\* Faulty variant: the page begins with the last SKU of the one before.
FoundFrom(cursor) == {s \in InStock : Rank[s] >= cursor}

\* What the query finds of products in stock, by its condition on the SKU.
FoundAfter(cursor) == {s \in InStock : Rank[s] > cursor}

Ordered(rows) == \A j, k \in DOMAIN rows : j < k => Rank[rows[j]] < Rank[rows[k]]

Among(s, rows) == \E k \in DOMAIN rows : rows[k] = s

\* ORDER BY and LIMIT: the first of what is found, one more than a page at most.
Selects(rows, found) ==
  /\ Ordered(rows)
  /\ \A s \in found : ~Among(s, rows) =>
       Len(rows) = PageLimit + 1 /\ Rank[rows[PageLimit + 1]] < Rank[s]

\* Faulty variant: the cursor is the extra row, which has not been shown.
CursorOfExtraRow(rows) == Rank[rows[PageLimit + 1]]

CursorOf(rows) == Rank[rows[PageLimit]]

Begins ==
  /\ listing.pc = "idle"
  /\ listing' = [NoListing EXCEPT !.pc = "paging", !.always = InStock]
  /\ UNCHANGED <<vars, sets>>

\* rows.slice(0, limit)
PageOf(rows) == IF Len(rows) > PageLimit THEN SubSeq(rows, 1, PageLimit) ELSE rows

\* What the client keeps of an answer: its items, and the cursor if there is more.
Turned(rows) ==
  LET more == Len(rows) > PageLimit IN
  [listing EXCEPT !.pc = IF more THEN "paging" ELSE "done",
                  !.cursor = IF more THEN CursorOf(rows) ELSE 0,
                  !.shown = @ \o PageOf(rows)]

NextPage ==
  /\ listing.pc = "paging"
  /\ LET found == FoundAfter(listing.cursor) IN
     \E n \in 0 .. PageLimit + 1 : \E rows \in [1 .. n -> found] :
       Selects(rows, found) /\ listing' = Turned(rows)
  /\ UNCHANGED <<vars, sets>>

\* Others go on while the client reads: what is sold out is noted.
Watches == listing' = [listing EXCEPT !.always = @ \cap {s \in Skus : stock'[s] > 0}]

SetStock(s, available) ==
  /\ listing.pc = "paging" /\ sets < MaxSets \* bound: while the client reads
  /\ sets' = sets + 1
  /\ stock' = [stock EXCEPT ![s] = available]
  /\ Watches
  /\ UNCHANGED <<orderStatus, paidLine, notBefore, eventOutcome, itemStatus, deliveries,
                 refunds, ledger, pspRefunds, lane, swept, trouble>>

ListingStep == Begins \/ NextPage \/ \E s \in Skus, n \in Levels : SetStock(s, n)

StorefrontNext == (Next /\ Watches /\ UNCHANGED sets) \/ ListingStep

StorefrontSpec == Init /\ StorefrontInit /\ [][StorefrontNext]_<<vars, listing, sets>>

------------------------------------------------------------------------------
(* Properties.                                                             *)

\* The products come in order and none is shown twice, on whatever pages,
\* although products sell out and come back between two of them (storefront).
ListedInOrder == Ordered(listing.shown)

\* A product that was in stock all the time is on some page of a listing that
\* has come to its end, whatever happened to the others (storefront).
NothingPassedOver ==
  listing.pc = "done" => \A s \in listing.always : Among(s, listing.shown)

\* The inductive invariant: what was in stock all the time still is, and has
\* been shown as far as the cursor; nothing beyond the cursor has been shown.
ListingShape ==
  /\ listing \in [pc : {"idle", "paging", "done"}, cursor : Nat,
                  shown : Seq(Skus), always : SUBSET InStock]
  /\ sets \in 0 .. MaxSets

ShownUpToCursor ==
  listing.pc = "paging" =>
    /\ \A k \in DOMAIN listing.shown : Rank[listing.shown[k]] <= listing.cursor
    /\ \A s \in listing.always : Rank[s] <= listing.cursor => Among(s, listing.shown)

ListingInv ==
  /\ ListingShape /\ ShownUpToCursor /\ ListedInOrder /\ NothingPassedOver
  /\ listing.pc = "idle" => listing = NoListing
===============================================================================
