------------------------------- MODULE Readers -------------------------------
(***************************************************************************)
(* The readers composed: an order's view, the reconciliation report and    *)
(* the storefront's listing over the same tables, while webhooks, lanes,   *)
(* the sweep and the operator go on. A reader writes nothing, so one       *)
(* request in a behaviour shows as much as many.                           *)
(***************************************************************************)
EXTENDS OrderView, Reconciliation, Storefront

readers == <<view, recon, listing, sets>>

Nobody == view = NoView /\ recon = NoRecon /\ listing = NoListing

ReadersInit == Init /\ ViewInit /\ ReconInit /\ StorefrontInit

ReadersNext ==
  \/ Next /\ Watches /\ UNCHANGED <<view, recon, sets>>
  \/ (Nobody \/ view # NoView) /\ ViewStep /\ UNCHANGED <<recon, listing, sets>>
  \/ (Nobody \/ recon # NoRecon) /\ ReconStep /\ UNCHANGED <<view, listing, sets>>
  \/ (Nobody \/ listing # NoListing) /\ ListingStep /\ UNCHANGED <<view, recon>>

ReadersSpec == ReadersInit /\ [][ReadersNext]_<<vars, readers>>

\* The inductive invariant: neither readers nor the operator disturb the shop's
\* invariant, nor what the other readers rely on.
ReadersInv == Inv /\ ViewInv /\ ReconInv /\ ListingInv
==============================================================================
