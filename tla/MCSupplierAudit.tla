--------------------------- MODULE MCSupplierAudit ---------------------------
(* Small instances of SupplierAudit for TLC.                               *)
EXTENDS SupplierAudit, TLC

CONSTANTS i1, i2, sa, sb, c1, c2, c3, a1, a2

OneStocks == i1 :> sa
OneKeyEach == sa :> {c1} @@ sb :> {c2}

NoFaults == {}
ErrorFaults == {"error"}
=============================================================================
