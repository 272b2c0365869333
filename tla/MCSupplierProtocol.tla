-------------------------- MODULE MCSupplierProtocol --------------------------
(* Small instances of SupplierProtocol for TLC.                            *)
EXTENDS SupplierProtocol, TLC

CONSTANTS i1, i2, sa, sb, c1, c2, c3, c4

\* Both units are stocked by sa, which has one key; sb has two.
OneStocksBoth == [i \in {i1, i2} |-> sa]
FewKeys == sa :> {c1} @@ sb :> {c2, c3}

OneStocks == i1 :> sa
OneKeyEach == sa :> {c1} @@ sb :> {c2}

CrashFaults == {"unreachable", "crash"}
BrokenFaults == {"broken"}
=============================================================================
