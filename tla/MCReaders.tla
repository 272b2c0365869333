------------------------------ MODULE MCReaders ------------------------------
(* Small instances of Readers for TLC.                                     *)
EXTENDS Readers, TLC

CONSTANTS o1, i1, s1, s2, s3, c1, l1, l2, e1, e2, e3, e4

OneLine == i1 :> o1
FirstLine == i1 :> 0
SkuOfLine == i1 :> s1
Alphabet == s1 :> 1 @@ s2 :> 2 @@ s3 :> 3
OneOfEach == [s \in {s1, s2, s3} |-> 1]
\* o1 is paid, or fails and is paid too late, or twice. e3 spells the order's id
\* in another way.
OneOrder == [e \in Events |-> o1]
PaidOrFailed == e1 :> "paid" @@ e2 :> "failed" @@ e3 :> "paid"
OfEveryKind == PaidOrFailed @@ e4 :> "paid_other_amount"

SymmetryOfLanes == Permutations(Lanes)
==============================================================================
