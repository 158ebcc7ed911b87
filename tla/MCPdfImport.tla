---------------------------- MODULE MCPdfImport ----------------------------
(* Instances of PdfImport: one batch with two workers and two people, for   *)
(* everything that can happen around a single upload; and several batches   *)
(* of one partner, for what approvals do to one another.                    *)
EXTENDS PdfImport, TLC

CONSTANTS ana, rui, p1, s1, s2, s3, l1, l2

OnePartner == [b \in Batches |-> p1]
OnePeriod == [b \in Batches |-> <<1, 30>>]
OnePortfolio == [b \in Batches |-> {l1}]
SentByAna == [b \in Batches |-> ana]
MixedVerdicts == [b \in Batches |-> [d \in Snapshots |->
    IF d = s1 THEN "correctable" ELSE "clean"]]

WorkerSymmetry == Permutations(Workers)

CleanVerdicts == [b \in Batches |-> [d \in Snapshots |-> "clean"]]

(* The month so far, sent twice: the period ends the day it is sent.        *)
MonthSoFar == [b \in Batches |-> IF b = 1 THEN <<1, 10>> ELSE <<1, 20>>]

(* Portfolios that share a lawsuit, and portfolios that share none.         *)
Shared == [b \in Batches |-> IF b = 1 THEN {l1} ELSE {l1, l2}]
Disjoint == [b \in Batches |-> IF b = 1 THEN {l1} ELSE {l2}]
=============================================================================
