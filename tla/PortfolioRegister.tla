------------------------- MODULE PortfolioRegister -------------------------
(* What approvals promise to whoever reports on portfolios, without pages,  *)
(* revisions, runs, locks or links: of each slot, a partner and an exact    *)
(* period, one portfolio at most is current; an approval makes a portfolio  *)
(* that was never approved the current one of its slot, and retires in the  *)
(* same step exactly those it replaces, for good.                           *)
(* PdfImport implements it; ReportJobs takes its approvals as given.        *)
CONSTANTS
    Batches,
    SlotOf    \* what each batch is the portfolio of

VARIABLES
    current,  \* the approved batches
    past      \* those that another approval replaced

Init == current = {} /\ past = {}

Approve(b) ==
    LET old == {c \in current : SlotOf[c] = SlotOf[b]} IN
    /\ b \notin current \cup past
    /\ current' = (current \ old) \cup {b}
    /\ past' = past \cup old

Next == \E b \in Batches : Approve(b)

Register == Init /\ [][Next]_<<current, past>>
=============================================================================
