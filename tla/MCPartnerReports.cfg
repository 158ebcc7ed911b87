CONSTANTS
    ana = ana
    bia = bia
    c1 = c1
    l1 = l1
    l2 = l2
    Partners = {ana, bia}
    Customers = {c1}
    Cases = {l1, l2}
    LastDay = 2
    Open = Open
    Periods <- MCPeriods
    Percentages = {3333, 10001}
    Amounts <- MCAmounts
    Fee = 15
    Payout = 100
    Budgets <- MCBudgets
SYMMETRY PartnerSymmetry
SPECIFICATION Spec
CHECK_DEADLOCK FALSE
INVARIANTS
    TypeOK
    OneClaimPerDay
    ClassificationsAgree
    CustomersConfined
    ShareWithinNet
PROPERTIES
    RecheckedAsOfNow
    EstimateKept
