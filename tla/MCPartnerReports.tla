-------------------------- MODULE MCPartnerReports --------------------------
EXTENDS PartnerReports, TLC

CONSTANTS ana, bia, c1, l1, l2

MCPeriods == {<<1, 1>>, <<1, 2>>}
MCAmounts == {<<1, 20>>, <<7, 333>>}
MCBudgets == {<<3, 1>>, <<1, 3>>}
PartnerSymmetry == Permutations(Partners)
=============================================================================
