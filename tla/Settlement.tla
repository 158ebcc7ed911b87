----------------------------- MODULE Settlement -----------------------------
(* The settlement of a lawsuit with its partner, in cents: what the client   *)
(* has paid less bank fees and tax is shared by the partnership's percentage,*)
(* given in hundredths.  Entries without an amount count nowhere.            *)
EXTENDS Integers, FiniteSetsExt

Kinds == {"fee_income", "bank_fee", "partner_payout"}
Whole == 10000

(* ROUND_HALF_UP: n / d to the nearest integer, halves away from zero.       *)
HalfUp(n, d) == IF n >= 0 THEN (2 * n + d) \div (2 * d) ELSE -((d - 2 * n) \div (2 * d))

Total(entries, kind, paid) ==
    MapThenSumSet(LAMBDA e : e.amount, {e \in entries : e.kind = kind /\ e.paid = paid})

(* Fault: what the client has yet to pay is shared before tax.               *)
FutureUntaxed(entries, percentage) ==
    HalfUp(Total(entries, "fee_income", FALSE) * percentage, Whole)

(* An estimate: bank fees are known once paid.  The tax is 3 parts of 40.    *)
PartnerFuture(entries, percentage) ==
    HalfUp(Total(entries, "fee_income", FALSE) * 37 * percentage, 40 * Whole)

Net(entries) ==
    LET paid == Total(entries, "fee_income", TRUE)
    IN  paid - Total(entries, "bank_fee", TRUE) - HalfUp(paid * 3, 40)

(* Fault: the share is taken before bank fees and tax.                       *)
ShareOfPaid(entries, percentage) ==
    HalfUp(Total(entries, "fee_income", TRUE) * percentage, Whole)

PartnerShare(entries, percentage) == HalfUp(Net(entries) * percentage, Whole)

(* account_case.                                                             *)
Account(entries, percentage) ==
    [net |-> Net(entries),
     share |-> PartnerShare(entries, percentage),
     balance |-> PartnerShare(entries, percentage) - Total(entries, "partner_payout", TRUE),
     future |-> PartnerFuture(entries, percentage),
     office |-> Net(entries) - PartnerShare(entries, percentage)]

(* The totals of a report over its cases.                                    *)
Summary(accounts) ==
    [field \in {"share", "balance", "future", "office"} |->
        MapThenSumSet(LAMBDA k : accounts[k][field], DOMAIN accounts)]
=============================================================================
