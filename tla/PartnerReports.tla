--------------------------- MODULE PartnerReports ---------------------------
(* What a partner is shown: the report of an approved portfolio, computed by *)
(* a worker from links, clients, entries and percentages that people and the *)
(* external system go on changing, and issued if a second read has found the *)
(* same revision key.  No lock is held from that read to the commit.         *)
EXTENDS Linkage, Settlement

CONSTANTS
    Periods,      \* <<first, last>> days of uploads
    Percentages,  \* asked for by administrators, some refused
    Amounts,      \* of two instalments, in cents
    Fee,          \* a bank fee, and
    Payout,       \* a payment to the partner
    Budgets       \* bound: <<changes of links, changes of entries>>

Instalments == 1 .. 2

ASSUME PortfolioAssumption ==
    /\ LastDay \in Nat \ {0} /\ Open \notin Days
    /\ IsFiniteSet(Partners) /\ Customers \cap Cases = {}
    /\ \A d \in Periods : d \in Days \X Days /\ d[1] <= d[2]
    /\ Percentages \subseteq Nat /\ Amounts \subseteq Nat \X Nat /\ Fee \in Nat /\ Payout \in Nat
    /\ Budgets \subseteq Nat \X Nat

VARIABLES
    links,
    customersOf,  \* clients of each lawsuit, from the external system
    portfolio,    \* what is approved of each partner and period, and whether
                  \* clients have changed since it was matched
    entries,      \* of each lawsuit
    percentage,   \* of each partnership
    job,          \* the report a worker is rendering, or issued last
    budget

vars == <<links, customersOf, portfolio, entries, percentage, job, budget>>

Entry == [kind : Kinds, n : Instalments \cup {0}, amount : Nat, paid : BOOLEAN]
Portfolio == [id : Nat, cases : SUBSET Cases, outdated : BOOLEAN]
NoPortfolio == [id |-> 0, cases |-> {}, outdated |-> FALSE]
NoReport == [stage |-> "none"]

TypeOK ==
    /\ links \subseteq Link
    /\ customersOf \in [Cases -> SUBSET Customers]
    /\ portfolio \in [Partners -> [Periods -> Portfolio]]
    /\ entries \in [Cases -> SUBSET Entry]
    /\ percentage \in [Partners -> 0 .. Whole]
    /\ budget \in Nat \X Nat

(* Any clients, and two instalments due on every lawsuit.                    *)
Init ==
    /\ links = {}
    /\ customersOf \in [Cases -> SUBSET Customers]
    /\ portfolio = [p \in Partners |-> [d \in Periods |-> NoPortfolio]]
    /\ \E amount \in Amounts : entries = [k \in Cases |->
         {[kind |-> "fee_income", n |-> i, amount |-> amount[i], paid |-> FALSE] :
             i \in Instalments}]
    /\ percentage = [p \in Partners |-> 1000]
    /\ job = NoReport
    /\ budget \in Budgets

-----------------------------------------------------------------------------
(* Links *)

Overlap(l, first, last) == (l.to = Open \/ first <= l.to) /\ (last = Open \/ l.from <= last)

(* Fault: only links of the same partner exclude each other.                 *)
ExcludedForOne(now, p, e, first, last) ==
    \E l \in now : /\ l.status = "active" /\ l.of = e /\ l.partner = p
                   /\ Overlap(l, first, last)

(* ex_partner_case_links_no_active_overlap: an entity has one active link at *)
(* a time, whoever the partner is.                                           *)
Excluded(now, p, e, first, last) ==
    \E l \in now : l.status = "active" /\ l.of = e /\ Overlap(l, first, last)

SpendLinks == budget[1] > 0 /\ budget' = [budget EXCEPT ![1] = @ - 1]

(* approve_batch: the earlier approval of the exact period gives way.        *)
Approve(p, d, S) ==
    LET mine == {l \in links : /\ l.partner = p /\ l.of \in portfolio[p][d].cases
                               /\ l.from = d[1] /\ l.to = d[2] /\ l.status = "active"}
        kept == (links \ mine) \cup {[l EXCEPT !.status = "inactive"] : l \in mine}
    IN  /\ SpendLinks
        /\ \A k \in S : ~Excluded(kept, p, k, d[1], d[2])
        /\ links' = kept \cup [partner : {p}, of : S, from : {d[1]}, to : {d[2]},
                               status : {"active"}]
        /\ portfolio' = [portfolio EXCEPT ![p][d] =
                            [id |-> budget[1], cases |-> S, outdated |-> FALSE]]
        /\ UNCHANGED <<customersOf, entries, percentage, job>>

(* Clients are mapped outside the program (manual_csv, admin): the database  *)
(* only holds the links.                                                     *)
MapCustomer(p, c, first, last) ==
    /\ SpendLinks
    /\ last \in {Open} \cup first .. LastDay
    /\ ~Excluded(links, p, c, first, last)
    /\ links' = links \cup {[partner |-> p, of |-> c, from |-> first, to |-> last,
                             status |-> "active"]}
    /\ UNCHANGED <<customersOf, portfolio, entries, percentage, job>>

(* A synchronisation finds other clients of a lawsuit: its row is then newer *)
(* than the reading any portfolio with it was matched in.                    *)
ClientsChange(k, C) ==
    /\ SpendLinks
    /\ C # customersOf[k]
    /\ customersOf' = [customersOf EXCEPT ![k] = C]
    /\ portfolio' = [p \in Partners |-> [d \in Periods |->
         [portfolio[p][d] EXCEPT !.outdated = @ \/ k \in portfolio[p][d].cases]]]
    /\ UNCHANGED <<links, entries, percentage, job>>

-----------------------------------------------------------------------------
(* Money *)

SpendMoney == budget[2] > 0 /\ budget' = [budget EXCEPT ![2] = @ - 1]

PayInstalment(k, e) ==
    /\ SpendMoney
    /\ e \in entries[k] /\ ~e.paid
    /\ entries' = [entries EXCEPT ![k] = (@ \ {e}) \cup {[e EXCEPT !.paid = TRUE]}]
    /\ UNCHANGED <<links, customersOf, portfolio, percentage, job>>

PayOut(k, kind, amount) ==
    /\ SpendMoney
    /\ entries' = [entries EXCEPT ![k] = @ \cup
                     {[kind |-> kind, n |-> 0, amount |-> amount, paid |-> TRUE]}]
    /\ UNCHANGED <<links, customersOf, portfolio, percentage, job>>

(* Fault: whatever number was sent is stored.                                *)
SetPercentageUnchecked(p, x) ==
    /\ SpendMoney
    /\ percentage' = [percentage EXCEPT ![p] = x]
    /\ UNCHANGED <<links, customersOf, portfolio, entries, job>>

SetPercentage(p, x) ==
    /\ SpendMoney
    /\ x \in 0 .. Whole
    /\ x # percentage[p]
    /\ percentage' = [percentage EXCEPT ![p] = x]
    /\ UNCHANGED <<links, customersOf, portfolio, entries, job>>

-----------------------------------------------------------------------------
(* Reports *)

(* Fault: the key tells portfolios apart, and not what they say.             *)
RevisionOfPortfolio(p, d) == <<portfolio[p][d].id, {}, 0>>

(* _revision_key: everything a report shows, but not the links.              *)
RevisionKey(p, d) ==
    <<portfolio[p][d].id,
      {<<k, customersOf[k], entries[k]>> : k \in portfolio[p][d].cases},
      percentage[p]>>

(* The snapshot is that of the last day of the period.                       *)
SnapshotOf(p, d) == Snapshot(links, customersOf, portfolio[p][d].cases)
Ready(p, d) == TechnicalReady(SnapshotOf(p, d), p, d[2])

Report(p, d) ==
    LET accounts == [k \in Eligible(SnapshotOf(p, d), p, d[2]) |->
                        Account(entries[k], percentage[p])]
    IN  [partner |-> p, period |-> d, accounts |-> accounts, summary |-> Summary(accounts)]

(* Nothing is read of a portfolio whose lawsuits or clients are newer than   *)
(* the reading it was matched in.                                            *)
Readable(p, d) == portfolio[p][d].cases # {} /\ ~portfolio[p][d].outdated

UnderWay == job.stage \in {"rendering", "rechecked"}

(* A request is taken up: everything is read in one transaction.             *)
Build(p, d) ==
    /\ ~UnderWay
    /\ Readable(p, d)
    /\ Ready(p, d)
    /\ job' = [stage |-> "rendering", report |-> Report(p, d), key |-> RevisionKey(p, d)]
    /\ UNCHANGED <<links, customersOf, portfolio, entries, percentage, budget>>

SameRevision ==
    LET p == job.report.partner
        d == job.report.period
    IN  Readable(p, d) /\ job.key = RevisionKey(p, d)

(* Rendered: it is read again, and only the key is compared.                 *)
Recheck ==
    /\ job.stage = "rendering"
    /\ SameRevision
    /\ job' = [job EXCEPT !.stage = "rechecked"]
    /\ UNCHANGED <<links, customersOf, portfolio, entries, percentage, budget>>

(* The version is inserted and committed, whatever has changed meanwhile.    *)
Issue ==
    /\ job.stage = "rechecked"
    /\ job' = [job EXCEPT !.stage = "issued"]
    /\ UNCHANGED <<links, customersOf, portfolio, entries, percentage, budget>>

(* The key has changed, or rendering or the commit failed.                   *)
Discard ==
    /\ UnderWay
    /\ job' = NoReport
    /\ UNCHANGED <<links, customersOf, portfolio, entries, percentage, budget>>

Next ==
    \/ \E p \in Partners, d \in Periods :
         Build(p, d) \/ \E S \in SUBSET Cases \ {{}} : Approve(p, d, S)
    \/ \E p \in Partners, c \in Customers, first \in Days, last \in Days \cup {Open} :
         MapCustomer(p, c, first, last)
    \/ \E k \in Cases : \/ \E C \in SUBSET Customers : ClientsChange(k, C)
                        \/ \E e \in entries[k] : PayInstalment(k, e)
                        \/ PayOut(k, "bank_fee", Fee)
                        \/ PayOut(k, "partner_payout", Payout)
    \/ \E p \in Partners, x \in Percentages : SetPercentage(p, x)
    \/ Recheck \/ Issue \/ Discard

Spec == Init /\ [][Next]_vars
-----------------------------------------------------------------------------
(* Properties *)

(* Whatever portfolios of whatever partners and periods are approved and    *)
(* replaced, on no day is a lawsuit or client mapped to two partners.       *)
OneClaimPerDay == \A e \in Entities, day \in Days :
    Cardinality(Mapped(links, e, day)) <= 1

(* The three implementations of the mapping rule agree: the homologation and*)
(* the validator on every lawsuit and day, and a report, which only reads   *)
(* what concerns its portfolio, with both on which lawsuits are its own.    *)
ClassificationsAgree ==
    /\ \A day \in Days :
         /\ Multiple(links, customersOf, day) = Conflicts(links, customersOf, day)
         /\ Linked(links, customersOf, day)
              = UNION {ProcessesOf(p, links, customersOf, day) : p \in Partners}
    /\ \A p \in Partners, d \in Periods :
         Eligible(SnapshotOf(p, d), p, d[2])
           = ProcessesOf(p, links, customersOf, d[2]) \cap portfolio[p][d].cases

(* A report that can be made shows no client who is mapped to somebody else,*)
(* though clients are shown for being part of a lawsuit.                    *)
CustomersConfined == \A p \in Partners, d \in Periods :
    Ready(p, d) => \A c \in EligibleCustomers(SnapshotOf(p, d), p, d[2]) :
        Mapped(links, c, d[2]) \subseteq {p}

(* What the second read of a report lets through has every lawsuit of the   *)
(* portfolio that is approved then and the figures of then, and each lawsuit*)
(* is still the partner's, though all was read and computed long before.  It*)
(* is then issued without another look; whether the report could still be   *)
(* made, with the links of then, is not asked.                              *)
RecheckedAsOfNow == [][job'.stage = "rechecked" =>
    LET r == job'.report IN
    /\ DOMAIN r.accounts = portfolio[r.partner][r.period].cases
    /\ \A k \in DOMAIN r.accounts :
         /\ r.accounts[k] = Account(entries[k], percentage[r.partner])
         /\ r.partner \in Claims(links, customersOf, k, r.period[2])
    /\ r.summary = Summary(r.accounts)]_job

(* Tax and share are rounded separately; still neither side of a settlement *)
(* gets more than there is to share.                                        *)
ShareWithinNet == \A p \in Partners, k \in Cases :
    LET a == Account(entries[k], percentage[p]) IN
    a.net >= 0 => a.share \in 0 .. a.net /\ a.office \in 0 .. a.net

(* When an instalment is paid, what the partner was told to expect turns    *)
(* into what is owed but for two cents of rounding.                         *)
EstimateKept == [][\A k \in Cases : \A e \in entries[k] \ entries'[k] :
    \A p \in Partners :
        LET was == Account(entries[k], percentage[p])
            is == Account(entries'[k], percentage[p])
            moved == (is.share + is.future) - (was.share + was.future)
        IN  moved \in -2 .. 2]_vars
=============================================================================
