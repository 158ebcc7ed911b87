------------------------ MODULE PartnerReportsProofs ------------------------
(* What partners are shown, for any links, clients, entries and percentages. *)
(* OneClaimPerDay rests on links that exclude each other, RecheckedAsOfNow on*)
(* what a rendered report remembers of the data it was made from.            *)
EXTENDS PartnerReports, SettlementProofs

-----------------------------------------------------------------------------
(* Types *)

LEMMA PeriodTypes == ASSUME NEW d \in Periods
                     PROVE  d = <<d[1], d[2]>> /\ d[1] \in Days /\ d[2] \in Days /\ d[1] <= d[2]
  BY PortfolioAssumption

LEMMA TypeInit == Init => TypeOK
  <1> SUFFICES ASSUME Init PROVE TypeOK
    OBVIOUS
  <1>1. links \subseteq Link /\ customersOf \in [Cases -> SUBSET Customers]
    BY DEF Init
  <1>2. portfolio \in [Partners -> [Periods -> Portfolio]]
    BY DEF Init, NoPortfolio, Portfolio
  <1>3. entries \in [Cases -> SUBSET Entry]
    <2>1. PICK amount \in Amounts : entries = [k \in Cases |->
              {[kind |-> "fee_income", n |-> i, amount |-> amount[i], paid |-> FALSE] :
                  i \in Instalments}]
      BY DEF Init
    <2>2. \A i \in Instalments : amount[i] \in Nat
      BY PortfolioAssumption DEF Instalments
    <2>3. \A i \in Instalments :
             [kind |-> "fee_income", n |-> i, amount |-> amount[i], paid |-> FALSE] \in Entry
      BY <2>2 DEF Entry, Kinds
    <2> QED
      BY <2>1, <2>3, Zenon
  <1>4. percentage \in [Partners -> 0 .. Whole]
    BY DEF Init, Whole
  <1>5. budget \in Nat \X Nat
    BY PortfolioAssumption DEF Init
  <1> QED
    BY <1>1, <1>2, <1>3, <1>4, <1>5 DEF TypeOK

LEMMA SpendTypes == ASSUME TypeOK PROVE /\ SpendLinks => budget' \in Nat \X Nat /\ budget[1] \in Nat
                                        /\ SpendMoney => budget' \in Nat \X Nat
  BY DEF TypeOK, SpendLinks, SpendMoney

LEMMA ApproveTypes ==
  ASSUME TypeOK, NEW p \in Partners, NEW d \in Periods, NEW S \in SUBSET Cases, Approve(p, d, S)
  PROVE  TypeOK'
  <1>1. links' \subseteq Link
    <2> DEFINE mine == {l \in links : /\ l.partner = p /\ l.of \in portfolio[p][d].cases
                                      /\ l.from = d[1] /\ l.to = d[2] /\ l.status = "active"}
               old == {[l EXCEPT !.status = "inactive"] : l \in mine}
               new == [partner : {p}, of : S, from : {d[1]}, to : {d[2]}, status : {"active"}]
    <2>1. links' = ((links \ mine) \cup old) \cup new
      BY DEF Approve
    <2>2. links \subseteq Link
      BY DEF TypeOK
    <2>3. old \subseteq Link
      BY <2>2 DEF Link
    <2>4. new \subseteq Link
      BY PeriodTypes DEF Link, Entities
    <2> QED
      BY <2>1, <2>2, <2>3, <2>4
  <1>2. portfolio' \in [Partners -> [Periods -> Portfolio]]
    BY SpendTypes DEF Approve, TypeOK, Portfolio
  <1> QED
    BY <1>1, <1>2, SpendTypes DEF Approve, TypeOK

LEMMA MapCustomerTypes ==
  ASSUME TypeOK, NEW p \in Partners, NEW c \in Customers, NEW first \in Days,
         NEW last \in Days \cup {Open}, MapCustomer(p, c, first, last)
  PROVE  TypeOK'
  <1>1. links' \subseteq Link
    BY DEF MapCustomer, TypeOK, Link, Entities
  <1> QED
    BY <1>1, SpendTypes DEF MapCustomer, TypeOK

LEMMA Outdating ==
  ASSUME NEW r \in Portfolio, NEW b
  PROVE  /\ [r EXCEPT !.outdated = r.outdated \/ b] \in Portfolio
         /\ [r EXCEPT !.outdated = r.outdated \/ b].cases = r.cases
  <1>1. (r.outdated \/ b) \in BOOLEAN
    BY Zenon
  <1> DEFINE x == r.outdated \/ b
  <1> HIDE DEF x
  <1>2. x \in BOOLEAN => [r EXCEPT !.outdated = x] \in Portfolio
    BY DEF Portfolio
  <1>3. [r EXCEPT !.outdated = x].cases = r.cases
    BY DEF Portfolio
  <1> QED
    BY <1>1, <1>2, <1>3 DEF x

(* Clients that change leave portfolios what they are.                       *)
LEMMA ClientsPortfolios ==
  ASSUME TypeOK, NEW k \in Cases, NEW C \in SUBSET Customers, ClientsChange(k, C)
  PROVE  /\ UNCHANGED links
         /\ portfolio' \in [Partners -> [Periods -> Portfolio]]
         /\ \A p \in Partners, d \in Periods : portfolio'[p][d].cases = portfolio[p][d].cases
  <1> DEFINE now(p, d) == [portfolio[p][d] EXCEPT !.outdated =
                             portfolio[p][d].outdated \/ k \in portfolio[p][d].cases]
  <1>1. /\ UNCHANGED links
        /\ portfolio' = [p \in Partners |-> [d \in Periods |-> now(p, d)]]
    BY DEF ClientsChange
  <1>2. \A p \in Partners, d \in Periods : /\ now(p, d) \in Portfolio
                                           /\ now(p, d).cases = portfolio[p][d].cases
    <2> SUFFICES ASSUME NEW p \in Partners, NEW d \in Periods
                 PROVE  now(p, d) \in Portfolio /\ now(p, d).cases = portfolio[p][d].cases
      OBVIOUS
    <2>1. portfolio[p][d] \in Portfolio
      BY DEF TypeOK
    <2> QED
      BY <2>1, Outdating
  <1> HIDE DEF now
  <1> QED
    BY <1>1, <1>2

LEMMA ClientsTypes ==
  ASSUME TypeOK, NEW k \in Cases, NEW C \in SUBSET Customers, ClientsChange(k, C)
  PROVE  TypeOK'
  <1>1. customersOf' \in [Cases -> SUBSET Customers]
    BY DEF ClientsChange, TypeOK
  <1> QED
    BY <1>1, ClientsPortfolios, SpendTypes DEF ClientsChange, TypeOK

LEMMA EntryTypes ==
  ASSUME TypeOK, NEW k \in Cases
  PROVE  /\ \A e \in entries[k] : PayInstalment(k, e) => TypeOK'
         /\ \A kind \in Kinds, amount \in Nat : PayOut(k, kind, amount) => TypeOK'
  <1>1. ASSUME NEW e \in entries[k], PayInstalment(k, e) PROVE TypeOK'
    <2>1. e \in Entry
      BY DEF TypeOK
    <2>2. [e EXCEPT !.paid = TRUE] \in Entry
      BY <2>1 DEF Entry
    <2>3. entries' \in [Cases -> SUBSET Entry]
      BY <1>1, <2>2 DEF PayInstalment, TypeOK
    <2> QED
      BY <1>1, <2>3, SpendTypes DEF PayInstalment, TypeOK
  <1>2. ASSUME NEW kind \in Kinds, NEW amount \in Nat, PayOut(k, kind, amount) PROVE TypeOK'
    <2>1. [kind |-> kind, n |-> 0, amount |-> amount, paid |-> TRUE] \in Entry
      BY DEF Entry
    <2>2. entries' \in [Cases -> SUBSET Entry]
      BY <1>2, <2>1 DEF PayOut, TypeOK
    <2> QED
      BY <1>2, <2>2, SpendTypes DEF PayOut, TypeOK
  <1> QED
    BY <1>1, <1>2

LEMMA TypeNext == TypeOK /\ [Next]_vars => TypeOK'
  <1> SUFFICES ASSUME TypeOK, [Next]_vars PROVE TypeOK'
    OBVIOUS
  <1>1. ASSUME NEW p \in Partners, NEW d \in Periods,
               Build(p, d) \/ \E S \in SUBSET Cases \ {{}} : Approve(p, d, S)
        PROVE  TypeOK'
    BY <1>1, ApproveTypes DEF Build, TypeOK
  <1>2. ASSUME NEW p \in Partners, NEW c \in Customers, NEW first \in Days,
               NEW last \in Days \cup {Open}, MapCustomer(p, c, first, last)
        PROVE  TypeOK'
    BY <1>2, MapCustomerTypes
  <1>3. ASSUME NEW k \in Cases, \/ \E C \in SUBSET Customers : ClientsChange(k, C)
                                \/ \E e \in entries[k] : PayInstalment(k, e)
                                \/ PayOut(k, "bank_fee", Fee)
                                \/ PayOut(k, "partner_payout", Payout)
        PROVE  TypeOK'
    BY <1>3, ClientsTypes, EntryTypes, PortfolioAssumption DEF Kinds
  <1>4. ASSUME NEW p \in Partners, NEW x \in Percentages, SetPercentage(p, x)
        PROVE  TypeOK'
    BY <1>4, SpendTypes DEF SetPercentage, TypeOK
  <1>5. CASE Recheck \/ Issue \/ Discard
    BY <1>5 DEF Recheck, Issue, Discard, TypeOK
  <1>6. CASE UNCHANGED vars
    BY <1>6 DEF vars, TypeOK
  <1> QED
    BY <1>1, <1>2, <1>3, <1>4, <1>5, <1>6 DEF Next

(* PartnerReports!TypeOK: links, portfolios, entries and percentages are     *)
(* always well formed; a percentage, whatever was asked for, is at most the  *)
(* whole.                                                                    *)
THEOREM ReportsTyped == Spec => []TypeOK
  BY TypeInit, TypeNext, PTL DEF Spec

-----------------------------------------------------------------------------
(* Small sets *)

LEMMA AtMostOne == ASSUME NEW S, \A x, y \in S : x = y PROVE Cardinality(S) <= 1
  <1>1. CASE S = {}
    BY <1>1, FS_EmptySet
  <1>2. CASE S # {}
    <2>1. PICK x \in S : S = {x}
      BY <1>2
    <2> QED
      BY <2>1, FS_Singleton
  <1> QED
    BY <1>1, <1>2

LEMMA OnlyOne == ASSUME NEW S, IsFiniteSet(S), NEW x \in S, ~(Cardinality(S) > 1) PROVE S = {x}
  <1>1. Cardinality(S) \in Nat /\ Cardinality(S) # 0
    BY FS_CardinalityType, FS_EmptySet
  <1>2. PICK y : S = {y}
    BY <1>1, FS_Singleton
  <1> QED
    BY <1>2

-----------------------------------------------------------------------------
(* Links that exclude each other *)

Apart == \A l, m \in links :
    l # m /\ l.status = "active" /\ m.status = "active" /\ l.of = m.of
      => ~Overlap(l, m.from, m.to)

LEMMA ApartApprove ==
  ASSUME TypeOK, Apart, NEW p \in Partners, NEW d \in Periods, NEW S \in SUBSET Cases,
         Approve(p, d, S)
  PROVE  Apart'
  <1> DEFINE mine == {l \in links : /\ l.partner = p /\ l.of \in portfolio[p][d].cases
                                    /\ l.from = d[1] /\ l.to = d[2] /\ l.status = "active"}
             old == {[l EXCEPT !.status = "inactive"] : l \in mine}
             kept == (links \ mine) \cup old
             new == [partner : {p}, of : S, from : {d[1]}, to : {d[2]}, status : {"active"}]
  <1>1. links' = kept \cup new /\ \A k \in S : ~Excluded(kept, p, k, d[1], d[2])
    BY DEF Approve
  <1>2. links \subseteq Link
    BY DEF TypeOK
  <1>3. \A l \in old : l.status = "inactive"
    BY <1>2 DEF Link
  <1>4. \A l \in links' : l.status = "active" => l \in links \/ l \in new
    BY <1>1, <1>3
  <1>5. \A l \in links' : l.status = "active" /\ l \notin new => l \in links /\ l \in kept
    BY <1>1, <1>3
  <1> SUFFICES ASSUME NEW l \in links', NEW m \in links', l # m,
                      l.status = "active", m.status = "active", l.of = m.of
               PROVE  ~Overlap(l, m.from, m.to)
    BY DEF Apart
  <1>6. CASE l \in new /\ m \in new
    <2>1. l = m
      BY <1>6
    <2> QED
      BY <2>1
  <1>7. CASE l \notin new /\ m \in new
    <2>1. l \in kept /\ m.of \in S /\ m.from = d[1] /\ m.to = d[2]
      BY <1>5, <1>7
    <2> QED
      BY <1>1, <2>1 DEF Excluded
  <1>8. CASE l \in new /\ m \notin new
    <2>1. m \in kept /\ l.of \in S /\ l.from = d[1] /\ l.to = d[2]
      BY <1>5, <1>8
    <2>2. ~Overlap(m, l.from, l.to)
      BY <1>1, <2>1 DEF Excluded
    <2> QED
      BY <2>2 DEF Overlap
  <1>9. CASE l \notin new /\ m \notin new
    BY <1>5, <1>9 DEF Apart
  <1> QED
    BY <1>6, <1>7, <1>8, <1>9

LEMMA ApartMapCustomer ==
  ASSUME TypeOK, Apart, NEW p \in Partners, NEW c \in Customers, NEW first \in Days,
         NEW last \in Days \cup {Open}, MapCustomer(p, c, first, last)
  PROVE  Apart'
  <1> DEFINE n == [partner |-> p, of |-> c, from |-> first, to |-> last, status |-> "active"]
  <1>1. links' = links \cup {n} /\ ~Excluded(links, p, c, first, last)
    BY DEF MapCustomer
  <1>2. n.of = c /\ n.from = first /\ n.to = last
    OBVIOUS
  <1> HIDE DEF n
  <1>3. \A l \in links : l.status = "active" /\ l.of = c => ~Overlap(l, n.from, n.to)
    BY <1>1, <1>2 DEF Excluded
  <1>4. \A l \in links : l.status = "active" /\ l.of = c => ~Overlap(n, l.from, l.to)
    BY <1>3 DEF Overlap
  <1> QED
    BY <1>1, <1>2, <1>3, <1>4 DEF Apart

LEMMA ApartNext == TypeOK /\ Apart /\ [Next]_vars => Apart'
  <1> SUFFICES ASSUME TypeOK, Apart, [Next]_vars PROVE Apart'
    OBVIOUS
  <1>1. ASSUME UNCHANGED links PROVE Apart'
    BY <1>1 DEF Apart
  <1>2. ASSUME NEW p \in Partners, NEW d \in Periods, NEW S \in SUBSET Cases, Approve(p, d, S)
        PROVE  Apart'
    BY <1>2, ApartApprove
  <1>3. ASSUME NEW p \in Partners, NEW c \in Customers, NEW first \in Days,
               NEW last \in Days \cup {Open}, MapCustomer(p, c, first, last)
        PROVE  Apart'
    BY <1>3, ApartMapCustomer
  <1> QED
    BY <1>1, <1>2, <1>3
       DEF Next, Build, ClientsChange, PayInstalment, PayOut, SetPercentage, Recheck, Issue,
           Discard, vars

(* PartnerReports!OneClaimPerDay: approvals and client links of any number   *)
(* of partners and periods never map a lawsuit or client to two partners on  *)
(* one day.                                                                  *)
THEOREM ClaimsExclusive == Spec => []OneClaimPerDay
  <1>1. Init => Apart
    BY DEF Init, Apart
  <1>2. TypeOK /\ Apart => OneClaimPerDay
    <2> SUFFICES ASSUME TypeOK, Apart, NEW e \in Entities, NEW day \in Days
                 PROVE  Cardinality(Mapped(links, e, day)) <= 1
      BY DEF OneClaimPerDay
    <2>1. \A x, y \in Mapped(links, e, day) : x = y
      <3> SUFFICES ASSUME NEW x \in Mapped(links, e, day), NEW y \in Mapped(links, e, day)
                   PROVE  x = y
        OBVIOUS
      <3>1. PICK l \in links : l.of = e /\ EffectiveOn(l, day) /\ x = l.partner
        BY DEF Mapped
      <3>2. PICK m \in links : m.of = e /\ EffectiveOn(m, day) /\ y = m.partner
        BY DEF Mapped
      <3>3. l \in Link /\ m \in Link /\ day \in Nat /\ LastDay \in Nat
        BY PortfolioAssumption DEF TypeOK, Days
      <3>4. l.from <= day /\ m.from <= day /\ l.from \in Nat /\ m.from \in Nat
        BY <3>1, <3>2, <3>3 DEF EffectiveOn, Link, Days
      <3>5. (l.to = Open \/ (l.to \in Nat /\ day <= l.to)) /\ (m.to = Open \/ (m.to \in Nat /\ day <= m.to))
        BY <3>1, <3>2, <3>3 DEF EffectiveOn, Link, Days
      <3>6. Overlap(l, m.from, m.to)
        BY <3>3, <3>4, <3>5 DEF Overlap
      <3> QED
        BY <3>1, <3>2, <3>6 DEF Apart, EffectiveOn
    <2> QED
      BY <2>1, AtMostOne
  <1> QED
    BY <1>1, <1>2, TypeInit, TypeNext, ApartNext, PTL DEF Spec

-----------------------------------------------------------------------------
(* One mapping rule, written three times *)

LEMMA ClaimsAreCandidates ==
  ASSUME TypeOK, NEW k \in Cases, NEW day \in Days
  PROVE  /\ Claims(links, customersOf, k, day) = Candidates(links, customersOf, k, day)
         /\ Claims(links, customersOf, k, day) \subseteq Partners
         /\ IsFiniteSet(Claims(links, customersOf, k, day))
  <1>1. links \subseteq Link /\ day \in Nat /\ LastDay \in Nat
    BY PortfolioAssumption DEF TypeOK, Days
  <1>2. \A l \in links : EffectiveOn(l, day) <=> /\ l.status = "active"
                                                 /\ ~(day < l.from)
                                                 /\ l.to # Open => ~(l.to < day)
    BY <1>1 DEF EffectiveOn, Link, Days
  <1>3. \A x : x \in Candidates(links, customersOf, k, day) <=>
          \E l \in links : /\ l.partner = x /\ l.of \in {k} \cup customersOf[k]
                           /\ EffectiveOn(l, day)
    <2>1. \A n : n \in Selected(links, day) <=>
                   \E l \in links : n = <<l.partner, l.of>> /\ EffectiveOn(l, day)
      BY <1>2 DEF Selected
    <2>2. \A x : x \in Candidates(links, customersOf, k, day) <=>
            \E n \in Selected(links, day) : n[2] \in {k} \cup customersOf[k] /\ x = n[1]
      BY DEF Candidates
    <2>3. ASSUME NEW x, x \in Candidates(links, customersOf, k, day)
          PROVE  \E l \in links : /\ l.partner = x /\ l.of \in {k} \cup customersOf[k]
                                  /\ EffectiveOn(l, day)
      <3>1. PICK n \in Selected(links, day) : n[2] \in {k} \cup customersOf[k] /\ x = n[1]
        BY <2>2, <2>3
      <3>2. PICK l \in links : n = <<l.partner, l.of>> /\ EffectiveOn(l, day)
        BY <2>1
      <3> QED
        BY <3>1, <3>2
    <2>4. ASSUME NEW l \in links, l.of \in {k} \cup customersOf[k], EffectiveOn(l, day)
          PROVE  l.partner \in Candidates(links, customersOf, k, day)
      <3> DEFINE n == <<l.partner, l.of>>
      <3>1. n \in Selected(links, day)
        BY <2>1, <2>4
      <3>2. n[1] = l.partner /\ n[2] = l.of
        OBVIOUS
      <3> HIDE DEF n
      <3> QED
        BY <2>2, <2>4, <3>1, <3>2
    <2> QED
      BY <2>3, <2>4
  <1>4. \A x : x \in Claims(links, customersOf, k, day) <=>
          \E l \in links : /\ l.partner = x /\ l.of \in {k} \cup customersOf[k]
                           /\ EffectiveOn(l, day)
    BY DEF Claims, Mapped
  <1>5. Claims(links, customersOf, k, day) \subseteq Partners
    BY <1>1, <1>4 DEF Link
  <1> QED
    BY <1>3, <1>4, <1>5, PortfolioAssumption, FS_Subset

LEMMA SnapshotSuffices ==
  ASSUME TypeOK, NEW S \in SUBSET Cases, NEW day \in Days
  PROVE  LET s == Snapshot(links, customersOf, S) IN
         /\ \A k \in S : CasePartners(s, k, day) = Claims(links, customersOf, k, day)
         /\ \A c \in s.customers : Mapped(s.links, c, day) = Mapped(links, c, day)
  <1> DEFINE read == LinksRead(links, customersOf, S)
             s == Snapshot(links, customersOf, S)
  <1>1. /\ s.links = read /\ s.customersOf = customersOf /\ s.cases = S
        /\ s.customers = UNION {customersOf[k] : k \in S}
    BY DEF Snapshot
  <1>2. \A e \in S \cup s.customers : Mapped(read, e, day) = Mapped(links, e, day)
    BY <1>1 DEF Mapped, LinksRead, EffectiveOn
  <1>3. \A k \in S : customersOf[k] \cap s.customers = customersOf[k]
    BY <1>1
  <1> HIDE DEF s, read
  <1>4. \A k \in S : CasePartners(s, k, day) = Claims(links, customersOf, k, day)
    BY <1>1, <1>2, <1>3 DEF CasePartners, Claims
  <1>5. \A c \in s.customers : Mapped(s.links, c, day) = Mapped(links, c, day)
    BY <1>1, <1>2
  <1> QED
    BY <1>4, <1>5 DEF s

LEMMA SnapshotCases ==
  ASSUME NEW p \in Partners, NEW d \in Periods
  PROVE  SnapshotOf(p, d).cases = portfolio[p][d].cases
  BY DEF SnapshotOf, Snapshot

(* PartnerReports!ClassificationsAgree: the validator, the homologation and  *)
(* the report of one portfolio tell the same owners of the same lawsuits,    *)
(* whatever the links.                                                       *)
THEOREM RulesAgree == Spec => []ClassificationsAgree
  <1>1. TypeOK => ClassificationsAgree
    <2> SUFFICES ASSUME TypeOK PROVE ClassificationsAgree
      OBVIOUS
    <2>1. ASSUME NEW day \in Days
          PROVE  Multiple(links, customersOf, day) = Conflicts(links, customersOf, day)
      BY ClaimsAreCandidates DEF Multiple, Conflicts
    <2>2. ASSUME NEW day \in Days
          PROVE  Linked(links, customersOf, day)
                   = UNION {ProcessesOf(p, links, customersOf, day) : p \in Partners}
      <3>1. ASSUME NEW k \in Cases
            PROVE  Cardinality(Claims(links, customersOf, k, day)) = 1
                     <=> \E p \in Partners : Candidates(links, customersOf, k, day) = {p}
        BY ClaimsAreCandidates, FS_Singleton
      <3>2. \A k : k \in Linked(links, customersOf, day)
                <=> k \in Cases /\ Cardinality(Claims(links, customersOf, k, day)) = 1
        BY Zenon DEF Linked
      <3>3. \A k, p : k \in ProcessesOf(p, links, customersOf, day)
                <=> k \in Cases /\ Candidates(links, customersOf, k, day) = {p}
        BY DEF ProcessesOf
      <3> QED
        BY <3>1, <3>2, <3>3
    <2>3. ASSUME NEW p \in Partners, NEW d \in Periods
          PROVE  Eligible(SnapshotOf(p, d), p, d[2])
                   = ProcessesOf(p, links, customersOf, d[2]) \cap portfolio[p][d].cases
      <3> DEFINE S == portfolio[p][d].cases
      <3>1. S \in SUBSET Cases /\ d[2] \in Days
        BY PeriodTypes DEF TypeOK, Portfolio
      <3>2. \A k \in S : CasePartners(SnapshotOf(p, d), k, d[2])
                           = Candidates(links, customersOf, k, d[2])
        <4> HIDE DEF S
        <4>1. SnapshotOf(p, d) = Snapshot(links, customersOf, S)
          BY DEF SnapshotOf, S
        <4>2. \A k \in S : CasePartners(SnapshotOf(p, d), k, d[2])
                             = Claims(links, customersOf, k, d[2])
          BY <3>1, <4>1, SnapshotSuffices
        <4> QED
          BY <3>1, <4>2, ClaimsAreCandidates
      <3> QED
        BY <3>1, <3>2, SnapshotCases DEF Eligible, ProcessesOf
    <2> QED
      BY <2>1, <2>2, <2>3 DEF ClassificationsAgree
  <1> QED
    BY <1>1, TypeInit, TypeNext, PTL DEF Spec

(* PartnerReports!CustomersConfined: the clients in a report belong to       *)
(* nobody else.                                                              *)
THEOREM ClientsConfined == Spec => []CustomersConfined
  <1>1. TypeOK => CustomersConfined
    <2> SUFFICES ASSUME TypeOK, NEW p \in Partners, NEW d \in Periods,
                        NEW c \in EligibleCustomers(SnapshotOf(p, d), p, d[2])
                 PROVE  Mapped(links, c, d[2]) \subseteq {p}
      BY DEF CustomersConfined
    <2> DEFINE S == portfolio[p][d].cases
               s == SnapshotOf(p, d)
    <2>1. S \in SUBSET Cases /\ d[2] \in Days
      BY PeriodTypes DEF TypeOK, Portfolio
    <2>2. /\ \A k \in S : CasePartners(s, k, d[2]) = Claims(links, customersOf, k, d[2])
          /\ \A e \in s.customers : Mapped(s.links, e, d[2]) = Mapped(links, e, d[2])
      <3> HIDE DEF S
      <3>1. s = Snapshot(links, customersOf, S)
        BY DEF SnapshotOf, S
      <3> HIDE DEF s
      <3> QED
        BY <2>1, <3>1, SnapshotSuffices
    <2>3. s.cases = S /\ s.customersOf = customersOf
      BY DEF SnapshotOf, Snapshot
    <2> HIDE DEF s
    <2>4. CASE c \in s.customers /\ Mapped(s.links, c, d[2]) = {p}
      BY <2>2, <2>4
    <2>5. ASSUME NEW k \in Eligible(s, p, d[2]), c \in s.customersOf[k]
          PROVE  Mapped(links, c, d[2]) \subseteq {p}
      <3>1. k \in S /\ CasePartners(s, k, d[2]) = {p}
        BY <2>3 DEF Eligible
      <3>2. Mapped(links, c, d[2]) \subseteq Claims(links, customersOf, k, d[2])
        BY <2>3, <2>5 DEF Claims
      <3> QED
        BY <2>2, <3>1, <3>2
    <2> QED
      BY <2>4, <2>5 DEF EligibleCustomers, s
  <1> QED
    BY <1>1, TypeInit, TypeNext, PTL DEF Spec

-----------------------------------------------------------------------------
(* A report and the data it is issued with *)

(* Every lawsuit of a portfolio is linked to its partner for the period.     *)
PortfolioLinked == \A p \in Partners, d \in Periods : \A k \in portfolio[p][d].cases :
    \E l \in links : /\ l.partner = p /\ l.of = k /\ l.from = d[1] /\ l.to = d[2]
                     /\ l.status = "active"

ReportOf(p, d, S, ent, pct) ==
    LET accounts == [k \in S |-> Account(ent[k], pct)]
    IN  [partner |-> p, period |-> d, accounts |-> accounts, summary |-> Summary(accounts)]

KeyOf(id, S, customers, ent, pct) == <<id, {<<k, customers[k], ent[k]>> : k \in S}, pct>>

(* What is being rendered and its key were made from the same data, some     *)
(* time ago.                                                                 *)
JobRead == UnderWay =>
    \E p \in Partners, d \in Periods, S \in SUBSET Cases, id \in Nat, pct \in 0 .. Whole,
       customers \in [Cases -> SUBSET Customers], ent \in [Cases -> SUBSET Entry] :
        job = [stage |-> job.stage, report |-> ReportOf(p, d, S, ent, pct),
               key |-> KeyOf(id, S, customers, ent, pct)]

LEMMA LinkedApprove ==
  ASSUME TypeOK, PortfolioLinked, NEW p \in Partners, NEW d \in Periods,
         NEW S \in SUBSET Cases, Approve(p, d, S)
  PROVE  PortfolioLinked'
  <1> DEFINE mine == {l \in links : /\ l.partner = p /\ l.of \in portfolio[p][d].cases
                                    /\ l.from = d[1] /\ l.to = d[2] /\ l.status = "active"}
             new == [partner : {p}, of : S, from : {d[1]}, to : {d[2]}, status : {"active"}]
  <1>1. links \ mine \subseteq links' /\ new \subseteq links'
    BY DEF Approve
  <1>2. portfolio' = [portfolio EXCEPT ![p][d] =
                        [id |-> budget[1], cases |-> S, outdated |-> FALSE]]
    BY DEF Approve
  <1> SUFFICES ASSUME NEW q \in Partners, NEW e \in Periods, NEW k \in portfolio'[q][e].cases
               PROVE  \E l \in links' : /\ l.partner = q /\ l.of = k /\ l.from = e[1]
                                        /\ l.to = e[2] /\ l.status = "active"
    BY DEF PortfolioLinked
  <1>3. CASE q = p /\ e = d
    <2>1. k \in S
      BY <1>2, <1>3 DEF TypeOK
    <2> DEFINE n == [partner |-> p, of |-> k, from |-> d[1], to |-> d[2], status |-> "active"]
    <2>2. n \in links'
      BY <1>1, <2>1
    <2> QED
      BY <1>3, <2>2
  <1>4. CASE ~(q = p /\ e = d)
    <2>1. k \in portfolio[q][e].cases
      BY <1>2, <1>4 DEF TypeOK
    <2>2. PICK l \in links : /\ l.partner = q /\ l.of = k /\ l.from = e[1] /\ l.to = e[2]
                             /\ l.status = "active"
      BY <2>1 DEF PortfolioLinked
    <2>3. l \notin mine
      BY <1>4, <2>2, PeriodTypes
    <2> QED
      BY <1>1, <2>2, <2>3
  <1> QED
    BY <1>3, <1>4

LEMMA LinkedNext == TypeOK /\ PortfolioLinked /\ [Next]_vars => PortfolioLinked'
  <1> SUFFICES ASSUME TypeOK, PortfolioLinked, [Next]_vars PROVE PortfolioLinked'
    OBVIOUS
  <1>1. ASSUME UNCHANGED portfolio, links \subseteq links' PROVE PortfolioLinked'
    BY <1>1 DEF PortfolioLinked
  <1>2. ASSUME NEW p \in Partners, NEW d \in Periods, NEW S \in SUBSET Cases, Approve(p, d, S)
        PROVE  PortfolioLinked'
    BY <1>2, LinkedApprove
  <1>3. ASSUME NEW k \in Cases, NEW C \in SUBSET Customers, ClientsChange(k, C)
        PROVE  PortfolioLinked'
    BY <1>3, ClientsPortfolios DEF PortfolioLinked
  <1> QED
    BY <1>1, <1>2, <1>3
       DEF Next, Build, MapCustomer, PayInstalment, PayOut, SetPercentage, Recheck, Issue,
           Discard, vars

(* Every lawsuit of a portfolio is claimed by its partner, and so nobody can *)
(* be its only claimant but the partner.                                     *)
LEMMA PortfolioClaimed ==
  ASSUME TypeOK, PortfolioLinked, NEW p \in Partners, NEW d \in Periods,
         NEW k \in portfolio[p][d].cases
  PROVE  p \in Claims(links, customersOf, k, d[2])
  <1>1. PICK l \in links : /\ l.partner = p /\ l.of = k /\ l.from = d[1] /\ l.to = d[2]
                           /\ l.status = "active"
    BY DEF PortfolioLinked
  <1>2. EffectiveOn(l, d[2])
    BY <1>1, PeriodTypes DEF EffectiveOn, Days
  <1> QED
    BY <1>1, <1>2 DEF Claims, Mapped

(* A report that can be made shows the whole portfolio.                      *)
LEMMA WholePortfolio ==
  ASSUME TypeOK, PortfolioLinked, NEW p \in Partners, NEW d \in Periods, Ready(p, d)
  PROVE  Eligible(SnapshotOf(p, d), p, d[2]) = portfolio[p][d].cases
  <1> DEFINE S == portfolio[p][d].cases
             s == SnapshotOf(p, d)
  <1>1. S \in SUBSET Cases /\ d[2] \in Days /\ s.cases = S
    BY PeriodTypes, SnapshotCases DEF TypeOK, Portfolio
  <1>2. \A k \in S : CasePartners(s, k, d[2]) = Claims(links, customersOf, k, d[2])
    <2> HIDE DEF S
    <2>1. s = Snapshot(links, customersOf, S)
      BY DEF SnapshotOf, S
    <2> HIDE DEF s
    <2> QED
      BY <1>1, <2>1, SnapshotSuffices
  <1>3. ASSUME NEW k \in S PROVE CasePartners(s, k, d[2]) = {p}
    <2>3. p \in CasePartners(s, k, d[2])
      BY <1>2, PortfolioClaimed
    <2>4. IsFiniteSet(CasePartners(s, k, d[2]))
      BY <1>1, <1>2, ClaimsAreCandidates
    <2>5. ~(Cardinality(CasePartners(s, k, d[2])) > 1)
      <3>1. Ambiguous(s, p, d[2]) = {} /\ k \in s.cases
        BY <1>1 DEF Ready, TechnicalReady
      <3> HIDE DEF s
      <3> QED
        BY <2>3, <3>1, Zenon DEF Ambiguous
    <2> QED
      BY <2>3, <2>4, <2>5, OnlyOne
  <1> QED
    BY <1>1, <1>3 DEF Eligible

LEMMA BuildRead ==
  ASSUME TypeOK, PortfolioLinked, NEW p \in Partners, NEW d \in Periods, Build(p, d)
  PROVE  JobRead'
  <1> DEFINE S == portfolio[p][d].cases
  <1>1. S \in SUBSET Cases /\ portfolio[p][d].id \in Nat /\ percentage[p] \in 0 .. Whole
    BY DEF TypeOK, Portfolio
  <1>2. Eligible(SnapshotOf(p, d), p, d[2]) = S
    BY WholePortfolio DEF Build
  <1>3. Report(p, d) = ReportOf(p, d, S, entries, percentage[p])
    BY <1>2 DEF Report, ReportOf
  <1>4. RevisionKey(p, d) = KeyOf(portfolio[p][d].id, S, customersOf, entries, percentage[p])
    BY DEF RevisionKey, KeyOf
  <1>5. job' = [stage |-> "rendering", report |-> ReportOf(p, d, S, entries, percentage[p]),
                key |-> KeyOf(portfolio[p][d].id, S, customersOf, entries, percentage[p])]
    BY <1>3, <1>4 DEF Build
  <1>6. /\ customersOf \in [Cases -> SUBSET Customers]
        /\ entries \in [Cases -> SUBSET Entry]
    BY DEF TypeOK
  <1> QED
    BY <1>1, <1>5, <1>6 DEF JobRead

LEMMA ReadNext ==
  ASSUME TypeOK, PortfolioLinked, JobRead, [Next]_vars PROVE JobRead'
  <1>1. ASSUME UNCHANGED job PROVE JobRead'
    BY <1>1 DEF JobRead, UnderWay
  <1>2. ASSUME NEW p \in Partners, NEW d \in Periods, Build(p, d) PROVE JobRead'
    BY <1>2, BuildRead
  <1>3. CASE Recheck
    <2>1. PICK p \in Partners, d \in Periods, S \in SUBSET Cases, id \in Nat, pct \in 0 .. Whole,
               customers \in [Cases -> SUBSET Customers], ent \in [Cases -> SUBSET Entry] :
            job = [stage |-> job.stage, report |-> ReportOf(p, d, S, ent, pct),
                   key |-> KeyOf(id, S, customers, ent, pct)]
      BY <1>3 DEF Recheck, JobRead, UnderWay
    <2>2. job' = [stage |-> "rechecked", report |-> ReportOf(p, d, S, ent, pct),
                  key |-> KeyOf(id, S, customers, ent, pct)]
      BY <1>3, <2>1 DEF Recheck
    <2> QED
      BY <2>2 DEF JobRead
  <1>4. CASE Issue
    <2>1. PICK report, key : job = [stage |-> job.stage, report |-> report, key |-> key]
      BY <1>4 DEF Issue, JobRead, UnderWay
    <2>2. job' = [stage |-> "issued", report |-> report, key |-> key]
      BY <1>4, <2>1 DEF Issue
    <2> QED
      BY <2>2 DEF JobRead, UnderWay
  <1>5. CASE Discard
    BY <1>5 DEF Discard, NoReport, JobRead, UnderWay
  <1> QED
    BY <1>1, <1>2, <1>3, <1>4, <1>5
       DEF Next, Approve, MapCustomer, ClientsChange, PayInstalment, PayOut, SetPercentage, vars

LEMMA SameKeySameData ==
  ASSUME NEW id, NEW S, NEW cust, NEW ent, NEW pct,
         NEW id2, NEW T, NEW cust2, NEW ent2, NEW pct2,
         KeyOf(id, S, cust, ent, pct) = KeyOf(id2, T, cust2, ent2, pct2)
  PROVE  S = T /\ (\A k \in S : ent[k] = ent2[k]) /\ pct = pct2
  <1>1. {<<k, cust[k], ent[k]>> : k \in S} = {<<k, cust2[k], ent2[k]>> : k \in T} /\ pct = pct2
    BY DEF KeyOf
  <1>2. ASSUME NEW k \in S PROVE k \in T /\ ent[k] = ent2[k]
    <2>1. <<k, cust[k], ent[k]>> \in {<<j, cust2[j], ent2[j]>> : j \in T}
      BY <1>1
    <2> QED
      BY <2>1
  <1>3. ASSUME NEW k \in T PROVE k \in S
    <2>1. <<k, cust2[k], ent2[k]>> \in {<<j, cust[j], ent[j]>> : j \in S}
      BY <1>1
    <2> QED
      BY <2>1
  <1> QED
    BY <1>1, <1>2, <1>3

RecheckedFresh == job'.stage = "rechecked" =>
    LET r == job'.report IN
    /\ DOMAIN r.accounts = portfolio[r.partner][r.period].cases
    /\ \A k \in DOMAIN r.accounts :
         /\ r.accounts[k] = Account(entries[k], percentage[r.partner])
         /\ r.partner \in Claims(links, customersOf, k, r.period[2])
    /\ r.summary = Summary(r.accounts)

LEMMA RecheckFresh == ASSUME TypeOK, PortfolioLinked, JobRead, Recheck PROVE RecheckedFresh
  <1>1. PICK p \in Partners, d \in Periods, S \in SUBSET Cases, id \in Nat, pct \in 0 .. Whole,
             customers \in [Cases -> SUBSET Customers], ent \in [Cases -> SUBSET Entry] :
          job = [stage |-> job.stage, report |-> ReportOf(p, d, S, ent, pct),
                 key |-> KeyOf(id, S, customers, ent, pct)]
    BY DEF Recheck, JobRead, UnderWay
  <1> DEFINE r == ReportOf(p, d, S, ent, pct)
  <1>2. job'.report = r
    BY <1>1 DEF Recheck
  <1>3. /\ r.partner = p /\ r.period = d
        /\ r.accounts = [k \in S |-> Account(ent[k], pct)] /\ r.summary = Summary(r.accounts)
    BY DEF ReportOf
  <1>4. job.report = r /\ job.key = KeyOf(id, S, customers, ent, pct)
    BY <1>1
  <1> HIDE DEF r
  <1>5. KeyOf(id, S, customers, ent, pct)
          = KeyOf(portfolio[p][d].id, portfolio[p][d].cases, customersOf, entries, percentage[p])
    BY <1>3, <1>4 DEF Recheck, SameRevision, RevisionKey, KeyOf
  <1>6. S = portfolio[p][d].cases /\ (\A k \in S : ent[k] = entries[k]) /\ pct = percentage[p]
    BY <1>5, SameKeySameData
  <1>7. \A k \in S : p \in Claims(links, customersOf, k, d[2])
    BY <1>6, PortfolioClaimed
  <1> QED
    BY <1>2, <1>3, <1>6, <1>7 DEF RecheckedFresh

(* PartnerReports!RecheckedAsOfNow: what passes the second read has the whole*)
(* portfolio and the figures of that read, and no lawsuit of it has been     *)
(* given to somebody else alone - though the key compared has no links in it.*)
THEOREM ReportsRecheckedFresh == Spec => RecheckedAsOfNow
  <1>1. Init => PortfolioLinked /\ JobRead
    BY DEF Init, PortfolioLinked, JobRead, UnderWay, NoPortfolio, NoReport
  <1>2. TypeOK /\ PortfolioLinked /\ JobRead /\ [Next]_vars => [RecheckedFresh]_job
    <2> SUFFICES ASSUME TypeOK, PortfolioLinked, JobRead, [Next]_vars, job' # job
                 PROVE  RecheckedFresh
      OBVIOUS
    <2>1. CASE Recheck
      BY <2>1, RecheckFresh
    <2>2. CASE Discard
      BY <2>2 DEF Discard, NoReport, RecheckedFresh
    <2>3. ASSUME NEW p \in Partners, NEW d \in Periods, Build(p, d) PROVE RecheckedFresh
      BY <2>3 DEF Build, RecheckedFresh
    <2>4. CASE Issue
      <3>1. PICK report, key : job = [stage |-> job.stage, report |-> report, key |-> key]
        BY <2>4 DEF Issue, JobRead, UnderWay
      <3>2. job'.stage = "issued"
        BY <2>4, <3>1 DEF Issue
      <3> QED
        BY <3>2 DEF RecheckedFresh
    <2> QED
      BY <2>1, <2>2, <2>3, <2>4
         DEF Next, Approve, MapCustomer, ClientsChange, PayInstalment, PayOut, SetPercentage,
             vars
  <1>3. [][RecheckedFresh]_job => RecheckedAsOfNow
    BY DEF RecheckedAsOfNow, RecheckedFresh
  <1> QED
    BY <1>1, <1>2, <1>3, TypeInit, TypeNext, LinkedNext, ReadNext, PTL DEF Spec

-----------------------------------------------------------------------------
(* Settlements *)

(* The entries of a lawsuit: only instalments are awaited, and each of them  *)
(* is there once, due or paid.                                               *)
BooksOf(E) ==
    /\ IsFiniteSet(E)
    /\ \A e \in E : e.paid \/ e.kind = "fee_income"
    /\ \A e, f \in E : e.kind = "fee_income" /\ f.kind = "fee_income" /\ e.n = f.n => e = f

Books == \A k \in Cases : BooksOf(entries[k])

LEMMA BooksInit == Init => Books
  <1> SUFFICES ASSUME Init, NEW k \in Cases PROVE BooksOf(entries[k])
    BY DEF Books
  <1>1. PICK amount \in Amounts : entries = [j \in Cases |->
            {[kind |-> "fee_income", n |-> i, amount |-> amount[i], paid |-> FALSE] :
                i \in Instalments}]
    BY DEF Init
  <1> DEFINE E == {[kind |-> "fee_income", n |-> i, amount |-> amount[i], paid |-> FALSE] :
                     i \in Instalments}
             due(i) == [kind |-> "fee_income", n |-> i, amount |-> amount[i], paid |-> FALSE]
  <1>2. /\ \A e \in E : e.kind = "fee_income"
        /\ \A e, f \in E : e.n = f.n => e = f
    <2>1. \A i \in Instalments : due(i).kind = "fee_income" /\ due(i).n = i
      OBVIOUS
    <2>2. \A e \in E : \E i \in Instalments : e = due(i)
      OBVIOUS
    <2> HIDE DEF E, due
    <2> QED
      BY <2>1, <2>2
  <1>3. IsFiniteSet(E)
    <2>1. E = {due(1)} \cup {due(2)}
      BY DEF Instalments
    <2>2. IsFiniteSet({due(1)}) /\ IsFiniteSet({due(2)})
      BY FS_Singleton
    <2> HIDE DEF E, due
    <2> QED
      BY <2>1, <2>2, FS_Union
  <1>4. entries[k] = E
    BY <1>1, Zenon
  <1> HIDE DEF E
  <1> QED
    BY <1>2, <1>3, <1>4 DEF BooksOf

(* What is paid was not there as paid.                                       *)
LEMMA InstalmentPays ==
  ASSUME TypeOK, Books, NEW k \in Cases, NEW e \in entries[k], PayInstalment(k, e)
  PROVE  /\ Pays(entries[k], e, [e EXCEPT !.paid = TRUE])
         /\ e.kind = "fee_income"
  <1>1. e \in Entry /\ entries[k] \subseteq Entry
    BY DEF TypeOK
  <1>2. e.paid = FALSE /\ BooksOf(entries[k])
    BY <1>1 DEF PayInstalment, Books, Entry
  <1>3. e.kind = "fee_income"
    BY <1>2 DEF BooksOf
  <1> DEFINE f == [e EXCEPT !.paid = TRUE]
  <1>4. f.kind = e.kind /\ f.n = e.n /\ f.amount = e.amount /\ f.paid = TRUE
    BY <1>1 DEF Entry
  <1> HIDE DEF f
  <1>5. f \notin entries[k]
    BY <1>2, <1>3, <1>4 DEF BooksOf
  <1> QED
    BY <1>2, <1>3, <1>4, <1>5 DEF Pays, f

LEMMA BooksPaid ==
  ASSUME TypeOK, Books, NEW k \in Cases, NEW e \in entries[k], PayInstalment(k, e)
  PROVE  Books'
  <1> DEFINE f == [e EXCEPT !.paid = TRUE]
             E == (entries[k] \ {e}) \cup {f}
  <1>1. entries' = [entries EXCEPT ![k] = E]
    BY DEF PayInstalment
  <1>2. e \in Entry /\ BooksOf(entries[k])
    BY DEF TypeOK, Books
  <1>3. f.kind = e.kind /\ f.n = e.n /\ f.paid = TRUE
    BY <1>2 DEF Entry
  <1> HIDE DEF f
  <1>4. IsFiniteSet(E)
    BY <1>2, FS_RemoveElement, FS_AddElement DEF BooksOf
  <1>5. e.kind = "fee_income"
    BY InstalmentPays
  <1>6. BooksOf(E)
    BY <1>2, <1>3, <1>4, <1>5 DEF BooksOf
  <1> HIDE DEF E
  <1> QED
    BY <1>1, <1>6 DEF Books, TypeOK

LEMMA BooksPaidOut ==
  ASSUME TypeOK, Books, NEW k \in Cases, NEW kind \in Kinds \ {"fee_income"}, NEW amount \in Nat,
         PayOut(k, kind, amount)
  PROVE  Books'
  <1> DEFINE f == [kind |-> kind, n |-> 0, amount |-> amount, paid |-> TRUE]
             E == entries[k] \cup {f}
  <1>1. entries' = [entries EXCEPT ![k] = E]
    BY DEF PayOut
  <1>2. BooksOf(entries[k])
    BY DEF Books
  <1>3. f.kind # "fee_income" /\ f.paid = TRUE
    OBVIOUS
  <1> HIDE DEF f
  <1>4. IsFiniteSet(E)
    BY <1>2, FS_AddElement DEF BooksOf
  <1>5. BooksOf(E)
    BY <1>2, <1>3, <1>4 DEF BooksOf
  <1> HIDE DEF E
  <1> QED
    BY <1>1, <1>5 DEF Books, TypeOK

LEMMA BooksNext == TypeOK /\ Books /\ [Next]_vars => Books'
  <1> SUFFICES ASSUME TypeOK, Books, [Next]_vars PROVE Books'
    OBVIOUS
  <1>1. ASSUME UNCHANGED entries PROVE Books'
    BY <1>1 DEF Books
  <1>2. ASSUME NEW k \in Cases, \E e \in entries[k] : PayInstalment(k, e) PROVE Books'
    BY <1>2, BooksPaid
  <1>3. ASSUME NEW k \in Cases, PayOut(k, "bank_fee", Fee) \/ PayOut(k, "partner_payout", Payout)
        PROVE  Books'
    BY <1>3, BooksPaidOut, PortfolioAssumption DEF Kinds
  <1> QED
    BY <1>1, <1>2, <1>3
       DEF Next, Build, Approve, MapCustomer, ClientsChange, SetPercentage, Recheck, Issue,
           Discard, vars

LEMMA BooksEntries == ASSUME TypeOK, Books, NEW k \in Cases PROVE Entries(entries[k])
  BY DEF TypeOK, Books, BooksOf, Entries, Entry

(* PartnerReports!ShareWithinNet: whatever was paid, deducted and asked for, *)
(* neither the partner nor the office gets more than there is to share.      *)
THEOREM SharesWithinNet == Spec => []ShareWithinNet
  <1>1. TypeOK /\ Books => ShareWithinNet
    <2> SUFFICES ASSUME TypeOK, Books, NEW p \in Partners, NEW k \in Cases
                 PROVE  LET a == Account(entries[k], percentage[p]) IN
                        a.net >= 0 => a.share \in 0 .. a.net /\ a.office \in 0 .. a.net
      BY DEF ShareWithinNet
    <2>1. Entries(entries[k]) /\ percentage[p] \in 0 .. Whole
      BY BooksEntries DEF TypeOK
    <2> QED
      BY <2>1, SharesWithin
  <1> QED
    BY <1>1, TypeInit, TypeNext, BooksInit, BooksNext, PTL DEF Spec

PaymentKept == \A k \in Cases : \A e \in entries[k] \ entries'[k] :
    \A p \in Partners :
        LET was == Account(entries[k], percentage[p])
            is == Account(entries'[k], percentage[p])
            moved == (is.share + is.future) - (was.share + was.future)
        IN  moved \in -2 .. 2

LEMMA PaidKept ==
  ASSUME TypeOK, Books, NEW k \in Cases, NEW e \in entries[k], PayInstalment(k, e)
  PROVE  PaymentKept
  <1> SUFFICES ASSUME NEW j \in Cases, NEW x \in entries[j] \ entries'[j], NEW p \in Partners
               PROVE  LET was == Account(entries[j], percentage[p])
                          is == Account(entries'[j], percentage[p])
                      IN  (is.share + is.future) - (was.share + was.future) \in -2 .. 2
    BY DEF PaymentKept
  <1> DEFINE f == [e EXCEPT !.paid = TRUE]
             E == (entries[k] \ {e}) \cup {f}
  <1>1. entries' = [entries EXCEPT ![k] = E]
    BY DEF PayInstalment
  <1>2. j = k /\ entries'[k] = E
    BY <1>1 DEF TypeOK
  <1>3. Pays(entries[k], e, f) /\ e.kind = "fee_income"
    BY InstalmentPays
  <1>4. Entries(entries[k]) /\ percentage[p] \in 0 .. Whole
    BY BooksEntries DEF TypeOK
  <1> HIDE DEF f
  <1> QED
    BY <1>2, <1>3, <1>4, PaidAsEstimated

(* PartnerReports!EstimateKept: an instalment that is paid turns what the    *)
(* partner was told to expect into what is owed, but for two cents, whatever *)
(* was paid and deducted before.                                             *)
THEOREM EstimatesKept == Spec => EstimateKept
  <1>1. TypeOK /\ Books /\ [Next]_vars => [PaymentKept]_vars
    <2> SUFFICES ASSUME TypeOK, Books, [Next]_vars, vars' # vars PROVE PaymentKept
      OBVIOUS
    <2>1. ASSUME NEW k \in Cases, \E e \in entries[k] : PayInstalment(k, e) PROVE PaymentKept
      BY <2>1, PaidKept
    <2>2. ASSUME NEW k \in Cases, NEW kind, NEW amount, PayOut(k, kind, amount) PROVE PaymentKept
      BY <2>2 DEF PayOut, PaymentKept, TypeOK
    <2>3. ASSUME UNCHANGED entries PROVE PaymentKept
      BY <2>3 DEF PaymentKept
    <2> QED
      BY <2>1, <2>2, <2>3
         DEF Next, Build, Approve, MapCustomer, ClientsChange, SetPercentage, Recheck, Issue,
             Discard
  <1>2. [][PaymentKept]_vars => EstimateKept
    BY DEF EstimateKept, PaymentKept
  <1> QED
    BY <1>1, <1>2, TypeInit, TypeNext, BooksInit, BooksNext, PTL DEF Spec
=============================================================================
