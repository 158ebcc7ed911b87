------------------------------- MODULE Linkage -------------------------------
(* Who a client or a lawsuit belongs to on a day.  The rule is written three *)
(* times in the program: for one partner's report, for the whole mapping,    *)
(* and for the homologation of the external system.                          *)
EXTENDS Naturals, FiniteSets

CONSTANTS
    Partners,
    Customers,
    Cases,
    LastDay,  \* days are 1 .. LastDay
    Open      \* valid_to of a link without an end

Days == 1 .. LastDay
Entities == Customers \cup Cases

Link == [partner : Partners, of : Entities, from : Days, to : Days \cup {Open},
         status : {"active", "inactive"}]

EffectiveOn(l, day) ==
    l.status = "active" /\ l.from <= day /\ (l.to = Open \/ day <= l.to)

(* The partners an entity is mapped to, by the links given.                  *)
Mapped(links, e, day) == {l.partner : l \in {x \in links : x.of = e /\ EffectiveOn(x, day)}}

-----------------------------------------------------------------------------
(* validate_partner_linkage: the whole mapping *)

(* Fault: a link of the lawsuit comes before those of its clients.           *)
DirectFirst(links, customersOf, k, day) ==
    IF Mapped(links, k, day) # {} THEN Mapped(links, k, day)
    ELSE UNION {Mapped(links, c, day) : c \in customersOf[k]}

Claims(links, customersOf, k, day) ==
    Mapped(links, k, day) \cup UNION {Mapped(links, c, day) : c \in customersOf[k]}

Linked(links, customersOf, day) ==
    {k \in Cases : Cardinality(Claims(links, customersOf, k, day)) = 1}
Multiple(links, customersOf, day) ==
    {k \in Cases : Cardinality(Claims(links, customersOf, k, day)) > 1}

-----------------------------------------------------------------------------
(* public_summary: the links the database selects for a day, in one pass *)

Selected(links, day) == {<<l.partner, l.of>> : l \in {x \in links :
    /\ x.status = "active"
    /\ ~(day < x.from)
    /\ x.to # Open => ~(x.to < day)}}

Candidates(links, customersOf, k, day) ==
    {m[1] : m \in {n \in Selected(links, day) : n[2] \in {k} \cup customersOf[k]}}

ProcessesOf(p, links, customersOf, day) ==
    {k \in Cases : Candidates(links, customersOf, k, day) = {p}}
Conflicts(links, customersOf, day) ==
    {k \in Cases : Cardinality(Candidates(links, customersOf, k, day)) > 1}

-----------------------------------------------------------------------------
(* load_batch_report and build_internal_report: one portfolio *)

(* Fault: only the links of lawsuits are read with a portfolio.              *)
LawsuitLinks(links, customersOf, S) == {l \in links : l.status = "active" /\ l.of \in S}

(* The links read with a portfolio: of its lawsuits and of their clients.    *)
LinksRead(links, customersOf, S) ==
    {l \in links : /\ l.status = "active"
                   /\ l.of \in S \cup UNION {customersOf[k] : k \in S}}

Snapshot(links, customersOf, S) ==
    [cases |-> S,
     customers |-> UNION {customersOf[k] : k \in S},
     links |-> LinksRead(links, customersOf, S),
     customersOf |-> customersOf]

CasePartners(s, k, day) ==
    Mapped(s.links, k, day)
        \cup UNION {Mapped(s.links, c, day) : c \in s.customersOf[k] \cap s.customers}

NonexistentTargets(s, p, day) == {l \in s.links : /\ EffectiveOn(l, day)
                                                  /\ l.partner = p
                                                  /\ l.of \notin s.cases \cup s.customers}

Ambiguous(s, p, day) == {k \in s.cases : /\ p \in CasePartners(s, k, day)
                                         /\ Cardinality(CasePartners(s, k, day)) > 1}

TechnicalReady(s, p, day) == Ambiguous(s, p, day) = {} /\ NonexistentTargets(s, p, day) = {}

Eligible(s, p, day) == {k \in s.cases : CasePartners(s, k, day) = {p}}

(* The clients of a preview: those mapped to the partner alone, and those of *)
(* its lawsuits.                                                             *)
EligibleCustomers(s, p, day) ==
    {c \in s.customers : Mapped(s.links, c, day) = {p}}
        \cup UNION {s.customersOf[k] \cap s.customers : k \in Eligible(s, p, day)}
=============================================================================
