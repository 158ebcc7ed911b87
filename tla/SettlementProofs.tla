-------------------------- MODULE SettlementProofs --------------------------
(* Sums over finite sets, which settlements are made of: that a sum exists,  *)
(* does not depend on the order it is taken in, and moves by what is put in  *)
(* or taken out; and what rounding does to the figures of a lawsuit.         *)
EXTENDS Settlement, FiniteSetTheorems, WellFoundedInduction, TLAPS

(* Induction over the parts of a finite set: what holds of a part whenever it*)
(* holds of all smaller ones holds of every part.                            *)
LEMMA PartsInduction ==
    ASSUME NEW S, IsFiniteSet(S), NEW G,
           \A s \in SUBSET S : (\A t \in SUBSET s : t # s => t \in G) => s \in G
    PROVE  \A s \in SUBSET S : s \in G
  <1> DEFINE B == {s \in SUBSET S : s \notin G}
  <1>1. B \subseteq FiniteSubsetsOf(S)
    BY FS_Subset DEF FiniteSubsetsOf
  <1>2. SUFFICES ASSUME B # {} PROVE FALSE
    OBVIOUS
  <1>3. PICK s \in B : \A t \in B : ~(<<t, s>> \in StrictSubsetOrdering(S))
    <2> HIDE DEF B
    <2> QED BY <1>1, <1>2, FS_StrictSubsetOrderingWellFounded, WFMin
  <1>4. ASSUME NEW t \in SUBSET s, t # s PROVE t \in G
    BY <1>3, <1>4, <1>1 DEF StrictSubsetOrdering
  <1> QED BY <1>3, <1>4

-----------------------------------------------------------------------------
(* Sums *)

Sum(w, S) == MapThenSumSet(LAMBDA x : w[x], S)

Pick(s) == CHOOSE x \in s : TRUE

(* The function a sum is taken from: what the parts of S add up to.          *)
AddsUp(f, w, S) ==
    f = [s \in SUBSET S |-> IF s = {} THEN 0 ELSE w[Pick(s)] + f[s \ {Pick(s)}]]

LEMMA SumUnfolded == ASSUME NEW w, NEW S
                     PROVE  Sum(w, S) = (CHOOSE f : AddsUp(f, w, S))[S]
  BY Zenon DEF Sum, MapThenSumSet, MapThenFoldSet, AddsUp, Pick

LEMMA PickIn == ASSUME NEW s, s # {} PROVE Pick(s) \in s
  BY DEF Pick

LEMMA AddsUpAt == ASSUME NEW f, NEW w, NEW S, AddsUp(f, w, S), NEW s \in SUBSET S
                  PROVE  f[s] = IF s = {} THEN 0 ELSE w[Pick(s)] + f[s \ {Pick(s)}]
  <1> DEFINE g == [t \in SUBSET S |-> IF t = {} THEN 0 ELSE w[Pick(t)] + f[t \ {Pick(t)}]]
  <1>1. f = g BY Zenon DEF AddsUp
  <1>2. g[s] = IF s = {} THEN 0 ELSE w[Pick(s)] + f[s \ {Pick(s)}] BY Zenon
  <1> HIDE DEF g
  <1> QED BY <1>1, <1>2, Zenon

(* Two such functions, of a set and of a larger one, agree on the smaller.   *)
LEMMA AddsUpSame ==
    ASSUME NEW w, NEW S, IsFiniteSet(S), NEW T \in SUBSET S,
           NEW f, AddsUp(f, w, S), NEW g, AddsUp(g, w, T)
    PROVE  \A s \in SUBSET T : f[s] = g[s]
  <1> DEFINE G == {s \in SUBSET T : f[s] = g[s]}
  <1>1. ASSUME NEW s \in SUBSET T, \A t \in SUBSET s : t # s => t \in G
        PROVE  s \in G
    <2>1. CASE s = {}
      <3>1. f[s] = 0 BY <2>1, AddsUpAt
      <3>2. g[s] = 0 BY <2>1, AddsUpAt
      <3> QED BY <3>1, <3>2
    <2>2. CASE s # {}
      <3>1. f[s] = w[Pick(s)] + f[s \ {Pick(s)}] BY <2>2, AddsUpAt
      <3>2. g[s] = w[Pick(s)] + g[s \ {Pick(s)}] BY <2>2, AddsUpAt
      <3>3. s \ {Pick(s)} \in SUBSET s /\ s \ {Pick(s)} # s BY <2>2, PickIn
      <3>4. s \ {Pick(s)} \in G BY <1>1, <3>3
      <3> QED BY <3>1, <3>2, <3>4
    <2> QED BY <2>1, <2>2
  <1>2. IsFiniteSet(T) BY FS_Subset
  <1> HIDE DEF G
  <1>3. \A s \in SUBSET T : s \in G BY <1>1, <1>2, PartsInduction
  <1> QED BY <1>3 DEF G

(* It exists, by induction over the parts.                                   *)
LEMMA AddsUpExists ==
    ASSUME NEW w, NEW S, IsFiniteSet(S)
    PROVE  AddsUp(CHOOSE f : AddsUp(f, w, S), w, S)
  <1> DEFINE G == {s \in SUBSET S : \E f : AddsUp(f, w, s)}
  <1>1. ASSUME NEW s \in SUBSET S, \A t \in SUBSET s : t # s => t \in G
        PROVE  s \in G
    <2> DEFINE h == [t \in SUBSET s |-> IF t = {} THEN 0 ELSE w[Pick(t)] + Sum(w, t \ {Pick(t)})]
    <2>1. ASSUME NEW t \in SUBSET s, t # s PROVE h[t] = Sum(w, t)
      <3>1. PICK f : AddsUp(f, w, t) BY <1>1, <2>1
      <3>2. AddsUp(CHOOSE g : AddsUp(g, w, t), w, t) BY <3>1, Zenon
      <3>3. Sum(w, t) = IF t = {} THEN 0 ELSE w[Pick(t)] + (CHOOSE g : AddsUp(g, w, t))[t \ {Pick(t)}]
        BY <3>2, AddsUpAt, SumUnfolded
      <3>4. ASSUME t # {}
            PROVE  Sum(w, t \ {Pick(t)}) = (CHOOSE g : AddsUp(g, w, t))[t \ {Pick(t)}]
        <4> DEFINE u == t \ {Pick(t)}
        <4>1. u \in SUBSET t /\ u # s BY <2>1
        <4>2. \E f2 : AddsUp(f2, w, u) BY <1>1, <4>1
        <4>3. AddsUp(CHOOSE g : AddsUp(g, w, u), w, u) BY <4>2, Zenon
        <4>4. IsFiniteSet(t) BY FS_Subset
        <4> HIDE DEF u
        <4>5. (CHOOSE g : AddsUp(g, w, t))[u] = (CHOOSE g : AddsUp(g, w, u))[u]
          BY <3>2, <4>1, <4>3, <4>4, AddsUpSame
        <4> QED BY <4>5, SumUnfolded DEF u
      <3> QED BY <3>3, <3>4
    <2>2. ASSUME NEW t \in SUBSET s, t # {}
          PROVE  t \ {Pick(t)} \in SUBSET s /\ t \ {Pick(t)} # s
      BY <2>2, PickIn
    <2>3. h = [t \in SUBSET s |-> IF t = {} THEN 0 ELSE w[Pick(t)] + h[t \ {Pick(t)}]]
      BY <2>1, <2>2
    <2> HIDE DEF h
    <2>4. AddsUp(h, w, s) BY <2>3 DEF AddsUp
    <2> QED BY <2>4
  <1> HIDE DEF G
  <1>2. S \in G BY <1>1, PartsInduction
  <1>3. \E f : AddsUp(f, w, S) BY <1>2 DEF G
  <1> QED BY <1>3, Zenon

LEMMA SumOfNone == ASSUME NEW w PROVE Sum(w, {}) = 0
  BY AddsUpExists, AddsUpAt, SumUnfolded, FS_EmptySet

LEMMA SumPicked ==
    ASSUME NEW w, NEW S, IsFiniteSet(S), S # {}
    PROVE  Sum(w, S) = w[Pick(S)] + Sum(w, S \ {Pick(S)})
  <1> DEFINE T == S \ {Pick(S)}
  <1>1. IsFiniteSet(T) /\ T \in SUBSET S BY FS_Subset
  <1>2. AddsUp(CHOOSE f : AddsUp(f, w, S), w, S) BY AddsUpExists
  <1>3. AddsUp(CHOOSE f : AddsUp(f, w, T), w, T) BY <1>1, AddsUpExists
  <1> HIDE DEF T
  <1>4. (CHOOSE f : AddsUp(f, w, S))[T] = (CHOOSE f : AddsUp(f, w, T))[T]
    BY <1>1, <1>2, <1>3, AddsUpSame
  <1>5. Sum(w, S) = w[Pick(S)] + (CHOOSE f : AddsUp(f, w, S))[T]
    BY <1>2, AddsUpAt, SumUnfolded DEF T
  <1> QED BY <1>4, <1>5, SumUnfolded DEF T

(* A sum of integers is one, and none is negative if no term is.             *)
LEMMA SumTyped ==
    ASSUME NEW w, NEW S, IsFiniteSet(S), \A x \in S : w[x] \in Int
    PROVE  /\ Sum(w, S) \in Int
           /\ (\A x \in S : w[x] >= 0) => Sum(w, S) >= 0
  <1> DEFINE G == {s \in SUBSET S : /\ Sum(w, s) \in Int
                                    /\ (\A x \in S : w[x] >= 0) => Sum(w, s) >= 0}
  <1>1. ASSUME NEW s \in SUBSET S, \A t \in SUBSET s : t # s => t \in G
        PROVE  s \in G
    <2>1. CASE s = {}
      BY <2>1, SumOfNone
    <2>2. CASE s # {}
      <3>1. IsFiniteSet(s) BY FS_Subset
      <3>2. Sum(w, s) = w[Pick(s)] + Sum(w, s \ {Pick(s)}) BY <2>2, <3>1, SumPicked
      <3>3. Pick(s) \in S /\ s \ {Pick(s)} \in G BY <1>1, <2>2, PickIn
      <3> QED BY <3>2, <3>3
    <2> QED BY <2>1, <2>2
  <1> HIDE DEF G
  <1>2. S \in G BY <1>1, PartsInduction
  <1> QED BY <1>2 DEF G

(* Whichever term is taken out, the rest of the sum is the sum of the rest:  *)
(* the order does not matter.                                                *)
LEMMA SumWithout ==
    ASSUME NEW w, NEW S, IsFiniteSet(S), \A x \in S : w[x] \in Int, NEW e \in S
    PROVE  Sum(w, S) = w[e] + Sum(w, S \ {e})
  <1> DEFINE G == {s \in SUBSET S : \A x \in s : Sum(w, s) = w[x] + Sum(w, s \ {x})}
  <1>1. ASSUME NEW s \in SUBSET S, \A t \in SUBSET s : t # s => t \in G
        PROVE  s \in G
    <2> SUFFICES ASSUME NEW x \in s, x # Pick(s) PROVE Sum(w, s) = w[x] + Sum(w, s \ {x})
      BY SumPicked, FS_Subset
    <2> DEFINE p == Pick(s)
    <2>1. p \in s BY PickIn
    <2>2. ASSUME NEW t \in SUBSET s PROVE Sum(w, t) \in Int
      BY SumTyped, FS_Subset
    <2> HIDE DEF p
    <2>3. Sum(w, s) = w[p] + Sum(w, s \ {p}) BY SumPicked, FS_Subset DEF p
    <2>4. s \ {p} \in G /\ s \ {x} \in G BY <1>1, <2>1
    <2>5. Sum(w, s \ {p}) = w[x] + Sum(w, (s \ {p}) \ {x}) BY <2>4 DEF p
    <2>6. Sum(w, s \ {x}) = w[p] + Sum(w, (s \ {x}) \ {p}) BY <2>1, <2>4 DEF p
    <2>7. (s \ {p}) \ {x} = (s \ {x}) \ {p} OBVIOUS
    <2>8. Sum(w, (s \ {p}) \ {x}) \in Int /\ w[p] \in Int /\ w[x] \in Int
      BY <2>1, <2>2
    <2>9. Sum(w, s \ {x}) = w[p] + Sum(w, (s \ {p}) \ {x})
      BY <2>6, <2>7, Zenon
    <2> DEFINE rest == Sum(w, (s \ {p}) \ {x})
    <2> HIDE DEF rest
    <2>10. Sum(w, s) = w[p] + (w[x] + rest) BY <2>3, <2>5, Zenon DEF rest
    <2>11. Sum(w, s \ {x}) = w[p] + rest BY <2>9 DEF rest
    <2>12. rest \in Int BY <2>8 DEF rest
    <2> QED BY <2>8, <2>10, <2>11, <2>12
  <1> HIDE DEF G
  <1>2. S \in G BY <1>1, PartsInduction
  <1> QED BY <1>2 DEF G

LEMMA SumWith ==
    ASSUME NEW w, NEW S, IsFiniteSet(S), NEW e, e \notin S, \A x \in S \cup {e} : w[x] \in Int
    PROVE  Sum(w, S \cup {e}) = w[e] + Sum(w, S)
  <1>1. IsFiniteSet(S \cup {e}) BY FS_AddElement
  <1>2. (S \cup {e}) \ {e} = S OBVIOUS
  <1> QED BY <1>1, <1>2, SumWithout

(* Sums taken term by term.                                                  *)
LEMMA SumOfSums ==
    ASSUME NEW S, IsFiniteSet(S), NEW u, NEW v, NEW w,
           \A x \in S : u[x] \in Int /\ v[x] \in Int /\ w[x] = u[x] + v[x]
    PROVE  Sum(w, S) = Sum(u, S) + Sum(v, S)
  <1> DEFINE G == {s \in SUBSET S : Sum(w, s) = Sum(u, s) + Sum(v, s)}
  <1>1. ASSUME NEW s \in SUBSET S, \A t \in SUBSET s : t # s => t \in G
        PROVE  s \in G
    <2>1. CASE s = {}
      BY <2>1, SumOfNone
    <2>2. CASE s # {}
      <3> DEFINE p == Pick(s)
                 t == s \ {p}
      <3>1. p \in S /\ t \in SUBSET S /\ t \in G BY <1>1, <2>2, PickIn
      <3>2. IsFiniteSet(s) BY FS_Subset
      <3>3. Sum(w, s) = w[p] + Sum(w, t) BY <2>2, <3>2, SumPicked
      <3>4. Sum(u, s) = u[p] + Sum(u, t) BY <2>2, <3>2, SumPicked
      <3>5. Sum(v, s) = v[p] + Sum(v, t) BY <2>2, <3>2, SumPicked
      <3> HIDE DEF p, t
      <3>6. Sum(u, t) \in Int /\ Sum(v, t) \in Int BY <3>1, SumTyped, FS_Subset
      <3> QED BY <3>1, <3>3, <3>4, <3>5, <3>6
    <2> QED BY <2>1, <2>2
  <1> HIDE DEF G
  <1>2. S \in G BY <1>1, PartsInduction
  <1> QED BY <1>2 DEF G

-----------------------------------------------------------------------------
(* Totals *)

(* The amounts of entries, as a sum of a function.                           *)
LEMMA AmountsSummed ==
    ASSUME NEW S
    PROVE  MapThenSumSet(LAMBDA e : e.amount, S) = Sum([e \in S |-> e.amount], S)
  <1> DEFINE A(f) == f = [s \in SUBSET S |-> IF s = {} THEN 0
                                             ELSE Pick(s).amount + f[s \ {Pick(s)}]]
             w == [e \in S |-> e.amount]
  <1>1. MapThenSumSet(LAMBDA e : e.amount, S) = (CHOOSE f : A(f))[S]
    BY Zenon DEF MapThenSumSet, MapThenFoldSet, Pick
  <1>2. ASSUME NEW f PROVE A(f) <=> AddsUp(f, w, S)
    <2>1. \A s \in SUBSET S : s # {} => Pick(s).amount = w[Pick(s)]
      BY PickIn
    <2>2. [s \in SUBSET S |-> IF s = {} THEN 0 ELSE Pick(s).amount + f[s \ {Pick(s)}]]
        = [s \in SUBSET S |-> IF s = {} THEN 0 ELSE w[Pick(s)] + f[s \ {Pick(s)}]]
      BY <2>1
    <2> QED BY <2>2 DEF AddsUp
  <1> HIDE DEF A, w
  <1>3. (CHOOSE f : A(f)) = (CHOOSE f : AddsUp(f, w, S)) BY <1>2
  <1> QED BY <1>1, <1>3, SumUnfolded DEF w

(* Sums of functions that agree on the set are the same.                     *)
LEMMA SumSame ==
    ASSUME NEW S, NEW v, NEW w, \A x \in S : v[x] = w[x]
    PROVE  Sum(v, S) = Sum(w, S)
  <1>1. ASSUME NEW f PROVE AddsUp(f, v, S) <=> AddsUp(f, w, S)
    <2>1. \A s \in SUBSET S : s # {} => v[Pick(s)] = w[Pick(s)]
      BY PickIn
    <2>2. [s \in SUBSET S |-> IF s = {} THEN 0 ELSE v[Pick(s)] + f[s \ {Pick(s)}]]
        = [s \in SUBSET S |-> IF s = {} THEN 0 ELSE w[Pick(s)] + f[s \ {Pick(s)}]]
      BY <2>1
    <2> QED BY <2>2 DEF AddsUp
  <1>2. (CHOOSE f : AddsUp(f, v, S)) = (CHOOSE f : AddsUp(f, w, S)) BY <1>1
  <1> QED BY <1>2, SumUnfolded

AmountOf(S) == MapThenSumSet(LAMBDA e : e.amount, S)

LEMMA AmountsTyped ==
    ASSUME NEW S, IsFiniteSet(S), \A e \in S : e.amount \in Nat
    PROVE  AmountOf(S) \in Nat
  <1> DEFINE w == [e \in S |-> e.amount]
  <1>1. \A e \in S : w[e] \in Int /\ w[e] >= 0 OBVIOUS
  <1>2. AmountOf(S) = Sum(w, S) BY AmountsSummed, Zenon DEF AmountOf
  <1> HIDE DEF w
  <1> QED BY <1>1, <1>2, SumTyped

LEMMA AmountsWith ==
    ASSUME NEW S, IsFiniteSet(S), \A x \in S : x.amount \in Nat,
           NEW e, e \notin S, e.amount \in Nat
    PROVE  AmountOf(S \cup {e}) = e.amount + AmountOf(S)
  <1> DEFINE T == S \cup {e}
             w == [x \in T |-> x.amount]
             v == [x \in S |-> x.amount]
  <1>1. AmountOf(T) = Sum(w, T) BY AmountsSummed, Zenon DEF AmountOf
  <1>2. AmountOf(S) = Sum(v, S) BY AmountsSummed, Zenon DEF AmountOf
  <1>3. \A x \in S : v[x] = w[x] OBVIOUS
  <1>4. (\A x \in T : w[x] \in Int) /\ w[e] = e.amount OBVIOUS
  <1> HIDE DEF w, v
  <1>5. Sum(v, S) = Sum(w, S) BY <1>3, SumSame
  <1>6. Sum(w, T) = w[e] + Sum(w, S) BY <1>4, SumWith
  <1> QED BY <1>1, <1>2, <1>4, <1>5, <1>6

Chosen(entries, kind, paid) == {e \in entries : e.kind = kind /\ e.paid = paid}

LEMMA TotalIs == ASSUME NEW entries, NEW kind, NEW paid
                 PROVE  Total(entries, kind, paid) = AmountOf(Chosen(entries, kind, paid))
  BY Zenon DEF Total, AmountOf, Chosen

(* What a lawsuit has: finitely many entries with an amount each.            *)
Entries(S) == IsFiniteSet(S) /\ \A e \in S : e.amount \in Nat

LEMMA TotalTyped == ASSUME NEW S, Entries(S), NEW kind, NEW paid
                    PROVE  Total(S, kind, paid) \in Nat
  <1>1. IsFiniteSet(Chosen(S, kind, paid)) BY FS_Subset DEF Chosen, Entries
  <1>2. \A e \in Chosen(S, kind, paid) : e.amount \in Nat BY DEF Chosen, Entries
  <1> QED BY <1>1, <1>2, AmountsTyped, TotalIs

(* What an entry adds to a total.                                            *)
Part(e, kind, paid) == IF e.kind = kind /\ e.paid = paid THEN e.amount ELSE 0

(* An entry put in changes the total it belongs to, and no other.            *)
LEMMA TotalWith ==
    ASSUME NEW S, Entries(S), NEW e, e \notin S, e.amount \in Nat, NEW kind, NEW paid
    PROVE  Total(S \cup {e}, kind, paid) = Total(S, kind, paid) + Part(e, kind, paid)
  <1> DEFINE C == Chosen(S, kind, paid)
  <1>1. IsFiniteSet(C) BY FS_Subset DEF Chosen, Entries
  <1>2. (\A x \in C : x.amount \in Nat) /\ e \notin C BY DEF Chosen, Entries
  <1>3. AmountOf(C) \in Nat BY <1>1, <1>2, AmountsTyped
  <1>4. CASE e.kind = kind /\ e.paid = paid
    <2>1. Chosen(S \cup {e}, kind, paid) = C \cup {e} BY <1>4 DEF Chosen
    <2>2. AmountOf(C \cup {e}) = e.amount + AmountOf(C) BY <1>1, <1>2, AmountsWith
    <2>3. Total(S \cup {e}, kind, paid) = AmountOf(C \cup {e}) BY <2>1, TotalIs, Zenon
    <2>4. Total(S, kind, paid) = AmountOf(C) BY TotalIs, Zenon
    <2> HIDE DEF C
    <2> QED BY <1>3, <1>4, <2>2, <2>3, <2>4 DEF Part
  <1>5. CASE ~(e.kind = kind /\ e.paid = paid)
    <2>1. Chosen(S \cup {e}, kind, paid) = C BY <1>5 DEF Chosen
    <2>2. Total(S \cup {e}, kind, paid) = AmountOf(C) BY <2>1, TotalIs, Zenon
    <2>3. Total(S, kind, paid) = AmountOf(C) BY TotalIs, Zenon
    <2> HIDE DEF C
    <2> QED BY <1>3, <1>5, <2>2, <2>3 DEF Part
  <1> QED BY <1>4, <1>5

(* What it is for an instalment to be paid: e becomes f, which is not there. *)
Pays(S, e, f) ==
    /\ e \in S /\ e.paid = FALSE
    /\ f \notin S /\ f.kind = e.kind /\ f.amount = e.amount /\ f.paid = TRUE

Received(S, kind) == Total(S, kind, TRUE)
Awaited(S, kind) == Total(S, kind, FALSE)

(* It moves from one total to the other.                                     *)
LEMMA TotalPaid ==
    ASSUME NEW S, Entries(S), NEW e, NEW f, Pays(S, e, f), NEW kind
    PROVE  LET T == (S \ {e}) \cup {f} IN
           /\ Entries(T)
           /\ e.kind = kind => /\ Received(T, kind) = Received(S, kind) + e.amount
                              /\ Awaited(T, kind) = Awaited(S, kind) - e.amount
           /\ e.kind # kind => /\ Received(T, kind) = Received(S, kind)
                              /\ Awaited(T, kind) = Awaited(S, kind)
  <1> DEFINE R == S \ {e}
  <1>1. Entries(R) BY FS_Subset DEF Entries
  <1>2. e.amount \in Nat /\ f.amount \in Nat /\ f.amount = e.amount BY DEF Entries, Pays
  <1>3. Entries(R \cup {f}) BY <1>1, <1>2, FS_AddElement DEF Entries
  <1>4. e \notin R /\ f \notin R /\ R \cup {e} = S BY DEF Pays
  <1> HIDE DEF R
  <1> DEFINE moved == IF e.kind = kind THEN e.amount ELSE 0
  <1>5. ASSUME NEW paid
        PROVE  /\ Total(R, kind, paid) \in Nat
               /\ Total(R \cup {e}, kind, paid) = Total(R, kind, paid) + Part(e, kind, paid)
               /\ Total(R \cup {f}, kind, paid) = Total(R, kind, paid) + Part(f, kind, paid)
    <2>1. Total(R, kind, paid) \in Nat BY <1>1, TotalTyped
    <2>2. Total(R \cup {e}, kind, paid) = Total(R, kind, paid) + Part(e, kind, paid)
      BY <1>1, <1>2, <1>4, TotalWith, SMT
    <2>3. Total(R \cup {f}, kind, paid) = Total(R, kind, paid) + Part(f, kind, paid)
      BY <1>1, <1>2, <1>4, TotalWith, SMT
    <2> QED BY <2>1, <2>2, <2>3
  <1>6. /\ Part(e, kind, TRUE) = 0 /\ Part(e, kind, FALSE) = moved
        /\ Part(f, kind, TRUE) = moved /\ Part(f, kind, FALSE) = 0
    BY Zenon DEF Pays, Part
  <1> HIDE DEF moved
  <1>7. Received(R, kind) \in Nat /\ Awaited(R, kind) \in Nat
    BY <1>5 DEF Received, Awaited
  <1>8. /\ Received(S, kind) = Received(R, kind) + 0
        /\ Awaited(S, kind) = Awaited(R, kind) + moved
        /\ Received(R \cup {f}, kind) = Received(R, kind) + moved
        /\ Awaited(R \cup {f}, kind) = Awaited(R, kind) + 0
    BY <1>4, <1>5, <1>6, Zenon DEF Received, Awaited
  <1>9. /\ moved \in Int
        /\ e.kind = kind => moved = e.amount
        /\ e.kind # kind => moved = 0
    BY <1>2 DEF moved
  <1>10. /\ e.kind = kind => /\ Received(R \cup {f}, kind) = Received(S, kind) + e.amount
                            /\ Awaited(R \cup {f}, kind) = Awaited(S, kind) - e.amount
         /\ e.kind # kind => /\ Received(R \cup {f}, kind) = Received(S, kind)
                            /\ Awaited(R \cup {f}, kind) = Awaited(S, kind)
    BY <1>7, <1>8, <1>9
  <1> QED BY <1>3, <1>10 DEF R

-----------------------------------------------------------------------------
(* Rounding *)

(* HalfUp is the nearest integer to n / d; of two equally near, the one away *)
(* from zero.                                                                *)
LEMMA RoundsHalfUp ==
    ASSUME NEW n \in Int, NEW d \in Nat \ {0}
    PROVE  LET near == 2 * d * HalfUp(n, d) IN
           /\ HalfUp(n, d) \in Int
           /\ n >= 0 => HalfUp(n, d) >= 0 /\ 2 * n - d < near /\ near <= 2 * n + d
           /\ n < 0 => HalfUp(n, d) <= 0 /\ 2 * n - d <= near /\ near < 2 * n + d
  BY DEF HalfUp

(* A share of at most the whole of an amount is at most the amount.          *)
LEMMA ShareBounded ==
    ASSUME NEW n \in Nat, NEW q \in 0 .. Whole
    PROVE  HalfUp(n * q, Whole) \in 0 .. n
  <1> DEFINE x == n * q
  <1>1. x \in Int /\ 0 <= x /\ x <= 10000 * n BY DEF Whole
  <1> HIDE DEF x
  <1>2. /\ HalfUp(x, 10000) \in Int
        /\ HalfUp(x, 10000) >= 0
        /\ 2 * 10000 * HalfUp(x, 10000) <= 2 * x + 10000
    BY <1>1, RoundsHalfUp
  <1>3. HalfUp(x, 10000) \in 0 .. n BY <1>1, <1>2
  <1> QED BY <1>3 DEF x, Whole

LEMMA NetTyped == ASSUME NEW S, Entries(S) PROVE Net(S) \in Int
  <1> DEFINE p == Total(S, "fee_income", TRUE)
             f == Total(S, "bank_fee", TRUE)
  <1>1. p \in Nat /\ f \in Nat BY TotalTyped
  <1>2. Net(S) = p - f - HalfUp(p * 3, 40) BY DEF Net
  <1> HIDE DEF p, f
  <1>3. HalfUp(p * 3, 40) \in Int BY <1>1, RoundsHalfUp
  <1> QED BY <1>1, <1>2, <1>3

(* Neither side of the settlement of a lawsuit gets more than there is.      *)
THEOREM SharesWithin ==
    ASSUME NEW S, Entries(S), NEW q \in 0 .. Whole
    PROVE  LET a == Account(S, q) IN
           a.net >= 0 => a.share \in 0 .. a.net /\ a.office \in 0 .. a.net
  <1>1. SUFFICES ASSUME Net(S) >= 0
                 PROVE  /\ PartnerShare(S, q) \in 0 .. Net(S)
                        /\ Net(S) - PartnerShare(S, q) \in 0 .. Net(S)
    BY DEF Account
  <1>2. Net(S) \in Nat BY <1>1, NetTyped
  <1>3. PartnerShare(S, q) \in 0 .. Net(S) BY <1>2, ShareBounded DEF PartnerShare
  <1> QED BY <1>2, <1>3

-----------------------------------------------------------------------------
(* Estimates *)

(* The three roundings of a settlement, each by its divisor.                 *)
LEMMA RoundsTax ==
    ASSUME NEW n \in Nat
    PROVE  /\ HalfUp(n, 40) \in Int
           /\ 2 * n - 40 < 80 * HalfUp(n, 40) /\ 80 * HalfUp(n, 40) <= 2 * n + 40
  BY SMT DEF HalfUp

LEMMA RoundsShare ==
    ASSUME NEW n \in Int
    PROVE  /\ HalfUp(n, 10000) \in Int
           /\ 2 * n - 10000 <= 20000 * HalfUp(n, 10000)
           /\ 20000 * HalfUp(n, 10000) <= 2 * n + 10000
  BY SMT DEF HalfUp

LEMMA RoundsFuture ==
    ASSUME NEW n \in Nat
    PROVE  /\ HalfUp(n, 400000) \in Int
           /\ 2 * n - 400000 < 800000 * HalfUp(n, 400000)
           /\ 800000 * HalfUp(n, 400000) <= 2 * n + 400000
  BY SMT DEF HalfUp

(* The tax moves with what is paid, by less than a cent more or less.        *)
LEMMA TaxMoves ==
    ASSUME NEW p \in Nat, NEW a \in Nat
    PROVE  LET t == HalfUp((p + a) * 3, 40) - HalfUp(p * 3, 40)
           IN  t \in Int /\ 80 * t - 6 * a < 80 /\ 80 * t - 6 * a > -80
  <1> DEFINE x == p * 3
             y == (p + a) * 3
             hx == HalfUp(x, 40)
             hy == HalfUp(y, 40)
  <1>1. x \in Nat /\ y \in Nat /\ y = x + 3 * a OBVIOUS
  <1> HIDE DEF x, y
  <1>2. hx \in Int /\ 2 * x - 40 < 80 * hx /\ 80 * hx <= 2 * x + 40 BY <1>1, RoundsTax
  <1>3. hy \in Int /\ 2 * y - 40 < 80 * hy /\ 80 * hy <= 2 * y + 40 BY <1>1, RoundsTax
  <1> HIDE DEF hx, hy
  <1>4. hy - hx \in Int /\ 80 * (hy - hx) - 6 * a < 80 /\ 80 * (hy - hx) - 6 * a > -80
    BY <1>1, <1>2, <1>3
  <1> QED BY <1>4 DEF hx, hy, x, y

(* The roundings taken together, with nq and mq the net amounts before and   *)
(* after, uq and vq what is due, each times the percentage.                  *)
LEMMA RoundingsMove ==
    ASSUME NEW nq \in Int, NEW mq \in Int, NEW uq \in Int, NEW vq \in Int,
           NEW aq \in Int, NEW dq \in Int,
           NEW sn \in Int, NEW sm \in Int, NEW fu \in Int, NEW fv \in Int,
           80 * (mq - nq) = 74 * aq - dq, vq - uq = -37 * aq, dq <= 790000, -790000 <= dq,
           2 * nq - 10000 <= 20000 * sn, 20000 * sn <= 2 * nq + 10000,
           2 * mq - 10000 <= 20000 * sm, 20000 * sm <= 2 * mq + 10000,
           2 * uq - 400000 < 800000 * fu, 800000 * fu <= 2 * uq + 400000,
           2 * vq - 400000 < 800000 * fv, 800000 * fv <= 2 * vq + 400000
    PROVE (sm + fv) - (sn + fu) \in -2 .. 2
  <1>1. /\ 800000 * (sm - sn) <= 80 * (mq - nq) + 800000
        /\ 800000 * (sm - sn) >= 80 * (mq - nq) - 800000
    BY SMT
  <1>2. /\ 800000 * (fv - fu) < 2 * (vq - uq) + 800000
        /\ 800000 * (fv - fu) > 2 * (vq - uq) - 800000
    BY SMT
  <1>3. 2 * (vq - uq) = -74 * aq BY SMT
  <1> DEFINE r == (sm + fv) - (sn + fu)
  <1>4. 800000 * r < 2390000 /\ 800000 * r > -2390000 BY <1>1, <1>2, <1>3, SMT
  <1>5. r \in Int BY SMT
  <1> HIDE DEF r
  <1>6. r < 3 /\ r > -3 BY <1>4, <1>5, SMT
  <1>7. r \in -2 .. 2 BY <1>5, <1>6, SMT
  <1> QED BY <1>7 DEF r

LEMMA EstimateMoves ==
    ASSUME NEW n \in Int, NEW m \in Int, NEW t \in Int, NEW a \in Nat, NEW q \in 0 .. Whole,
           NEW u \in Nat, NEW v \in Nat, u = v + a,
           m = n + a - t, 80 * t - 6 * a < 80, 80 * t - 6 * a > -80
    PROVE  LET share(k) == HalfUp(k * q, Whole)
               future(k) == HalfUp(k * 37 * q, 40 * Whole)
           IN  (share(m) + future(v)) - (share(n) + future(u)) \in -2 .. 2
  <1> DEFINE d == 80 * t - 6 * a
             nq == n * q
             mq == m * q
             uq == u * 37 * q
             vq == v * 37 * q
             aq == a * q
             dq == d * q
  <1>1. q \in Int /\ 0 <= q /\ q <= 10000 BY SMT DEF Whole
  <1>2. dq \in Int /\ dq <= 790000 /\ -790000 <= dq
    <2>1. d \in Int /\ d <= 79 /\ -79 <= d BY SMT
    <2> HIDE DEF d
    <2>2. d * q <= 79 * q /\ -79 * q <= d * q BY <1>1, <2>1, SMT
    <2> QED BY <1>1, <2>1, <2>2, SMT
  <1>3. nq \in Int /\ mq \in Int /\ aq \in Int BY <1>1, SMT
  <1>4. 80 * (mq - nq) = 74 * aq - dq
    <2>1. 80 * (m - n) = 74 * a - d BY SMT
    <2>2. 80 * (m - n) * q = (74 * a - d) * q BY <2>1, SMT
    <2> QED BY <1>1, <2>2, SMT
  <1>5. uq \in Nat /\ vq \in Nat /\ vq - uq = -37 * aq
    BY <1>1, SMT
  <1> DEFINE sn == HalfUp(nq, 10000)
             sm == HalfUp(mq, 10000)
             fu == HalfUp(uq, 400000)
             fv == HalfUp(vq, 400000)
  <1> HIDE DEF d, nq, mq, uq, vq, aq, dq
  <1>6. sn \in Int /\ 2 * nq - 10000 <= 20000 * sn /\ 20000 * sn <= 2 * nq + 10000
    BY <1>3, RoundsShare
  <1>7. sm \in Int /\ 2 * mq - 10000 <= 20000 * sm /\ 20000 * sm <= 2 * mq + 10000
    BY <1>3, RoundsShare
  <1>8. fu \in Int /\ 2 * uq - 400000 < 800000 * fu /\ 800000 * fu <= 2 * uq + 400000
    BY <1>5, RoundsFuture
  <1>9. fv \in Int /\ 2 * vq - 400000 < 800000 * fv /\ 800000 * fv <= 2 * vq + 400000
    BY <1>5, RoundsFuture
  <1> HIDE DEF sn, sm, fu, fv
  <1>10. uq \in Int /\ vq \in Int BY <1>5
  <1>11. (sm + fv) - (sn + fu) \in -2 .. 2
    BY <1>2, <1>3, <1>4, <1>5, <1>6, <1>7, <1>8, <1>9, <1>10, RoundingsMove
  <1> QED BY <1>11, SMT DEF sn, sm, fu, fv, nq, mq, uq, vq, Whole

(* When an instalment is paid, the partner's share and what is still to come *)
(* add up to the same but for two cents.                                     *)
THEOREM PaidAsEstimated ==
    ASSUME NEW S, Entries(S), NEW e, NEW f, Pays(S, e, f), e.kind = "fee_income",
           NEW q \in 0 .. Whole
    PROVE  LET was == Account(S, q)
               is == Account((S \ {e}) \cup {f}, q)
           IN  (is.share + is.future) - (was.share + was.future) \in -2 .. 2
  <1> DEFINE T == (S \ {e}) \cup {f}
             a == e.amount
             p == Received(S, "fee_income")
             u == Awaited(S, "fee_income")
             v == Awaited(T, "fee_income")
             b == Received(S, "bank_fee")
             t == HalfUp((p + a) * 3, 40) - HalfUp(p * 3, 40)
  <1>1. a \in Nat BY DEF Entries, Pays
  <1>2. Entries(T) /\ Received(T, "fee_income") = p + a /\ v = u - a
    BY TotalPaid
  <1>3. Received(T, "bank_fee") = b
    <2>1. e.kind # "bank_fee" OBVIOUS
    <2> HIDE DEF T
    <2>2. ASSUME NEW kind, e.kind # kind PROVE Received(T, kind) = Received(S, kind)
      BY <2>2, TotalPaid DEF T
    <2> QED BY <2>1, <2>2
  <1>4. p \in Nat /\ u \in Nat /\ v \in Nat /\ b \in Nat
    BY <1>2, TotalTyped DEF Received, Awaited
  <1>5. Net(S) \in Int /\ Net(T) \in Int BY <1>2, NetTyped
  <1>6. t \in Int /\ 80 * t - 6 * a < 80 /\ 80 * t - 6 * a > -80
    <2> HIDE DEF p, a
    <2> QED BY <1>1, <1>4, TaxMoves
  <1>7. Net(S) = p - b - HalfUp(p * 3, 40) BY DEF Net, Received
  <1>8. Net(T) = (p + a) - b - HalfUp((p + a) * 3, 40) BY <1>2, <1>3 DEF Net, Received
  <1>9. Net(T) = Net(S) + a - t
    <2> DEFINE h == HalfUp(p * 3, 40)
               k == HalfUp((p + a) * 3, 40)
    <2>1. h \in Int /\ k \in Int
      <3> HIDE DEF p, a
      <3>1. p * 3 \in Nat /\ (p + a) * 3 \in Nat BY <1>1, <1>4
      <3> QED BY <3>1, RoundsTax
    <2> HIDE DEF h, k, p, a, b
    <2> QED BY <1>1, <1>4, <1>7, <1>8, <2>1 DEF h, k
  <1>10. u = v + a
    <2> HIDE DEF u, v, a
    <2> QED BY <1>1, <1>2, <1>4
  <1> DEFINE n == Net(S)
             m == Net(T)
  <1> HIDE DEF p, u, v, b, t, a, T, n, m
  <1>11. (HalfUp(m * q, Whole) + HalfUp(v * 37 * q, 40 * Whole))
           - (HalfUp(n * q, Whole) + HalfUp(u * 37 * q, 40 * Whole)) \in -2 .. 2
    BY <1>1, <1>4, <1>5, <1>6, <1>9, <1>10, EstimateMoves DEF n, m
  <1>12. /\ Account(S, q).share = HalfUp(n * q, Whole)
         /\ Account(S, q).future = HalfUp(u * 37 * q, 40 * Whole)
         /\ Account(T, q).share = HalfUp(m * q, Whole)
         /\ Account(T, q).future = HalfUp(v * 37 * q, 40 * Whole)
    BY DEF Account, PartnerShare, PartnerFuture, Awaited, n, m, u, v
  <1> QED BY <1>11, <1>12 DEF T

-----------------------------------------------------------------------------
(* Totals of a report *)

(* A field of the accounts of a report, as a sum of a function.              *)
LEMMA FieldSummed ==
    ASSUME NEW accounts, NEW field
    PROVE  MapThenSumSet(LAMBDA k : accounts[k][field], DOMAIN accounts)
             = Sum([k \in DOMAIN accounts |-> accounts[k][field]], DOMAIN accounts)
  <1> DEFINE D == DOMAIN accounts
             A(f) == f = [s \in SUBSET D |-> IF s = {} THEN 0
                                             ELSE accounts[Pick(s)][field] + f[s \ {Pick(s)}]]
             w == [k \in D |-> accounts[k][field]]
  <1>1. MapThenSumSet(LAMBDA k : accounts[k][field], D) = (CHOOSE f : A(f))[D]
    BY Zenon DEF MapThenSumSet, MapThenFoldSet, Pick
  <1>2. ASSUME NEW f PROVE A(f) <=> AddsUp(f, w, D)
    <2> HIDE DEF D
    <2>1. \A s \in SUBSET D : s # {} => accounts[Pick(s)][field] = w[Pick(s)]
      BY PickIn
    <2>2. [s \in SUBSET D |-> IF s = {} THEN 0 ELSE accounts[Pick(s)][field] + f[s \ {Pick(s)}]]
        = [s \in SUBSET D |-> IF s = {} THEN 0 ELSE w[Pick(s)] + f[s \ {Pick(s)}]]
      BY <2>1
    <2> QED BY <2>2 DEF AddsUp
  <1> HIDE DEF A, w
  <1>3. (CHOOSE f : A(f)) = (CHOOSE f : AddsUp(f, w, D)) BY <1>2
  <1> QED BY <1>1, <1>3, SumUnfolded DEF w, D

LEMMA AccountTyped ==
    ASSUME NEW S, Entries(S), NEW q \in Nat
    PROVE  LET a == Account(S, q) IN
           /\ a.net \in Int /\ a.share \in Int /\ a.office \in Int
           /\ a.net = a.share + a.office
  <1> DEFINE n == Net(S)
             x == n * q
  <1>1. n \in Int BY NetTyped
  <1>2. x \in Int
    <2> HIDE DEF n
    <2> QED BY <1>1
  <1> DEFINE h == HalfUp(x, 10000)
  <1> HIDE DEF x
  <1>3. h \in Int BY <1>2, RoundsShare
  <1>4. PartnerShare(S, q) = h BY DEF PartnerShare, Whole, x
  <1>5. Account(S, q).net = n /\ Account(S, q).share = h /\ Account(S, q).office = n - h
    BY <1>4 DEF Account
  <1> HIDE DEF n, h
  <1> QED BY <1>1, <1>3, <1>5

(* What a report totals for the partner and for the office is, however each  *)
(* lawsuit was rounded, what its lawsuits have to share.                     *)
THEOREM SummaryBalances ==
    ASSUME NEW K, IsFiniteSet(K), NEW ent, \A k \in K : Entries(ent[k]), NEW q \in Nat
    PROVE  LET accounts == [k \in K |-> Account(ent[k], q)] IN
           Summary(accounts).share + Summary(accounts).office
             = MapThenSumSet(LAMBDA k : accounts[k]["net"], DOMAIN accounts)
  <1> DEFINE accounts == [k \in K |-> Account(ent[k], q)]
             F(field) == [k \in K |-> accounts[k][field]]
  <1>1. \A k \in K : /\ accounts[k].net \in Int
                     /\ accounts[k].share \in Int
                     /\ accounts[k].office \in Int
                     /\ accounts[k].net = accounts[k].share + accounts[k].office
    BY AccountTyped
  <1>2. DOMAIN accounts = K OBVIOUS
  <1> HIDE DEF accounts
  <1>3. ASSUME NEW field
        PROVE  MapThenSumSet(LAMBDA k : accounts[k][field], DOMAIN accounts) = Sum(F(field), K)
    BY <1>2, FieldSummed, Zenon
  <1>4. /\ Summary(accounts).share = Sum(F("share"), K)
        /\ Summary(accounts).office = Sum(F("office"), K)
    BY <1>3 DEF Summary
  <1> DEFINE u == F("share")
             v == F("office")
             w == F("net")
  <1>5. \A k \in K : u[k] \in Int /\ v[k] \in Int /\ w[k] = u[k] + v[k]
    BY <1>1
  <1> HIDE DEF F, u, v, w
  <1>6. Sum(w, K) = Sum(u, K) + Sum(v, K) BY <1>5, SumOfSums
  <1>7. MapThenSumSet(LAMBDA k : accounts[k]["net"], DOMAIN accounts) = Sum(w, K)
    BY <1>3, Zenon DEF w
  <1> QED BY <1>4, <1>6, <1>7 DEF accounts, u, v
=============================================================================
