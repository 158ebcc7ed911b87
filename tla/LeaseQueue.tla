---------------------------- MODULE LeaseQueue ----------------------------
(* What a queue of leased work promises to those who put work into it and   *)
(* to the workers that serve it, without tokens, clocks or transactions.    *)
(* The import queue and the report queue both implement it.                 *)
EXTENDS Naturals

CONSTANTS
    Items, Workers,
    MaxTries,   \* attempts an item is given before it fails for good
    EarlyEnd,   \* TRUE: an attempt may find that further ones are pointless
    NoItem, NoHolder

VARIABLES
    st,      \* idle, queued, held, done or failed
    holder,  \* the worker whose attempt counts
    tries,   \* attempts of queued or held work
    busy     \* the item each worker believes it serves

qvars == <<st, holder, tries, busy>>

Init ==
    /\ st = [i \in Items |-> "idle"]
    /\ holder = [i \in Items |-> NoHolder]
    /\ tries = [i \in Items |-> 0]
    /\ busy = [w \in Workers |-> NoItem]

(* Work is asked for, or asked for again: it starts from its first attempt. *)
Ask(S) ==
    /\ st' = [i \in Items |-> IF i \in S THEN "queued" ELSE st[i]]
    /\ holder' = [i \in Items |-> IF i \in S THEN NoHolder ELSE holder[i]]
    /\ tries' = [i \in Items |-> IF i \in S THEN 0 ELSE tries[i]]
    /\ UNCHANGED busy

(* Where an attempt that did not succeed leaves the item.                   *)
Unserved(i) == IF tries[i] >= MaxTries THEN {"failed"}
               ELSE IF EarlyEnd THEN {"queued", "failed"} ELSE {"queued"}

(* The attempts on "back" are given up, and a free worker takes one item    *)
(* that is then queued, or none.                                            *)
Take(w, back, picked) ==
    /\ busy[w] = NoItem
    /\ \A i \in back : st[i] = "held"
    /\ picked # NoItem =>
         IF picked \in back THEN "queued" \in Unserved(picked) ELSE st[picked] = "queued"
    /\ st' = [i \in Items |-> IF i = picked THEN "held"
                ELSE IF i \in back
                  THEN IF tries[i] >= MaxTries THEN "failed" ELSE "queued"
                  ELSE st[i]]
    /\ holder' = [i \in Items |-> IF i = picked THEN w
                    ELSE IF i \in back THEN NoHolder ELSE holder[i]]
    /\ tries' = [i \in Items |-> IF i = picked THEN tries[i] + 1
                   ELSE IF i \in back /\ tries[i] >= MaxTries THEN 0 ELSE tries[i]]
    /\ busy' = [busy EXCEPT ![w] = picked]

(* A worker ends its attempt.  It settles the item only while it holds it;  *)
(* a worker that was given up, or that gives up, changes nothing.           *)
Leave(w) ==
    LET i == busy[w] IN
    /\ i # NoItem
    /\ busy' = [busy EXCEPT ![w] = NoItem]
    /\ \/ UNCHANGED <<st, holder, tries>>
       \/ /\ st[i] = "held"
          /\ holder[i] = w
          /\ \E s \in {"done"} \cup Unserved(i) :
               /\ st' = [st EXCEPT ![i] = s]
               /\ tries' = [tries EXCEPT ![i] = IF s = "queued" THEN @ ELSE 0]
          /\ holder' = [holder EXCEPT ![i] = NoHolder]

Next ==
    \/ \E S \in SUBSET Items : Ask(S)
    \/ \E w \in Workers, back \in SUBSET Items, picked \in Items \cup {NoItem} :
         Take(w, back, picked)
    \/ \E w \in Workers : Leave(w)

Queue == Init /\ [][Next]_qvars
=============================================================================
