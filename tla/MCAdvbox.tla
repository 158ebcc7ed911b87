------------------------------ MODULE MCAdvbox ------------------------------
(* The two readers of Advbox over one small source, one at a time.          *)
EXTENDS Advbox

(* The second record refers to rows, and the third once it is edited.       *)
MCRefersTo == [r \in Records |->
    IF r.id = 2 \/ r = [id |-> 3, v |-> 2] THEN References ELSE {}]

(* The first lawsuit takes the number of the second when it is edited; the  *)
(* third has none.  Two items go by their folder.                           *)
MCComplete == {"n1", "n2"}

MCNumbering == [r \in Records |->
    CASE r.id = 1 -> IF r.v = 1 THEN "n1" ELSE "n2"
      [] r.id = 2 -> IF r.v = 1 THEN "n2" ELSE "short"
      [] r.id = 3 -> NoText]

MCFiling == [r \in Records |->
    CASE r.id = 1 -> "f1"
      [] r.id = 2 -> NoText
      [] r.id = 3 -> IF r.v = 1 THEN "f3" ELSE "f1"]

MCItems == <<[number |-> "n1", folder |-> "f1", flags |-> {}],
             [number |-> NoText, folder |-> "f3", flags |-> {}],
             [number |-> NoText, folder |-> "f1", flags |-> {}]>>

(* Bound: a synchronisation is explored in the behaviours without a read.   *)
OneReader == reading # "idle" => run.status = "none" /\ known = {}
=============================================================================
