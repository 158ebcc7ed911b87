---------------------------- MODULE AdvboxSource ----------------------------
(* A collection of Advbox as it is seen through the client: pages by offset,*)
(* of a list that the office goes on editing while it is read.              *)
EXTENDS Integers, SequencesExt

CONSTANTS
    Ids,         \* technical IDs of the records
    Versions,    \* contents a record goes through
    Limit,       \* records asked for in one page
    MaxRetries,  \* advbox_audit_max_retries
    MaxChanges   \* bound: changes of the source

ASSUME SourceAssumption ==
    /\ IsFiniteSet(Ids)
    /\ \E v \in Versions : \A w \in Versions : v <= w
    /\ Limit \in Nat \ {0} /\ MaxRetries \in Nat /\ MaxChanges \in Nat

VARIABLES
    source,  \* the records in the order of the pages
    changes  \* how often the source has changed

sourceVars == <<source, changes>>

Records == [id : Ids, v : Versions]
Unread == -1                   \* expected_total before the first page

IdsIn(records) == {records[i].id : i \in DOMAIN records}

SourceTypeOK ==
    /\ source \in Seq(Records) /\ Cardinality(IdsIn(source)) = Len(source)
    /\ changes \in 0 .. MaxChanges

(* The source begins with any of its records, in any order, each as it was  *)
(* first entered.                                                           *)
SourceInit ==
    /\ \E S \in SUBSET Ids :
         source \in {s \in [1 .. Cardinality(S) -> [id : S, v : {CHOOSE v \in Versions :
                              \A w \in Versions : v <= w}]] : IdsIn(s) = S}
    /\ changes = 0

(* The office edits a record, enters one or removes one, at any place.      *)
SourceChanges ==
    /\ changes < MaxChanges
    /\ changes' = changes + 1
    /\ \/ \E i \in DOMAIN source : \E v \in Versions \ {source[i].v} :
            source' = [source EXCEPT ![i].v = v]
       \/ \E p \in 1 .. Len(source) + 1, r \in Records :
            r.id \notin IdsIn(source) /\ source' = InsertAt(source, p, r)
       \/ \E i \in DOMAIN source : source' = RemoveAt(source, i)

(* The records of the page at an offset, which the answer comes with the    *)
(* total of.                                                                *)
Page(offset) == SubSeq(source, offset + 1,
    IF offset + Limit < Len(source) THEN offset + Limit ELSE Len(source))

(* An answer that contradicts itself or the pages before it.                *)
Refused(offset, expected) == offset > Len(source) \/ expected \notin {Unread, Len(source)}
=============================================================================
