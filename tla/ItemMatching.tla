---------------------------- MODULE ItemMatching ----------------------------
(* How the items of a manifest are matched with the lawsuits of a snapshot: *)
(* reconcile_items.  Items and candidates are sequences of records; the text*)
(* of an identifier is a value, of which some are complete process numbers. *)
EXTENDS Naturals, Sequences, FiniteSets

CONSTANTS
    Complete,  \* the texts normalize_process_number accepts
    NoText     \* no number, or no folder

ASSUME MatchingAssumption == NoText \notin Complete

Flags == {"duplicate_source", "invalid_identifier", "missing_identifier", "incomplete_block"}

(* What is left of the text of a process number.                            *)
Normal(number) == IF number \in Complete THEN number ELSE NoText

SourceKey(item) ==
    IF item.number # NoText THEN <<"number", Normal(item.number)>> ELSE <<"folder", item.folder>>

RepeatedInSource(items, i) ==
    \/ "duplicate_source" \in items[i].flags
    \/ /\ SourceKey(items[i])[2] # NoText
       /\ \E j \in DOMAIN items \ {i} : SourceKey(items[j]) = SourceKey(items[i])

Unidentified(item) ==
    \/ item.flags \cap {"invalid_identifier", "missing_identifier", "incomplete_block"} # {}
    \/ item.number # NoText /\ Normal(item.number) = NoText
    \/ Normal(item.number) = NoText /\ item.folder = NoText

(* The number decides alone where there is one.                             *)
Designates(item, cand) ==
    IF Normal(item.number) # NoText THEN cand.number = Normal(item.number)
    ELSE cand.folder = item.folder

Designated(item, cands) == {c \in cands : Designates(item, c)}

Contradicts(item, cand) ==
    /\ Normal(item.number) # NoText
    /\ item.folder # NoText
    /\ cand.folder \notin {NoText, item.folder}

(* One item with the candidates, other matches aside.                       *)
Candidate(items, i, cands) ==
    IF RepeatedInSource(items, i) \/ Unidentified(items[i]) THEN {}
    ELSE LET found == Designated(items[i], cands) IN
         IF Cardinality(found) = 1
           THEN {c \in found : ~Contradicts(items[i], c)} ELSE {}

(* Fault: two items may be matched with one lawsuit.                        *)
TakenNever(items, i, cands) == FALSE

(* Another item is matched with the same lawsuit.                           *)
Taken(items, i, cands) == \E j \in DOMAIN items \ {i} :
    \E c \in Candidate(items, j, cands), d \in Candidate(items, i, cands) : c.id = d.id

MatchStatus(items, i, cands) ==
    IF RepeatedInSource(items, i) THEN "duplicate_source"
    ELSE IF Unidentified(items[i]) THEN "invalid_identifier"
    ELSE IF Designated(items[i], cands) = {} THEN "unmatched"
    ELSE IF Candidate(items, i, cands) = {} THEN "ambiguous"
    ELSE IF Taken(items, i, cands) THEN "duplicate_source"
    ELSE "matched"

(* reconcile_items: the status of each item, and its lawsuit if it has one. *)
Reconcile(items, cands) == [i \in DOMAIN items |->
    [status |-> MatchStatus(items, i, cands),
     ids |-> IF MatchStatus(items, i, cands) = "matched"
               THEN {c.id : c \in Candidate(items, i, cands)} ELSE {}]]

(* Fault: the folder is left out.                                           *)
RelevantByNumber(items, cands) ==
    {c \in cands : \E i \in DOMAIN items :
        items[i].number # NoText /\ c.number = items[i].number}

(* RelevantKeys.select: who shares a number or a folder with an item.       *)
Relevant(items, cands) == {c \in cands : \E i \in DOMAIN items :
    \/ items[i].number # NoText /\ c.number = items[i].number
    \/ items[i].folder # NoText /\ c.folder = items[i].folder}

=============================================================================
