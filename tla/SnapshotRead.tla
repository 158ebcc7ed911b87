---------------------------- MODULE SnapshotRead ----------------------------
(* The snapshot a manifest is reconciled with: the lawsuits of Advbox read  *)
(* twice to the end, page by page, while the office goes on editing them.   *)
(* The result is used only if both reads agree on what concerns the items.  *)
EXTENDS AdvboxSource, ItemMatching

CONSTANTS
    Items,      \* the items of the manifest
    Numbering,  \* [Records -> number] as projected, and
    Filing      \* [Records -> folder]

VARIABLES
    reading,  \* idle, first, second, or how it ended
    scans,    \* the checkpoints of the two reads
    tries,    \* of the page that is being asked for
    photo,    \* history: the source when each read began
    steady    \* history: it has not changed during the read

readVars == <<reading, scans, tries, photo, steady>>

Cand == [id : Ids, v : Versions, number : Complete \cup {NoText},
         folder : {Filing[r] : r \in Records}]
Reads == {"first", "second"}
NoScan == [next |-> 0, total |-> Unread, cands |-> {}]

ReadTypeOK ==
    /\ reading \in Reads \cup {"idle", "done", "failed"}
    /\ scans \in [Reads -> [next : 0 .. Cardinality(Ids), total : {Unread} \cup 0 .. Cardinality(Ids),
                            cands : SUBSET Cand]]
    /\ tries \in 0 .. MaxRetries
    /\ \A n \in Reads : photo[n] \in Seq(Records)
    /\ steady \in [Reads -> BOOLEAN]

ReadInit ==
    /\ reading \in {"idle", "first"}
    /\ scans = [n \in Reads |-> NoScan]
    /\ tries = 0
    /\ photo = [n \in Reads |-> source]
    /\ steady = [n \in Reads |-> n = "first"]

(* _project_lawsuit: the identifiers and the digest of a record.            *)
Project(r) == [id |-> r.id, v |-> r.v, number |-> Normal(Numbering[r]), folder |-> Filing[r]]

Projected(records) == {Project(records[i]) : i \in DOMAIN records}

-----------------------------------------------------------------------------
Scan == scans[reading]
ScanComplete == Scan.total # Unread /\ Scan.next = Scan.total

(* Pages that have moved show a lawsuit twice, and so hide another.         *)
Shifted(page) == {c.id : c \in Scan.cands} \cap IdsIn(page) # {}

AdvanceScan ==
    /\ reading \in Reads
    /\ ~ScanComplete
    /\ ~Refused(Scan.next, Scan.total)
    /\ LET page == Page(Scan.next) IN
         /\ ~Shifted(page)
         /\ scans' = [scans EXCEPT ![reading] =
                [next |-> @.next + Len(page), total |-> Len(source),
                 cands |-> @.cands \cup Projected(page)]]
    /\ tries' = 0
    /\ UNCHANGED <<sourceVars, reading, photo, steady>>

RetryPage ==
    /\ reading \in Reads
    /\ ~ScanComplete
    /\ tries < MaxRetries
    /\ tries' = tries + 1
    /\ UNCHANGED <<sourceVars, reading, scans, photo, steady>>

(* A page that cannot be had or that contradicts the ones before it.        *)
FailScan ==
    /\ reading \in Reads
    /\ ~ScanComplete
    /\ reading' = "failed"
    /\ UNCHANGED <<sourceVars, scans, tries, photo, steady>>

BeginSecond ==
    /\ reading = "first"
    /\ ScanComplete
    /\ reading' = "second"
    /\ photo' = [photo EXCEPT !["second"] = source]
    /\ steady' = [steady EXCEPT !["second"] = TRUE]
    /\ UNCHANGED <<sourceVars, scans, tries>>

Agree == Relevant(Items, scans["first"].cands) = Relevant(Items, scans["second"].cands)

Compare ==
    /\ reading = "second"
    /\ ScanComplete
    /\ reading' = IF Agree THEN "done" ELSE "failed"
    /\ UNCHANGED <<sourceVars, scans, tries, photo, steady>>

OfficeEdits ==
    /\ reading \in Reads
    /\ SourceChanges
    /\ steady' = [steady EXCEPT ![reading] = FALSE]
    /\ UNCHANGED <<reading, scans, tries, photo>>

ReadNext ==
    \/ AdvanceScan \/ RetryPage \/ FailScan \/ BeginSecond \/ Compare \/ OfficeEdits

ReadSpec == SourceInit /\ ReadInit /\ [][ReadNext]_<<sourceVars, readVars>>
-----------------------------------------------------------------------------
(* Properties *)

(* If the office left the lawsuits alone during one of the two reads, every *)
(* item is matched as it would have been with the whole source of that time,*)
(* though only lawsuits that share an identifier with an item are compared. *)
MatchedAsInSource == reading = "done" =>
    \A n \in Reads : steady[n] =>
        Reconcile(Items, scans["first"].cands) = Reconcile(Items, Projected(photo[n]))

(* Whatever changes during the reads, no lawsuit is given to two items, and *)
(* an item gets only a lawsuit that was seen with its number, or with its   *)
(* folder if it has no number.                                              *)
OneItemPerLawsuit == reading = "done" =>
    LET result == Reconcile(Items, scans["first"].cands) IN
    \A i \in DOMAIN Items : \A id \in result[i].ids :
        /\ \A j \in DOMAIN Items \ {i} : id \notin result[j].ids
        /\ \E c \in scans["first"].cands : c.id = id /\ Designates(Items[i], c)
=============================================================================
