------------------------------- MODULE Advbox -------------------------------
(* Advbox and its two readers: the synchronisation of a collection into the *)
(* database and the reading of the lawsuits for a manifest.  They may run at*)
(* the same time, and share nothing but the source.                         *)
EXTENDS AdvboxSync, SnapshotRead

vars == <<sourceVars, syncVars, readVars>>

Init == SourceInit /\ SyncInit /\ ReadInit

(* What the office does while the lawsuits are being read is OfficeEdits.   *)
Next ==
    \/ SyncNext /\ UNCHANGED readVars /\ (reading \in Reads => UNCHANGED sourceVars)
    \/ ReadNext /\ UNCHANGED syncVars

Spec == Init /\ [][Next]_vars

TypeOK == SourceTypeOK /\ SyncTypeOK /\ ReadTypeOK
=============================================================================
