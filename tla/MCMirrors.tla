----------------------------- MODULE MCMirrors -----------------------------
(***************************************************************************)
(* The two tables that mirror what another service knows, for TLC.  They   *)
(* share no state, so each behaviour follows one of them: the constant     *)
(* variable part says which, and the other stays as it began.              *)
(***************************************************************************)
EXTENDS ReleaseCatalog, TrafficSync, TLC

VARIABLE part

mirrorVars == <<part, catalogVars, trafficVars>>

MirrorInit == part \in {"catalog", "traffic"} /\ CatalogInit /\ TrafficInit

MirrorNext ==
    \/ part = "catalog" /\ CatalogNext /\ UNCHANGED <<part, trafficVars>>
    \/ part = "traffic" /\ TrafficNext /\ UNCHANGED <<part, catalogVars>>

MirrorSpec == MirrorInit /\ [][MirrorNext]_mirrorVars

\* The type invariants of the two parts.
MirrorTypes == CatalogTypeOK /\ TrafficTypeOK

\* Version 1 is a fix of an old line: it is published last.
FixComesLast == [v \in Versions |-> IF v = 1 THEN Cardinality(Versions) ELSE v - 1]
=============================================================================
