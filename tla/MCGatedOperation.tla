-------------------------- MODULE MCGatedOperation --------------------------
(* The two families of gated operations on small instances.  Their files   *)
(* and locks are disjoint: a behaviour is one of the scanners' or one of   *)
(* the read-only operations'.                                              *)
EXTENDS GatedOperation, TLC

VARIABLE family

ReadOnly == INSTANCE ReadOnlyOperation

(* What a scanner may be prepared in.                                      *)
ScanPreparable == {"DRAFT", "READY_FOR_REVIEW", "RETURNED_FOR_REVIEW"}

MCInit == family \in {"scan", "read only"} /\ Init

MCNext ==
    /\ UNCHANGED family
    /\ \/ family = "scan" /\ Next
       \/ family = "read only" /\ ReadOnly!Next

MCSpec == MCInit /\ [][MCNext]_<<vars, family>>

Symmetry == Permutations(Workers)
=============================================================================
