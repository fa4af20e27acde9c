---------------------------- MODULE MCChangeApply ----------------------------
(* ChangeApply on small instances.                                         *)
EXTENDS ChangeApply, TLC

(* Identifiers, files and contents are interchangeable.                    *)
Symmetry ==
    Permutations(Proposals) \cup Permutations(Implementations)
        \cup Permutations(Files) \cup Permutations(Contents)

(* Bounds: after something was disturbed one proposal is enough; before,   *)
(* one fault is.                                                           *)
Bounded ==
    IF calm THEN faults <= 1
    ELSE Cardinality({p \in Proposals : proposals[p].status # "none"}) <= 1
=============================================================================
