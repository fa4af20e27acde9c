--------------------------- MODULE MCToolQuality ---------------------------
(* ToolQuality on small instances.                                         *)
EXTENDS ToolQuality, TLC

Disturbances == overlaps + crashes + failures + replacements

(* Bound: of overlaps, crashes, failures and replacements there are two,   *)
(* and one when the last two requests of a behaviour come.                 *)
MaxDisturbances == IF requests + 1 >= MaxRequests THEN 1 ELSE 2

Short == Disturbances <= MaxDisturbances

MCNext ==
    \/ \E w \in Workers : Start(w) \/ Load(w) \/ Admission(w) \/ Laboratory(w)
    \/ /\ Disturbances < MaxDisturbances
       /\ Crash \/ (\E w \in Workers : Fails(w)) \/ (\E t \in Registered : Replace(t))

MCSpec == Init /\ [][MCNext]_vars

Symmetry == Permutations(Workers)
=============================================================================
