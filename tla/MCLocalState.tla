---------------------------- MODULE MCLocalState ----------------------------
(* LocalState on small instances.                                          *)
EXTENDS LocalState

(* Threads, tasks, fingerprints, projects and designs are interchangeable. *)
Symmetry ==
    Permutations(Workers) \cup Permutations(Slots) \cup Permutations(Fingerprints)
        \cup Permutations(Projects) \cup Permutations(Designs)
=============================================================================
