------------------------ MODULE MCGovernedOperations ------------------------
(* GovernedOperations on small instances.                                  *)
EXTENDS GovernedOperations, TLC

(* Workers, task identifiers and keys are interchangeable.                 *)
Symmetry == Permutations(Workers) \cup Permutations(Tasks) \cup Permutations(Keys)

(* Bound: requests that create overlap over several keys and tasks; as     *)
(* soon as another one is served, all that happens is about one task.      *)
OneTaskUnlessCreating ==
    LET named == {call[w].task : w \in Workers} \ {NoTask}
    IN  \/ clock = 0 /\ named = {} /\ \A t \in Tasks : evidence[t] = {}
        \/ /\ Cardinality(named \cup {t \in Tasks : Exists(t)}) <= 1
           /\ Cardinality({rows[t].key : t \in Tasks} \cup {call[w].key : w \in Workers}) <= 2

(* Bound: a transition is asked for the version the task has or the next.  *)
Timely ==
    \A w \in Workers :
        pc[w] = "new" /\ call[w].op \in {"transition", "review"} =>
            LET version == rows[call[w].task].version
            IN  call[w].expected \in {version, version + 1}
=============================================================================
