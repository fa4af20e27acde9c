---------------------------- MODULE MCAgenticRun ----------------------------
(* AgenticRun on small instances.                                          *)
EXTENDS AgenticRun, TLC

(* A wide request, and a narrow one that may retry.                        *)
Wide == [paths |-> Paths, files |-> 2, bytes |-> 3, retries |-> 0]
Narrow == [paths |-> {2}, files |-> 1, bytes |-> 1, retries |-> 1]

BothRequests == {Wide, Narrow}

(* Bounds: two runs overlap as they like over one edit; after a crash, or  *)
(* a second edit, they come one at a time.  A third run comes after both,  *)
(* to make a chain of two resumptions, on a tree that nobody has edited.   *)
Chained ==
    /\ \A r \in Runs :
           r > 2 /\ pc[r] # "new" =>
               /\ edits = 0 /\ crashes = 0
               /\ \A s \in Runs \ {r} : pc[s] \in {"ended", "refused"}
    /\ edits + crashes <= 2
    /\ edits > 1 \/ crashes > 0 => Cardinality({r \in Runs : pc[r] \in Running}) <= 1
=============================================================================
