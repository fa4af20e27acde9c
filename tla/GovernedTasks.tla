--------------------------- MODULE GovernedTasks ---------------------------
(***************************************************************************)
(* What the governed-operations API promises of the tasks of a workspace,  *)
(* without threads, tables or hash chains: every call is one indivisible   *)
(* step on the version it was made for.  GovernedOperations.tla is the     *)
(* detailed specification; with a single client it implements this one.    *)
(***************************************************************************)
EXTENDS TaskLifecycle, Sequences

CONSTANT Tasks         \* task identifiers (GWS-...)

VARIABLES rows,        \* [Tasks -> Rows], the governed_tasks table
          evidence,    \* [Tasks -> the categories recorded for the task]
          trail        \* [Tasks -> the <<from, to>> transitions, oldest first]

vars == <<rows, evidence, trail>>

Exists(t) == rows[t].status # "absent"

Init ==
    /\ rows = [t \in Tasks |-> NoRow]
    /\ evidence = [t \in Tasks |-> {}]
    /\ trail = [t \in Tasks |-> <<>>]

(* One task per idempotency key.                                           *)
Create(t, k, needs) ==
    /\ ~Exists(t)
    /\ \A u \in Tasks : rows[u].key # k
    /\ rows' = [rows EXCEPT ![t] = Draft(k, needs)]
    /\ UNCHANGED <<evidence, trail>>

AddEvidence(t, c) ==
    /\ Exists(t)
    /\ evidence' = [evidence EXCEPT ![t] = @ \cup {c}]
    /\ UNCHANGED <<rows, trail>>

(* A transition or a review: one version forward along an allowed edge, an *)
(* approval only with the required evidence on record.                     *)
Move(t, dest) ==
    /\ dest \in Allowed(rows[t].status)
    /\ dest = "approved" => rows[t].needs \subseteq evidence[t]
    /\ rows' = [rows EXCEPT ![t] = Moved(@, dest, @.version + 1)]
    /\ trail' = [trail EXCEPT ![t] = Append(@, <<rows[t].status, dest>>)]
    /\ UNCHANGED evidence

Next ==
    \E t \in Tasks :
        \/ \E k \in Keys, needs \in SUBSET Categories : Create(t, k, needs)
        \/ \E c \in Categories : AddEvidence(t, c)
        \/ \E dest \in Statuses : Move(t, dest)

Spec == Init /\ [][Next]_vars
=============================================================================
