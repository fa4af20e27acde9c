--------------------------- MODULE TaskLifecycle ---------------------------
(* The life cycle table of a governed task: _ALLOWED_TRANSITIONS of        *)
(* governed_operations/store.py, and the rows of the governed_tasks table. *)
EXTENDS Naturals

CONSTANTS Keys,        \* values of the Idempotency-Key header
          Categories,  \* categories of evidence
          NoKey        \* the key of a row not yet inserted

ASSUME NoKeyAssumption == NoKey \notin Keys

Statuses ==
    {"draft", "inbox", "under_review", "approved", "rejected", "returned", "archived"}

(* The statuses a human review moves a task to: approve, reject, return.   *)
Decisions == {"approved", "rejected", "returned"}

(* The destinations the API offers outside a review: submit, start-review  *)
(* and archive.                                                            *)
Destinations == {"inbox", "under_review", "archived"}

(* The statuses a task in status s may move to.                            *)
Allowed(s) ==
    {d \in Statuses :
        \/ s \in {"draft", "returned"} /\ d \in {"inbox", "archived"}
        \/ s = "inbox" /\ d \in {"under_review", "archived"}
        \/ s = "under_review" /\ d \in Decisions
        \/ s \in {"approved", "rejected"} /\ d = "archived"}

Rows ==
    [key : Keys \cup {NoKey}, needs : SUBSET Categories,
     status : Statuses \cup {"absent"}, version : Nat]

NoRow == [key |-> NoKey, needs |-> {}, status |-> "absent", version |-> 0]

(* A new row: create_task inserts a draft at version 1.                    *)
Draft(k, needs) == [key |-> k, needs |-> needs, status |-> "draft", version |-> 1]

(* A row after an UPDATE of its status and version.                        *)
Moved(r, dest, version) ==
    [key |-> r.key, needs |-> r.needs, status |-> dest, version |-> version]
=============================================================================
