------------------------- MODULE GovernedOperations -------------------------
(***************************************************************************)
(* The governed-operations store of one workspace                          *)
(* (governed_operations/store.py) under the requests FastAPI's thread pool *)
(* runs concurrently.  Every request opens its own SQLite connection.      *)
(* Python's sqlite3 starts a transaction only at the first INSERT, so the  *)
(* SELECTs of a handler each see the database at their own moment.  The    *)
(* first INSERT takes SQLite's write lock, under which the handler reads   *)
(* the end of the audit log; the commit lets the others see what it wrote  *)
(* and leaves the lock.  The hash of an event stands for the event: an     *)
(* event is named by its timestamp, an audit event by its position.        *)
(***************************************************************************)
EXTENDS TaskLifecycle, FiniteSets, FiniteSetsExt, Sequences

CONSTANTS Workers,      \* threads that serve requests
          Tasks,        \* task identifiers
          NoTask,       \* evidence that belongs to no task (task_id null)
          MaxVersion,   \* bound: the largest expected_version a client sends
          MaxAudit,     \* bound: no request starts once the audit log is this long
          MaxClock      \* bound: timestamps handed out

ASSUME NoTaskAssumption == NoTask \notin Tasks
ASSUME BoundsAssumption == MaxVersion \in Nat /\ MaxAudit \in Nat /\ MaxClock \in Nat

VARIABLES
    rows,       \* [Tasks -> Rows]: governed_tasks
    evidence,   \* [Tasks -> SUBSET Categories]: evidence_records, by category
    events,     \* [Tasks -> SUBSET Event]: task_transition_events
    reviews,    \* [Tasks -> Seq(Decisions)]: human_reviews, in insertion order
    audit,      \* Seq(AuditEvent): audit_events
    clock,      \* the last timestamp read
    pc,         \* [Workers -> Phase]: where the worker's handler stands
    call,       \* [Workers -> Call]: the request it serves
    row,        \* [Workers -> Rows]: the row its handler has read
    stamp,      \* [Workers -> the timestamp and prior event its handler has read]
    writers,    \* the workers in a transaction that has written
    seen,       \* [Workers -> Nat]: the audit events its transaction has read
    answers     \* what create_task answered: the <<key, needs, task>> of every 201

vars == <<rows, evidence, events, reviews, audit, clock, pc, call, row, stamp, writers, seen,
          answers>>

requestVars == <<call, row, stamp, writers, seen>>

Phase == {"idle", "new", "bound", "inserting", "read", "cleared", "stamped"}

Operations == {"create", "evidence", "transition", "review"}

Call ==
    [op : Operations, task : Tasks \cup {NoTask}, key : Keys \cup {NoKey},
     cats : SUBSET Categories, dest : Statuses \cup {"absent"}, expected : Nat]

Event == [at : Nat, from : Statuses, to : Statuses, prev : Nat]

AuditTypes ==
    {"WORKSPACE_OPERATIONS_BOUND", "TASK_DRAFT_CREATED", "EVIDENCE_RECORDED",
     "TASK_TRANSITION", "HUMAN_REVIEW_RECORDED"}

AuditEvent == [type : AuditTypes, task : Tasks \cup {NoTask}, prev : Nat]

NoCall ==
    [op |-> "create", task |-> NoTask, key |-> NoKey, cats |-> {}, dest |-> "absent",
     expected |-> 0]

(* The requests a client can make: GovernedTaskCreate, EvidenceCreate,     *)
(* TransitionRequest on the three transition routes, and ReviewRequest.    *)
Requests ==
    [op : {"create"}, task : {NoTask}, key : Keys, cats : SUBSET Categories,
     dest : {"absent"}, expected : {0}]
    \cup [op : {"evidence"}, task : Tasks \cup {NoTask}, key : {NoKey},
          cats : {{c} : c \in Categories}, dest : {"absent"}, expected : {0}]
    \cup [op : {"transition"}, task : Tasks, key : {NoKey}, cats : {{}},
          dest : Destinations, expected : 1..MaxVersion]
    \cup [op : {"review"}, task : Tasks, key : {NoKey}, cats : {{}},
          dest : Decisions, expected : 1..MaxVersion]
-----------------------------------------------------------------------------
Exists(t) == t \in Tasks /\ rows[t].status # "absent"

(* Fault: the oldest event taken for the last one (ASC for DESC).          *)
IsOldest(t, at) ==
    IF events[t] = {} THEN at = 0
    ELSE (\E e \in events[t] : e.at = at) /\ \A e \in events[t] : at <= e.at

(* SELECT event_hash ... ORDER BY occurred_at DESC LIMIT 1 (0: no event).  *)
IsLatest(t, at) ==
    /\ at = 0 \/ \E e \in events[t] : e.at = at
    /\ \A e \in events[t] : e.at <= at

(* _audit: chain a new event to the last one its transaction has read.     *)
Audited(log, type, t, last) ==
    Append(log, [type |-> type, task |-> t, prev |-> last])

(* Fault: binding without the look for an earlier binding.                 *)
BoundAgain(log, last) == Audited(log, "WORKSPACE_OPERATIONS_BOUND", NoTask, last)

(* initialize_workspace: bind the workspace, unless the transaction, which *)
(* INSERT OR IGNORE on schema_migrations began, has read a binding.        *)
Bound(log, last) ==
    IF \E i \in 1..last : log[i].type = "WORKSPACE_OPERATIONS_BOUND"
    THEN log
    ELSE Audited(log, "WORKSPACE_OPERATIONS_BOUND", NoTask, last)

Init ==
    /\ rows = [t \in Tasks |-> NoRow]
    /\ evidence = [t \in Tasks |-> {}]
    /\ events = [t \in Tasks |-> {}]
    /\ reviews = [t \in Tasks |-> <<>>]
    /\ audit = <<>>
    /\ clock = 0
    /\ pc = [w \in Workers |-> "idle"]
    /\ call = [w \in Workers |-> NoCall]
    /\ row = [w \in Workers |-> NoRow]
    /\ stamp = [w \in Workers |-> [at |-> 0, prior |-> 0]]
    /\ writers = {}
    /\ seen = [w \in Workers |-> 0]
    /\ answers = {}

(* The end of a transaction, committed or rolled back.                     *)
Leave(w) ==
    /\ writers' = writers \ {w}
    /\ seen' = [seen EXCEPT ![w] = 0]

(* The end of a request: the thread is free and its locals are gone.       *)
Return(w) ==
    /\ pc' = [pc EXCEPT ![w] = "idle"]
    /\ call' = [call EXCEPT ![w] = NoCall]
    /\ row' = [row EXCEPT ![w] = NoRow]
    /\ stamp' = [stamp EXCEPT ![w] = [at |-> 0, prior |-> 0]]
    /\ Leave(w)

(* A request arrives.                                                      *)
Start(w, request) ==
    /\ pc[w] = "idle"
    /\ Len(audit) < MaxAudit
    /\ pc' = [pc EXCEPT ![w] = "new"]
    /\ call' = [call EXCEPT ![w] = request]
    /\ UNCHANGED <<rows, evidence, events, reviews, audit, clock, row, stamp, writers, seen,
                   answers>>

(* Fault: a transaction writes while another one does.                     *)
NoWriteLock == TRUE

WriteLockFree == writers = {}

(* The handler of w has come to the first INSERT of a transaction.         *)
Writes(w) ==
    \/ pc[w] \in {"new", "inserting", "stamped"}
    \/ /\ pc[w] = "bound" /\ call[w].op = "evidence"
       /\ call[w].task = NoTask \/ Exists(call[w].task)

(* The first INSERT waits for SQLite's write lock and takes it; the SELECTs *)
(* of _audit and initialize_workspace come after it.                        *)
BeginWrite(w) ==
    /\ Writes(w) /\ w \notin writers /\ WriteLockFree
    /\ writers' = writers \cup {w}
    /\ seen' = [seen EXCEPT ![w] = Len(audit)]
    /\ UNCHANGED <<rows, evidence, events, reviews, audit, clock, pc, call, row, stamp, answers>>

(* The handler binds the workspace, in a transaction of its own.           *)
Bind(w) ==
    /\ pc[w] = "new" /\ w \in writers
    /\ audit' = Bound(audit, seen[w])
    /\ pc' = [pc EXCEPT ![w] = "bound"]
    /\ Leave(w)
    /\ UNCHANGED <<rows, evidence, events, reviews, clock, call, row, stamp, answers>>

(* create_task looks its idempotency key up outside any transaction: the   *)
(* same payload is answered with the task on record, another one refused.  *)
LookUpKey(w) ==
    /\ pc[w] = "bound" /\ call[w].op = "create"
    /\ \/ /\ \A t \in Tasks : rows[t].key # call[w].key
          /\ pc' = [pc EXCEPT ![w] = "inserting"]
          /\ UNCHANGED <<requestVars, answers>>
       \/ \E t \in Tasks :
             /\ rows[t].key = call[w].key
             /\ answers' = IF rows[t].needs = call[w].cats
                           THEN answers \cup {<<call[w].key, call[w].cats, t>>}
                           ELSE answers
             /\ Return(w)
    /\ UNCHANGED <<rows, evidence, events, reviews, audit, clock>>

(* Fault: no UNIQUE constraint on idempotency_key.                         *)
InsertAnyway(w) ==
    /\ pc[w] = "inserting" /\ w \in writers
    /\ \E t \in Tasks :
          /\ ~Exists(t)
          /\ rows' = [rows EXCEPT ![t] = Draft(call[w].key, call[w].cats)]
          /\ audit' = Audited(audit, "TASK_DRAFT_CREATED", t, seen[w])
          /\ answers' = answers \cup {<<call[w].key, call[w].cats, t>>}
    /\ Return(w)
    /\ UNCHANGED <<evidence, events, reviews, clock>>

(* The INSERT of create_task and its audit event, in one transaction.  A   *)
(* key inserted since the look-up violates UNIQUE: the transaction is      *)
(* rolled back and the request ends in an error.                           *)
InsertTask(w) ==
    /\ pc[w] = "inserting" /\ w \in writers
    /\ \/ \E t \in Tasks :
             /\ ~Exists(t)
             /\ \A u \in Tasks : rows[u].key # call[w].key
             /\ rows' = [rows EXCEPT ![t] = Draft(call[w].key, call[w].cats)]
             /\ audit' = Audited(audit, "TASK_DRAFT_CREATED", t, seen[w])
             /\ answers' = answers \cup {<<call[w].key, call[w].cats, t>>}
       \/ /\ \E u \in Tasks : rows[u].key = call[w].key
          /\ UNCHANGED <<rows, audit, answers>>
    /\ Return(w)
    /\ UNCHANGED <<evidence, events, reviews, clock>>

(* add_evidence: one INSERT and its audit event in one transaction.  The   *)
(* task it names must exist; tasks are never deleted, so the earlier look  *)
(* for the row cannot be out of date.                                      *)
RecordEvidence(w) ==
    /\ pc[w] = "bound" /\ call[w].op = "evidence" /\ w \in writers
    /\ \/ /\ Exists(call[w].task)
          /\ evidence' = [evidence EXCEPT ![call[w].task] = @ \cup call[w].cats]
          /\ audit' = Audited(audit, "EVIDENCE_RECORDED", call[w].task, seen[w])
       \/ /\ call[w].task = NoTask
          /\ audit' = Audited(audit, "EVIDENCE_RECORDED", NoTask, seen[w])
          /\ UNCHANGED evidence
    /\ Return(w)
    /\ UNCHANGED <<rows, events, reviews, clock, answers>>

(* Fault: neither the life cycle nor the version is consulted.             *)
AcceptsAny(request, r) == request.dest \in Statuses

(* The checks transition and review make on the row they have read.        *)
Accepts(request, r) ==
    /\ request.dest \in Allowed(r.status)
    /\ request.expected = r.version

(* transition and review read the row and check status and version.  A     *)
(* review that approves has its evidence gate still to pass.               *)
ReadTask(w) ==
    /\ pc[w] = "bound" /\ call[w].op \in {"transition", "review"}
    /\ Accepts(call[w], rows[call[w].task])
    /\ row' = [row EXCEPT ![w] = rows[call[w].task]]
    /\ pc' = [pc EXCEPT ![w] = IF call[w].dest = "approved" THEN "read" ELSE "cleared"]
    /\ UNCHANGED <<rows, evidence, events, reviews, audit, clock, call, stamp, writers, seen, answers>>

(* Fault: an approval with no look at the evidence.                        *)
WaveThrough(w) ==
    /\ pc[w] = "read"
    /\ pc' = [pc EXCEPT ![w] = "cleared"]
    /\ UNCHANGED <<rows, evidence, events, reviews, audit, clock, requestVars, answers>>

(* review, decision approve: every required category has a record.         *)
CheckEvidence(w) ==
    /\ pc[w] = "read"
    /\ row[w].needs \subseteq evidence[call[w].task]
    /\ pc' = [pc EXCEPT ![w] = "cleared"]
    /\ UNCHANGED <<rows, evidence, events, reviews, audit, clock, requestVars, answers>>

(* _record_transition reads the task's last event and then the clock.      *)
ReadPrior(w) ==
    /\ pc[w] = "cleared"
    /\ clock < MaxClock
    /\ clock' = clock + 1
    /\ \E prior \in 0..clock :
          /\ IsLatest(call[w].task, prior)
          /\ stamp' = [stamp EXCEPT ![w] = [at |-> clock + 1, prior |-> prior]]
    /\ pc' = [pc EXCEPT ![w] = "stamped"]
    /\ UNCHANGED <<rows, evidence, events, reviews, audit, call, row, writers, seen, answers>>

(* Fault: the review committed without its audit event.                    *)
QuietlyReviewed(log, request, last) ==
    Audited(log, "TASK_TRANSITION", request.task, last)

(* The audit events of one transition, and of the review that made it,     *)
(* which its transaction chains to that of the transition.                 *)
Reported(log, request, last) ==
    LET moved == Audited(log, "TASK_TRANSITION", request.task, last)
    IN  IF request.op = "review"
        THEN Audited(moved, "HUMAN_REVIEW_RECORDED", request.task, last + 1)
        ELSE moved

(* The version the UPDATE writes: one past that of the row that was read.  *)
NextVersion(r) == r.version + 1

(* Fault: one review per task, a later one ignored.                        *)
FirstReview(log, request) ==
    IF request.op = "review" /\ log = <<>> THEN Append(log, request.dest) ELSE log

(* INSERT INTO human_reviews, when the transition is a review.             *)
Reviewed(log, request) ==
    IF request.op = "review" THEN Append(log, request.dest) ELSE log

(* The transaction of _record_transition, with the review that called it:  *)
(* event, row, audit, review, audit.  The UPDATE names only the task_id,   *)
(* so it overwrites whatever the row has become since it was read.         *)
RecordTransition(w) ==
    LET t == call[w].task
    IN  /\ pc[w] = "stamped" /\ w \in writers
        /\ events' = [events EXCEPT ![t] = @ \cup
                         {[at |-> stamp[w].at, from |-> row[w].status,
                           to |-> call[w].dest, prev |-> stamp[w].prior]}]
        /\ rows' = [rows EXCEPT ![t] = Moved(@, call[w].dest, NextVersion(row[w]))]
        /\ reviews' = [reviews EXCEPT ![t] = Reviewed(@, call[w])]
        /\ audit' = Reported(audit, call[w], seen[w])
        /\ Return(w)
        /\ UNCHANGED <<evidence, clock, answers>>

(* A check fails: the handler answers 404 or 409 and changes nothing.      *)
Refuse(w) ==
    /\ \/ /\ pc[w] = "bound" /\ call[w].op \in {"transition", "review"}
          /\ ~Accepts(call[w], rows[call[w].task])
       \/ /\ pc[w] = "bound" /\ call[w].op = "evidence"
          /\ call[w].task # NoTask /\ ~Exists(call[w].task)
       \/ /\ pc[w] = "read"
          /\ ~(row[w].needs \subseteq evidence[call[w].task])
    /\ Return(w)
    /\ UNCHANGED <<rows, evidence, events, reviews, audit, clock, answers>>

(* The request dies between two statements: the server stops, or SQLite    *)
(* reports the database locked.  What was not committed is gone.           *)
Abort(w) ==
    /\ pc[w] # "idle"
    /\ Return(w)
    /\ UNCHANGED <<rows, evidence, events, reviews, audit, clock, answers>>

Step(w) ==
    \/ BeginWrite(w)
    \/ Bind(w)
    \/ LookUpKey(w)
    \/ InsertTask(w)
    \/ RecordEvidence(w)
    \/ ReadTask(w)
    \/ CheckEvidence(w)
    \/ ReadPrior(w)
    \/ RecordTransition(w)
    \/ Refuse(w)
    \/ Abort(w)

Next ==
    \E w \in Workers :
        \/ \E request \in Requests : Start(w, request)
        \/ Step(w)

Spec == Init /\ [][Next]_vars
-----------------------------------------------------------------------------
TypeOK ==
    /\ rows \in [Tasks -> Rows]
    /\ evidence \in [Tasks -> SUBSET Categories]
    /\ events \in [Tasks -> SUBSET Event]
    /\ reviews \in [Tasks -> Seq(Decisions)]
    /\ audit \in Seq(AuditEvent)
    /\ clock \in Nat
    /\ pc \in [Workers -> Phase]
    /\ call \in [Workers -> Call]
    /\ row \in [Workers -> Rows]
    /\ stamp \in [Workers -> [at : Nat, prior : Nat]]
    /\ writers \subseteq Workers
    /\ seen \in [Workers -> Nat]
    /\ answers \subseteq Keys \X (SUBSET Categories) \X Tasks

(* audit_integrity answers PASS whatever requests overlap and abort: each  *)
(* audit event carries the hash of the one before it, which its            *)
(* transaction has read some time before it commits.  (_audit,             *)
(* audit_integrity)                                                        *)
AuditChainIntact == \A i \in DOMAIN audit : audit[i].prev = i - 1

(* A workspace is bound once, before anything else is audited, however     *)
(* many first requests race.  (initialize_workspace)                       *)
BoundOnceAndFirst ==
    \A i \in DOMAIN audit : audit[i].type = "WORKSPACE_OPERATIONS_BOUND" <=> i = 1

(* An idempotency key names one task, with one payload, in every answer a  *)
(* client gets, also when two first requests race past the look-up.        *)
(* (create_task)                                                           *)
SameKeySameTask ==
    /\ \A a, b \in answers : a[1] = b[1] => a = b
    /\ \A a \in answers : rows[a[3]].key = a[1] /\ rows[a[3]].needs = a[2]
    /\ \A t, u \in Tasks : rows[t].key = rows[u].key /\ Exists(t) => t = u

(* Every approval on record, and every task now approved, has a record for *)
(* each category it requires.  The gate is read before the transaction     *)
(* that approves; the answer cannot go stale.  (review)                    *)
ApprovalHasEvidence ==
    \A t \in Tasks :
        (rows[t].status = "approved" \/ \E e \in events[t] : e.to = "approved")
            => rows[t].needs \subseteq evidence[t]

(* The status a review leaves a task in is the last decision on record:    *)
(* two reviews that both pass the version check leave the row of the one   *)
(* that committed last.  (review)                                          *)
LastReviewDecides ==
    \A t \in Tasks :
        rows[t].status \in Decisions
            => reviews[t] # <<>> /\ reviews[t][Len(reviews[t])] = rows[t].status

Count(type, t) == Cardinality({i \in DOMAIN audit : audit[i].type = type /\ audit[i].task = t})

(* The audit log and the tables tell the same story after any abort: one   *)
(* audit event per task, transition and review, none without its row.      *)
(* (create_task, _record_transition, review)                               *)
AuditCoversTables ==
    \A t \in Tasks :
        /\ Count("TASK_DRAFT_CREATED", t) = (IF Exists(t) THEN 1 ELSE 0)
        /\ Count("TASK_TRANSITION", t) = Cardinality(events[t])
        /\ Count("HUMAN_REVIEW_RECORDED", t) = Len(reviews[t])
        /\ Len(reviews[t]) = Cardinality({e \in events[t] : e.to \in Decisions})

(* CHANGELOG: "Adds optimistic-concurrency expected_version guard."  Every *)
(* transition that is recorded was made for the version it replaces and    *)
(* moves it by one.                                                        *)
OptimisticGuard ==
    [][\A t \in Tasks :
          events'[t] # events[t] => rows'[t].version = rows[t].version + 1]_vars

(* README: the task has a verifiable hash chain.  task_integrity answers   *)
(* PASS: in timestamp order each event carries the hash of the one before. *)
TaskChainIntact ==
    \A t \in Tasks : \A e \in events[t] :
        LET earlier == {f.at : f \in {g \in events[t] : g.at < e.at}}
        IN  e.prev = IF earlier = {} THEN 0 ELSE Max(earlier)
-----------------------------------------------------------------------------
(* The abstract trail of a task: its transitions in the order of their     *)
(* timestamps, the i-th being the one with i events up to its own.         *)
Rank(happened, e) == Cardinality({f \in happened : f.at <= e.at})

Ith(happened, i) == CHOOSE e \in happened : Rank(happened, e) = i

Trail(happened) ==
    [i \in 1..Cardinality(happened) |->
        <<Ith(happened, i).from, Ith(happened, i).to>>]

Abstract == INSTANCE GovernedTasks WITH trail <- [t \in Tasks |-> Trail(events[t])]

(* A single client at a time sees the governed tasks of GovernedTasks.tla: *)
(* no read of its own can go stale, and an aborted request leaves nothing. *)
ImplementsGovernedTasks == Abstract!Spec
=============================================================================
