---------------------- MODULE GovernedOperationsProofs ----------------------
(***************************************************************************)
(* Safety of the governed-operations store for any number of threads,      *)
(* tasks, keys and categories.  WorkerInv says what a handler still knows  *)
(* of the tables when it comes to its transaction: tasks are not deleted,  *)
(* required categories do not change and evidence only grows, so the reads *)
(* it made outside the transaction hold in it, all but the version.        *)
(* For a single client the version holds too, and the store implements     *)
(* GovernedTasks.                                                          *)
(***************************************************************************)
EXTENDS GovernedOperations, FiniteSetTheorems, TLAPS

(* The request a handler serves is one of Requests; past its checks, the   *)
(* handler holds an existing task's row and one of its destinations.       *)
WorkerInv ==
    \A w \in Workers :
        /\ pc[w] # "idle" => call[w] \in Requests
        /\ pc[w] = "inserting" => call[w].op = "create"
        /\ pc[w] \in {"read", "cleared", "stamped"} =>
              /\ call[w].op \in {"transition", "review"}
              /\ row[w].status \in Statuses
              /\ call[w].dest \in Allowed(row[w].status)

(* From an existing status an edge leads to an existing status.            *)
LEMMA AllowedType ==
    ASSUME NEW s \in Statuses \cup {"absent"}, NEW d \in Allowed(s)
    PROVE  s \in Statuses /\ d \in Statuses
  BY SMT DEF Allowed, Statuses, Decisions

(* A request is a well-formed call; its operation settles the rest.        *)
LEMMA RequestType ==
    ASSUME NEW r \in Requests
    PROVE  /\ r \in Call
           /\ r.op = "create" => r.key \in Keys /\ r.cats \subseteq Categories
           /\ r.op = "evidence" => r.task \in Tasks \cup {NoTask}
           /\ r.op = "transition" => r.task \in Tasks /\ r.dest \in Destinations
           /\ r.op = "review" => r.task \in Tasks /\ r.dest \in Decisions
  BY SMT, BoundsAssumption
     DEF Requests, Call, Operations, Destinations, Decisions, Statuses

(* _audit keeps the log a log.                                             *)
LEMMA AuditedType ==
    ASSUME NEW log \in Seq(AuditEvent), NEW type \in AuditTypes,
           NEW t \in Tasks \cup {NoTask}, NEW last \in Nat
    PROVE  Audited(log, type, t, last) \in Seq(AuditEvent)
  <1>1. [type |-> type, task |-> t, prev |-> last] \in AuditEvent
    BY SMT DEF AuditEvent
  <1> QED  BY <1>1, SMT DEF Audited

LEMMA BoundType ==
    ASSUME NEW log \in Seq(AuditEvent), NEW last \in Nat
    PROVE  Bound(log, last) \in Seq(AuditEvent)
  <1>1. "WORKSPACE_OPERATIONS_BOUND" \in AuditTypes
    BY DEF AuditTypes
  <1> QED  BY <1>1, AuditedType, SMT DEF Bound

LEMMA ReportedType ==
    ASSUME NEW log \in Seq(AuditEvent), NEW request, request.task \in Tasks, NEW last \in Nat
    PROVE  Reported(log, request, last) \in Seq(AuditEvent)
  <1>1. /\ "TASK_TRANSITION" \in AuditTypes
        /\ "HUMAN_REVIEW_RECORDED" \in AuditTypes
    BY DEF AuditTypes
  <1>2. Audited(log, "TASK_TRANSITION", request.task, last) \in Seq(AuditEvent)
    BY <1>1, AuditedType
  <1>3. last + 1 \in Nat
    BY SMT
  <1>4. Audited(Audited(log, "TASK_TRANSITION", request.task, last),
                "HUMAN_REVIEW_RECORDED", request.task, last + 1) \in Seq(AuditEvent)
    BY <1>1, <1>2, <1>3, AuditedType
  <1> QED  BY <1>2, <1>4, SMT DEF Reported

(* A request that ends leaves its worker as it was at the start.           *)
LEMMA ReturnType ==
    ASSUME TypeOK, WorkerInv, NEW w \in Workers, Return(w)
    PROVE  /\ pc' \in [Workers -> Phase]
           /\ call' \in [Workers -> Call]
           /\ row' \in [Workers -> Rows]
           /\ stamp' \in [Workers -> [at : Nat, prior : Nat]]
           /\ writers' \subseteq Workers
           /\ seen' \in [Workers -> Nat]
           /\ WorkerInv'
  <1>1. NoCall \in Call
    BY SMT DEF NoCall, Call, Operations
  <1>2. NoRow \in Rows
    BY SMT DEF NoRow, Rows
  <1>3. /\ pc' \in [Workers -> Phase]
        /\ call' \in [Workers -> Call]
        /\ row' \in [Workers -> Rows]
        /\ stamp' \in [Workers -> [at : Nat, prior : Nat]]
        /\ writers' \subseteq Workers
        /\ seen' \in [Workers -> Nat]
    BY <1>1, <1>2, SMT DEF TypeOK, Return, Leave, Phase
  <1>4. WorkerInv'
    BY SMT DEF WorkerInv, TypeOK, Return
  <1> QED  BY <1>3, <1>4

LEMMA InitType == Init => TypeOK /\ WorkerInv
  <1> SUFFICES ASSUME Init PROVE TypeOK /\ WorkerInv
    OBVIOUS
  <1>1. NoCall \in Call /\ NoRow \in Rows
    BY SMT DEF NoCall, Call, Operations, NoRow, Rows
  <1>2. TypeOK
    BY <1>1, SMT DEF Init, TypeOK, Phase
  <1>3. WorkerInv
    BY SMT DEF Init, WorkerInv
  <1> QED  BY <1>2, <1>3

(* One step of the system keeps the types and what the handlers know.      *)
LEMMA TypeStep ==
    ASSUME TypeOK, WorkerInv, [Next]_vars
    PROVE  TypeOK' /\ WorkerInv'
  <1> USE DEF requestVars
  <1>1. ASSUME NEW w \in Workers, NEW request \in Requests, Start(w, request)
        PROVE  TypeOK' /\ WorkerInv'
    <2>1. request \in Call
      BY RequestType
    <2>2. TypeOK'
      BY <1>1, <2>1, SMT DEF Start, TypeOK, Phase
    <2>3. WorkerInv'
      BY <1>1, SMT DEF Start, TypeOK, WorkerInv
    <2> QED  BY <2>2, <2>3
  <1>2. ASSUME NEW w \in Workers, LookUpKey(w)
        PROVE  TypeOK' /\ WorkerInv'
    <2>1. /\ call[w] \in Requests /\ call[w].op = "create"
          /\ pc[w] = "bound"
      BY <1>2, SMT DEF LookUpKey, WorkerInv
    <2>2. call[w].key \in Keys /\ call[w].cats \subseteq Categories
      BY <2>1, RequestType
    <2>3. CASE pc' = [pc EXCEPT ![w] = "inserting"] /\ UNCHANGED <<requestVars, answers>>
      <3>1. TypeOK'
        BY <1>2, <2>3, SMT DEF LookUpKey, TypeOK, Phase
      <3>2. WorkerInv'
        BY <2>1, <2>3, SMT DEF WorkerInv, TypeOK
      <3> QED  BY <3>1, <3>2
    <2>4. CASE \E t \in Tasks :
                  /\ answers' = IF rows[t].needs = call[w].cats
                                THEN answers \cup {<<call[w].key, call[w].cats, t>>}
                                ELSE answers
                  /\ Return(w)
      <3>1. answers' \subseteq Keys \X (SUBSET Categories) \X Tasks
        BY <2>2, <2>4, SMT DEF TypeOK
      <3>2. Return(w)
        BY <2>4
      <3>3. UNCHANGED <<rows, evidence, events, reviews, audit, clock>>
        BY <1>2 DEF LookUpKey
      <3>4. TypeOK'
        BY <3>1, <3>2, <3>3, ReturnType DEF TypeOK
      <3> QED  BY <3>2, <3>4, ReturnType
    <2> QED  BY <1>2, <2>3, <2>4 DEF LookUpKey
  <1>3. ASSUME NEW w \in Workers, InsertTask(w)
        PROVE  TypeOK' /\ WorkerInv'
    <2>1. call[w] \in Requests /\ call[w].op = "create" /\ Return(w)
      BY <1>3, SMT DEF InsertTask, WorkerInv
    <2>2. call[w].key \in Keys /\ call[w].cats \subseteq Categories
      BY <2>1, RequestType
    <2>3. CASE UNCHANGED <<rows, audit, answers>>
      BY <1>3, <2>1, <2>3, ReturnType, SMT DEF InsertTask, TypeOK
    <2>4. ASSUME NEW t \in Tasks,
                 rows' = [rows EXCEPT ![t] = Draft(call[w].key, call[w].cats)],
                 audit' = Audited(audit, "TASK_DRAFT_CREATED", t, seen[w]),
                 answers' = answers \cup {<<call[w].key, call[w].cats, t>>}
          PROVE  TypeOK'
      <3>1. Draft(call[w].key, call[w].cats) \in Rows
        BY <2>2, SMT DEF Draft, Rows, Statuses
      <3>2. rows' \in [Tasks -> Rows]
        BY <2>4, <3>1, SMT DEF TypeOK
      <3>3. audit' \in Seq(AuditEvent)
        <4>1. audit \in Seq(AuditEvent) /\ seen[w] \in Nat
          BY DEF TypeOK
        <4> QED  BY <2>4, <4>1, AuditedType DEF AuditTypes
      <3>4. answers' \subseteq Keys \X (SUBSET Categories) \X Tasks
        BY <2>2, <2>4, SMT DEF TypeOK
      <3> QED  BY <1>3, <2>1, <3>2, <3>3, <3>4, ReturnType, SMT DEF InsertTask, TypeOK
    <2>5. TypeOK'
      BY <1>3, <2>3, <2>4 DEF InsertTask
    <2> QED  BY <2>1, <2>5, ReturnType
  <1>4. ASSUME NEW w \in Workers, RecordEvidence(w)
        PROVE  TypeOK' /\ WorkerInv'
    <2>1. call[w] \in Requests /\ call[w].op = "evidence" /\ Return(w)
      BY <1>4, SMT DEF RecordEvidence, WorkerInv
    <2>2. call[w] \in Call /\ call[w].task \in Tasks \cup {NoTask}
      BY <2>1, RequestType
    <2>3. audit' \in Seq(AuditEvent)
      <3>1. "EVIDENCE_RECORDED" \in AuditTypes
        BY DEF AuditTypes
      <3>2. audit' = Audited(audit, "EVIDENCE_RECORDED", call[w].task, seen[w])
        BY <1>4 DEF RecordEvidence
      <3>3. audit \in Seq(AuditEvent) /\ seen[w] \in Nat
        BY DEF TypeOK
      <3> QED  BY <2>2, <3>1, <3>2, <3>3, AuditedType
    <2>4. evidence' \in [Tasks -> SUBSET Categories]
      <3>1. call[w].cats \in SUBSET Categories
        BY <2>2, SMT DEF Call
      <3>2. \/ evidence' = evidence
            \/ evidence' = [evidence EXCEPT ![call[w].task] = @ \cup call[w].cats]
        BY <1>4 DEF RecordEvidence
      <3>3. evidence \in [Tasks -> SUBSET Categories]
        BY DEF TypeOK
      <3> QED  BY <3>1, <3>2, <3>3, SMT
    <2>5. TypeOK'
      BY <1>4, <2>1, <2>3, <2>4, ReturnType, SMT DEF RecordEvidence, TypeOK
    <2> QED  BY <2>1, <2>5, ReturnType
  <1>5. ASSUME NEW w \in Workers, ReadTask(w)
        PROVE  TypeOK' /\ WorkerInv'
    <2>1. call[w] \in Requests /\ call[w].task \in Tasks
      <3>1. call[w] \in Requests /\ call[w].op \in {"transition", "review"}
        BY <1>5, SMT DEF ReadTask, WorkerInv
      <3> QED  BY <3>1, RequestType
    <2>2. rows[call[w].task] \in Rows
      BY <2>1, SMT DEF TypeOK
    <2>3. /\ rows[call[w].task].status \in Statuses
          /\ call[w].dest \in Allowed(rows[call[w].task].status)
      BY <1>5, <2>2, AllowedType, SMT DEF ReadTask, Accepts, Rows
    <2>4. TypeOK'
      BY <1>5, <2>2, SMT DEF ReadTask, TypeOK, Phase
    <2>5. WorkerInv'
      BY <1>5, <2>1, <2>3, SMT DEF ReadTask, TypeOK, WorkerInv
    <2> QED  BY <2>4, <2>5
  <1>6. ASSUME NEW w \in Workers, CheckEvidence(w)
        PROVE  TypeOK' /\ WorkerInv'
    <2>1. TypeOK'
      BY <1>6, SMT DEF CheckEvidence, TypeOK, Phase
    <2>2. WorkerInv'
      BY <1>6, SMT DEF CheckEvidence, TypeOK, WorkerInv
    <2> QED  BY <2>1, <2>2
  <1>7. ASSUME NEW w \in Workers, ReadPrior(w)
        PROVE  TypeOK' /\ WorkerInv'
    <2>1. TypeOK'
      BY <1>7, SMT DEF ReadPrior, TypeOK, Phase
    <2>2. WorkerInv'
      BY <1>7, SMT DEF ReadPrior, TypeOK, WorkerInv
    <2> QED  BY <2>1, <2>2
  <1>8. ASSUME NEW w \in Workers, RecordTransition(w)
        PROVE  TypeOK' /\ WorkerInv'
    <2>1. /\ call[w] \in Requests /\ call[w].op \in {"transition", "review"}
          /\ row[w].status \in Statuses /\ call[w].dest \in Allowed(row[w].status)
          /\ Return(w)
      BY <1>8, SMT DEF RecordTransition, WorkerInv
    <2>2. /\ call[w].task \in Tasks
          /\ call[w].op = "review" => call[w].dest \in Decisions
      BY <2>1, RequestType
    <2>3. call[w].dest \in Statuses
      BY <2>1, AllowedType
    <2>4. rows' \in [Tasks -> Rows]
      BY <1>8, <2>2, <2>3, SMT DEF RecordTransition, NextVersion, Moved, TypeOK, Rows
    <2>5. events' \in [Tasks -> SUBSET Event]
      BY <1>8, <2>1, <2>2, <2>3, SMT DEF RecordTransition, TypeOK, Event
    <2>6. reviews' \in [Tasks -> Seq(Decisions)]
      BY <1>8, <2>2, SMT DEF RecordTransition, Reviewed, TypeOK
    <2>7. audit' \in Seq(AuditEvent)
      <3>1. audit \in Seq(AuditEvent) /\ seen[w] \in Nat
        BY DEF TypeOK
      <3>2. audit' = Reported(audit, call[w], seen[w])
        BY <1>8 DEF RecordTransition
      <3> QED  BY <2>2, <3>1, <3>2, ReportedType
    <2>8. TypeOK'
      BY <1>8, <2>1, <2>4, <2>5, <2>6, <2>7, ReturnType, SMT DEF RecordTransition, TypeOK
    <2> QED  BY <2>1, <2>8, ReturnType
  <1>9. ASSUME NEW w \in Workers, Refuse(w) \/ Abort(w)
        PROVE  TypeOK' /\ WorkerInv'
    <2>1. Return(w)
      BY <1>9 DEF Refuse, Abort
    <2>2. TypeOK'
      BY <1>9, <2>1, ReturnType, SMT DEF Refuse, Abort, TypeOK
    <2> QED  BY <2>1, <2>2, ReturnType
  <1>10. CASE UNCHANGED vars
    <2>1. TypeOK'
      BY <1>10, SMT DEF vars, TypeOK
    <2>2. WorkerInv'
      BY <1>10, SMT DEF vars, WorkerInv
    <2> QED  BY <2>1, <2>2
  <1>11. ASSUME NEW w \in Workers, BeginWrite(w)
         PROVE  TypeOK' /\ WorkerInv'
    <2>1. Len(audit) \in Nat
      BY SMT DEF TypeOK
    <2>2. TypeOK'
      BY <1>11, <2>1, SMT DEF BeginWrite, TypeOK
    <2>3. WorkerInv'
      BY <1>11 DEF BeginWrite, WorkerInv
    <2> QED  BY <2>2, <2>3
  <1>12. ASSUME NEW w \in Workers, Bind(w)
         PROVE  TypeOK' /\ WorkerInv'
    <2>1. audit' \in Seq(AuditEvent)
      <3>1. audit \in Seq(AuditEvent) /\ seen[w] \in Nat
        BY DEF TypeOK
      <3> QED  BY <1>12, <3>1, BoundType DEF Bind
    <2>2. TypeOK'
      BY <1>12, <2>1, SMT DEF Bind, Leave, TypeOK, Phase
    <2>3. WorkerInv'
      BY <1>12, SMT DEF Bind, TypeOK, WorkerInv
    <2> QED  BY <2>2, <2>3
  <1> QED  BY <1>1, <1>2, <1>3, <1>4, <1>5, <1>6, <1>7, <1>8, <1>9, <1>10, <1>11, <1>12
           DEF Next, Step

(* Rows, evidence, events, reviews, answers and the audit log are typed,   *)
(* and a handler past its checks holds one of its task's edges.  (store)   *)
THEOREM TypeCorrect == Spec => [](TypeOK /\ WorkerInv)
  <1>1. Init => TypeOK /\ WorkerInv
    BY InitType
  <1>2. TypeOK /\ WorkerInv /\ [Next]_vars => (TypeOK /\ WorkerInv)'
    BY TypeStep
  <1> QED  BY <1>1, <1>2, PTL DEF Spec
-----------------------------------------------------------------------------
(* The audit log                                                           *)

(* SQLite's write lock: one transaction at a time has written, and nothing *)
(* has been committed since it read the end of the log.                    *)
LockInv ==
    \A w \in writers : (\A v \in writers : v = w) /\ seen[w] = Len(audit)

LEMMA LockStep ==
    ASSUME TypeOK, LockInv, [Next]_vars
    PROVE  LockInv'
  <1> USE DEF requestVars
  <1>1. ASSUME NEW w \in Workers, w \in writers, Leave(w)
        PROVE  LockInv'
    <2>1. writers' = {}
      BY <1>1 DEF LockInv, Leave
    <2> QED  BY <2>1 DEF LockInv
  <1>2. ASSUME NEW w \in Workers, audit' = audit, Leave(w)
        PROVE  LockInv'
    <2>1. \A v \in writers' : v \in writers /\ seen'[v] = seen[v]
      BY <1>2, SMT DEF Leave, TypeOK
    <2> QED  BY <1>2, <2>1 DEF LockInv
  <1>3. ASSUME UNCHANGED <<audit, writers, seen>>
        PROVE  LockInv'
    BY <1>3 DEF LockInv
  <1>4. ASSUME NEW w \in Workers, BeginWrite(w)
        PROVE  LockInv'
    <2>1. writers' = {w} /\ seen'[w] = Len(audit) /\ audit' = audit
      BY <1>4, SMT DEF BeginWrite, WriteLockFree, TypeOK
    <2> QED  BY <2>1 DEF LockInv
  <1>5. ASSUME NEW w \in Workers,
               Bind(w) \/ InsertTask(w) \/ RecordEvidence(w) \/ RecordTransition(w)
        PROVE  LockInv'
    BY <1>1, <1>5 DEF Bind, InsertTask, RecordEvidence, RecordTransition, Return
  <1>6. ASSUME NEW w \in Workers, LookUpKey(w)
        PROVE  LockInv'
    <2>1. audit' = audit /\ (Leave(w) \/ UNCHANGED <<writers, seen>>)
      BY <1>6 DEF LookUpKey, Return
    <2> QED  BY <1>2, <1>3, <2>1
  <1>7. ASSUME NEW w \in Workers, Refuse(w) \/ Abort(w)
        PROVE  LockInv'
    BY <1>2, <1>7 DEF Refuse, Abort, Return
  <1>8. ASSUME NEW w \in Workers,
               \/ \E request \in Requests : Start(w, request)
               \/ ReadTask(w) \/ CheckEvidence(w) \/ ReadPrior(w)
        PROVE  LockInv'
    BY <1>3, <1>8 DEF Start, ReadTask, CheckEvidence, ReadPrior
  <1>9. CASE UNCHANGED vars
    BY <1>3, <1>9 DEF vars
  <1> QED  BY <1>4, <1>5, <1>6, <1>7, <1>8, <1>9 DEF Next, Step

LEMMA InitLock == Init => LockInv
  BY DEF Init, LockInv

(* Between its first INSERT and its commit a transaction is alone, and the *)
(* end of the audit log it has read is still the end.  (_audit)            *)
THEOREM OneWriter == Spec => []LockInv
  <1>1. TypeOK /\ LockInv /\ [Next]_vars => LockInv'
    BY LockStep
  <1> QED  BY <1>1, InitLock, TypeCorrect, PTL DEF Spec

(* What a step may do to the audit log; only a handler that has bound the  *)
(* workspace adds anything but the binding.                                *)
LEMMA AuditGrowth ==
    ASSUME TypeOK, WorkerInv, LockInv, Next
    PROVE  \/ audit' = audit
           \/ \E w \in Workers :
                 audit' = Bound(audit, Len(audit)) /\ pc' = [pc EXCEPT ![w] = "bound"]
           \/ /\ \E w \in Workers :
                    pc[w] \notin {"idle", "new"} /\ pc' = [pc EXCEPT ![w] = "idle"]
              /\ \E t \in Tasks \cup {NoTask} :
                    \/ \E type \in AuditTypes \ {"WORKSPACE_OPERATIONS_BOUND"} :
                          audit' = Audited(audit, type, t, Len(audit))
                    \/ audit' = Audited(Audited(audit, "TASK_TRANSITION", t, Len(audit)),
                                        "HUMAN_REVIEW_RECORDED", t, Len(audit) + 1)
  <1>1. ASSUME NEW w \in Workers, Bind(w)
        PROVE  audit' = Bound(audit, Len(audit)) /\ pc' = [pc EXCEPT ![w] = "bound"]
    BY <1>1 DEF Bind, LockInv
  <1>2. ASSUME NEW w \in Workers, InsertTask(w)
        PROVE  \/ audit' = audit
               \/ /\ pc[w] \notin {"idle", "new"} /\ pc' = [pc EXCEPT ![w] = "idle"]
                  /\ \E t \in Tasks : audit' = Audited(audit, "TASK_DRAFT_CREATED", t, Len(audit))
    <2>1. seen[w] = Len(audit)
      BY <1>2 DEF InsertTask, LockInv
    <2>2. pc[w] \notin {"idle", "new"} /\ pc' = [pc EXCEPT ![w] = "idle"]
      BY <1>2 DEF InsertTask, Return
    <2> QED  BY <1>2, <2>1, <2>2 DEF InsertTask
  <1>3. ASSUME NEW w \in Workers, RecordEvidence(w)
        PROVE  /\ pc[w] \notin {"idle", "new"} /\ pc' = [pc EXCEPT ![w] = "idle"]
               /\ \E t \in Tasks \cup {NoTask} :
                     audit' = Audited(audit, "EVIDENCE_RECORDED", t, Len(audit))
    <2>1. call[w] \in Requests /\ call[w].op = "evidence"
      BY <1>3, SMT DEF RecordEvidence, WorkerInv
    <2>2. call[w].task \in Tasks \cup {NoTask}
      BY <2>1, RequestType
    <2>3. audit' = Audited(audit, "EVIDENCE_RECORDED", call[w].task, Len(audit))
      BY <1>3 DEF RecordEvidence, LockInv
    <2>4. pc[w] \notin {"idle", "new"} /\ pc' = [pc EXCEPT ![w] = "idle"]
      BY <1>3, SMT DEF RecordEvidence, Return
    <2> QED  BY <2>2, <2>3, <2>4
  <1>4. ASSUME NEW w \in Workers, RecordTransition(w)
        PROVE  /\ pc[w] \notin {"idle", "new"} /\ pc' = [pc EXCEPT ![w] = "idle"]
               /\ \E t \in Tasks :
                     \/ audit' = Audited(audit, "TASK_TRANSITION", t, Len(audit))
                     \/ audit' = Audited(Audited(audit, "TASK_TRANSITION", t, Len(audit)),
                                         "HUMAN_REVIEW_RECORDED", t, Len(audit) + 1)
    <2>1. call[w] \in Requests /\ call[w].op \in {"transition", "review"}
      BY <1>4, SMT DEF RecordTransition, WorkerInv
    <2>2. call[w].task \in Tasks
      BY <2>1, RequestType
    <2>3. audit' = Reported(audit, call[w], Len(audit))
      BY <1>4 DEF RecordTransition, LockInv
    <2>4. pc[w] \notin {"idle", "new"} /\ pc' = [pc EXCEPT ![w] = "idle"]
      BY <1>4, SMT DEF RecordTransition, Return
    <2> QED  BY <2>2, <2>3, <2>4 DEF Reported
  <1>5. ASSUME NEW w \in Workers,
               \/ \E request \in Requests : Start(w, request)
               \/ BeginWrite(w) \/ LookUpKey(w) \/ ReadTask(w) \/ CheckEvidence(w)
               \/ ReadPrior(w) \/ Refuse(w) \/ Abort(w)
        PROVE  audit' = audit
    BY <1>5 DEF Start, BeginWrite, LookUpKey, ReadTask, CheckEvidence, ReadPrior, Refuse, Abort
  <1>6. {"TASK_DRAFT_CREATED", "EVIDENCE_RECORDED", "TASK_TRANSITION"}
            \subseteq AuditTypes \ {"WORKSPACE_OPERATIONS_BOUND"}
    BY DEF AuditTypes
  <1> QED  BY <1>1, <1>2, <1>3, <1>4, <1>5, <1>6 DEF Next, Step

Chained(log) == \A i \in DOMAIN log : log[i].prev = i - 1

LEMMA AuditedChain ==
    ASSUME NEW log \in Seq(AuditEvent), Chained(log), NEW type, NEW t
    PROVE  Chained(Audited(log, type, t, Len(log)))
  BY SMT DEF Audited, Chained

(* The chain of the audit log is intact whatever requests overlap and      *)
(* wherever they abort: the last hash a transaction reads under the write  *)
(* lock is the last one when it commits.  (_audit, audit_integrity)        *)
THEOREM AuditChainSafe == Spec => []AuditChainIntact
  <1>1. AuditChainIntact <=> Chained(audit)
    BY DEF AuditChainIntact, Chained
  <1>2. Init => Chained(audit)
    BY SMT DEF Init, Chained
  <1>3. ASSUME TypeOK, WorkerInv, LockInv, Chained(audit), [Next]_vars
        PROVE  Chained(audit)'
    <2>1. audit \in Seq(AuditEvent)
      BY <1>3 DEF TypeOK
    <2>2. CASE audit' = audit
      BY <1>3, <2>2 DEF Chained
    <2>3. CASE audit' = Bound(audit, Len(audit))
      <3>1. \/ audit' = audit
            \/ audit' = Audited(audit, "WORKSPACE_OPERATIONS_BOUND", NoTask, Len(audit))
        BY <2>3 DEF Bound
      <3>2. Chained(audit')
        BY <1>3, <2>1, <3>1, AuditedChain
      <3> QED  BY <3>2 DEF Chained
    <2>4. ASSUME NEW t \in Tasks \cup {NoTask}, NEW type \in AuditTypes,
                 audit' = Audited(audit, type, t, Len(audit))
          PROVE  Chained(audit)'
      <3>1. Chained(audit')
        BY <1>3, <2>1, <2>4, AuditedChain
      <3> QED  BY <3>1 DEF Chained
    <2>5. ASSUME NEW t \in Tasks \cup {NoTask},
                 audit' = Audited(Audited(audit, "TASK_TRANSITION", t, Len(audit)),
                                  "HUMAN_REVIEW_RECORDED", t, Len(audit) + 1)
          PROVE  Chained(audit)'
      <3> SUFFICES ASSUME NEW moved,
                          moved = Audited(audit, "TASK_TRANSITION", t, Len(audit))
                   PROVE  Chained(audit)'
        OBVIOUS
      <3>1. "TASK_TRANSITION" \in AuditTypes /\ Len(audit) \in Nat
        BY <2>1, SMT DEF AuditTypes
      <3>2. moved \in Seq(AuditEvent)
        BY <2>1, <3>1, AuditedType
      <3>3. Chained(moved)
        BY <1>3, <2>1, AuditedChain
      <3>4. Len(moved) = Len(audit) + 1
        BY <2>1, SMT DEF Audited
      <3>5. Chained(audit')
        BY <2>5, <3>2, <3>3, <3>4, AuditedChain
      <3> QED  BY <3>5 DEF Chained
    <2>6. CASE UNCHANGED vars
      BY <2>6, <2>2 DEF vars
    <2> QED  BY <1>3, <2>2, <2>3, <2>4, <2>5, <2>6, AuditGrowth
  <1> QED  BY <1>1, <1>2, <1>3, TypeCorrect, OneWriter, PTL DEF Spec

(* The one binding of a log, and where it stands.                          *)
BoundFirst(log) == \A i \in DOMAIN log : log[i].type = "WORKSPACE_OPERATIONS_BOUND" <=> i = 1

LEMMA AuditedBound ==
    ASSUME NEW log \in Seq(AuditEvent), BoundFirst(log), log # <<>>,
           NEW type \in AuditTypes \ {"WORKSPACE_OPERATIONS_BOUND"}, NEW t, NEW last
    PROVE  BoundFirst(Audited(log, type, t, last)) /\ Audited(log, type, t, last) # <<>>
  BY SMT DEF Audited, BoundFirst

LEMMA BoundBound ==
    ASSUME NEW log \in Seq(AuditEvent), BoundFirst(log)
    PROVE  BoundFirst(Bound(log, Len(log))) /\ Bound(log, Len(log)) # <<>>
  <1>1. CASE \E i \in 1..Len(log) : log[i].type = "WORKSPACE_OPERATIONS_BOUND"
    BY <1>1, SMT DEF Bound
  <1>2. CASE ~ \E i \in 1..Len(log) : log[i].type = "WORKSPACE_OPERATIONS_BOUND"
    <2>1. log = <<>>
      BY <1>2, SMT DEF BoundFirst
    <2>2. Bound(log, Len(log)) =
              Append(log, [type |-> "WORKSPACE_OPERATIONS_BOUND", task |-> NoTask,
                           prev |-> Len(log)])
      BY <1>2 DEF Bound, Audited
    <2> QED  BY <2>1, <2>2, SMTT(30) DEF BoundFirst
  <1> QED  BY <1>1, <1>2

(* A handler past the binding finds it in the log.                         *)
BindInv ==
    /\ BoundFirst(audit)
    /\ \A w \in Workers : pc[w] \notin {"idle", "new"} => audit # <<>>

LEMMA BindStep ==
    ASSUME TypeOK, WorkerInv, LockInv, BindInv, [Next]_vars
    PROVE  BindInv'
  <1>1. audit \in Seq(AuditEvent) /\ pc \in [Workers -> Phase]
    BY DEF TypeOK
  <1>2. CASE UNCHANGED vars
    BY <1>2 DEF vars, BindInv, BoundFirst
  <1>3. CASE Next /\ audit' = audit
    <2>1. BoundFirst(audit)'
      BY <1>3 DEF BindInv, BoundFirst
    <2>2. ASSUME NEW v \in Workers, pc'[v] \notin {"idle", "new"}
          PROVE  pc[v] \notin {"idle", "new"} \/ audit' # <<>>
      <3>1. ASSUME NEW w \in Workers, NEW request \in Requests, Start(w, request)
            PROVE  pc[v] \notin {"idle", "new"}
        BY <1>1, <2>2, <3>1, SMT DEF Start
      <3>2. ASSUME NEW w \in Workers, Bind(w)
            PROVE  audit' # <<>>
        <4>1. audit' = Bound(audit, Len(audit))
          BY <3>2 DEF Bind, LockInv
        <4> QED  BY <1>1, <4>1, BoundBound DEF BindInv
      <3>3. ASSUME NEW w \in Workers, Step(w), ~Bind(w)
            PROVE  pc[v] \notin {"idle", "new"}
        BY <1>1, <2>2, <3>3, SMT
           DEF Step, BeginWrite, LookUpKey, InsertTask, RecordEvidence, ReadTask,
               CheckEvidence, ReadPrior, RecordTransition, Refuse, Abort, Return
      <3> QED  BY <1>3, <3>1, <3>2, <3>3 DEF Next
    <2>3. \A w \in Workers : pc'[w] \notin {"idle", "new"} => audit' # <<>>
      BY <1>3, <2>2 DEF BindInv
    <2> QED  BY <2>1, <2>3 DEF BindInv
  <1>4. ASSUME audit' = Bound(audit, Len(audit)) PROVE BindInv'
    <2>1. BoundFirst(audit') /\ audit' # <<>>
      BY <1>1, <1>4, BoundBound DEF BindInv
    <2> QED  BY <2>1 DEF BindInv, BoundFirst
  <1>5. ASSUME NEW w \in Workers, pc[w] \notin {"idle", "new"},
               NEW t \in Tasks \cup {NoTask},
               NEW type \in AuditTypes \ {"WORKSPACE_OPERATIONS_BOUND"},
               audit' = Audited(audit, type, t, Len(audit))
        PROVE  BindInv'
    <2>1. audit # <<>> /\ BoundFirst(audit)
      BY <1>5 DEF BindInv
    <2>2. BoundFirst(audit') /\ audit' # <<>>
      BY <1>1, <1>5, <2>1, AuditedBound
    <2> QED  BY <2>2 DEF BindInv, BoundFirst
  <1>6. ASSUME NEW w \in Workers, pc[w] \notin {"idle", "new"},
               NEW t \in Tasks \cup {NoTask},
               audit' = Audited(Audited(audit, "TASK_TRANSITION", t, Len(audit)),
                                "HUMAN_REVIEW_RECORDED", t, Len(audit) + 1)
        PROVE  BindInv'
    <2> SUFFICES ASSUME NEW moved,
                        moved = Audited(audit, "TASK_TRANSITION", t, Len(audit))
                 PROVE  BindInv'
      OBVIOUS
    <2>1. audit # <<>> /\ BoundFirst(audit) /\ Len(audit) \in Nat
      BY <1>1, <1>6, SMT DEF BindInv
    <2>2. /\ "TASK_TRANSITION" \in AuditTypes \ {"WORKSPACE_OPERATIONS_BOUND"}
          /\ "HUMAN_REVIEW_RECORDED" \in AuditTypes \ {"WORKSPACE_OPERATIONS_BOUND"}
      BY DEF AuditTypes
    <2>3. moved \in Seq(AuditEvent)
      BY <1>1, <2>1, <2>2, AuditedType
    <2>4. BoundFirst(moved) /\ moved # <<>>
      BY <1>1, <2>1, <2>2, AuditedBound
    <2>5. BoundFirst(audit') /\ audit' # <<>>
      BY <1>6, <2>2, <2>3, <2>4, AuditedBound
    <2> QED  BY <2>5 DEF BindInv, BoundFirst
  <1> QED  BY <1>2, <1>3, <1>4, <1>5, <1>6, AuditGrowth

(* A workspace is bound once, and before anything else, however many first *)
(* requests race.  (initialize_workspace)                                  *)
THEOREM BoundOnce == Spec => []BoundOnceAndFirst
  <1>1. Init => BindInv
    BY SMT DEF Init, BindInv, BoundFirst
  <1>2. TypeOK /\ WorkerInv /\ LockInv /\ BindInv /\ [Next]_vars => BindInv'
    BY BindStep
  <1>3. BindInv => BoundOnceAndFirst
    BY DEF BindInv, BoundFirst, BoundOnceAndFirst
  <1> QED  BY <1>1, <1>2, <1>3, TypeCorrect, OneWriter, PTL DEF Spec
-----------------------------------------------------------------------------
(* The tables and what a handler has read of them                          *)

(* A task exists from the moment it has a key; only existing tasks have    *)
(* events.  Past its checks a handler still knows which categories its     *)
(* task needs, and past the gate of an approval that they are on record.   *)
TableInv ==
    /\ \A t \in Tasks : rows[t].status # "absent" <=> rows[t].key \in Keys
    /\ \A t \in Tasks : events[t] # {} => rows[t].status # "absent"
    /\ \A w \in Workers :
          pc[w] \in {"read", "cleared", "stamped"} =>
              /\ rows[call[w].task].status # "absent"
              /\ row[w].needs = rows[call[w].task].needs
    /\ \A w \in Workers :
          pc[w] \in {"cleared", "stamped"} /\ call[w].dest = "approved" =>
              row[w].needs \subseteq evidence[call[w].task]

(* What a transition records: the task, the decision, the types.           *)
LEMMA TransitionFacts ==
    ASSUME TypeOK, WorkerInv, NEW w \in Workers, pc[w] \in {"read", "cleared", "stamped"}
    PROVE  /\ call[w].task \in Tasks
           /\ call[w].dest \in Statuses
           /\ call[w].op = "review" <=> call[w].dest \in Decisions
           /\ call[w].op = "review" \/ call[w].op = "transition"
           /\ row[w].status \in Statuses
  <1>1. /\ call[w] \in Requests /\ call[w].op \in {"transition", "review"}
        /\ row[w].status \in Statuses /\ call[w].dest \in Allowed(row[w].status)
    BY DEF WorkerInv, TypeOK
  <1>2. call[w].dest \in Statuses
    BY <1>1, AllowedType
  <1>3. /\ call[w].op = "transition" => call[w].task \in Tasks /\ call[w].dest \in Destinations
        /\ call[w].op = "review" => call[w].task \in Tasks /\ call[w].dest \in Decisions
    BY <1>1, RequestType
  <1> QED  BY <1>1, <1>2, <1>3, SMT DEF Destinations, Decisions

(* The steps that leave the tables as they are and free their worker, or   *)
(* move it on before it has read a row.                                    *)
LEMMA TableQuiet ==
    ASSUME TypeOK, WorkerInv, TableInv, NEW w \in Workers,
           UNCHANGED <<rows, evidence, events>>,
           \A v \in Workers \ {w} :
               pc'[v] = pc[v] /\ call'[v] = call[v] /\ row'[v] = row[v],
           pc'[w] \notin {"read", "cleared", "stamped"}
    PROVE  TableInv'
  <1>1. ASSUME NEW v \in Workers, pc'[v] \in {"read", "cleared", "stamped"}
        PROVE  pc'[v] = pc[v] /\ call'[v] = call[v] /\ row'[v] = row[v]
    <2>1. v # w
      BY <1>1
    <2> QED  BY <2>1
  <1>2. ASSUME NEW v \in Workers, pc'[v] \in {"read", "cleared", "stamped"}
        PROVE  /\ rows'[call'[v].task].status # "absent"
               /\ row'[v].needs = rows'[call'[v].task].needs
               /\ pc'[v] # "read" /\ call'[v].dest = "approved" =>
                     row'[v].needs \subseteq evidence'[call'[v].task]
    <2>1. pc'[v] = pc[v] /\ call'[v] = call[v] /\ row'[v] = row[v]
      BY <1>1, <1>2
    <2>2. pc[v] \in {"read", "cleared", "stamped"}
      BY <1>2, <2>1
    <2> QED  BY <2>1, <2>2 DEF TableInv
  <1>3. /\ \A t \in Tasks : rows'[t].status # "absent" <=> rows'[t].key \in Keys
        /\ \A t \in Tasks : events'[t] # {} => rows'[t].status # "absent"
    BY DEF TableInv
  <1> QED  BY <1>2, <1>3 DEF TableInv

LEMMA TableStep ==
    ASSUME TypeOK, WorkerInv, TableInv, [Next]_vars
    PROVE  TableInv'
  <1> USE DEF requestVars
  <1>1. ASSUME NEW w \in Workers, NEW request \in Requests, Start(w, request)
        PROVE  TableInv'
    <2>1. /\ UNCHANGED <<rows, evidence, events>>
          /\ \A v \in Workers \ {w} : pc'[v] = pc[v] /\ call'[v] = call[v] /\ row'[v] = row[v]
          /\ pc'[w] \notin {"read", "cleared", "stamped"}
      BY <1>1, SMT DEF Start, TypeOK
    <2> QED  BY <2>1, TableQuiet
  <1>2. ASSUME NEW w \in Workers, Bind(w) \/ LookUpKey(w) \/ Refuse(w) \/ Abort(w)
        PROVE  TableInv'
    <2>1. /\ UNCHANGED <<rows, evidence, events>>
          /\ \A v \in Workers \ {w} : pc'[v] = pc[v] /\ call'[v] = call[v] /\ row'[v] = row[v]
          /\ pc'[w] \notin {"read", "cleared", "stamped"}
      BY <1>2, SMT DEF Bind, LookUpKey, Refuse, Abort, Return, TypeOK
    <2> QED  BY <2>1, TableQuiet
  <1>3. ASSUME NEW w \in Workers, InsertTask(w)
        PROVE  TableInv'
    <2>1. /\ UNCHANGED <<evidence, events>>
          /\ \A v \in Workers \ {w} : pc'[v] = pc[v] /\ call'[v] = call[v] /\ row'[v] = row[v]
          /\ pc'[w] \notin {"read", "cleared", "stamped"}
      BY <1>3, SMT DEF InsertTask, Return, TypeOK
    <2>2. CASE rows' = rows
      BY <2>1, <2>2, TableQuiet
    <2>3. ASSUME NEW t \in Tasks, ~Exists(t),
                 rows' = [rows EXCEPT ![t] = Draft(call[w].key, call[w].cats)]
          PROVE  TableInv'
      <3>1. call[w].key \in Keys
        <4>1. call[w] \in Requests /\ call[w].op = "create"
          BY <1>3, SMT DEF InsertTask, WorkerInv
        <4> QED  BY <4>1, RequestType
      <3>2. rows[t].status = "absent"
        BY <2>3 DEF Exists
      <3>3. /\ rows'[t].key = call[w].key /\ rows'[t].status = "draft"
            /\ \A u \in Tasks \ {t} : rows'[u] = rows[u]
        BY <2>3, SMT DEF Draft, TypeOK
      <3>4. \A u \in Tasks : rows'[u].status # "absent" <=> rows'[u].key \in Keys
        BY <3>1, <3>3, SMT DEF TableInv
      <3>5. \A u \in Tasks : events'[u] # {} => rows'[u].status # "absent"
        BY <2>1, <3>3, SMT DEF TableInv
      <3>6. ASSUME NEW v \in Workers, pc'[v] \in {"read", "cleared", "stamped"}
            PROVE  /\ rows'[call'[v].task].status # "absent"
                   /\ row'[v].needs = rows'[call'[v].task].needs
                   /\ pc'[v] # "read" /\ call'[v].dest = "approved" =>
                         row'[v].needs \subseteq evidence'[call'[v].task]
        <4>1. /\ v # w /\ pc'[v] = pc[v] /\ call'[v] = call[v] /\ row'[v] = row[v]
          BY <2>1, <3>6
        <4>2. /\ rows[call[v].task].status # "absent"
              /\ row[v].needs = rows[call[v].task].needs
              /\ pc[v] # "read" /\ call[v].dest = "approved" =>
                    row[v].needs \subseteq evidence[call[v].task]
          BY <3>6, <4>1 DEF TableInv
        <4>3. call[v].task \in Tasks
          BY <3>6, <4>1, TransitionFacts
        <4>4. rows'[call[v].task] = rows[call[v].task]
          BY <3>2, <3>3, <4>2, <4>3
        <4> QED  BY <2>1, <4>1, <4>2, <4>4
      <3> QED  BY <3>4, <3>5, <3>6 DEF TableInv
    <2> QED  BY <1>3, <2>2, <2>3 DEF InsertTask
  <1>4. ASSUME NEW w \in Workers, RecordEvidence(w)
        PROVE  TableInv'
    <2>1. /\ UNCHANGED <<rows, events>>
          /\ \A v \in Workers \ {w} : pc'[v] = pc[v] /\ call'[v] = call[v] /\ row'[v] = row[v]
          /\ pc'[w] \notin {"read", "cleared", "stamped"}
      BY <1>4, SMT DEF RecordEvidence, Return, TypeOK
    <2>2. \A t \in Tasks : evidence[t] \subseteq evidence'[t]
      <3>1. \/ evidence' = evidence
            \/ evidence' = [evidence EXCEPT ![call[w].task] = @ \cup call[w].cats]
        BY <1>4 DEF RecordEvidence
      <3>2. evidence \in [Tasks -> SUBSET Categories]
        BY DEF TypeOK
      <3> QED  BY <3>1, <3>2, SMT
    <2>3. ASSUME NEW v \in Workers, pc'[v] \in {"cleared", "stamped"},
                 call'[v].dest = "approved"
          PROVE  row'[v].needs \subseteq evidence'[call'[v].task]
      <3>1. /\ pc'[v] = pc[v] /\ call'[v] = call[v] /\ row'[v] = row[v]
        BY <2>1, <2>3
      <3>2. call[v].task \in Tasks
        BY <2>3, <3>1, TransitionFacts
      <3> QED  BY <2>2, <2>3, <3>1, <3>2 DEF TableInv
    <2> QED  BY <2>1, <2>3, SMT DEF TableInv
  <1>5. ASSUME NEW w \in Workers, ReadTask(w)
        PROVE  TableInv'
    <2>1. /\ UNCHANGED <<rows, evidence, events, call>>
          /\ row' = [row EXCEPT ![w] = rows[call[w].task]]
          /\ pc' = [pc EXCEPT ![w] = IF call[w].dest = "approved" THEN "read" ELSE "cleared"]
      BY <1>5 DEF ReadTask
    <2>2. rows[call[w].task].status # "absent"
      BY <1>5, SMT DEF ReadTask, Accepts, Allowed
    <2> QED  BY <2>1, <2>2, SMT DEF TableInv, TypeOK
  <1>6. ASSUME NEW w \in Workers, CheckEvidence(w)
        PROVE  TableInv'
    BY <1>6, SMT DEF CheckEvidence, TableInv, TypeOK
  <1>7. ASSUME NEW w \in Workers, ReadPrior(w)
        PROVE  TableInv'
    BY <1>7, SMT DEF ReadPrior, TableInv, TypeOK
  <1>8. ASSUME NEW w \in Workers, RecordTransition(w)
        PROVE  TableInv'
    <2> DEFINE t == call[w].task
    <2>1. /\ t \in Tasks /\ call[w].dest \in Statuses
          /\ rows[t].status # "absent"
      BY <1>8, TransitionFacts, SMT DEF RecordTransition, TableInv
    <2>2. /\ UNCHANGED evidence
          /\ \A v \in Workers \ {w} : pc'[v] = pc[v] /\ call'[v] = call[v] /\ row'[v] = row[v]
          /\ pc'[w] = "idle"
      BY <1>8, SMT DEF RecordTransition, Return, TypeOK
    <2>3. /\ rows'[t].key = rows[t].key /\ rows'[t].needs = rows[t].needs
          /\ rows'[t].status = call[w].dest
          /\ \A u \in Tasks \ {t} : rows'[u] = rows[u] /\ events'[u] = events[u]
      BY <1>8, <2>1, SMT DEF RecordTransition, Moved, TypeOK
    <2>4. call[w].dest # "absent"
      BY <2>1, SMT DEF Statuses
    <2>5. \A u \in Tasks : rows'[u].status # "absent" <=> rows'[u].key \in Keys
      BY <2>1, <2>3, <2>4, SMT DEF TableInv
    <2>6. \A u \in Tasks : events'[u] # {} => rows'[u].status # "absent"
      BY <2>3, <2>4, SMT DEF TableInv
    <2>7. ASSUME NEW v \in Workers, pc'[v] \in {"read", "cleared", "stamped"}
          PROVE  /\ rows'[call'[v].task].status # "absent"
                 /\ row'[v].needs = rows'[call'[v].task].needs
                 /\ pc'[v] # "read" /\ call'[v].dest = "approved" =>
                       row'[v].needs \subseteq evidence'[call'[v].task]
      <3>1. /\ v # w /\ pc'[v] = pc[v] /\ call'[v] = call[v] /\ row'[v] = row[v]
        BY <2>2, <2>7
      <3>2. call[v].task \in Tasks
        BY <2>7, <3>1, TransitionFacts
      <3>3. /\ rows[call[v].task].status # "absent"
            /\ row[v].needs = rows[call[v].task].needs
            /\ pc[v] # "read" /\ call[v].dest = "approved" =>
                  row[v].needs \subseteq evidence[call[v].task]
        BY <2>7, <3>1 DEF TableInv
      <3>4. /\ rows'[call[v].task].status # "absent"
            /\ rows'[call[v].task].needs = rows[call[v].task].needs
        BY <2>3, <2>4, <3>2, <3>3
      <3> QED  BY <2>2, <3>1, <3>3, <3>4
    <2> QED  BY <2>5, <2>6, <2>7 DEF TableInv
  <1>9. CASE UNCHANGED vars
    BY <1>9 DEF vars, TableInv
  <1>10. ASSUME NEW w \in Workers, BeginWrite(w)
         PROVE  TableInv'
    BY <1>10 DEF BeginWrite, TableInv
  <1> QED  BY <1>1, <1>2, <1>3, <1>4, <1>5, <1>6, <1>7, <1>8, <1>9, <1>10 DEF Next, Step

LEMMA InitTables == Init => TableInv
  BY NoKeyAssumption, SMT DEF Init, TableInv, NoRow

(* What handlers have read of the tables stays true until they commit: no  *)
(* other request can take it back.  (create_task, add_evidence, review)    *)
THEOREM TablesCorrect == Spec => []TableInv
  <1>1. TypeOK /\ WorkerInv /\ TableInv /\ [Next]_vars => TableInv'
    BY TableStep
  <1> QED  BY <1>1, InitTables, TypeCorrect, PTL DEF Spec

(* The steps that change neither rows nor events and take no evidence away *)
(* are all but InsertTask and RecordTransition.                            *)
LEMMA QuietSteps ==
    ASSUME TypeOK, NEW w \in Workers,
           \/ \E request \in Requests : Start(w, request)
           \/ BeginWrite(w) \/ Bind(w) \/ LookUpKey(w) \/ RecordEvidence(w) \/ ReadTask(w)
           \/ CheckEvidence(w) \/ ReadPrior(w) \/ Refuse(w) \/ Abort(w)
    PROVE  /\ rows' = rows /\ events' = events /\ reviews' = reviews
           /\ \A t \in Tasks : evidence[t] \subseteq evidence'[t]
  <1>1. CASE RecordEvidence(w)
    <2>1. \/ evidence' = evidence
          \/ evidence' = [evidence EXCEPT ![call[w].task] = @ \cup call[w].cats]
      BY <1>1 DEF RecordEvidence
    <2>2. evidence \in [Tasks -> SUBSET Categories]
      BY DEF TypeOK
    <2>3. \A t \in Tasks : evidence[t] \subseteq evidence'[t]
      BY <2>1, <2>2, SMT
    <2> QED  BY <1>1, <2>3 DEF RecordEvidence
  <1>2. CASE ~RecordEvidence(w)
    BY <1>2 DEF Start, BeginWrite, Bind, LookUpKey, ReadTask, CheckEvidence, ReadPrior,
                Refuse, Abort
  <1> QED  BY <1>1, <1>2

(* The task a transition writes to: its row, its events, its reviews.      *)
LEMMA TransitionEffect ==
    ASSUME TypeOK, WorkerInv, TableInv, NEW w \in Workers, RecordTransition(w)
    PROVE  LET t == call[w].task
           IN  /\ t \in Tasks
               /\ rows'[t].key = rows[t].key /\ rows'[t].needs = rows[t].needs
               /\ rows'[t].status = call[w].dest
               /\ \A e \in events'[t] : e \in events[t] \/ e.to = call[w].dest
               /\ call[w].dest = "approved" => rows[t].needs \subseteq evidence[t]
               /\ reviews'[t] = IF call[w].dest \in Decisions
                                THEN Append(reviews[t], call[w].dest) ELSE reviews[t]
               /\ evidence' = evidence /\ answers' = answers
               /\ \A u \in Tasks \ {t} :
                     rows'[u] = rows[u] /\ events'[u] = events[u] /\ reviews'[u] = reviews[u]
  <1> DEFINE t == call[w].task
  <1>1. /\ t \in Tasks /\ pc[w] = "stamped"
        /\ call[w].op = "review" <=> call[w].dest \in Decisions
    BY TransitionFacts, SMT DEF RecordTransition
  <1>2. /\ rows'[t].key = rows[t].key /\ rows'[t].needs = rows[t].needs
        /\ rows'[t].status = call[w].dest
        /\ \A u \in Tasks \ {t} : rows'[u] = rows[u]
    BY <1>1, SMT DEF RecordTransition, Moved, TypeOK
  <1>3. /\ \A e \in events'[t] : e \in events[t] \/ e.to = call[w].dest
        /\ \A u \in Tasks \ {t} : events'[u] = events[u]
    BY <1>1, SMT DEF RecordTransition, TypeOK
  <1>4. /\ reviews'[t] = IF call[w].dest \in Decisions
                         THEN Append(reviews[t], call[w].dest) ELSE reviews[t]
        /\ \A u \in Tasks \ {t} : reviews'[u] = reviews[u]
    BY <1>1, SMT DEF RecordTransition, Reviewed, TypeOK
  <1>5. call[w].dest = "approved" => rows[t].needs \subseteq evidence[t]
    BY <1>1 DEF TableInv
  <1>6. evidence' = evidence /\ answers' = answers
    BY DEF RecordTransition
  <1> QED  BY <1>1, <1>2, <1>3, <1>4, <1>5, <1>6

(* The evidence of every approval is on record, although the gate is read  *)
(* before the transaction that approves.  (review, add_evidence)           *)
THEOREM ApprovalsAreEvidenced == Spec => []ApprovalHasEvidence
  <1>1. Init => ApprovalHasEvidence
    BY SMT DEF Init, ApprovalHasEvidence, NoRow
  <1>2. ASSUME TypeOK, WorkerInv, TableInv, ApprovalHasEvidence, [Next]_vars
        PROVE  ApprovalHasEvidence'
    <2>1. ASSUME rows' = rows, events' = events,
                 \A t \in Tasks : evidence[t] \subseteq evidence'[t]
          PROVE  ApprovalHasEvidence'
      BY <1>2, <2>1 DEF ApprovalHasEvidence
    <2>2. ASSUME NEW w \in Workers, InsertTask(w)
          PROVE  ApprovalHasEvidence'
      <3>1. ASSUME NEW t \in Tasks, ~Exists(t), UNCHANGED <<evidence, events>>,
                   rows' = [rows EXCEPT ![t] = Draft(call[w].key, call[w].cats)]
            PROVE  ApprovalHasEvidence'
        <4>1. events'[t] = {}
          BY <1>2, <3>1 DEF TableInv, Exists
        <4>2. rows'[t].status # "approved" /\ \A u \in Tasks \ {t} : rows'[u] = rows[u]
          BY <1>2, <3>1, SMT DEF TypeOK, Draft
        <4> QED  BY <1>2, <3>1, <4>1, <4>2 DEF ApprovalHasEvidence
      <3> QED  BY <2>1, <2>2, <3>1 DEF InsertTask
    <2>3. ASSUME NEW w \in Workers, RecordTransition(w)
          PROVE  ApprovalHasEvidence'
      <3> DEFINE t == call[w].task
      <3>1. /\ t \in Tasks /\ rows'[t].needs = rows[t].needs
            /\ rows'[t].status = call[w].dest /\ evidence' = evidence
            /\ \A e \in events'[t] : e \in events[t] \/ e.to = call[w].dest
            /\ call[w].dest = "approved" => rows[t].needs \subseteq evidence[t]
            /\ \A u \in Tasks \ {t} : rows'[u] = rows[u] /\ events'[u] = events[u]
        BY <1>2, <2>3, TransitionEffect
      <3> HIDE DEF t
      <3>2. rows'[t].status = "approved" \/ (\E e \in events'[t] : e.to = "approved")
                => rows'[t].needs \subseteq evidence'[t]
        BY <1>2, <3>1 DEF ApprovalHasEvidence
      <3> QED  BY <1>2, <3>1, <3>2 DEF ApprovalHasEvidence
    <2>4. CASE UNCHANGED vars
      BY <2>1, <2>4 DEF vars
    <2> QED  BY <1>2, <2>1, <2>2, <2>3, <2>4, QuietSteps DEF Next, Step
  <1> QED  BY <1>1, <1>2, TypeCorrect, TablesCorrect, PTL DEF Spec

(* A reviewed task has the status of its last review, whichever of two     *)
(* overlapping reviews commits last.  (review, _record_transition)         *)
THEOREM LastReviewWins == Spec => []LastReviewDecides
  <1>1. Init => LastReviewDecides
    BY SMT DEF Init, LastReviewDecides, NoRow, Decisions
  <1>2. ASSUME TypeOK, WorkerInv, TableInv, LastReviewDecides, [Next]_vars
        PROVE  LastReviewDecides'
    <2>1. ASSUME rows' = rows, reviews' = reviews
          PROVE  LastReviewDecides'
      BY <1>2, <2>1 DEF LastReviewDecides
    <2>2. ASSUME NEW w \in Workers, InsertTask(w)
          PROVE  LastReviewDecides'
      <3>1. ASSUME NEW t \in Tasks, reviews' = reviews,
                   rows' = [rows EXCEPT ![t] = Draft(call[w].key, call[w].cats)]
            PROVE  LastReviewDecides'
        <4>1. rows'[t].status \notin Decisions /\ \A u \in Tasks \ {t} : rows'[u] = rows[u]
          BY <1>2, <3>1, SMT DEF TypeOK, Draft, Decisions
        <4> QED  BY <1>2, <3>1, <4>1 DEF LastReviewDecides
      <3> QED  BY <2>1, <2>2, <3>1 DEF InsertTask
    <2>3. ASSUME NEW w \in Workers, RecordTransition(w)
          PROVE  LastReviewDecides'
      <3> DEFINE t == call[w].task
      <3>1. /\ t \in Tasks /\ rows'[t].status = call[w].dest
            /\ reviews'[t] = IF call[w].dest \in Decisions
                             THEN Append(reviews[t], call[w].dest) ELSE reviews[t]
            /\ \A u \in Tasks \ {t} : rows'[u] = rows[u] /\ reviews'[u] = reviews[u]
        BY <1>2, <2>3, TransitionEffect
      <3>2. reviews[t] \in Seq(Decisions)
        BY <1>2, <3>1 DEF TypeOK
      <3> HIDE DEF t
      <3>3. rows'[t].status \in Decisions
                => reviews'[t] # <<>> /\ reviews'[t][Len(reviews'[t])] = rows'[t].status
        BY <3>1, <3>2, SMT
      <3> QED  BY <1>2, <3>1, <3>3 DEF LastReviewDecides
    <2>4. CASE UNCHANGED vars
      BY <2>1, <2>4 DEF vars
    <2> QED  BY <1>2, <2>1, <2>2, <2>3, <2>4, QuietSteps DEF Next, Step
  <1> QED  BY <1>1, <1>2, TypeCorrect, TablesCorrect, PTL DEF Spec

(* Two existing tasks never share a key, and every answer given names a    *)
(* task with that key and that payload.                                    *)
KeyInv ==
    /\ \A t, u \in Tasks : rows[t].key = rows[u].key /\ Exists(t) => t = u
    /\ \A a \in answers : rows[a[3]].key = a[1] /\ rows[a[3]].needs = a[2]

(* Adding the answer for a task as it now stands.                          *)
LEMMA AnswerStep ==
    ASSUME TypeOK, KeyInv, NEW t \in Tasks, rows' = rows,
           answers' = answers \cup {<<rows[t].key, rows[t].needs, t>>}
    PROVE  KeyInv'
  <1>1. \A a \in answers' : rows'[a[3]].key = a[1] /\ rows'[a[3]].needs = a[2]
    BY SMT DEF KeyInv, TypeOK
  <1> QED  BY <1>1 DEF KeyInv, Exists

LEMMA KeyStep ==
    ASSUME TypeOK, WorkerInv, TableInv, KeyInv, [Next]_vars
    PROVE  KeyInv'
  <1>1. ASSUME rows' = rows, answers' = answers
        PROVE  KeyInv'
    BY <1>1 DEF KeyInv, Exists
  <1>2. ASSUME NEW w \in Workers, LookUpKey(w)
        PROVE  KeyInv'
    <2>1. ASSUME NEW t \in Tasks, rows[t].key = call[w].key, rows[t].needs = call[w].cats,
                 answers' = answers \cup {<<call[w].key, call[w].cats, t>>}
          PROVE  KeyInv'
      <3>1. rows' = rows
        BY <1>2 DEF LookUpKey
      <3> QED  BY <2>1, <3>1, AnswerStep
    <2>2. \/ answers' = answers
          \/ \E t \in Tasks :
                /\ rows[t].key = call[w].key /\ rows[t].needs = call[w].cats
                /\ answers' = answers \cup {<<call[w].key, call[w].cats, t>>}
      BY <1>2 DEF LookUpKey
    <2> QED  BY <1>1, <1>2, <2>1, <2>2 DEF LookUpKey
  <1>3. ASSUME NEW w \in Workers, InsertTask(w)
        PROVE  KeyInv'
    <2>1. ASSUME NEW t \in Tasks, ~Exists(t), \A u \in Tasks : rows[u].key # call[w].key,
                 rows' = [rows EXCEPT ![t] = Draft(call[w].key, call[w].cats)],
                 answers' = answers \cup {<<call[w].key, call[w].cats, t>>}
          PROVE  KeyInv'
      <3>1. /\ rows'[t].key = call[w].key /\ rows'[t].needs = call[w].cats
            /\ \A u \in Tasks \ {t} : rows'[u] = rows[u]
        BY <2>1, SMT DEF TypeOK, Draft
      <3>2. \A u, v \in Tasks : rows'[u].key = rows'[v].key /\ Exists(u)' => u = v
        BY <2>1, <3>1, SMT DEF KeyInv, Exists
      <3>3. ASSUME NEW a \in answers'
            PROVE  rows'[a[3]].key = a[1] /\ rows'[a[3]].needs = a[2]
        <4>1. CASE a = <<call[w].key, call[w].cats, t>>
          BY <3>1, <4>1, SMT
        <4>2. CASE a \in answers
          <5>1. /\ a[1] \in Keys /\ a[3] \in Tasks
            BY <4>2, SMT DEF TypeOK
          <5>2. rows[a[3]].key = a[1] /\ rows[a[3]].needs = a[2]
            BY <4>2 DEF KeyInv
          <5>3. a[3] # t
            BY <2>1, <5>1, <5>2 DEF TableInv, Exists
          <5> QED  BY <3>1, <5>1, <5>2, <5>3
        <4> QED  BY <2>1, <4>1, <4>2
      <3> QED  BY <3>2, <3>3 DEF KeyInv
    <2> QED  BY <1>1, <1>3, <2>1 DEF InsertTask
  <1>4. ASSUME NEW w \in Workers, RecordTransition(w)
        PROVE  KeyInv'
    <2> DEFINE t == call[w].task
    <2>1. /\ t \in Tasks /\ rows'[t].key = rows[t].key /\ rows'[t].needs = rows[t].needs
          /\ answers' = answers /\ \A u \in Tasks \ {t} : rows'[u] = rows[u]
      BY <1>4, TransitionEffect
    <2>2. rows[t].status # "absent"
      BY <1>4 DEF RecordTransition, TableInv
    <2> HIDE DEF t
    <2>3. \A u \in Tasks : /\ rows'[u].key = rows[u].key /\ rows'[u].needs = rows[u].needs
                           /\ Exists(u)' => Exists(u)
      BY <2>1, <2>2 DEF Exists
    <2>4. \A a \in answers : a[3] \in Tasks
      BY SMT DEF TypeOK
    <2> QED  BY <2>1, <2>3, <2>4 DEF KeyInv
  <1>5. ASSUME NEW w \in Workers,
               \/ \E request \in Requests : Start(w, request)
               \/ BeginWrite(w) \/ Bind(w) \/ RecordEvidence(w) \/ ReadTask(w)
               \/ CheckEvidence(w) \/ ReadPrior(w) \/ Refuse(w) \/ Abort(w)
        PROVE  KeyInv'
    <2>1. rows' = rows /\ answers' = answers
      BY <1>5 DEF Start, BeginWrite, Bind, RecordEvidence, ReadTask, CheckEvidence, ReadPrior,
                  Refuse, Abort
    <2> QED  BY <1>1, <2>1
  <1>6. CASE UNCHANGED vars
    BY <1>1, <1>6 DEF vars
  <1> QED  BY <1>2, <1>3, <1>4, <1>5, <1>6 DEF Next, Step

(* However many first requests race with one idempotency key, every answer *)
(* names the same task, and another payload is never answered.             *)
(* (create_task, UNIQUE(idempotency_key))                                  *)
THEOREM IdempotentCreation == Spec => []SameKeySameTask
  <1>1. Init => KeyInv
    BY SMT DEF Init, KeyInv, Exists, NoRow
  <1>2. TypeOK /\ WorkerInv /\ TableInv /\ KeyInv /\ [Next]_vars => KeyInv'
    BY KeyStep
  <1>3. ASSUME TypeOK, TableInv, KeyInv PROVE SameKeySameTask
    <2>1. ASSUME NEW a \in answers, NEW b \in answers, a[1] = b[1]
          PROVE  a = b
      <3>1. /\ a = <<a[1], a[2], a[3]>> /\ b = <<b[1], b[2], b[3]>>
            /\ a[1] \in Keys /\ a[3] \in Tasks /\ b[3] \in Tasks
        BY <1>3, SMT DEF TypeOK
      <3>2. /\ rows[a[3]].key = rows[b[3]].key /\ Exists(a[3])
            /\ rows[a[3]].needs = a[2] /\ rows[b[3]].needs = b[2]
        BY <1>3, <2>1, <3>1 DEF KeyInv, TableInv, Exists
      <3>3. a[3] = b[3]
        BY <1>3, <3>1, <3>2 DEF KeyInv
      <3> QED  BY <2>1, <3>1, <3>2, <3>3
    <2> QED  BY <1>3, <2>1 DEF KeyInv, SameKeySameTask
  <1> QED  BY <1>1, <1>2, <1>3, TypeCorrect, TablesCorrect, PTL DEF Spec
-----------------------------------------------------------------------------
(* The log and the tables                                                  *)

Entries(log, type, t) == {i \in DOMAIN log : log[i].type = type /\ log[i].task = t}

Tally(log, type, t) == Cardinality(Entries(log, type, t))

LEMMA TallyType ==
    ASSUME NEW log \in Seq(AuditEvent), NEW type, NEW t
    PROVE  IsFiniteSet(Entries(log, type, t)) /\ Tally(log, type, t) \in Nat
  <1>1. DOMAIN log = 1..Len(log) /\ Len(log) \in Nat
    BY SMT
  <1>2. IsFiniteSet(1..Len(log))
    BY <1>1, FS_Interval, SMT
  <1>3. Entries(log, type, t) \in SUBSET (1..Len(log))
    BY <1>1 DEF Entries
  <1> QED  BY <1>2, <1>3, FS_Subset, FS_CardinalityType DEF Tally

(* A new event counts once, for its own type and task.                     *)
LEMMA AuditedTally ==
    ASSUME NEW log \in Seq(AuditEvent), NEW type, NEW t, NEW last, NEW other, NEW u
    PROVE  Tally(Audited(log, type, t, last), other, u) =
               IF other = type /\ u = t THEN Tally(log, other, u) + 1 ELSE Tally(log, other, u)
  <1> DEFINE event == [type |-> type, task |-> t, prev |-> last]
             old == Entries(log, other, u)
  <1>1. /\ DOMAIN log = 1..Len(log) /\ Len(log) \in Nat
        /\ IsFiniteSet(old)
    BY TallyType, SMT
  <1>2. /\ DOMAIN Append(log, event) = 1..(Len(log) + 1)
        /\ Append(log, event)[Len(log) + 1] = event
        /\ \A i \in 1..Len(log) : Append(log, event)[i] = log[i]
    BY <1>1, SMT
  <1>3. Len(log) + 1 \notin old
    BY <1>1, SMT DEF Entries
  <1>4. CASE other = type /\ u = t
    <2>1. Entries(Audited(log, type, t, last), other, u) = old \cup {Len(log) + 1}
      BY <1>1, <1>2, <1>4, SMT DEF Entries, Audited
    <2>2. Cardinality(old \cup {Len(log) + 1}) = Cardinality(old) + 1
      BY <1>1, <1>3, FS_AddElement
    <2> QED  BY <1>4, <2>1, <2>2 DEF Tally
  <1>5. CASE ~(other = type /\ u = t)
    <2>1. Entries(Audited(log, type, t, last), other, u) = old
      BY <1>1, <1>2, <1>5, SMT DEF Entries, Audited
    <2> QED  BY <1>5, <2>1 DEF Tally
  <1> QED  BY <1>4, <1>5

(* Binding the workspace counts for nothing else.                          *)
LEMMA BoundTally ==
    ASSUME NEW log \in Seq(AuditEvent), NEW last, NEW other,
           other # "WORKSPACE_OPERATIONS_BOUND", NEW u
    PROVE  Tally(Bound(log, last), other, u) = Tally(log, other, u)
  BY AuditedTally DEF Bound

(* A transition counts once, and its review once more.                     *)
LEMMA ReportedTally ==
    ASSUME NEW log \in Seq(AuditEvent), NEW request, request.task \in Tasks,
           NEW last \in Nat, NEW u
    PROVE  LET same == u = request.task
               t == Tally(log, "TASK_TRANSITION", u)
               r == Tally(log, "HUMAN_REVIEW_RECORDED", u)
           IN  /\ Tally(Reported(log, request, last), "TASK_TRANSITION", u) =
                      IF same THEN t + 1 ELSE t
               /\ Tally(Reported(log, request, last), "HUMAN_REVIEW_RECORDED", u) =
                      IF same /\ request.op = "review" THEN r + 1 ELSE r
               /\ Tally(Reported(log, request, last), "TASK_DRAFT_CREATED", u) =
                      Tally(log, "TASK_DRAFT_CREATED", u)
  <1> DEFINE moved == Audited(log, "TASK_TRANSITION", request.task, last)
  <1>1. moved \in Seq(AuditEvent)
    BY AuditedType DEF AuditTypes
  <1>2. /\ Tally(moved, "TASK_TRANSITION", u) =
               IF u = request.task THEN Tally(log, "TASK_TRANSITION", u) + 1
               ELSE Tally(log, "TASK_TRANSITION", u)
        /\ Tally(moved, "HUMAN_REVIEW_RECORDED", u) = Tally(log, "HUMAN_REVIEW_RECORDED", u)
        /\ Tally(moved, "TASK_DRAFT_CREATED", u) = Tally(log, "TASK_DRAFT_CREATED", u)
    BY AuditedTally
  <1> HIDE DEF moved
  <1>3. CASE request.op = "review"
    <2>1. Reported(log, request, last) =
              Audited(moved, "HUMAN_REVIEW_RECORDED", request.task, last + 1)
      BY <1>3 DEF Reported, moved
    <2>2. /\ Tally(Reported(log, request, last), "TASK_TRANSITION", u) =
                 Tally(moved, "TASK_TRANSITION", u)
          /\ Tally(Reported(log, request, last), "TASK_DRAFT_CREATED", u) =
                 Tally(moved, "TASK_DRAFT_CREATED", u)
          /\ Tally(Reported(log, request, last), "HUMAN_REVIEW_RECORDED", u) =
                 IF u = request.task THEN Tally(moved, "HUMAN_REVIEW_RECORDED", u) + 1
                 ELSE Tally(moved, "HUMAN_REVIEW_RECORDED", u)
      BY <1>1, <2>1, AuditedTally
    <2> QED  BY <1>2, <1>3, <2>2
  <1>4. CASE request.op # "review"
    BY <1>2, <1>4 DEF Reported, moved
  <1> QED  BY <1>3, <1>4

(* Timestamps are given once: a handler that holds one is the only one, no *)
(* event carries it yet, and all of them have been given.                  *)
StampInv ==
    /\ \A w \in Workers : pc[w] = "stamped" => stamp[w].at \in 1..clock
    /\ \A v, w \in Workers :
          pc[v] = "stamped" /\ pc[w] = "stamped" /\ stamp[v].at = stamp[w].at => v = w
    /\ \A t \in Tasks : \A e \in events[t] :
          /\ e.at \in 1..clock
          /\ \A w \in Workers : pc[w] = "stamped" => stamp[w].at # e.at

(* What a step does to timestamps: give one, use one, or neither.          *)
LEMMA StampSteps ==
    ASSUME TypeOK, WorkerInv, [Next]_vars
    PROVE  \/ /\ events' = events /\ clock' = clock
              /\ \A w \in Workers : pc'[w] = "stamped" =>
                    pc[w] = "stamped" /\ stamp'[w] = stamp[w]
           \/ \E w \in Workers : ReadPrior(w)
           \/ \E w \in Workers : RecordTransition(w)
  <1> DEFINE Neither ==
                /\ events' = events /\ clock' = clock
                /\ \A w \in Workers : pc'[w] = "stamped" =>
                      pc[w] = "stamped" /\ stamp'[w] = stamp[w]
  <1> USE DEF requestVars
  <1>1. ASSUME NEW w \in Workers,
               (\E request \in Requests : Start(w, request)) \/ BeginWrite(w) \/ Bind(w)
        PROVE  Neither
    BY <1>1, SMT DEF Start, BeginWrite, Bind, TypeOK
  <1>2. ASSUME NEW w \in Workers, LookUpKey(w) PROVE Neither
    BY <1>2, SMT DEF LookUpKey, Return, TypeOK
  <1>3. ASSUME NEW w \in Workers, InsertTask(w) PROVE Neither
    BY <1>3, SMT DEF InsertTask, Return, TypeOK
  <1>4. ASSUME NEW w \in Workers, RecordEvidence(w) PROVE Neither
    BY <1>4, SMT DEF RecordEvidence, Return, TypeOK
  <1>5. ASSUME NEW w \in Workers, ReadTask(w) PROVE Neither
    BY <1>5, SMT DEF ReadTask, TypeOK
  <1>6. ASSUME NEW w \in Workers, CheckEvidence(w) PROVE Neither
    BY <1>6, SMT DEF CheckEvidence, TypeOK
  <1>7. ASSUME NEW w \in Workers, Refuse(w) \/ Abort(w) PROVE Neither
    BY <1>7, SMT DEF Refuse, Abort, Return, TypeOK
  <1>8. CASE UNCHANGED vars
    BY <1>8, SMT DEF vars
  <1> QED  BY <1>1, <1>2, <1>3, <1>4, <1>5, <1>6, <1>7, <1>8 DEF Next, Step
(* The event a transition adds is new.                                     *)
LEMMA NewEvent ==
    ASSUME TypeOK, WorkerInv, StampInv, NEW w \in Workers, RecordTransition(w)
    PROVE  LET t == call[w].task
               e == [at |-> stamp[w].at, from |-> row[w].status, to |-> call[w].dest,
                     prev |-> stamp[w].prior]
           IN  /\ t \in Tasks /\ e \notin events[t]
               /\ e.at \in 1..clock
               /\ events'[t] = events[t] \cup {e}
               /\ \A u \in Tasks \ {t} : events'[u] = events[u]
               /\ clock' = clock /\ pc[w] = "stamped"
               /\ pc' = [pc EXCEPT ![w] = "idle"]
               /\ \A v \in Workers \ {w} : stamp'[v] = stamp[v]
  <1> DEFINE t == call[w].task
             e == [at |-> stamp[w].at, from |-> row[w].status, to |-> call[w].dest,
                   prev |-> stamp[w].prior]
  <1>1. t \in Tasks /\ pc[w] = "stamped"
    BY TransitionFacts, SMT DEF RecordTransition
  <1>2. e.at = stamp[w].at /\ e.at \in 1..clock
    BY <1>1 DEF StampInv
  <1>3. \A f \in events[t] : f.at # e.at
    BY <1>1, <1>2 DEF StampInv
  <1>4. e \notin events[t]
    BY <1>3
  <1>5. /\ events'[t] = events[t] \cup {e}
        /\ \A u \in Tasks \ {t} : events'[u] = events[u]
    BY <1>1, SMT DEF RecordTransition, TypeOK
  <1>6. /\ clock' = clock /\ pc' = [pc EXCEPT ![w] = "idle"]
        /\ \A v \in Workers \ {w} : stamp'[v] = stamp[v]
    BY SMT DEF RecordTransition, Return, TypeOK
  <1> QED  BY <1>1, <1>2, <1>4, <1>5, <1>6

LEMMA StampStep ==
    ASSUME TypeOK, WorkerInv, StampInv, [Next]_vars
    PROVE  StampInv'
  <1>1. CASE /\ events' = events /\ clock' = clock
             /\ \A w \in Workers : pc'[w] = "stamped" =>
                   pc[w] = "stamped" /\ stamp'[w] = stamp[w]
    BY <1>1 DEF StampInv
  <1>2. ASSUME NEW w \in Workers, ReadPrior(w)
        PROVE  StampInv'
    <2>1. /\ clock \in Nat /\ clock' = clock + 1 /\ events' = events
          /\ stamp'[w].at = clock + 1
          /\ \A v \in Workers \ {w} : pc'[v] = pc[v] /\ stamp'[v] = stamp[v]
      BY <1>2, SMT DEF ReadPrior, TypeOK
    <2>2. \A v \in Workers \ {w} : pc'[v] = "stamped" => stamp'[v].at \in 1..clock
      BY <2>1 DEF StampInv
    <2>3. /\ \A n \in 1..clock : n \in 1..clock' /\ n # clock + 1
          /\ clock + 1 \in 1..clock'
      BY <2>1, SMT
    <2>4. \A v \in Workers : pc'[v] = "stamped" => stamp'[v].at \in 1..clock'
      BY <2>1, <2>2, <2>3
    <2>5. ASSUME NEW u \in Workers, NEW v \in Workers, pc'[u] = "stamped",
                 pc'[v] = "stamped", stamp'[u].at = stamp'[v].at
          PROVE  u = v
      BY <2>1, <2>2, <2>3, <2>5 DEF StampInv
    <2>6. ASSUME NEW t \in Tasks, NEW e \in events'[t]
          PROVE  /\ e.at \in 1..clock'
                 /\ \A v \in Workers : pc'[v] = "stamped" => stamp'[v].at # e.at
      <3>1. /\ e.at \in 1..clock
            /\ \A v \in Workers : pc[v] = "stamped" => stamp[v].at # e.at
        BY <2>1, <2>6 DEF StampInv
      <3> QED  BY <2>1, <2>3, <3>1
    <2> QED  BY <2>4, <2>5, <2>6 DEF StampInv
  <1>3. ASSUME NEW w \in Workers, RecordTransition(w)
        PROVE  StampInv'
    <2> DEFINE t == call[w].task
               e == [at |-> stamp[w].at, from |-> row[w].status, to |-> call[w].dest,
                     prev |-> stamp[w].prior]
    <2>1. /\ t \in Tasks /\ e.at \in 1..clock /\ e.at = stamp[w].at
          /\ events'[t] = events[t] \cup {e}
          /\ \A u \in Tasks \ {t} : events'[u] = events[u]
          /\ clock' = clock /\ pc[w] = "stamped"
          /\ \A v \in Workers \ {w} : stamp'[v] = stamp[v]
      BY <1>3, NewEvent
    <2>2. pc' = [pc EXCEPT ![w] = "idle"]
      BY <1>3, NewEvent
    <2> HIDE DEF t, e
    <2>3. \A v \in Workers : pc'[v] = "stamped" => v # w /\ pc[v] = "stamped" /\ stamp'[v] = stamp[v]
      BY <2>1, <2>2, SMT DEF TypeOK
    <2>4. \A v \in Workers : pc'[v] = "stamped" => stamp'[v].at # e.at
      BY <2>1, <2>3 DEF StampInv
    <2>5. \A u \in Tasks : \A f \in events'[u] : f = e \/ f \in events[u]
      BY <2>1
    <2>6. ASSUME NEW u \in Tasks, NEW f \in events'[u]
          PROVE  /\ f.at \in 1..clock'
                 /\ \A v \in Workers : pc'[v] = "stamped" => stamp'[v].at # f.at
      BY <2>1, <2>3, <2>4, <2>5 DEF StampInv
    <2>7. /\ \A v \in Workers : pc'[v] = "stamped" => stamp'[v].at \in 1..clock'
          /\ \A u, v \in Workers :
                pc'[u] = "stamped" /\ pc'[v] = "stamped" /\ stamp'[u].at = stamp'[v].at => u = v
      BY <2>1, <2>3 DEF StampInv
    <2> QED  BY <2>6, <2>7 DEF StampInv
  <1> QED  BY <1>1, <1>2, <1>3, StampSteps

LEMMA InitStamps == Init => StampInv
  BY SMT DEF Init, StampInv

(* No two handlers and no two events ever share a timestamp.               *)
THEOREM StampsCorrect == Spec => []StampInv
  <1>1. TypeOK /\ WorkerInv /\ StampInv /\ [Next]_vars => StampInv'
    BY StampStep
  <1> QED  BY <1>1, InitStamps, TypeCorrect, PTL DEF Spec
(* The log tells the same as the tables, of one task.                      *)
Decided(happened) == {e \in happened : e.to \in Decisions}

Covered(log, there, happened, decided, t) ==
    /\ IsFiniteSet(happened)
    /\ Tally(log, "TASK_DRAFT_CREATED", t) = (IF there THEN 1 ELSE 0)
    /\ Tally(log, "TASK_TRANSITION", t) = Cardinality(happened)
    /\ Tally(log, "HUMAN_REVIEW_RECORDED", t) = Len(decided)
    /\ Len(decided) = Cardinality(Decided(happened))

CoverInv == \A t \in Tasks : Covered(audit, Exists(t), events[t], reviews[t], t)

(* A set of events with one more: whether it was a decision decides.       *)
LEMMA OneMore ==
    ASSUME NEW happened, IsFiniteSet(happened), NEW e, e \notin happened
    PROVE  /\ IsFiniteSet(happened \cup {e})
           /\ Cardinality(happened \cup {e}) = Cardinality(happened) + 1
           /\ Cardinality(Decided(happened \cup {e})) =
                  IF e.to \in Decisions THEN Cardinality(Decided(happened)) + 1
                  ELSE Cardinality(Decided(happened))
  <1>1. IsFiniteSet(Decided(happened))
    BY FS_Subset DEF Decided
  <1>2. CASE e.to \in Decisions
    <2>1. Decided(happened \cup {e}) = Decided(happened) \cup {e}
      BY <1>2 DEF Decided
    <2>2. e \notin Decided(happened)
      BY DEF Decided
    <2> QED  BY <1>1, <1>2, <2>1, <2>2, FS_AddElement
  <1>3. CASE e.to \notin Decisions
    <2>1. Decided(happened \cup {e}) = Decided(happened)
      BY <1>3 DEF Decided
    <2> QED  BY <1>3, <2>1, FS_AddElement
  <1> QED  BY <1>2, <1>3

(* Steps that add only events of other kinds to the log.                   *)
LEMMA CoverQuiet ==
    ASSUME CoverInv, UNCHANGED <<rows, events, reviews>>,
           \A t \in Tasks :
              /\ Tally(audit', "TASK_DRAFT_CREATED", t) = Tally(audit, "TASK_DRAFT_CREATED", t)
              /\ Tally(audit', "TASK_TRANSITION", t) = Tally(audit, "TASK_TRANSITION", t)
              /\ Tally(audit', "HUMAN_REVIEW_RECORDED", t) =
                     Tally(audit, "HUMAN_REVIEW_RECORDED", t)
    PROVE  CoverInv'
  <1> SUFFICES ASSUME NEW t \in Tasks
               PROVE  Covered(audit', Exists(t)', events'[t], reviews'[t], t)
    BY DEF CoverInv
  <1>1. Exists(t)' = Exists(t)
    BY DEF Exists
  <1> QED  BY <1>1 DEF CoverInv, Covered

LEMMA CoverInsert ==
    ASSUME TypeOK, CoverInv, NEW w \in Workers, NEW t \in Tasks, ~Exists(t),
           rows' = [rows EXCEPT ![t] = Draft(call[w].key, call[w].cats)],
           audit' = Audited(audit, "TASK_DRAFT_CREATED", t, seen[w]),
           UNCHANGED <<events, reviews>>
    PROVE  CoverInv'
  <1>1. audit \in Seq(AuditEvent)
    BY DEF TypeOK
  <1>2. Exists(t)' /\ \A u \in Tasks \ {t} : Exists(u)' = Exists(u)
    BY SMT DEF TypeOK, Exists, Draft
  <1>3. ASSUME NEW u \in Tasks
        PROVE  /\ Tally(audit', "TASK_DRAFT_CREATED", u) =
                      IF u = t THEN Tally(audit, "TASK_DRAFT_CREATED", u) + 1
                      ELSE Tally(audit, "TASK_DRAFT_CREATED", u)
               /\ Tally(audit', "TASK_TRANSITION", u) = Tally(audit, "TASK_TRANSITION", u)
               /\ Tally(audit', "HUMAN_REVIEW_RECORDED", u) =
                      Tally(audit, "HUMAN_REVIEW_RECORDED", u)
    BY <1>1, AuditedTally
  <1>4. ASSUME NEW u \in Tasks \ {t}
        PROVE  Covered(audit', Exists(u)', events'[u], reviews'[u], u)
    BY <1>2, <1>3 DEF CoverInv, Covered
  <1>5. Covered(audit', Exists(t)', events'[t], reviews'[t], t)
    <2>1. Tally(audit, "TASK_DRAFT_CREATED", t) = 0
      BY DEF CoverInv, Covered
    <2>2. Tally(audit', "TASK_DRAFT_CREATED", t) = 1
      BY <1>3, <2>1
    <2> QED  BY <1>2, <1>3, <2>2 DEF CoverInv, Covered
  <1> QED  BY <1>4, <1>5 DEF CoverInv

LEMMA CoverTransition ==
    ASSUME TypeOK, WorkerInv, TableInv, StampInv, CoverInv, NEW w \in Workers,
           RecordTransition(w)
    PROVE  CoverInv'
  <1>1. PICK t, e : /\ t = call[w].task /\ t \in Tasks /\ e \notin events[t]
                    /\ e.to = call[w].dest /\ events'[t] = events[t] \cup {e}
                    /\ \A u \in Tasks \ {t} : events'[u] = events[u]
    <2> DEFINE new == [at |-> stamp[w].at, from |-> row[w].status, to |-> call[w].dest,
                       prev |-> stamp[w].prior]
               task == call[w].task
    <2>1. /\ task \in Tasks /\ new \notin events[task]
          /\ events'[task] = events[task] \cup {new}
          /\ \A u \in Tasks \ {task} : events'[u] = events[u]
      BY NewEvent
    <2>2. new.to = call[w].dest
      OBVIOUS
    <2>3. task = call[w].task
      OBVIOUS
    <2> HIDE DEF new, task
    <2> QED  BY <2>1, <2>2, <2>3
  <1>2. /\ rows'[t].status = call[w].dest /\ \A u \in Tasks \ {t} : rows'[u] = rows[u]
        /\ reviews'[t] = IF call[w].dest \in Decisions
                         THEN Append(reviews[t], call[w].dest) ELSE reviews[t]
        /\ \A u \in Tasks \ {t} : reviews'[u] = reviews[u]
    BY <1>1, TransitionEffect
  <1>3. /\ call[w].op = "review" <=> e.to \in Decisions
        /\ call[w].dest \in Statuses /\ rows[t].status # "absent"
    BY <1>1, TransitionFacts DEF RecordTransition, TableInv
  <1>4. /\ audit \in Seq(AuditEvent) /\ seen[w] \in Nat
        /\ audit' = Reported(audit, call[w], seen[w])
    BY DEF TypeOK, RecordTransition
  <1>5. ASSUME NEW u \in Tasks
        PROVE  /\ Tally(audit', "TASK_TRANSITION", u) =
                      IF u = t THEN Tally(audit, "TASK_TRANSITION", u) + 1
                      ELSE Tally(audit, "TASK_TRANSITION", u)
               /\ Tally(audit', "HUMAN_REVIEW_RECORDED", u) =
                      IF u = t /\ e.to \in Decisions
                      THEN Tally(audit, "HUMAN_REVIEW_RECORDED", u) + 1
                      ELSE Tally(audit, "HUMAN_REVIEW_RECORDED", u)
               /\ Tally(audit', "TASK_DRAFT_CREATED", u) = Tally(audit, "TASK_DRAFT_CREATED", u)
    BY <1>1, <1>3, <1>4, ReportedTally
  <1>6. call[w].dest # "absent"
    BY <1>3, SMT DEF Statuses
  <1>7. \A u \in Tasks : Exists(u)' = Exists(u)
    BY <1>1, <1>2, <1>3, <1>6 DEF Exists
  <1>8. ASSUME NEW u \in Tasks \ {t}
        PROVE  Covered(audit', Exists(u)', events'[u], reviews'[u], u)
    BY <1>1, <1>2, <1>5, <1>7 DEF CoverInv, Covered
  <1>9. Covered(audit', Exists(t)', events'[t], reviews'[t], t)
    <2>1. /\ IsFiniteSet(events[t])
          /\ Tally(audit, "TASK_DRAFT_CREATED", t) = (IF Exists(t) THEN 1 ELSE 0)
          /\ Tally(audit, "TASK_TRANSITION", t) = Cardinality(events[t])
          /\ Tally(audit, "HUMAN_REVIEW_RECORDED", t) = Len(reviews[t])
          /\ Len(reviews[t]) = Cardinality(Decided(events[t]))
      BY <1>1 DEF CoverInv, Covered
    <2>2. /\ IsFiniteSet(events'[t])
          /\ Cardinality(events'[t]) = Cardinality(events[t]) + 1
          /\ Cardinality(Decided(events'[t])) =
                 IF e.to \in Decisions THEN Cardinality(Decided(events[t])) + 1
                 ELSE Cardinality(Decided(events[t]))
      BY <1>1, <2>1, OneMore
    <2>3. Len(reviews'[t]) = IF e.to \in Decisions THEN Len(reviews[t]) + 1 ELSE Len(reviews[t])
      <3>1. reviews[t] \in Seq(Decisions)
        BY <1>1 DEF TypeOK
      <3> QED  BY <1>1, <1>2, <3>1, SMT
    <2> QED  BY <1>1, <1>5, <1>7, <2>1, <2>2, <2>3 DEF Covered
  <1> QED  BY <1>8, <1>9 DEF CoverInv

LEMMA CoverStep ==
    ASSUME TypeOK, WorkerInv, TableInv, StampInv, CoverInv, [Next]_vars
    PROVE  CoverInv'
  <1>0. audit \in Seq(AuditEvent)
    BY DEF TypeOK
  <1>1. ASSUME NEW w \in Workers, Bind(w)
        PROVE  CoverInv'
    <2>1. audit' = Bound(audit, seen[w]) /\ UNCHANGED <<rows, events, reviews>>
      BY <1>1 DEF Bind
    <2> QED  BY <1>0, <2>1, BoundTally, CoverQuiet
  <1>2. ASSUME NEW w \in Workers, InsertTask(w)
        PROVE  CoverInv'
    <2>1. CASE UNCHANGED <<rows, audit>>
      BY <1>2, <2>1, CoverQuiet DEF InsertTask
    <2> QED  BY <1>2, <2>1, CoverInsert DEF InsertTask
  <1>3. ASSUME NEW w \in Workers, RecordEvidence(w)
        PROVE  CoverInv'
    <2>1. audit' = Audited(audit, "EVIDENCE_RECORDED", call[w].task, seen[w])
      BY <1>3 DEF RecordEvidence
    <2>2. \A t \in Tasks :
             /\ Tally(audit', "TASK_DRAFT_CREATED", t) = Tally(audit, "TASK_DRAFT_CREATED", t)
             /\ Tally(audit', "TASK_TRANSITION", t) = Tally(audit, "TASK_TRANSITION", t)
             /\ Tally(audit', "HUMAN_REVIEW_RECORDED", t) =
                    Tally(audit, "HUMAN_REVIEW_RECORDED", t)
      BY <1>0, <2>1, AuditedTally
    <2> QED  BY <1>3, <2>2, CoverQuiet DEF RecordEvidence
  <1>4. ASSUME NEW w \in Workers, RecordTransition(w)
        PROVE  CoverInv'
    BY <1>4, CoverTransition
  <1>5. ASSUME NEW w \in Workers,
               \/ \E request \in Requests : Start(w, request)
               \/ BeginWrite(w) \/ LookUpKey(w) \/ ReadTask(w) \/ CheckEvidence(w)
               \/ ReadPrior(w) \/ Refuse(w) \/ Abort(w)
        PROVE  CoverInv'
    <2>1. UNCHANGED <<rows, events, reviews, audit>>
      BY <1>5 DEF Start, BeginWrite, LookUpKey, ReadTask, CheckEvidence, ReadPrior, Refuse, Abort
    <2> QED  BY <2>1, CoverQuiet
  <1>6. CASE UNCHANGED vars
    BY <1>6, CoverQuiet DEF vars
  <1> QED  BY <1>1, <1>2, <1>3, <1>4, <1>5, <1>6 DEF Next, Step

(* After any overlap and any abort the audit log has one event per task,   *)
(* transition and review, and none without its row.  (create_task,         *)
(* _record_transition, review)                                             *)
THEOREM LogCoversTables == Spec => []AuditCoversTables
  <1>1. Init => CoverInv
    <2> SUFFICES ASSUME Init, NEW t \in Tasks
                 PROVE  Covered(audit, Exists(t), events[t], reviews[t], t)
      BY DEF CoverInv
    <2>1. audit = <<>> /\ ~Exists(t) /\ events[t] = {} /\ reviews[t] = <<>>
      BY SMT DEF Init, Exists, NoRow
    <2>2. \A type : Entries(audit, type, t) = {}
      BY <2>1, SMT DEF Entries
    <2>3. Decided(events[t]) = {}
      BY <2>1 DEF Decided
    <2>4. Len(reviews[t]) = 0
      BY <2>1, SMT
    <2> QED  BY <2>1, <2>2, <2>3, <2>4, FS_EmptySet DEF Covered, Tally
  <1>2. TypeOK /\ WorkerInv /\ TableInv /\ StampInv /\ CoverInv /\ [Next]_vars => CoverInv'
    BY CoverStep
  <1>3. CoverInv => AuditCoversTables
    BY DEF CoverInv, Covered, Tally, Entries, Count, Decided, AuditCoversTables
  <1> QED  BY <1>1, <1>2, <1>3, TypeCorrect, TablesCorrect, StampsCorrect, PTL DEF Spec
-----------------------------------------------------------------------------
(* A single client                                                         *)

(* One request at a time: a handler's row is that of the table, the event  *)
(* it has read is the task's last, and its timestamp is the newest.        *)
SingleClient == \A v, w \in Workers : v = w

CurrentInv ==
    \A w \in Workers :
        /\ pc[w] \in {"read", "cleared", "stamped"} => row[w] = rows[call[w].task]
        /\ pc[w] = "stamped" =>
              /\ IsLatest(call[w].task, stamp[w].prior)
              /\ \A t \in Tasks : \A e \in events[t] : e.at < stamp[w].at

LEMMA CurrentStep ==
    ASSUME SingleClient, TypeOK, WorkerInv, StampInv, CurrentInv, [Next]_vars
    PROVE  CurrentInv'
  <1> USE DEF requestVars
  <1>1. ASSUME NEW w \in Workers,
               \/ \E request \in Requests : Start(w, request)
               \/ Bind(w) \/ LookUpKey(w) \/ InsertTask(w) \/ RecordEvidence(w)
               \/ RecordTransition(w) \/ Refuse(w) \/ Abort(w)
        PROVE  CurrentInv'
    <2>1. pc'[w] \notin {"read", "cleared", "stamped"}
      BY <1>1, SMT
         DEF Start, Bind, LookUpKey, InsertTask, RecordEvidence, RecordTransition, Refuse,
             Abort, Return, TypeOK
    <2>2. \A v \in Workers : pc'[v] \notin {"read", "cleared", "stamped"}
      BY <2>1 DEF SingleClient
    <2> QED  BY <2>2 DEF CurrentInv
  <1>2. ASSUME NEW w \in Workers, ReadTask(w)
        PROVE  CurrentInv'
    <2>1. /\ pc'[w] # "stamped" /\ row'[w] = rows[call[w].task]
          /\ rows' = rows /\ call' = call
      BY <1>2, SMT DEF ReadTask, TypeOK
    <2>2. \A v \in Workers : v = w
      BY DEF SingleClient
    <2> QED  BY <2>1, <2>2 DEF CurrentInv
  <1>3. ASSUME NEW w \in Workers, CheckEvidence(w)
        PROVE  CurrentInv'
    <2>1. /\ pc[w] = "read" /\ pc'[w] = "cleared"
          /\ row' = row /\ rows' = rows /\ call' = call
      BY <1>3, SMT DEF CheckEvidence, TypeOK
    <2>2. \A v \in Workers : v = w
      BY DEF SingleClient
    <2> QED  BY <2>1, <2>2 DEF CurrentInv
  <1>4. ASSUME NEW w \in Workers, ReadPrior(w)
        PROVE  CurrentInv'
    <2>1. /\ pc[w] = "cleared" /\ pc'[w] = "stamped" /\ row' = row /\ rows' = rows
          /\ call' = call /\ events' = events
          /\ stamp'[w].at = clock + 1 /\ clock \in Nat
          /\ IsLatest(call[w].task, stamp'[w].prior)
      BY <1>4, SMT DEF ReadPrior, TypeOK
    <2>2. \A v \in Workers : v = w
      BY DEF SingleClient
    <2>3. ASSUME NEW t \in Tasks, NEW e \in events'[t]
          PROVE  e.at < stamp'[w].at
      <3>1. e.at \in 1..clock
        BY <2>1, <2>3 DEF StampInv
      <3> QED  BY <2>1, <3>1, SMT
    <2>4. IsLatest(call[w].task, stamp[w].prior)'
      BY <2>1 DEF IsLatest
    <2> QED  BY <2>1, <2>2, <2>3, <2>4 DEF CurrentInv
  <1>5. CASE UNCHANGED vars
    BY <1>5 DEF vars, CurrentInv, IsLatest
  <1>6. ASSUME NEW w \in Workers, BeginWrite(w)
        PROVE  CurrentInv'
    BY <1>6 DEF BeginWrite, CurrentInv, IsLatest
  <1> QED  BY <1>1, <1>2, <1>3, <1>4, <1>5, <1>6 DEF Next, Step

LEMMA InitCurrent == Init => CurrentInv
  BY SMT DEF Init, CurrentInv

(* What a client that waits for its answer has read is never stale.        *)
THEOREM ReadsCurrent == ASSUME SingleClient PROVE Spec => []CurrentInv
  <1>1. TypeOK /\ WorkerInv /\ StampInv /\ CurrentInv /\ [Next]_vars => CurrentInv'
    BY CurrentStep
  <1> QED  BY <1>1, InitCurrent, TypeCorrect, StampsCorrect, PTL DEF Spec

(* For a single client the hash chain of every task is intact; the event a *)
(* handler has read is still the last when it commits.  (task_integrity)   *)
THEOREM OneClientChain == ASSUME SingleClient PROVE Spec => []TaskChainIntact
  <1>1. Init => TaskChainIntact
    BY SMT DEF Init, TaskChainIntact
  <1>2. ASSUME TypeOK, WorkerInv, StampInv, CurrentInv, TaskChainIntact, [Next]_vars
        PROVE  TaskChainIntact'
    <2>1. CASE events' = events
      BY <1>2, <2>1 DEF TaskChainIntact
    <2>2. ASSUME NEW w \in Workers, RecordTransition(w)
          PROVE  TaskChainIntact'
      <3>1. PICK t, e : /\ t = call[w].task /\ t \in Tasks
                        /\ e.at = stamp[w].at /\ e.prev = stamp[w].prior
                        /\ events'[t] = events[t] \cup {e}
                        /\ \A u \in Tasks \ {t} : events'[u] = events[u]
        <4> DEFINE new == [at |-> stamp[w].at, from |-> row[w].status, to |-> call[w].dest,
                           prev |-> stamp[w].prior]
                   task == call[w].task
        <4>1. /\ task \in Tasks
              /\ events'[task] = events[task] \cup {new}
              /\ \A u \in Tasks \ {task} : events'[u] = events[u]
          BY <1>2, <2>2, NewEvent
        <4>2. new.at = stamp[w].at /\ new.prev = stamp[w].prior
          OBVIOUS
        <4>3. task = call[w].task
          OBVIOUS
        <4> HIDE DEF new, task
        <4> QED  BY <4>1, <4>2, <4>3
      <3>2. pc[w] = "stamped"
        BY <2>2 DEF RecordTransition
      <3>3. /\ \A f \in events[t] : f.at < e.at /\ f.at \in Nat
            /\ e.at \in Nat /\ IsLatest(t, e.prev)
        <4>1. e.at \in 1..clock /\ \A f \in events[t] : f.at \in 1..clock
          BY <1>2, <3>1, <3>2 DEF StampInv
        <4>2. e.at \in Nat /\ \A f \in events[t] : f.at \in Nat
          BY <4>1, SMT
        <4> QED  BY <1>2, <3>1, <3>2, <4>2 DEF CurrentInv
      <3>4. ASSUME NEW f \in events[t]
            PROVE  {g.at : g \in {h \in events'[t] : h.at < f.at}}
                       = {g.at : g \in {h \in events[t] : h.at < f.at}}
        <4>1. ~(e.at < f.at)
          BY <3>3, SMT
        <4> QED  BY <3>1, <4>1
      <3>5. {g.at : g \in {h \in events'[t] : h.at < e.at}} = {g.at : g \in events[t]}
        <4>1. ~(e.at < e.at)
          BY <3>3, SMT
        <4> QED  BY <3>1, <3>3, <4>1
      <3>6. e.prev = IF {g.at : g \in events[t]} = {} THEN 0 ELSE Max({g.at : g \in events[t]})
        <4>1. CASE events[t] = {}
          BY <3>3, <4>1 DEF IsLatest
        <4>2. CASE events[t] # {}
          <5> DEFINE ats == {g.at : g \in events[t]}
          <5>1. \A a \in ats : a \in Nat /\ a > 0
            <6>1. \A f \in events[t] : f.at \in 1..clock
              BY <1>2, <3>1 DEF StampInv
            <6> QED  BY <6>1, <3>3, SMT
          <5>2. \A a \in ats : a <= e.prev
            BY <3>3 DEF IsLatest
          <5>3. e.prev \in ats
            <6>1. e.prev # 0
              BY <4>2, <5>1, <5>2, SMT
            <6> QED  BY <3>3, <6>1 DEF IsLatest
          <5> HIDE DEF ats
          <5>4. \A b \in ats : (\A a \in ats : b >= a) => b = e.prev
            <6>1. ASSUME NEW b \in ats, b >= e.prev PROVE b = e.prev
              BY <5>1, <5>2, <5>3, <6>1, SMT
            <6> QED  BY <5>3, <6>1
          <5>5. \A a \in ats : e.prev >= a
            BY <5>1, <5>2, <5>3, SMT
          <5>6. Max(ats) \in ats /\ \A a \in ats : Max(ats) >= a
            BY <5>3, <5>5 DEF Max
          <5>7. Max(ats) = e.prev
            BY <5>4, <5>6
          <5> QED  BY <5>3, <5>7 DEF ats
        <4> QED  BY <4>1, <4>2
      <3>7. ASSUME NEW f \in events'[t]
            PROVE  LET earlier == {g.at : g \in {h \in events'[t] : h.at < f.at}}
                   IN  f.prev = IF earlier = {} THEN 0 ELSE Max(earlier)
        <4>1. CASE f = e
          BY <3>5, <3>6, <4>1
        <4>2. CASE f \in events[t]
          BY <1>2, <3>1, <3>4, <4>2, ZenonT(30) DEF TaskChainIntact
        <4> QED  BY <3>1, <4>1, <4>2
      <3>8. ASSUME NEW u \in Tasks, u # t, NEW f \in events'[u]
            PROVE  LET earlier == {g.at : g \in {h \in events'[u] : h.at < f.at}}
                   IN  f.prev = IF earlier = {} THEN 0 ELSE Max(earlier)
        <4>1. events'[u] = events[u]
          BY <3>1, <3>8
        <4> QED  BY <1>2, <3>8, <4>1 DEF TaskChainIntact
      <3> QED  BY <3>7, <3>8 DEF TaskChainIntact
    <2> QED  BY <1>2, <2>1, <2>2, StampSteps DEF ReadPrior
  <1> QED  BY <1>1, <1>2, TypeCorrect, StampsCorrect, ReadsCurrent, PTL DEF Spec
(* The ranks of a set of events run from 1 to its size, each given once.   *)
Ranked(happened) ==
    /\ IsFiniteSet(happened)
    /\ \A e \in happened : Rank(happened, e) \in 1..Cardinality(happened)
    /\ \A i \in 1..Cardinality(happened) : \E e \in happened : Rank(happened, e) = i
    /\ \A e, f \in happened : Rank(happened, e) = Rank(happened, f) => e = f

LEMMA IthOf ==
    ASSUME NEW happened, Ranked(happened), NEW e \in happened
    PROVE  Ith(happened, Rank(happened, e)) = e
  <1>1. Ith(happened, Rank(happened, e)) \in happened
           /\ Rank(happened, Ith(happened, Rank(happened, e))) = Rank(happened, e)
    BY DEF Ith
  <1> QED  BY <1>1 DEF Ranked

(* An event later than all others gets the next rank and changes no other. *)
LEMMA RankLast ==
    ASSUME NEW happened, Ranked(happened), NEW e, e \notin happened, e.at \in Nat,
           \A f \in happened : f.at \in Nat /\ f.at < e.at
    PROVE  /\ IsFiniteSet(happened \cup {e})
           /\ Cardinality(happened \cup {e}) = Cardinality(happened) + 1
           /\ Rank(happened \cup {e}, e) = Cardinality(happened) + 1
           /\ \A f \in happened : Rank(happened \cup {e}, f) = Rank(happened, f)
           /\ Cardinality(happened) \in Nat
  <1>1. /\ IsFiniteSet(happened \cup {e}) /\ Cardinality(happened) \in Nat
        /\ Cardinality(happened \cup {e}) = Cardinality(happened) + 1
    BY FS_AddElement, FS_CardinalityType DEF Ranked
  <1>2. {f \in happened \cup {e} : f.at <= e.at} = happened \cup {e}
    <2>1. e.at <= e.at /\ \A f \in happened : f.at <= e.at
      BY SMT
    <2> QED  BY <2>1
  <1>3. ASSUME NEW f \in happened
        PROVE  {g \in happened \cup {e} : g.at <= f.at} = {g \in happened : g.at <= f.at}
    <2>1. ~(e.at <= f.at)
      BY SMT
    <2> QED  BY <2>1
  <1> QED  BY <1>1, <1>2, <1>3 DEF Rank

LEMMA RankedGrows ==
    ASSUME NEW happened, Ranked(happened), NEW e, e \notin happened, e.at \in Nat,
           \A f \in happened : f.at \in Nat /\ f.at < e.at
    PROVE  Ranked(happened \cup {e})
  <1> DEFINE all == happened \cup {e}
             n == Cardinality(happened)
  <1>1. /\ IsFiniteSet(all) /\ Cardinality(all) = n + 1 /\ n \in Nat
        /\ Rank(all, e) = n + 1
        /\ \A f \in happened : Rank(all, f) = Rank(happened, f)
    BY RankLast
  <1>2. /\ \A f \in happened : Rank(happened, f) \in 1..n
        /\ \A i \in 1..n : \E f \in happened : Rank(happened, f) = i
        /\ \A f, g \in happened : Rank(happened, f) = Rank(happened, g) => f = g
    BY DEF Ranked
  <1>3. e \in all /\ \A f \in all : f = e \/ f \in happened
    OBVIOUS
  <1>4. happened \subseteq all
    OBVIOUS
  <1> HIDE DEF all, n
  <1>5. n + 1 \notin 1..n /\ 1..(n + 1) = (1..n) \cup {n + 1}
    BY <1>1, SMT
  <1>6. \A f \in all : Rank(all, f) \in 1..(n + 1)
    BY <1>1, <1>2, <1>3, <1>5
  <1>7. \A i \in 1..(n + 1) : \E f \in all : Rank(all, f) = i
    BY <1>1, <1>2, <1>3, <1>4, <1>5
  <1>8. \A f, g \in all : Rank(all, f) = Rank(all, g) => f = g
    BY <1>1, <1>2, <1>3, <1>5
  <1> QED  BY <1>1, <1>6, <1>7, <1>8 DEF Ranked, all

(* The trail of a task grows at its end.                                   *)
LEMMA TrailGrows ==
    ASSUME NEW happened, Ranked(happened), NEW e, e \notin happened, e.at \in Nat,
           \A f \in happened : f.at \in Nat /\ f.at < e.at
    PROVE  Trail(happened \cup {e}) = Append(Trail(happened), <<e.from, e.to>>)
  <1> DEFINE all == happened \cup {e}
             n == Cardinality(happened)
  <1>1. /\ Cardinality(all) = n + 1 /\ n \in Nat
        /\ Rank(all, e) = n + 1 /\ Ranked(all) /\ e \in all
        /\ \A f \in happened : f \in all /\ Rank(all, f) = Rank(happened, f)
    BY RankLast, RankedGrows, ZenonT(30)
  <1> HIDE DEF all
  <1>2. Ith(all, n + 1) = e
    BY <1>1, IthOf
  <1>3. ASSUME NEW i \in 1..n PROVE Ith(all, i) = Ith(happened, i)
    <2>1. PICK f \in happened : Rank(happened, f) = i
      BY DEF Ranked
    <2>2. Ith(happened, i) = f
      BY <2>1, IthOf
    <2>3. Ith(all, i) = f
      BY <1>1, <2>1, IthOf
    <2> QED  BY <2>2, <2>3
  <1> HIDE DEF n
  <1>4. Trail(all) = [i \in 1..(n + 1) |-> <<Ith(all, i).from, Ith(all, i).to>>]
    BY <1>1 DEF Trail
  <1>5. Trail(happened) = [i \in 1..n |-> <<Ith(happened, i).from, Ith(happened, i).to>>]
    BY DEF Trail, n
  <1>6. \A i \in 1..n : Trail(happened)[i] = <<Ith(all, i).from, Ith(all, i).to>>
    BY <1>3, <1>5
  <1>7. Len(Trail(happened)) = n
    BY <1>1, <1>5, SMT
  <1>8. Append(Trail(happened), <<e.from, e.to>>) =
            [i \in 1..(n + 1) |-> IF i = n + 1 THEN <<e.from, e.to>> ELSE Trail(happened)[i]]
    BY <1>1, <1>5, <1>7, SMT
  <1>9. \A i \in 1..(n + 1) : i = n + 1 \/ i \in 1..n
    BY <1>1, SMT
  <1>10. \A i \in 1..(n + 1) :
            <<Ith(all, i).from, Ith(all, i).to>> =
                IF i = n + 1 THEN <<e.from, e.to>> ELSE Trail(happened)[i]
    BY <1>2, <1>6, <1>9
  <1>11. Trail(all) = Append(Trail(happened), <<e.from, e.to>>)
    BY <1>4, <1>8, <1>10
  <1> QED  BY <1>11 DEF all
-----------------------------------------------------------------------------
(* The refinement                                                          *)

RankInv == \A t \in Tasks : Ranked(events[t])

(* The event a single client adds comes after all others of its task.      *)
LEMMA LastEvent ==
    ASSUME SingleClient, TypeOK, WorkerInv, StampInv, CurrentInv, NEW w \in Workers,
           RecordTransition(w)
    PROVE  \E e :
              /\ e.at \in Nat /\ e.from = row[w].status /\ e.to = call[w].dest
              /\ e \notin events[call[w].task]
              /\ \A f \in events[call[w].task] : f.at \in Nat /\ f.at < e.at
              /\ events'[call[w].task] = events[call[w].task] \cup {e}
              /\ \A u \in Tasks \ {call[w].task} : events'[u] = events[u]
              /\ call[w].task \in Tasks
  <1> DEFINE new == [at |-> stamp[w].at, from |-> row[w].status, to |-> call[w].dest,
                     prev |-> stamp[w].prior]
             t == call[w].task
  <1>1. /\ t \in Tasks /\ new \notin events[t]
        /\ new.at \in 1..clock /\ pc[w] = "stamped"
        /\ events'[t] = events[t] \cup {new}
        /\ \A u \in Tasks \ {t} : events'[u] = events[u]
    BY NewEvent
  <1>2. new.at = stamp[w].at /\ new.from = row[w].status /\ new.to = call[w].dest
    OBVIOUS
  <1>3. t = call[w].task
    OBVIOUS
  <1> HIDE DEF new, t
  <1>4. \A f \in events[t] : f.at \in 1..clock /\ f.at < new.at
    BY <1>1, <1>2 DEF StampInv, CurrentInv
  <1>5. new.at \in Nat /\ \A f \in events[t] : f.at \in Nat
    BY <1>1, <1>4, SMT
  <1>6. /\ new.at \in Nat /\ new.from = row[w].status /\ new.to = call[w].dest
        /\ new \notin events[t]
        /\ \A f \in events[t] : f.at \in Nat /\ f.at < new.at
        /\ events'[t] = events[t] \cup {new}
        /\ \A u \in Tasks \ {t} : events'[u] = events[u]
        /\ t \in Tasks
    BY <1>1, <1>2, <1>4, <1>5
  <1> QED  BY <1>3, <1>6

LEMMA RankStep ==
    ASSUME SingleClient, TypeOK, WorkerInv, StampInv, CurrentInv, RankInv, [Next]_vars
    PROVE  RankInv'
  <1>1. CASE events' = events
    BY <1>1 DEF RankInv
  <1>2. ASSUME NEW w \in Workers, RecordTransition(w)
        PROVE  RankInv'
    <2> DEFINE t == call[w].task
    <2>1. PICK e : /\ e.at \in Nat /\ e \notin events[t]
                   /\ \A f \in events[t] : f.at \in Nat /\ f.at < e.at
                   /\ events'[t] = events[t] \cup {e}
                   /\ \A u \in Tasks \ {t} : events'[u] = events[u]
                   /\ t \in Tasks
      BY <1>2, LastEvent
    <2> HIDE DEF t
    <2>2. Ranked(events'[t])
      BY <2>1, RankedGrows DEF RankInv
    <2> QED  BY <2>1, <2>2 DEF RankInv
  <1> QED  BY <1>1, <1>2, StampSteps DEF ReadPrior

LEMMA InitRanks == Init => RankInv
  <1>1. Ranked({})
    <2>1. IsFiniteSet({}) /\ Cardinality({}) = 0
      BY FS_EmptySet
    <2>2. 1..Cardinality({}) = {}
      BY <2>1, SMT
    <2> QED  BY <2>1, <2>2 DEF Ranked
  <1> QED  BY <1>1, SMT DEF Init, RankInv

THEOREM RanksCorrect == ASSUME SingleClient PROVE Spec => []RankInv
  <1>1. /\ TypeOK /\ WorkerInv /\ StampInv /\ CurrentInv /\ RankInv /\ [Next]_vars
        => RankInv'
    BY RankStep
  <1> QED  BY <1>1, InitRanks, TypeCorrect, StampsCorrect, ReadsCurrent, PTL DEF Spec

(* Steps that leave the tables alone are stutters of GovernedTasks.        *)
LEMMA AbstractStutter ==
    ASSUME UNCHANGED <<rows, evidence, events>>
    PROVE  UNCHANGED Abstract!vars
  BY DEF Abstract!vars

LEMMA AbstractCreate ==
    ASSUME TypeOK, WorkerInv, NEW w \in Workers, InsertTask(w)
    PROVE  [Abstract!Next]_(Abstract!vars)
  <1>1. events' = events /\ evidence' = evidence
    BY DEF InsertTask
  <1>2. CASE rows' = rows
    BY <1>1, <1>2, AbstractStutter
  <1>3. ASSUME NEW t \in Tasks, ~Exists(t), \A u \in Tasks : rows[u].key # call[w].key,
               rows' = [rows EXCEPT ![t] = Draft(call[w].key, call[w].cats)]
        PROVE  Abstract!Next
    <2>1. call[w].key \in Keys /\ call[w].cats \in SUBSET Categories
      <3>1. call[w] \in Requests /\ call[w].op = "create"
        BY DEF InsertTask, WorkerInv
      <3> QED  BY <3>1, RequestType
    <2>2. Abstract!Create(t, call[w].key, call[w].cats)
      BY <1>1, <1>3 DEF Abstract!Create, Abstract!Exists, Abstract!Draft, Draft, Exists
    <2> QED  BY <2>1, <2>2 DEF Abstract!Next
  <1> QED  BY <1>2, <1>3 DEF InsertTask

LEMMA AbstractEvidence ==
    ASSUME TypeOK, WorkerInv, NEW w \in Workers, RecordEvidence(w)
    PROVE  [Abstract!Next]_(Abstract!vars)
  <1>1. events' = events /\ rows' = rows
    BY DEF RecordEvidence
  <1>2. CASE evidence' = evidence
    BY <1>1, <1>2, AbstractStutter
  <1>3. ASSUME Exists(call[w].task),
               evidence' = [evidence EXCEPT ![call[w].task] = @ \cup call[w].cats]
        PROVE  Abstract!Next
    <2>1. PICK c \in Categories : call[w].cats = {c}
      <3>1. call[w] \in Requests /\ call[w].op = "evidence"
        BY DEF RecordEvidence, WorkerInv
      <3> QED  BY <3>1, SMT DEF Requests
    <2>2. call[w].task \in Tasks
      BY <1>3 DEF Exists
    <2>3. Abstract!AddEvidence(call[w].task, c)
      BY <1>1, <1>3, <2>1 DEF Abstract!AddEvidence, Abstract!Exists, Exists
    <2> QED  BY <2>2, <2>3 DEF Abstract!Next
  <1> QED  BY <1>2, <1>3 DEF RecordEvidence

LEMMA AbstractMove ==
    ASSUME SingleClient, TypeOK, WorkerInv, TableInv, StampInv, CurrentInv, RankInv,
           NEW w \in Workers, RecordTransition(w)
    PROVE  Abstract!Next
  <1> DEFINE t == call[w].task
             dest == call[w].dest
             trail == [u \in Tasks |-> Trail(events[u])]
  <1>1. /\ t \in Tasks /\ dest \in Statuses /\ row[w] = rows[t]
        /\ pc[w] = "stamped"
    BY TransitionFacts DEF RecordTransition, CurrentInv
  <1>2. dest \in Allowed(rows[t].status)
    BY <1>1 DEF WorkerInv
  <1>3. dest = "approved" => rows[t].needs \subseteq evidence[t]
    BY <1>1, TransitionEffect
  <1>4. rows' = [rows EXCEPT ![t] = Moved(@, dest, @.version + 1)]
    BY <1>1, SMT DEF RecordTransition, NextVersion, TypeOK
  <1>5. evidence' = evidence
    BY DEF RecordTransition
  <1>6. PICK e : /\ e.at \in Nat /\ e.from = row[w].status /\ e.to = dest
                 /\ e \notin events[t]
                 /\ \A f \in events[t] : f.at \in Nat /\ f.at < e.at
                 /\ events'[t] = events[t] \cup {e}
                 /\ \A u \in Tasks \ {t} : events'[u] = events[u]
    BY LastEvent
  <1> HIDE DEF t, dest
  <1>7. Trail(events'[t]) = Append(Trail(events[t]), <<rows[t].status, dest>>)
    BY <1>1, <1>6, TrailGrows DEF RankInv
  <1>8. trail' = [trail EXCEPT ![t] = Append(@, <<rows[t].status, dest>>)]
    <2>1. \A u \in Tasks \ {t} : Trail(events'[u]) = Trail(events[u])
      BY <1>6
    <2> QED  BY <1>1, <1>7, <2>1
  <1>9. Abstract!Move(t, dest)
    <2>1. dest \in Abstract!Allowed(rows[t].status)
      BY <1>2 DEF Allowed, Abstract!Allowed, Statuses, Abstract!Statuses, Decisions,
                  Abstract!Decisions
    <2>2. rows' = [rows EXCEPT ![t] = Abstract!Moved(@, dest, @.version + 1)]
      BY <1>4 DEF Moved, Abstract!Moved
    <2> QED  BY <1>3, <1>5, <1>8, <2>1, <2>2 DEF Abstract!Move
  <1>10. dest \in Abstract!Statuses
    BY <1>1 DEF Statuses, Abstract!Statuses
  <1> QED  BY <1>1, <1>9, <1>10 DEF Abstract!Next

(* For a single client the store implements GovernedTasks: each call is    *)
(* one indivisible step on the version it was made for, or no step at all. *)
THEOREM OneClientImplements == ASSUME SingleClient PROVE Spec => ImplementsGovernedTasks
  <1>1. Init => Abstract!Init
    <2> SUFFICES ASSUME Init PROVE Abstract!Init
      OBVIOUS
    <2>1. \A t \in Tasks : Trail(events[t]) = <<>>
      <3>1. \A t \in Tasks : events[t] = {}
        BY SMT DEF Init
      <3>2. 1..Cardinality({}) = {}
        BY FS_EmptySet, SMT
      <3>3. Trail({}) = <<>>
        BY <3>2, SMT DEF Trail
      <3> QED  BY <3>1, <3>3
    <2>2. [t \in Tasks |-> Trail(events[t])] = [t \in Tasks |-> <<>>]
      BY <2>1
    <2> QED  BY <2>2 DEF Init, Abstract!Init, NoRow, Abstract!NoRow
  <1>2. ASSUME TypeOK, WorkerInv, TableInv, StampInv, CurrentInv, RankInv, [Next]_vars
        PROVE  [Abstract!Next]_(Abstract!vars)
    <2>1. ASSUME NEW w \in Workers,
                 \/ \E request \in Requests : Start(w, request)
                 \/ BeginWrite(w) \/ Bind(w) \/ LookUpKey(w) \/ ReadTask(w)
                 \/ CheckEvidence(w) \/ ReadPrior(w) \/ Refuse(w) \/ Abort(w)
          PROVE  UNCHANGED Abstract!vars
      <3>1. UNCHANGED <<rows, evidence, events>>
        BY <2>1 DEF Start, BeginWrite, Bind, LookUpKey, ReadTask, CheckEvidence, ReadPrior,
                    Refuse, Abort
      <3> QED  BY <3>1, AbstractStutter
    <2>2. CASE UNCHANGED vars
      BY <2>2, AbstractStutter DEF vars
    <2> QED  BY <1>2, <2>1, <2>2, AbstractCreate, AbstractEvidence, AbstractMove DEF Next, Step
  <1> QED  BY <1>1, <1>2, TypeCorrect, TablesCorrect, StampsCorrect, ReadsCurrent,
              RanksCorrect, PTL DEF Spec, ImplementsGovernedTasks, Abstract!Spec
=============================================================================
