--------------------------- MODULE GatedOperation ---------------------------
(***************************************************************************)
(* An operation behind the quality gate: a task, the manifest that pins    *)
(* what will run, a person's approval, the run, and a person's verdict on  *)
(* its result (quality_gated_external_scanners_wave2_v1.py; the read-only  *)
(* operations of wave 1 are ReadOnlyOperation.tla).  Tasks, manifests,     *)
(* runs and checkpoints are a file each.  A file is read outside _LOCK and *)
(* written inside; what a request decides, it decides on what it read      *)
(* before it took the lock, except for a submission and an approval.  The  *)
(* gate belongs to admission and the laboratory (ToolQuality.tla), and     *)
(* changes under the requests.                                             *)
(***************************************************************************)
EXTENDS Naturals, FiniteSets

CONSTANTS Workers,        \* threads of the pool
          Tasks,          \* tasks
          Preparable,     \* statuses in which a manifest may be prepared
          GatesCreation,  \* whether a task is created only when the gate is open
          NeedsAdmission, \* whether the tool is an admitted binary
          MaxPin,         \* bound: baselines, binaries and rules are 1..MaxPin
          MaxRequests,    \* bound: requests sent
          MaxOverlaps,    \* bound: requests sent while another is in flight
          MaxChanges,     \* bound: changes of the gate
          MaxCrashes      \* bound: requests cut short

Statuses ==
    {"none", "DRAFT", "READY_FOR_REVIEW", "APPROVED", "RUNNING", "HUMAN_RESULT_REVIEW",
     "FAILED", "ACCEPTED_RESULT", "RETURNED_FOR_REVIEW", "REJECTED_RESULT"}

ASSUME PreparableAssumption ==
    Preparable \subseteq {"DRAFT", "READY_FOR_REVIEW", "RETURNED_FOR_REVIEW"}
ASSUME FamilyAssumption == GatesCreation \in BOOLEAN /\ NeedsAdmission \in BOOLEAN
ASSUME BoundsAssumption ==
    /\ MaxPin \in Nat \ {0} /\ MaxRequests \in Nat /\ MaxOverlaps \in Nat
    /\ MaxChanges \in Nat /\ MaxCrashes \in Nat

VARIABLES
    gate,        \* admission, laboratory and local rules, as the gate reads them
    tasks,       \* tasks.json: [Tasks -> task]
    manifests,   \* manifests.json: [Ids -> manifest]
    runs,        \* runs.json: [Ids -> run]
    checkpoints, \* checkpoints.json: the runs it is about
    reviews,     \* reviews.jsonl: what it says, as a set
    pc, call,    \* where a worker stands, and its request
    seen,        \* what a worker read, or pinned, before it took the lock
    requests, overlaps, changes,
    crashes,     \* how often requests were cut short: by a crash of the server,
                 \* or by a read or write that failed where nothing catches it
    started,     \* for the properties: the manifest of every run started
    drifted      \* for the properties: the gate changed between the last check
                 \* of a run and its execution

files == <<tasks, manifests, runs, checkpoints, reviews>>
counters == <<requests, overlaps, changes, crashes>>
vars == <<gate, files, pc, call, seen, counters, started, drifted>>

None == 0
Ids == 1..MaxRequests
Pins == 0..MaxPin

Verdicts == {"ACCEPTED_RESULT", "RETURNED_FOR_REVIEW", "REJECTED_RESULT"}

(* What a manifest pins: the baseline, the binary and the local rules.     *)
Pinned(baseline, binary, rules) == [baseline |-> baseline, binary |-> binary, rules |-> rules]

PinSets == [baseline : Pins, binary : Pins, rules : Pins]

NoPins == Pinned(None, None, None)

(* qualified: not quarantined and with an eligible baseline.               *)
Gates == [qualified : BOOLEAN, admitted : BOOLEAN, pins : PinSets]

Task(status, manifest, run, rules) ==
    [status |-> status, manifest |-> manifest, run |-> run, rules |-> rules]

TaskRecords == [status : Statuses, manifest : Ids \cup {None}, run : Ids \cup {None}, rules : Pins]

NoTask == Task("none", None, None, None)

Manifest(task, status, pins) == [task |-> task, status |-> status, pins |-> pins]

ManifestRecords ==
    [task : Tasks \cup {None}, status : {"none", "PREPARED", "APPROVED"}, pins : PinSets]

NoManifest == Manifest(None, "none", NoPins)

Run(task, manifest, status, pins) ==
    [task |-> task, manifest |-> manifest, status |-> status, pins |-> pins]

RunRecords ==
    [task : Tasks \cup {None}, manifest : Ids \cup {None},
     status : {"none", "HUMAN_RESULT_REVIEW"} \cup Verdicts, pins : PinSets]

NoRun == Run(None, None, "none", NoPins)

(* The requests; each is named after the task, or the run, it is about.    *)
Calls ==
    [op : {"create", "submit", "prepare", "approve", "run"}, id : Ids, task : Tasks]
    \cup [op : {"review"}, id : Ids, run : Ids, verdict : Verdicts]

NoCall == [op |-> "none", id |-> None]

(* The phases in which a request holds _LOCK between two writes.           *)
Holding == {"bind manifest", "approve manifest", "finish", "close task", "checkpoint"}

Phases ==
    {"idle", "create", "insert", "submit", "prepare", "describe", "write manifest", "approve",
     "run", "verify", "mark running", "execute", "save run", "log run", "fail", "review", "save verdict",
     "log review"} \cup Holding

(* The phases inside the try of _run_task: the tool, what is made of its   *)
(* report, the two saves and the event that reports them.                  *)
Trying == {"execute", "save run", "finish", "log run"}

NothingSeen == [manifest |-> None, pins |-> NoPins]

Saw(manifest, pins) == [manifest |-> manifest, pins |-> pins]

LockFree == \A v \in Workers : pc[v] \notin Holding

(* What the gate pins: without an admitted binary, the baseline alone.     *)
GatePins ==
    IF NeedsAdmission THEN gate.pins ELSE Pinned(gate.pins.baseline, None, None)

(* _scanner_gate: quarantine, admission and baseline, in one look.         *)
Open == gate.qualified /\ (NeedsAdmission => gate.admitted)

(***************************************************************************)
(* Actions                                                                 *)
(***************************************************************************)

Init ==
    /\ gate = [qualified |-> TRUE, admitted |-> TRUE, pins |-> Pinned(1, 1, 1)]
    /\ tasks = [t \in Tasks |-> NoTask]
    /\ manifests = [m \in Ids |-> NoManifest]
    /\ runs = [r \in Ids |-> NoRun]
    /\ checkpoints = {} /\ reviews = {}
    /\ pc = [w \in Workers |-> "idle"]
    /\ call = [w \in Workers |-> NoCall]
    /\ seen = [w \in Workers |-> NothingSeen]
    /\ requests = 0 /\ overlaps = 0 /\ changes = 0 /\ crashes = 0
    /\ started = [r \in Ids |-> None]
    /\ drifted = FALSE

(* A worker goes on to phase p with what it has seen; one that is done     *)
(* keeps nothing.                                                          *)
Proceed(w, p, sight) ==
    /\ pc' = [pc EXCEPT ![w] = p]
    /\ call' = IF p = "idle" THEN [call EXCEPT ![w] = NoCall] ELSE call
    /\ seen' = [seen EXCEPT ![w] = IF p = "idle" THEN NothingSeen ELSE sight]

(* Admission, the laboratory or the owner of the local rules rewrites one  *)
(* of the gate's files.                                                    *)
ChangeGate ==
    /\ changes < MaxChanges
    /\ changes' = changes + 1
    /\ LET p == gate.pins
       IN  \/ \E b \in 1..MaxPin \ {p.baseline}, q \in BOOLEAN :
                gate' = [qualified |-> q, admitted |-> gate.admitted,
                         pins |-> Pinned(b, p.binary, p.rules)]
           \/ \E b \in 1..MaxPin \ {p.binary}, a \in BOOLEAN :
                gate' = [qualified |-> gate.qualified, admitted |-> a,
                         pins |-> Pinned(p.baseline, b, p.rules)]
           \/ \E r \in 1..MaxPin \ {p.rules} :
                gate' = [qualified |-> gate.qualified, admitted |-> gate.admitted,
                         pins |-> Pinned(p.baseline, p.binary, r)]
    /\ drifted' = (drifted \/ \E w \in Workers : pc[w] \in {"mark running", "execute"})
    /\ UNCHANGED <<files, pc, call, seen, requests, overlaps, crashes, started>>

(* A request arrives; one about an unknown task or run is refused at once. *)
Start(w) ==
    /\ pc[w] = "idle"
    /\ requests < MaxRequests
    /\ \E c \in {d \in Calls : d.id = requests + 1} :
          /\ IF c.op = "review" THEN runs[c.run].status # "none"
             ELSE IF c.op = "create"
             THEN /\ tasks[c.task].status = "none"
                  /\ \A v \in Workers : ~(call[v].op = "create" /\ call[v].task = c.task)
             ELSE tasks[c.task].status # "none"
          /\ call' = [call EXCEPT ![w] = c]
          /\ pc' = [pc EXCEPT ![w] = c.op]
    /\ requests' = requests + 1
    /\ \/ /\ \A v \in Workers : pc[v] = "idle"
          /\ UNCHANGED overlaps
       \/ /\ \E v \in Workers : pc[v] # "idle"
          /\ overlaps < MaxOverlaps
          /\ overlaps' = overlaps + 1
    /\ UNCHANGED <<gate, files, seen, changes, crashes, started, drifted>>

(* A phase that reads and changes no file: on to p when ok, else refused.  *)
Check(w, phase, ok, p, sight) ==
    /\ pc[w] = phase
    /\ Proceed(w, IF ok THEN p ELSE "idle", sight)
    /\ UNCHANGED <<gate, files, counters, started, drifted>>

(* A phase that writes one file under _LOCK.                               *)
Writes(w, phase, p) ==
    /\ pc[w] = phase
    /\ phase \notin Holding => LockFree
    /\ Proceed(w, p, seen[w])
    /\ UNCHANGED <<gate, counters, drifted>>

SetTask(t, task) == tasks' = [tasks EXCEPT ![t] = task]

WithStatus(t, status) == Task(status, tasks[t].manifest, tasks[t].run, tasks[t].rules)

(* _create_task: the hash of the local rules is taken now.                 *)
Create(w) == Check(w, "create", GatesCreation => Open, "insert", Saw(None, GatePins))

Insert(w) ==
    /\ Writes(w, "insert", "idle")
    /\ SetTask(call[w].task, Task("DRAFT", None, None, seen[w].pins.rules))
    /\ UNCHANGED <<manifests, runs, checkpoints, reviews, started>>

(* _set_task_status, for the one transition that is routed to it.          *)
Submit(w) ==
    LET t == call[w].task
    IN  /\ Writes(w, "submit", "idle")
        /\ \/ /\ tasks[t].status \in {"DRAFT", "RETURNED_FOR_REVIEW"}
              /\ SetTask(t, WithStatus(t, "READY_FOR_REVIEW"))
           \/ /\ tasks[t].status \notin {"DRAFT", "RETURNED_FOR_REVIEW"}
              /\ UNCHANGED tasks
        /\ UNCHANGED <<manifests, runs, checkpoints, reviews, started>>

(* _prepare_manifest: the status, then the gate, then manifest and task.   *)
Prepare(w) ==
    Check(w, "prepare", tasks[call[w].task].status \in Preparable, "describe", NothingSeen)

Describe(w) ==
    Check(w, "describe", Open /\ tasks[call[w].task].rules = GatePins.rules,
          "write manifest", Saw(None, GatePins))

WriteManifest(w) ==
    /\ Writes(w, "write manifest", "bind manifest")
    /\ manifests' = [manifests EXCEPT ![call[w].id] =
                        Manifest(call[w].task, "PREPARED", seen[w].pins)]
    /\ UNCHANGED <<tasks, runs, checkpoints, reviews, started>>

BindManifest(w) ==
    LET t == call[w].task
    IN  /\ Writes(w, "bind manifest", "idle")
        /\ SetTask(t, Task(tasks[t].status, call[w].id, tasks[t].run, tasks[t].rules))
        /\ UNCHANGED <<manifests, runs, checkpoints, reviews, started>>

(* _approve_task: the task is saved before its manifest.                   *)
Approve(w) ==
    LET t == call[w].task
        m == tasks[t].manifest
        ok == /\ tasks[t].status = "READY_FOR_REVIEW"
              /\ m # None /\ manifests[m].status = "PREPARED"
    IN  /\ pc[w] = "approve" /\ LockFree
        /\ \/ /\ ok
              /\ SetTask(t, WithStatus(t, "APPROVED"))
              /\ Proceed(w, "approve manifest", Saw(m, NoPins))
           \/ /\ ~ok
              /\ Proceed(w, "idle", NothingSeen)
              /\ UNCHANGED tasks
        /\ UNCHANGED <<gate, manifests, runs, checkpoints, reviews, counters, started, drifted>>

ApproveManifest(w) ==
    LET m == seen[w].manifest
    IN  /\ Writes(w, "approve manifest", "idle")
        /\ manifests' = [manifests EXCEPT ![m] =
                            Manifest(manifests[m].task, "APPROVED", manifests[m].pins)]
        /\ UNCHANGED <<tasks, runs, checkpoints, reviews, started>>

(* _run_task: the task's status, its manifest and the gate, all before the *)
(* lock is taken.                                                          *)
BeginRun(w) ==
    LET t == call[w].task
    IN  Check(w, "run", tasks[t].status = "APPROVED", "verify", Saw(tasks[t].manifest, NoPins))

(* Fault: the manifest of an approved task is taken for approved.          *)
UncheckedManifest(m) == TRUE

ManifestApproved(m) == manifests[m].status = "APPROVED"

(* Fault: a manifest is current while the gate is open.                    *)
OpenIsCurrent(m) == Open

(* _verify_manifest_current                                                *)
Current(m) == Open /\ manifests[m].pins = GatePins

Verify(w) ==
    LET m == seen[w].manifest
    IN  Check(w, "verify", ManifestApproved(m) /\ Current(m), "mark running",
              Saw(m, manifests[m].pins))

(* Fault: the task stays approved while it runs.                           *)
StillApproved(w) ==
    LET t == call[w].task
    IN  Task("APPROVED", tasks[t].manifest, call[w].id, tasks[t].rules)

Running(w) ==
    LET t == call[w].task
    IN  Task("RUNNING", tasks[t].manifest, call[w].id, tasks[t].rules)

MarkRunning(w) ==
    /\ Writes(w, "mark running", "execute")
    /\ SetTask(call[w].task, Running(w))
    /\ started' = [started EXCEPT ![call[w].id] = seen[w].manifest]
    /\ UNCHANGED <<manifests, runs, checkpoints, reviews>>

(* The tool runs with the binary admission records and the rules that lie  *)
(* there now.                                                              *)
Execute(w) ==
    /\ NeedsAdmission => gate.admitted
    /\ Check(w, "execute", TRUE, "save run", Saw(seen[w].manifest, GatePins))

SaveRun(w) ==
    /\ Writes(w, "save run", "finish")
    /\ runs' = [runs EXCEPT ![call[w].id] =
                   Run(call[w].task, seen[w].manifest, "HUMAN_RESULT_REVIEW", seen[w].pins)]
    /\ UNCHANGED <<tasks, manifests, checkpoints, reviews, started>>

Finish(w) ==
    /\ Writes(w, "finish", "log run")
    /\ SetTask(call[w].task, WithStatus(call[w].task, "HUMAN_RESULT_REVIEW"))
    /\ UNCHANGED <<manifests, runs, checkpoints, reviews, started>>

LogRun(w) == Check(w, "log run", TRUE, "idle", NothingSeen)

(* The tool, a save or the event raises: whatever was saved stays, and the *)
(* task is marked failed, under the lock again.                            *)
Raises(w) == \E p \in Trying : Check(w, p, TRUE, "fail", seen[w])

Fail(w) ==
    /\ Writes(w, "fail", "idle")
    /\ SetTask(call[w].task, WithStatus(call[w].task, "FAILED"))
    /\ UNCHANGED <<manifests, runs, checkpoints, reviews, started>>

(* _review_result: the run's status is read before the lock is taken.      *)
Review(w) ==
    Check(w, "review", runs[call[w].run].status = "HUMAN_RESULT_REVIEW", "save verdict",
          NothingSeen)

SaveVerdict(w) ==
    LET r == call[w].run
    IN  /\ Writes(w, "save verdict", "close task")
        /\ runs' = [runs EXCEPT ![r] =
                       Run(runs[r].task, runs[r].manifest, call[w].verdict, runs[r].pins)]
        /\ UNCHANGED <<tasks, manifests, checkpoints, reviews, started>>

(* Fault: a checkpoint is made of every reviewed result.                   *)
AlwaysCheckpoint(verdict) == "checkpoint"

AfterVerdict(verdict) == IF verdict = "ACCEPTED_RESULT" THEN "checkpoint" ELSE "log review"

CloseTask(w) ==
    LET t == runs[call[w].run].task
    IN  /\ Writes(w, "close task", AfterVerdict(call[w].verdict))
        /\ SetTask(t, WithStatus(t, call[w].verdict))
        /\ UNCHANGED <<manifests, runs, checkpoints, reviews, started>>

Checkpoint(w) ==
    /\ Writes(w, "checkpoint", "log review")
    /\ checkpoints' = checkpoints \cup {call[w].run}
    /\ UNCHANGED <<tasks, manifests, runs, reviews, started>>

LogReview(w) ==
    /\ pc[w] = "log review"
    /\ reviews' = reviews \cup {[id |-> call[w].id, run |-> call[w].run,
                                 verdict |-> call[w].verdict]}
    /\ Proceed(w, "idle", NothingSeen)
    /\ UNCHANGED <<gate, tasks, manifests, runs, checkpoints, counters, started, drifted>>

(* Requests end where they stand; the files stay as they are.              *)
CutShort(dead) ==
    /\ crashes < MaxCrashes
    /\ \E w \in dead : pc[w] # "idle"
    /\ pc' = [w \in Workers |-> IF w \in dead THEN "idle" ELSE pc[w]]
    /\ call' = [w \in Workers |-> IF w \in dead THEN NoCall ELSE call[w]]
    /\ seen' = [w \in Workers |-> IF w \in dead THEN NothingSeen ELSE seen[w]]
    /\ crashes' = crashes + 1
    /\ UNCHANGED <<gate, files, requests, overlaps, changes, started, drifted>>

(* The server dies between two writes.                                     *)
Crash == CutShort(Workers)

(* A read or a write fails where no handler is: one request ends.          *)
Breaks(w) == CutShort({w})

Manifesting(w) ==
    \/ Create(w) \/ Insert(w) \/ Submit(w)
    \/ Prepare(w) \/ Describe(w) \/ WriteManifest(w) \/ BindManifest(w)
    \/ Approve(w) \/ ApproveManifest(w)

Executing(w) ==
    \/ BeginRun(w) \/ Verify(w) \/ MarkRunning(w) \/ Execute(w)
    \/ SaveRun(w) \/ Finish(w) \/ LogRun(w) \/ Raises(w) \/ Fail(w)

Reviewing(w) ==
    Review(w) \/ SaveVerdict(w) \/ CloseTask(w) \/ Checkpoint(w) \/ LogReview(w)

Next ==
    \/ ChangeGate
    \/ \E w \in Workers : Start(w) \/ Manifesting(w) \/ Executing(w) \/ Reviewing(w)
    \/ Crash \/ \E w \in Workers : Breaks(w)

Spec == Init /\ [][Next]_vars

(***************************************************************************)
(* Properties                                                              *)
(***************************************************************************)

TypeOK ==
    /\ gate \in Gates
    /\ tasks \in [Tasks -> TaskRecords]
    /\ manifests \in [Ids -> ManifestRecords]
    /\ runs \in [Ids -> RunRecords]
    /\ checkpoints \subseteq Ids
    /\ reviews \subseteq [id : Ids, run : Ids, verdict : Verdicts]
    /\ pc \in [Workers -> Phases]
    /\ call \in [Workers -> Calls \cup {NoCall}]
    /\ seen \in [Workers -> [manifest : Ids \cup {None}, pins : PinSets]]
    /\ started \in [Ids -> Ids \cup {None}]
    /\ requests \in 0..MaxRequests

(* No run without a person's approval: every run that was started names a  *)
(* manifest that was approved, although a new manifest may be prepared     *)
(* while the task is being approved, and the server may die between the    *)
(* approval of the task and that of its manifest.                          *)
ApprovedRuns ==
    \A r \in Ids : started[r] # None => manifests[started[r]].status = "APPROVED"

(* An approval is spent by its run: requests to run that do not overlap    *)
(* start one run of a manifest, and each overlap can add one more.         *)
ApprovalSpent ==
    \A m \in Ids : Cardinality({r \in Ids : started[r] = m}) <= 1 + overlaps

(* What ran is what the approver saw: the binary and the rules of a result *)
(* are those its manifest pins, however long ago it was prepared, unless   *)
(* the gate changed between the last check and the execution.              *)
RunAsApproved ==
    ~drifted => \A r \in Ids : runs[r].status # "none" =>
        runs[r].pins = manifests[runs[r].manifest].pins

(* When requests came one at a time and none was cut short, whatever the   *)
(* tools and the saves inside the try of _run_task raised, the four files  *)
(* agree: no task is left running; a task is in the state of its last run, *)
(* or failed, and then no verdict was given on that run; a result that     *)
(* waits for review is the last run of a task that waits for the review or *)
(* failed; and the checkpoints are those of the accepted results.          *)
FilesAgree ==
    overlaps = 0 /\ crashes = 0 /\ (\A w \in Workers : pc[w] = "idle") =>
        /\ \A t \in Tasks :
              LET r == tasks[t].run
              IN  /\ tasks[t].status # "RUNNING"
                  /\ tasks[t].status \in Verdicts \cup {"HUMAN_RESULT_REVIEW"} =>
                        runs[r].status = tasks[t].status
                  /\ tasks[t].status = "FAILED" /\ runs[r].task = t =>
                        runs[r].status \notin Verdicts
        /\ \A r \in Ids : runs[r].status = "HUMAN_RESULT_REVIEW" =>
              LET t == tasks[runs[r].task]
              IN  t.run = r /\ t.status \in {"HUMAN_RESULT_REVIEW", "FAILED"}
        /\ checkpoints = {r \in Ids : runs[r].status = "ACCEPTED_RESULT"}
=============================================================================
