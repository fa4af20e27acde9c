------------------------- MODULE ReadOnlyOperation -------------------------
(***************************************************************************)
(* The read-only operations of wave 1                                      *)
(* (quality_gated_read_only_operations_wave1_v1.py): the machine of        *)
(* GatedOperation.tla over files and a lock of its own, with these         *)
(* differences.  A task is created whatever the gate says; the gate asks   *)
(* for a baseline only and pins nothing else, since the tools are          *)
(* functions of the module; and a task that was returned after its run is  *)
(* submitted again before a new manifest is prepared for it.               *)
(***************************************************************************)
EXTENDS Naturals

CONSTANTS Workers, Tasks, MaxPin, MaxRequests, MaxOverlaps, MaxChanges, MaxCrashes

VARIABLES gate, tasks, manifests, runs, checkpoints, reviews, pc, call, seen,
          requests, overlaps, changes, crashes, started, drifted

(* The statuses in which _prepare_manifest accepts a task.                 *)
PreparableStatuses == {"DRAFT", "READY_FOR_REVIEW"}

Operation ==
    INSTANCE GatedOperation WITH
        Preparable <- PreparableStatuses, GatesCreation <- FALSE, NeedsAdmission <- FALSE

Init == Operation!Init

(* _quality_baseline                                                       *)
QualityBaseline == Operation!Open

(* _create_task, _set_task_status                                          *)
CreateTask(w) == Operation!Create(w) \/ Operation!Insert(w)

SubmitTask(w) == Operation!Submit(w)

(* _prepare_manifest                                                       *)
PrepareManifest(w) ==
    \/ Operation!Prepare(w) \/ Operation!Describe(w)
    \/ Operation!WriteManifest(w) \/ Operation!BindManifest(w)

(* _approve_task                                                           *)
ApproveTask(w) == Operation!Approve(w) \/ Operation!ApproveManifest(w)

(* _execute_tool: each tool reads the files of the scope and returns; it   *)
(* changes none.                                                           *)
ExecuteTool(w) == Operation!Execute(w)

(* _run_task                                                               *)
RunTask(w) ==
    \/ Operation!BeginRun(w) \/ Operation!Verify(w) \/ Operation!MarkRunning(w)
    \/ ExecuteTool(w)
    \/ Operation!SaveRun(w) \/ Operation!Finish(w) \/ Operation!LogRun(w)
    \/ Operation!Raises(w) \/ Operation!Fail(w)

(* _review_result                                                          *)
ReviewResult(w) ==
    \/ Operation!Review(w) \/ Operation!SaveVerdict(w) \/ Operation!CloseTask(w)
    \/ Operation!Checkpoint(w) \/ Operation!LogReview(w)

Next ==
    \/ Operation!ChangeGate \/ Operation!Crash
    \/ \E w \in Workers :
          \/ Operation!Start(w) \/ CreateTask(w) \/ SubmitTask(w) \/ PrepareManifest(w)
          \/ ApproveTask(w) \/ RunTask(w) \/ ReviewResult(w) \/ Operation!Breaks(w)
=============================================================================
