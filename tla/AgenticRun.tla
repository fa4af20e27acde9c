----------------------------- MODULE AgenticRun -----------------------------
(***************************************************************************)
(* AgenticRuntime.execute (agentic_core_v1/runtime.py): the read-only scan *)
(* of a project tree under a resource budget, its interruption by a        *)
(* cancellation, a timeout or an unreadable file, and its resumption from  *)
(* the checkpoint the interrupted run left on disk.  Runs are served by    *)
(* FastAPI's thread pool and overlap.  The tree is listed again by every   *)
(* run, and people edit it meanwhile.                                      *)
(***************************************************************************)
EXTENDS Integers, FiniteSets, FiniteSetsExt, Sequences

CONSTANTS Runs,        \* run identifiers
          Paths,       \* file names, numbered in their sort order
          Sizes,       \* sizes of regular files
          Directory,   \* the entry of a path that is not a regular file
          Absent,      \* the entry of a path that does not exist
          Requests,    \* validated RunRequests: their patterns and budgets
          NoRun,       \* the run a fresh run was resumed from
          MaxEdits,    \* bound: edits of the tree
          MaxCrashes   \* bound: crashes of the server

ASSUME PathsAssumption == Paths \subseteq Nat /\ IsFiniteSet(Paths) /\ Sizes \subseteq Nat
ASSUME RequestsAssumption ==
    /\ Requests # {}
    /\ Requests \subseteq [paths : SUBSET Paths, files : Nat, bytes : Nat, retries : Nat]
ASSUME EntriesAssumption == Directory \notin Sizes /\ Absent \notin Sizes
ASSUME NoRunAssumption == NoRun \notin Runs
ASSUME BoundsAssumption == MaxEdits \in Nat /\ MaxCrashes \in Nat

VARIABLES
    tree,         \* [Paths -> entry]: the target project
    pc,           \* [Runs -> where its execute stands]
    job,          \* [Runs -> what the run is to do, fixed once it starts]
    done,         \* [Runs -> what it has done, and will leave in a checkpoint]
    visit,        \* [Runs -> the candidate it is at]
    result,       \* [Runs -> its final_result]
    checkpoints,  \* [Runs -> set of at most one checkpoint file]
    receipts,     \* [Runs -> set of at most one receipt]
    edits, crashes

locals == <<job, done, visit, result>>
disk == <<tree, checkpoints, receipts, edits, crashes>>
vars == <<disk, pc, locals>>

Entries == Sizes \cup {Directory, Absent}

Phase == {"new", "scanning", "statting", "interrupting", "recording", "ended", "refused", "lost"}

Running == {"scanning", "statting", "interrupting", "recording"}

Interruptions == {"CANCELLED", "TIMED_OUT", "FAILED_RETRYABLE"}

Results == Interruptions \cup {"PASS"}

Progress == [next : Nat, manifest : Seq(Paths), bytes : Nat, retries : Nat]

(* The binding fingerprint of a request stands for the request.            *)
Job == [request : Requests, from : Runs \cup {NoRun}, candidates : SUBSET Paths]

Checkpoint ==
    [request : Requests, from : Runs \cup {NoRun}, status : Interruptions, done : Progress]

Receipt ==
    [request : Requests, from : Runs \cup {NoRun}, result : Results, done : Progress]

(* _candidate_paths: what the request's patterns match now.                *)
Candidates(request) == {p \in request.paths : tree[p] # Absent}

(* The locals of execute at the top of its loop.                           *)
JobOf(request, s) == [request |-> request, from |-> s, candidates |-> Candidates(request)]

Nothing == [next |-> 0, manifest |-> <<>>, bytes |-> 0, retries |-> 0]

NoVisit == [path |-> 0, tries |-> 0]

(* A run that has no locals: not started, or over.                         *)
NoJob == [request |-> CHOOSE request \in Requests : TRUE, from |-> NoRun, candidates |-> {}]

Init ==
    /\ tree \in [Paths -> Entries]
    /\ pc = [r \in Runs |-> "new"]
    /\ job = [r \in Runs |-> NoJob]
    /\ done = [r \in Runs |-> Nothing]
    /\ visit = [r \in Runs |-> NoVisit]
    /\ result = [r \in Runs |-> "PASS"]
    /\ checkpoints = [r \in Runs |-> {}]
    /\ receipts = [r \in Runs |-> {}]
    /\ edits = 0
    /\ crashes = 0
-----------------------------------------------------------------------------
(* Run r enters the loop, with what it has to do and has done.             *)
Enter(r, j, d) ==
    /\ pc' = [pc EXCEPT ![r] = "scanning"]
    /\ job' = [job EXCEPT ![r] = j]
    /\ done' = [done EXCEPT ![r] = d]
    /\ UNCHANGED <<visit, result>>

(* execute of a new request.                                               *)
Start(r, request) ==
    /\ pc[r] = "new"
    /\ Enter(r, JobOf(request, NoRun), Nothing)
    /\ UNCHANGED disk

(* Fault: the checkpoint of another request will do.                       *)
AnyBinding(request, c) == c.status \in Interruptions

(* _load_checkpoint: the same request, and a checkpoint to resume from.    *)
Resumable(request, c) == c.request = request /\ c.status \in Interruptions

(* Fault: the index is not compared with the candidates.                   *)
AnyIndex(request, c) == c.done.next >= 0

(* The interrupted index must lie within the tree as it is listed now.     *)
InRange(request, c) == c.done.next <= Cardinality(Candidates(request))

(* Fault: the interrupted run's manifest is left behind.                   *)
RestoredIndex(c) ==
    [next |-> c.done.next, manifest |-> <<>>, bytes |-> c.done.bytes, retries |-> c.done.retries]

(* What a resumed run takes over.                                          *)
Restored(c) == c.done

(* execute with resume_checkpoint: the checkpoint is not consumed, so it   *)
(* can be resumed again.  AuthorityError ends the run before it starts.    *)
Resume(r, request, s) ==
    /\ pc[r] = "new"
    /\ \E c \in checkpoints[s] :
          \/ /\ Resumable(request, c) /\ InRange(request, c)
             /\ Enter(r, JobOf(request, s), Restored(c))
          \/ /\ ~(Resumable(request, c) /\ InRange(request, c))
             /\ pc' = [pc EXCEPT ![r] = "refused"]
             /\ UNCHANGED locals
    /\ UNCHANGED disk

AtEnd(r) == done[r].next = Cardinality(job[r].candidates)

(* The loop is over: no candidate is left, or max_files are listed.        *)
Complete(r) ==
    /\ pc[r] = "scanning"
    /\ AtEnd(r) \/ Len(done[r].manifest) >= job[r].request.files
    /\ pc' = [pc EXCEPT ![r] = "recording"]
    /\ result' = [result EXCEPT ![r] = "PASS"]
    /\ UNCHANGED <<disk, job, done, visit>>

(* The top of the loop finds the run cancelled (RunControl.cancel, by      *)
(* another thread) or timeout_seconds gone: both may have happened by any  *)
(* of its turns, and neither is looked at anywhere else.                   *)
Interrupt(r) ==
    /\ pc[r] = "scanning" /\ ~AtEnd(r)
    /\ pc' = [pc EXCEPT ![r] = "interrupting"]
    /\ \E why \in {"CANCELLED", "TIMED_OUT"} : result' = [result EXCEPT ![r] = why]
    /\ UNCHANGED <<disk, job, done, visit>>

(* The path is the n-th of S in sort order, counted from 0.                *)
IsNth(S, n, p) == p \in S /\ Cardinality({q \in S : q < p}) = n

(* The candidate at the run's index is next.                               *)
Visit(r) ==
    /\ pc[r] = "scanning"
    /\ Len(done[r].manifest) < job[r].request.files
    /\ \E p \in job[r].candidates :
          /\ IsNth(job[r].candidates, done[r].next, p)
          /\ visit' = [visit EXCEPT ![r] = [path |-> p, tries |-> 0]]
    /\ pc' = [pc EXCEPT ![r] = "statting"]
    /\ UNCHANGED <<disk, job, done, result>>

(* Past the candidate at hand, with its retries counted.                   *)
PassedOver(d, tries) ==
    [next |-> d.next + 1, manifest |-> d.manifest, bytes |-> d.bytes,
     retries |-> d.retries + tries]

Listed(d, p, size, tries) ==
    [next |-> d.next + 1, manifest |-> Append(d.manifest, p), bytes |-> d.bytes + size,
     retries |-> d.retries + tries]

(* At the candidate at hand, with the retries it took counted.             *)
GivenUp(d, tries) ==
    [next |-> d.next, manifest |-> d.manifest, bytes |-> d.bytes, retries |-> d.retries + tries]

(* Fault: a retry is not counted.                                          *)
RetryAgain(r) == pc[r] = "statting" /\ UNCHANGED vars

(* An OSError: tried again up to max_retries times, then the run fails.    *)
StatFails(r) ==
    /\ pc[r] = "statting"
    /\ \/ /\ visit[r].tries < job[r].request.retries
          /\ visit' = [visit EXCEPT ![r] = [path |-> visit[r].path, tries |-> visit[r].tries + 1]]
          /\ UNCHANGED <<pc, done, result>>
       \/ /\ visit[r].tries >= job[r].request.retries
          /\ pc' = [pc EXCEPT ![r] = "interrupting"]
          /\ done' = [done EXCEPT ![r] = GivenUp(done[r], job[r].request.retries)]
          /\ visit' = [visit EXCEPT ![r] = NoVisit]
          /\ result' = [result EXCEPT ![r] = "FAILED_RETRYABLE"]
    /\ UNCHANGED <<disk, job>>

(* stat answers, after some retries.                                       *)
Stat(r) ==
    /\ pc[r] = "statting"
    /\ LET size == tree[visit[r].path]
           tries == visit[r].tries
           fits == done[r].bytes + size <= job[r].request.bytes
       IN  \/ (* not a regular file *)
              /\ size = Directory
              /\ pc' = [pc EXCEPT ![r] = "scanning"]
              /\ done' = [done EXCEPT ![r] = PassedOver(done[r], tries)]
              /\ UNCHANGED result
           \/ /\ size \in Sizes /\ fits
              /\ pc' = [pc EXCEPT ![r] = "scanning"]
              /\ done' = [done EXCEPT ![r] = Listed(done[r], visit[r].path, size, tries)]
              /\ UNCHANGED result
           \/ (* max_bytes ends the loop *)
              /\ size \in Sizes /\ ~fits
              /\ pc' = [pc EXCEPT ![r] = "recording"]
              /\ done' = [done EXCEPT ![r] = GivenUp(done[r], tries)]
              /\ result' = [result EXCEPT ![r] = "PASS"]
    /\ visit' = [visit EXCEPT ![r] = NoVisit]
    /\ UNCHANGED <<disk, job>>

(* Fault: the file at which the run was interrupted counts as done.        *)
CheckpointAfter(r) ==
    [request |-> job[r].request, from |-> job[r].from, status |-> result[r],
     done |-> PassedOver(done[r], 0)]

(* What _write_checkpoint saves of a run's locals.                         *)
CheckpointOf(r) ==
    [request |-> job[r].request, from |-> job[r].from, status |-> result[r], done |-> done[r]]

ReceiptOf(r) ==
    [request |-> job[r].request, from |-> job[r].from, result |-> result[r], done |-> done[r]]

(* Fault: the receipt is persisted first.                                  *)
ReceiptFirst(r) ==
    /\ pc[r] = "interrupting"
    /\ receipts' = [receipts EXCEPT ![r] = {ReceiptOf(r)}]
    /\ pc' = [pc EXCEPT ![r] = "recording"]
    /\ UNCHANGED <<tree, checkpoints, edits, crashes, locals>>

(* _interrupted_receipt: the checkpoint file first, in one replace.        *)
WriteCheckpoint(r) ==
    /\ pc[r] = "interrupting"
    /\ checkpoints' = [checkpoints EXCEPT ![r] = {CheckpointOf(r)}]
    /\ pc' = [pc EXCEPT ![r] = "recording"]
    /\ UNCHANGED <<tree, receipts, edits, crashes, locals>>

(* _persist_receipt, the end of every run.                                 *)
PersistReceipt(r) ==
    /\ pc[r] = "recording"
    /\ receipts' = [receipts EXCEPT ![r] = {ReceiptOf(r)}]
    /\ pc' = [pc EXCEPT ![r] = "ended"]
    /\ job' = [job EXCEPT ![r] = NoJob]
    /\ done' = [done EXCEPT ![r] = Nothing]
    /\ visit' = [visit EXCEPT ![r] = NoVisit]
    /\ result' = [result EXCEPT ![r] = "PASS"]
    /\ UNCHANGED <<tree, checkpoints, edits, crashes>>

(* The server stops: what is on disk stays.                                *)
Crash ==
    /\ crashes < MaxCrashes
    /\ pc' = [r \in Runs |-> IF pc[r] \in Running THEN "lost" ELSE pc[r]]
    /\ job' = [r \in Runs |-> NoJob]
    /\ done' = [r \in Runs |-> Nothing]
    /\ visit' = [r \in Runs |-> NoVisit]
    /\ result' = [r \in Runs |-> "PASS"]
    /\ crashes' = crashes + 1
    /\ UNCHANGED <<tree, checkpoints, receipts, edits>>

(* Someone creates, changes or removes a file.                             *)
Edit(p) ==
    /\ edits < MaxEdits
    /\ \E entry \in Entries \ {tree[p]} : tree' = [tree EXCEPT ![p] = entry]
    /\ edits' = edits + 1
    /\ UNCHANGED <<pc, locals, checkpoints, receipts, crashes>>

(* The thread that serves a run.                                           *)
Execute(r) ==
    \/ Complete(r) \/ Interrupt(r) \/ Visit(r) \/ StatFails(r) \/ Stat(r)
    \/ WriteCheckpoint(r) \/ PersistReceipt(r)

Next ==
    \/ \E r \in Runs :
          \/ \E request \in Requests :
                \/ Start(r, request)
                \/ \E s \in Runs : Resume(r, request, s)
          \/ Execute(r)
    \/ Crash
    \/ \E p \in Paths : Edit(p)

(* A thread that serves a run is scheduled until the run ends, and stat    *)
(* returns; nothing is assumed of clients, clocks or people.               *)
Spec == Init /\ [][Next]_vars /\ \A r \in Runs : WF_vars(Execute(r))
-----------------------------------------------------------------------------
TypeOK ==
    /\ tree \in [Paths -> Entries]
    /\ pc \in [Runs -> Phase]
    /\ job \in [Runs -> Job]
    /\ done \in [Runs -> Progress]
    /\ visit \in [Runs -> [path : Nat, tries : Nat]]
    /\ result \in [Runs -> Results]
    /\ \A r \in Runs : pc[r] = "scanning" => done[r].next <= Cardinality(job[r].candidates)
    /\ checkpoints \in [Runs -> SUBSET Checkpoint]
    /\ receipts \in [Runs -> SUBSET Receipt]
    /\ edits \in Nat /\ crashes \in Nat

(* What a request allows of a manifest and of the bytes it stands for.     *)
Allows(request, d) ==
    /\ \A i \in DOMAIN d.manifest : d.manifest[i] \in request.paths
    /\ Len(d.manifest) <= request.files
    /\ d.bytes <= request.bytes

(* Whatever chain of interruptions and resumptions led to a receipt, it    *)
(* lists only files the request's patterns allow and stays within its      *)
(* budget of files and bytes.  (execute, _load_checkpoint)                 *)
WithinAuthority ==
    \A r \in Runs : \A receipt \in receipts[r] : Allows(receipt.request, receipt.done)

(* Nothing of what was done by then is lost.                               *)
Extends(new, old) ==
    /\ Len(old.manifest) <= Len(new.manifest)
    /\ \A i \in DOMAIN old.manifest : new.manifest[i] = old.manifest[i]
    /\ old.bytes <= new.bytes
    /\ old.retries <= new.retries

(* A resumed run never loses what the interrupted one had: its checkpoint  *)
(* and its receipt extend the manifest, the bytes and the retries of the   *)
(* checkpoint it came from.  (execute, _write_checkpoint)                  *)
ResumeExtends ==
    \A r \in Runs : \A new \in checkpoints[r] \cup receipts[r] :
        new.from # NoRun =>
            \A old \in checkpoints[new.from] : Extends(new.done, old.done)

(* A receipt that tells of an interruption has its checkpoint on disk,     *)
(* of the same progress, wherever a crash fell.  (_interrupted_receipt)    *)
InterruptedHasCheckpoint ==
    \A r \in Runs : \A receipt \in receipts[r] :
        receipt.result # "PASS" =>
            \E c \in checkpoints[r] : c.status = receipt.result /\ c.done = receipt.done

(* The regular files among S that come before p.                           *)
Before(S, p) == {q \in S : tree[q] \in Sizes /\ q < p}

TotalSize(S) == MapThenSumSet(LAMBDA q : tree[q], S)

(* On a tree nobody edits, every run that passes lists the same files: the *)
(* first regular ones in sort order, as many as the budget allows, as if   *)
(* it had never been interrupted.  (execute)                               *)
ResumeIsTransparent ==
    edits = 0 =>
        \A r \in Runs : \A receipt \in receipts[r] :
            receipt.result = "PASS" =>
                LET request == receipt.request
                    fits(p) ==
                        LET upto == Before(request.paths, p) \cup {p}
                        IN  /\ tree[p] \in Sizes
                            /\ Cardinality(upto) <= request.files
                            /\ TotalSize(upto) <= request.bytes
                    manifest == receipt.done.manifest
                    listed == {manifest[i] : i \in DOMAIN manifest}
                IN  /\ listed = {p \in request.paths : fits(p)}
                    /\ Len(manifest) = Cardinality(listed)

(* Every run that has started comes to an end: cancelled, out of time or   *)
(* with its files vanishing under it, unless the server stops.  (execute,  *)
(* _stat_with_retry)                                                       *)
RunEnds == \A r \in Runs : pc[r] \in Running ~> pc[r] \in {"ended", "lost"}
=============================================================================
