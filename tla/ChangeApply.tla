----------------------------- MODULE ChangeApply -----------------------------
(***************************************************************************)
(* Waves 3 to 6 of full_stack_operational_waves_3_to_8_v1.py: a plan, a    *)
(* change proposal and an implementation, each released by a human, and    *)
(* the apply and rollback that rewrite source files.  plans.json,          *)
(* proposals.json, implementations.json, the backups and the source tree   *)
(* are on disk and survive a crash; a request's locals do not.  _LOCK is   *)
(* held through apply, review and every save, never while a request only   *)
(* reads; source files are edited by people who take no lock.              *)
(***************************************************************************)
EXTENDS Naturals, FiniteSets

CONSTANTS Plans, Proposals, Implementations,   \* identifiers
          Files,          \* source files a proposal may target
          Contents,       \* what a file may contain
          Torn,           \* what a write cut short by a crash leaves
          Nothing,        \* no content: a file not targeted, a backup not taken
          MaxEdits,       \* bound: edits by people
          MaxFaults       \* bound: faults

ASSUME ContentsAssumption == Nothing \notin Contents /\ Torn \notin Contents /\ Torn # Nothing
ASSUME BoundsAssumption == MaxEdits \in Nat /\ MaxFaults \in Nat

VARIABLES
    plans,       \* [Plans -> status]
    proposals,   \* [Proposals -> [status, plan, pre, post, applied]]
    impls,       \* [Implementations -> [status, proposal]]
    tree,        \* [Files -> content]: the source files
    backups,     \* [Implementations -> [Files -> content]]
    job,         \* the apply or rollback that holds _LOCK
    edits,       \* edits made so far
    faults,      \* faults so far
    calm         \* for the properties: no crash, no failed restore and no
                 \* edit while _LOCK was held has happened yet

vars == <<plans, proposals, impls, tree, backups, job, edits, faults, calm>>

Snapshot == Contents \cup {Torn}

Images == [Files -> Snapshot \cup {Nothing}]

(* "none" and the two volatile statuses stand for entries not on disk: a   *)
(* request is drafting a proposal or preparing an implementation.          *)
PlanStatus == {"none", "HUMAN_REVIEW", "ACCEPTED", "RETURNED", "REJECTED"}
ProposalStatus == PlanStatus \cup {"drafting"}
ImplementationStatus ==
    {"none", "preparing", "APPROVED_FOR_APPLY", "APPLIED_AWAITING_REVIEW",
     "ACCEPTED_IMPLEMENTATION", "ROLLED_BACK"}

ProposalRecord ==
    [status : ProposalStatus, plan : Plans \cup {Nothing}, pre : Images, post : Images, applied : BOOLEAN]

NoImages == [f \in Files |-> Nothing]

(* The paths of a proposal's changes, and what it holds for each: the hash *)
(* of the file it was drawn from and the content it puts there.            *)
Changed(p) == {f \in Files : proposals[p].post[f] # Nothing}

Stages ==
    {"idle", "checking", "copying", "writing", "verifying", "restoring",
     "saving", "flagging", "rb_checking", "rb_writing", "rb_verifying",
     "rb_flagging", "rb_saving"}

(* What the holder of _LOCK has in its locals: the implementation, the     *)
(* file at hand, the files still to do, those done (applied in the code),  *)
(* and, for the properties alone, the tree it started from.  During an     *)
(* undo, file is the one that was replaced and never verified, if any.     *)
Jobs ==
    [stage : Stages, impl : Implementations \cup {Nothing}, file : Files \cup {Nothing},
     todo : SUBSET Files, done : SUBSET Files, base : Images]

NoJob ==
    [stage |-> "idle", impl |-> Nothing, file |-> Nothing, todo |-> {}, done |-> {},
     base |-> NoImages]

Begin(stage, i, todo) ==
    [stage |-> stage, impl |-> i, file |-> Nothing, todo |-> todo, done |-> {},
     base |-> tree]

(* An exception in the loop of _apply_implementation: put back what this   *)
(* apply has written and verified.  A file that was replaced but not       *)
(* verified (left) is not in applied and stays as it was written.          *)
Undo(left) == [job EXCEPT !.stage = "restoring", !.file = left, !.todo = job.done]

Free == job.stage = "idle"

(* The proposal of the implementation at hand.                             *)
Current == proposals[impls[job.impl].proposal]

Init ==
    /\ plans = [q \in Plans |-> "none"]
    /\ proposals = [p \in Proposals |->
           [status |-> "none", plan |-> Nothing, pre |-> NoImages, post |-> NoImages,
            applied |-> FALSE]]
    /\ impls = [i \in Implementations |-> [status |-> "none", proposal |-> Nothing]]
    /\ tree \in [Files -> Contents]
    /\ backups = [i \in Implementations |-> NoImages]
    /\ job = NoJob
    /\ edits = 0
    /\ faults = 0
    /\ calm = TRUE
-----------------------------------------------------------------------------
(* Plans, proposals and the reviews that release them                      *)

(* _generate_plan saves what the approved local model answered.            *)
GeneratePlan(q) ==
    /\ Free
    /\ plans[q] = "none"
    /\ plans' = [plans EXCEPT ![q] = "HUMAN_REVIEW"]
    /\ UNCHANGED <<proposals, impls, tree, backups, job, edits, faults, calm>>

(* Fault: the decision is stored as it was sent.                           *)
Requested == {"ACCEPT", "RETURN", "REJECT"}

(* status_map: the statuses a review leads to.                             *)
Decided == {"ACCEPTED", "RETURNED", "REJECTED"}

(* _review_entity: one review, of an entity in HUMAN_REVIEW.               *)
ReviewPlan(q) ==
    /\ Free
    /\ plans[q] = "HUMAN_REVIEW"
    /\ \E decision \in Decided : plans' = [plans EXCEPT ![q] = decision]
    /\ UNCHANGED <<proposals, impls, tree, backups, job, edits, faults, calm>>

ReviewProposal(p) ==
    /\ Free
    /\ proposals[p].status = "HUMAN_REVIEW"
    /\ \E decision \in Decided : proposals' = [proposals EXCEPT ![p].status = decision]
    /\ UNCHANGED <<plans, impls, tree, backups, job, edits, faults, calm>>

(* Fault: any plan on record will do.                                      *)
DraftFromAnyPlan(p) ==
    /\ proposals[p].status = "none"
    /\ \E q \in Plans, targets \in SUBSET Files \ {{}} :
          /\ plans[q] # "none"
          /\ proposals' = [proposals EXCEPT ![p].status = "drafting", ![p].plan = q,
                 ![p].pre = [f \in Files |-> IF f \in targets THEN tree[f] ELSE Nothing]]
    /\ UNCHANGED <<plans, impls, tree, backups, job, edits, faults, calm>>

(* _generate_proposal, before the model is called: no lock is held, the    *)
(* plan must be accepted and the target files are read and hashed.         *)
DraftProposal(p) ==
    /\ proposals[p].status = "none"
    /\ \E q \in Plans, targets \in SUBSET Files \ {{}} :
          /\ plans[q] = "ACCEPTED"
          /\ proposals' = [proposals EXCEPT ![p].status = "drafting", ![p].plan = q,
                 ![p].pre = [f \in Files |-> IF f \in targets THEN tree[f] ELSE Nothing]]
    /\ UNCHANGED <<plans, impls, tree, backups, job, edits, faults, calm>>

(* _generate_proposal, after the model answered: changes to some of the    *)
(* targets are validated and saved.                                        *)
SaveProposal(p) ==
    /\ Free
    /\ proposals[p].status = "drafting"
    /\ \E post \in [Files -> Contents \cup {Nothing}] :
          /\ post # NoImages
          /\ \A f \in Files : proposals[p].pre[f] = Nothing => post[f] = Nothing
          /\ proposals' = [proposals EXCEPT ![p].status = "HUMAN_REVIEW", ![p].post = post]
    /\ UNCHANGED <<plans, impls, tree, backups, job, edits, faults, calm>>

(* _prepare_implementation, its checks: no lock is held.                   *)
PrepareImplementation(i) ==
    /\ impls[i].status = "none"
    /\ \E p \in Proposals :
          /\ proposals[p].status = "ACCEPTED"
          /\ ~proposals[p].applied
          /\ \A f \in Changed(p) : tree[f] = proposals[p].pre[f]
          /\ impls' = [impls EXCEPT ![i] = [status |-> "preparing", proposal |-> p]]
    /\ UNCHANGED <<plans, proposals, tree, backups, job, edits, faults, calm>>

(* _prepare_implementation, its save: the one-time token is issued.        *)
SaveImplementation(i) ==
    /\ Free
    /\ impls[i].status = "preparing"
    /\ impls' = [impls EXCEPT ![i].status = "APPROVED_FOR_APPLY"]
    /\ UNCHANGED <<plans, proposals, tree, backups, job, edits, faults, calm>>
-----------------------------------------------------------------------------
(* _apply_implementation                                                   *)

(* The caller holds the token; the implementation and its proposal are in  *)
(* the right state.                                                        *)
StartApply(i) ==
    /\ Free
    /\ impls[i].status = "APPROVED_FOR_APPLY"
    /\ proposals[impls[i].proposal].status = "ACCEPTED"
    /\ job' = Begin("checking", i, Changed(impls[i].proposal))
    /\ UNCHANGED <<plans, proposals, impls, tree, backups, edits, faults, calm>>

(* Fault: the files are not compared with the preimages before the apply.  *)
CheckNothing ==
    /\ job.stage = "checking"
    /\ job' = [job EXCEPT !.stage = "copying", !.todo = Changed(impls[job.impl].proposal)]
    /\ UNCHANGED <<plans, proposals, impls, tree, backups, edits, faults, calm>>

(* Every target must still be its preimage; a stale one ends the request.  *)
CheckPreimages ==
    /\ job.stage = "checking"
    /\ \/ /\ job.todo = {}
          /\ job' = [job EXCEPT !.stage = "copying", !.todo = Changed(impls[job.impl].proposal)]
       \/ \E f \in job.todo :
             job' = IF tree[f] = Current.pre[f] THEN [job EXCEPT !.todo = @ \ {f}] ELSE NoJob
    /\ UNCHANGED <<plans, proposals, impls, tree, backups, edits, faults, calm>>

(* The next file: its bytes go to the backup.                              *)
CopyFile ==
    /\ job.stage = "copying"
    /\ \E f \in job.todo :
          /\ backups' = [backups EXCEPT ![job.impl][f] = tree[f]]
          /\ job' = [job EXCEPT !.stage = "writing", !.file = f, !.todo = @ \ {f}]
    /\ UNCHANGED <<plans, proposals, impls, tree, edits, faults, calm>>

(* _atomic_write_text: a temporary file replaces the target in one step.   *)
ReplaceFile ==
    /\ job.stage = "writing"
    /\ tree' = [tree EXCEPT ![job.file] = Current.post[job.file]]
    /\ job' = [job EXCEPT !.stage = "verifying"]
    /\ UNCHANGED <<plans, proposals, impls, backups, edits, faults, calm>>

(* The file on disk must hash to the postimage; it then counts as applied. *)
VerifyFile ==
    /\ job.stage = "verifying"
    /\ job' = IF tree[job.file] = Current.post[job.file]
              THEN [job EXCEPT !.stage = "copying", !.file = Nothing, !.done = @ \cup {job.file}]
              ELSE Undo(job.file)
    /\ UNCHANGED <<plans, proposals, impls, tree, backups, edits, faults, calm>>

(* The backup or the temporary file cannot be written, or the new file     *)
(* cannot be read back to be hashed.                                       *)
WriteFails ==
    /\ faults < MaxFaults
    /\ \/ job.stage = "copying" /\ job.todo # {} /\ job' = Undo(Nothing)
       \/ job.stage = "writing" /\ job' = Undo(Nothing)
       \/ job.stage = "verifying" /\ job' = Undo(job.file)
    /\ faults' = faults + 1
    /\ UNCHANGED <<plans, proposals, impls, tree, backups, edits, calm>>

(* Fault: the undo of a failed apply is skipped.                           *)
LeaveAsIs ==
    /\ job.stage = "restoring"
    /\ job' = NoJob
    /\ UNCHANGED <<plans, proposals, impls, tree, backups, edits, faults, calm>>

(* except Exception: the applied files get their backups back, then the    *)
(* exception goes on to the caller.                                        *)
RestoreFiles ==
    /\ job.stage = "restoring"
    /\ \/ /\ job.todo = {}
          /\ job' = NoJob
          /\ UNCHANGED tree
       \/ \E f \in job.todo :
             /\ tree' = [tree EXCEPT ![f] = IF backups[job.impl][f] = Nothing THEN @
                                             ELSE backups[job.impl][f]]
             /\ job' = [job EXCEPT !.todo = @ \ {f}]
    /\ UNCHANGED <<plans, proposals, impls, backups, edits, faults, calm>>

(* Fault: the proposal is flagged before the implementation is saved.      *)
FlagFirst ==
    \/ /\ job.stage = "copying" /\ job.todo = {}
       /\ proposals' = [proposals EXCEPT ![impls[job.impl].proposal].applied = TRUE]
       /\ job' = [job EXCEPT !.stage = "saving"]
       /\ UNCHANGED <<plans, impls, tree, backups, edits, faults, calm>>
    \/ /\ job.stage = "saving"
       /\ impls' = [impls EXCEPT ![job.impl].status = "APPLIED_AWAITING_REVIEW"]
       /\ job' = NoJob
       /\ UNCHANGED <<plans, proposals, tree, backups, edits, faults, calm>>

(* All files are in place: implementations.json first, proposals.json      *)
(* second.                                                                 *)
FinishApply ==
    \/ /\ job.stage = "copying" /\ job.todo = {}
       /\ impls' = [impls EXCEPT ![job.impl].status = "APPLIED_AWAITING_REVIEW"]
       /\ job' = [job EXCEPT !.stage = "flagging"]
       /\ UNCHANGED <<plans, proposals, tree, backups, edits, faults, calm>>
    \/ /\ job.stage = "flagging"
       /\ proposals' = [proposals EXCEPT ![impls[job.impl].proposal].applied = TRUE]
       /\ job' = NoJob
       /\ UNCHANGED <<plans, impls, tree, backups, edits, faults, calm>>
-----------------------------------------------------------------------------
(* _review_implementation                                                  *)

(* ACCEPT: one save, and no look at the files.                             *)
AcceptImplementation(i) ==
    /\ Free
    /\ impls[i].status = "APPLIED_AWAITING_REVIEW"
    /\ impls' = [impls EXCEPT ![i].status = "ACCEPTED_IMPLEMENTATION"]
    /\ UNCHANGED <<plans, proposals, tree, backups, job, edits, faults, calm>>

(* ROLLBACK of an applied implementation.                                  *)
StartRollback(i) ==
    /\ Free
    /\ impls[i].status = "APPLIED_AWAITING_REVIEW"
    /\ job' = Begin("rb_checking", i, Changed(impls[i].proposal))
    /\ UNCHANGED <<plans, proposals, impls, tree, backups, edits, faults, calm>>

(* Fault: files changed since the apply are rolled back all the same.      *)
CheckNoPostimage ==
    /\ job.stage = "rb_checking"
    /\ job' = [job EXCEPT !.stage = "rb_writing", !.todo = Changed(impls[job.impl].proposal)]
    /\ UNCHANGED <<plans, proposals, impls, tree, backups, edits, faults, calm>>

(* Every file must still be its postimage, or nothing is rolled back.      *)
CheckPostimages ==
    /\ job.stage = "rb_checking"
    /\ \/ /\ job.todo = {}
          /\ job' = [job EXCEPT !.stage = "rb_writing", !.todo = Changed(impls[job.impl].proposal)]
       \/ \E f \in job.todo :
             job' = IF tree[f] = Current.post[f] THEN [job EXCEPT !.todo = @ \ {f}] ELSE NoJob
    /\ UNCHANGED <<plans, proposals, impls, tree, backups, edits, faults, calm>>

(* The next file gets its backup; a missing backup ends the request.       *)
PutBack ==
    /\ job.stage = "rb_writing"
    /\ \E f \in job.todo :
          IF backups[job.impl][f] = Nothing
          THEN job' = NoJob /\ UNCHANGED tree
          ELSE /\ tree' = [tree EXCEPT ![f] = backups[job.impl][f]]
               /\ job' = [job EXCEPT !.stage = "rb_verifying", !.file = f, !.todo = @ \ {f}]
    /\ UNCHANGED <<plans, proposals, impls, backups, edits, faults, calm>>

(* The file must hash to the preimage again, or the request ends there.    *)
VerifyPutBack ==
    /\ job.stage = "rb_verifying"
    /\ job' = IF tree[job.file] = Current.pre[job.file]
              THEN [job EXCEPT !.stage = "rb_writing", !.file = Nothing]
              ELSE NoJob
    /\ UNCHANGED <<plans, proposals, impls, tree, backups, edits, faults, calm>>

(* All files are back: proposals.json first, implementations.json second.  *)
FinishRollback ==
    \/ /\ job.stage = "rb_writing" /\ job.todo = {}
       /\ proposals' = [proposals EXCEPT ![impls[job.impl].proposal].applied = FALSE]
       /\ job' = [job EXCEPT !.stage = "rb_saving"]
       /\ UNCHANGED <<plans, impls, tree, backups, edits, faults, calm>>
    \/ /\ job.stage = "rb_saving"
       /\ impls' = [impls EXCEPT ![job.impl].status = "ROLLED_BACK"]
       /\ job' = NoJob
       /\ UNCHANGED <<plans, proposals, tree, backups, edits, faults, calm>>
-----------------------------------------------------------------------------
(* Faults and people                                                       *)

(* A file cannot be read to be compared, outside the try of an apply, or   *)
(* one of the two saves at the end fails: the request ends in an error.    *)
RequestFails ==
    /\ faults < MaxFaults
    /\ \/ job.stage \in {"checking", "rb_checking", "rb_verifying", "flagging", "rb_saving"}
       \/ job.stage \in {"copying", "rb_writing"} /\ job.todo = {}
    /\ job' = NoJob
    /\ faults' = faults + 1
    /\ UNCHANGED <<plans, proposals, impls, tree, backups, edits, calm>>

(* A backup cannot be written back, during an undo or a rollback:          *)
(* write_bytes has truncated the file, or not even opened it.              *)
RestoreFails ==
    /\ faults < MaxFaults
    /\ job.stage \in {"restoring", "rb_writing"}
    /\ \E f \in job.todo, left \in {TRUE, FALSE} :
          tree' = IF left THEN tree ELSE [tree EXCEPT ![f] = Torn]
    /\ job' = NoJob
    /\ faults' = faults + 1
    /\ calm' = FALSE
    /\ UNCHANGED <<plans, proposals, impls, backups, edits>>

(* The server stops: requests lose their locals, the disk keeps what was   *)
(* written, a file whose backup was being written back may be torn.        *)
Crash ==
    /\ faults < MaxFaults
    /\ \/ UNCHANGED tree
       \/ /\ job.stage \in {"restoring", "rb_writing"}
          /\ \E f \in job.todo : tree' = [tree EXCEPT ![f] = Torn]
    /\ job' = NoJob
    /\ proposals' = [p \in Proposals |->
           IF proposals[p].status = "drafting"
           THEN [proposals[p] EXCEPT !.status = "none", !.plan = Nothing, !.pre = NoImages]
           ELSE proposals[p]]
    /\ impls' = [i \in Implementations |->
           IF impls[i].status = "preparing" THEN [status |-> "none", proposal |-> Nothing]
           ELSE impls[i]]
    /\ faults' = faults + 1
    /\ calm' = FALSE
    /\ UNCHANGED <<plans, backups, edits>>

(* A person edits a source file, whatever request is running.              *)
Edit(f) ==
    /\ edits < MaxEdits
    /\ \E c \in Contents \ {tree[f]} : tree' = [tree EXCEPT ![f] = c]
    /\ edits' = edits + 1
    /\ calm' = (calm /\ Free)
    /\ UNCHANGED <<plans, proposals, impls, backups, job, faults>>

Next ==
    \/ \E q \in Plans : GeneratePlan(q) \/ ReviewPlan(q)
    \/ \E p \in Proposals : DraftProposal(p) \/ SaveProposal(p) \/ ReviewProposal(p)
    \/ \E i \in Implementations :
          \/ PrepareImplementation(i) \/ SaveImplementation(i)
          \/ StartApply(i) \/ AcceptImplementation(i) \/ StartRollback(i)
    \/ CheckPreimages \/ CopyFile \/ ReplaceFile \/ VerifyFile \/ RestoreFiles \/ FinishApply
    \/ CheckPostimages \/ PutBack \/ VerifyPutBack \/ FinishRollback
    \/ WriteFails \/ RequestFails \/ RestoreFails \/ Crash
    \/ \E f \in Files : Edit(f)

Spec == Init /\ [][Next]_vars
-----------------------------------------------------------------------------
TypeOK ==
    /\ plans \in [Plans -> PlanStatus]
    /\ proposals \in [Proposals -> ProposalRecord]
    /\ impls \in [Implementations -> [status : ImplementationStatus, proposal : Proposals \cup {Nothing}]]
    /\ tree \in [Files -> Snapshot]
    /\ backups \in [Implementations -> Images]
    /\ job \in Jobs
    /\ edits \in Nat
    /\ faults \in Nat
    /\ calm \in BOOLEAN

(* An implementation stands on two human decisions that nothing takes      *)
(* back: from the moment a request prepares it, its proposal is accepted   *)
(* and so is the plan behind it.                                           *)
(* (_generate_proposal, _prepare_implementation, _apply_implementation)    *)
HumanReleased ==
    \A i \in Implementations :
        impls[i].status # "none" =>
            LET p == proposals[impls[i].proposal]
            IN  p.status = "ACCEPTED" /\ plans[p.plan] = "ACCEPTED"

(* An apply that ends in an exception has put back every file but one at   *)
(* most: a file replaced whose check then failed, which keeps what the     *)
(* apply wrote.  Whichever file it failed at, no other is left changed,    *)
(* as long as nobody edited them while it ran.                             *)
(* (_apply_implementation, except)                                         *)
FailedApplyRestores ==
    [][ calm' /\ job.stage = "restoring" /\ job'.stage = "idle"
          => \A f \in Files :
                \/ tree'[f] = job.base[f]
                \/ f = job.file /\ tree'[f] = Current.post[f] ]_vars

(* An applied implementation has, for each of its files, the preimage in   *)
(* its backup, unless somebody edited while it was being applied: the      *)
(* rollback has something true to go back to.  (_apply_implementation)     *)
BackupIsPreimage ==
    calm => \A i \in Implementations :
        impls[i].status \in {"APPLIED_AWAITING_REVIEW", "ACCEPTED_IMPLEMENTATION", "ROLLED_BACK"} =>
            \A f \in Changed(impls[i].proposal) :
                backups[i][f] = proposals[impls[i].proposal].pre[f]

(* A rollback that is recorded has put every file back to its preimage,    *)
(* and one only starts to write over the postimages: what a person made of *)
(* a file after the apply and before the rollback is never overwritten.    *)
(* (_review_implementation)                                                *)
RollbackIsGuarded ==
    [][ /\ calm /\ job.stage = "rb_checking" /\ job'.stage = "rb_writing"
              => \A f \in Changed(impls[job.impl].proposal) : tree[f] = Current.post[f]
        /\ calm' /\ job.stage = "rb_saving" /\ job'.stage = "idle"
              => \A f \in Changed(impls[job.impl].proposal) : tree'[f] = Current.pre[f] ]_vars

(* A proposal is flagged as applied only while some implementation of it   *)
(* is applied or accepted, at every moment a crash could freeze: the two   *)
(* files are saved in that order.  (_apply_, _review_implementation)       *)
FlagNeverAhead ==
    \A p \in Proposals :
        proposals[p].applied =>
            \E i \in Implementations :
                /\ impls[i].proposal = p
                /\ impls[i].status \in {"APPLIED_AWAITING_REVIEW", "ACCEPTED_IMPLEMENTATION"}

(* Wave 5: "... with Backup and a Rollback governed by hashes."  A file    *)
(* that an apply has backed up and rewritten belongs, once no job runs, to *)
(* an implementation that is applied, which a human can roll back.         *)
(* (_apply_implementation, _review_implementation)                         *)
RewrittenCanBeRolledBack ==
    Free /\ edits = 0 =>
        \A i \in Implementations, f \in Files :
            /\ backups[i][f] \notin {Nothing, tree[f]}
            /\ tree[f] = proposals[impls[i].proposal].post[f]
            => \E j \in Implementations :
                  /\ impls[j].status \in {"APPLIED_AWAITING_REVIEW", "ACCEPTED_IMPLEMENTATION"}
                  /\ tree[f] = proposals[impls[j].proposal].post[f]
=============================================================================
