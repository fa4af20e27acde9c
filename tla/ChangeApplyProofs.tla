-------------------------- MODULE ChangeApplyProofs --------------------------
(***************************************************************************)
(* Safety of waves 3 to 6 for any plans, proposals, implementations,       *)
(* files, contents, edits and faults.                                      *)
(***************************************************************************)
EXTENDS ChangeApply, TLAPS

(* What the status of an implementation is while a job is about it.        *)
Applying == {"checking", "copying", "writing", "verifying", "restoring"}
After == {"flagging", "rb_checking", "rb_writing", "rb_verifying", "rb_flagging", "rb_saving"}

WithFile == {"writing", "verifying", "rb_verifying"}

AtHand == impls[job.impl].proposal

(* A proposal rests on an accepted plan, an implementation on an accepted  *)
(* proposal.                                                               *)
PlanInv ==
    \A p \in Proposals :
        proposals[p].status # "none" =>
            proposals[p].plan \in Plans /\ plans[proposals[p].plan] = "ACCEPTED"

ImplInv ==
    \A i \in Implementations :
        impls[i].status # "none" =>
            impls[i].proposal \in Proposals /\ proposals[impls[i].proposal].status = "ACCEPTED"

(* What a job holds is about the files of its implementation's proposal.   *)
JobInv ==
    \/ Free
    \/ /\ job.impl \in Implementations
       /\ \/ job.stage \in Applying /\ impls[job.impl].status = "APPROVED_FOR_APPLY"
          \/ job.stage \in After /\ impls[job.impl].status = "APPLIED_AWAITING_REVIEW"
       /\ job.todo \subseteq Changed(AtHand) /\ job.done \subseteq Changed(AtHand)
       /\ job.stage \in WithFile => job.file \in Changed(AtHand)

SafeInv == TypeOK /\ PlanInv /\ ImplInv /\ JobInv
-----------------------------------------------------------------------------
(* The requests before an apply touch no job and no source file, and only  *)
(* proposals and implementations that no job is about.                     *)
Planning(q) == GeneratePlan(q) \/ ReviewPlan(q)
Proposing(p) == DraftProposal(p) \/ SaveProposal(p) \/ ReviewProposal(p)
Preparing(i) == PrepareImplementation(i) \/ SaveImplementation(i)

LEMMA PlanningStep ==
    ASSUME SafeInv, NEW q \in Plans, Planning(q)
    PROVE  /\ UNCHANGED <<proposals, impls, tree, backups, job, edits, faults, calm>>
           /\ plans' \in [Plans -> PlanStatus]
           /\ \A r \in Plans : plans[r] = "ACCEPTED" => plans'[r] = "ACCEPTED"
  BY SMT DEF Planning, GeneratePlan, ReviewPlan, SafeInv, TypeOK, PlanStatus, Decided

LEMMA PlanningType ==
    ASSUME SafeInv, NEW q \in Plans, Planning(q)
    PROVE  SafeInv'
  <1>1. /\ UNCHANGED <<proposals, impls, tree, backups, job, edits, faults, calm>>
        /\ plans' \in [Plans -> PlanStatus]
        /\ \A r \in Plans : plans[r] = "ACCEPTED" => plans'[r] = "ACCEPTED"
    BY PlanningStep
  <1>2. TypeOK'
    BY <1>1 DEF SafeInv, TypeOK
  <1>3. PlanInv'
    BY <1>1 DEF SafeInv, PlanInv
  <1>4. ImplInv' /\ JobInv'
    BY <1>1 DEF SafeInv, ImplInv, JobInv, Free, AtHand, Changed
  <1> QED  BY <1>2, <1>3, <1>4 DEF SafeInv

(* Only a proposal that nobody has accepted changes.                       *)
LEMMA ProposingStep ==
    ASSUME SafeInv, NEW p \in Proposals, Proposing(p)
    PROVE  /\ UNCHANGED <<plans, impls, tree, backups, job, edits, faults, calm>>
           /\ proposals[p].status # "ACCEPTED"
           /\ proposals'[p].applied = proposals[p].applied
           /\ \A r \in Proposals \ {p} : proposals'[r] = proposals[r]
           /\ proposals' \in [Proposals -> ProposalRecord]
           /\ proposals'[p].plan \in Plans /\ plans[proposals'[p].plan] = "ACCEPTED"
  <1>1. CASE DraftProposal(p)
    <2> USE <1>1
    <2>1. PICK q \in Plans, targets \in SUBSET Files \ {{}} :
             /\ plans[q] = "ACCEPTED"
             /\ proposals' = [proposals EXCEPT ![p].status = "drafting", ![p].plan = q,
                    ![p].pre = [f \in Files |-> IF f \in targets THEN tree[f] ELSE Nothing]]
      BY DEF DraftProposal
    <2> DEFINE pre == [f \in Files |-> IF f \in targets THEN tree[f] ELSE Nothing]
    <2>2. pre \in Images
      BY DEF SafeInv, TypeOK, Images
    <2>3. proposals'[p] = [status |-> "drafting", plan |-> q, pre |-> pre,
                           post |-> proposals[p].post, applied |-> proposals[p].applied]
      BY <2>1, ZenonT(30) DEF SafeInv, TypeOK, ProposalRecord
    <2>4. proposals'[p] \in ProposalRecord
      BY <2>2, <2>3 DEF SafeInv, TypeOK, ProposalRecord, ProposalStatus
    <2> QED  BY <2>1, <2>3, <2>4 DEF DraftProposal, SafeInv, TypeOK
  <1>2. CASE SaveProposal(p)
    <2>1. PICK post \in [Files -> Contents \cup {Nothing}] :
             proposals' = [proposals EXCEPT ![p].status = "HUMAN_REVIEW", ![p].post = post]
      BY <1>2 DEF SaveProposal
    <2>2. post \in Images
      BY DEF Images, Snapshot
    <2>3. proposals'[p] = [status |-> "HUMAN_REVIEW", plan |-> proposals[p].plan,
                           pre |-> proposals[p].pre, post |-> post,
                           applied |-> proposals[p].applied]
      BY <2>1, ZenonT(30) DEF SafeInv, TypeOK, ProposalRecord
    <2>4. proposals'[p] \in ProposalRecord
      BY <2>2, <2>3 DEF SafeInv, TypeOK, ProposalRecord, ProposalStatus, PlanStatus
    <2>5. proposals[p].status = "drafting"
      BY <1>2 DEF SaveProposal
    <2> QED  BY <1>2, <2>1, <2>3, <2>4, <2>5 DEF SaveProposal, SafeInv, TypeOK, PlanInv
  <1>3. CASE ReviewProposal(p)
    <2>1. PICK decision \in Decided : proposals' = [proposals EXCEPT ![p].status = decision]
      BY <1>3 DEF ReviewProposal
    <2>2. proposals'[p] = [status |-> decision, plan |-> proposals[p].plan,
                           pre |-> proposals[p].pre, post |-> proposals[p].post,
                           applied |-> proposals[p].applied]
      BY <2>1 DEF SafeInv, TypeOK, ProposalRecord
    <2>3. proposals'[p] \in ProposalRecord
      BY <2>2 DEF SafeInv, TypeOK, ProposalRecord, ProposalStatus, PlanStatus, Decided
    <2>4. proposals[p].status = "HUMAN_REVIEW"
      BY <1>3 DEF ReviewProposal
    <2> QED  BY <1>3, <2>1, <2>2, <2>3, <2>4 DEF ReviewProposal, SafeInv, TypeOK, PlanInv
  <1> QED  BY <1>1, <1>2, <1>3 DEF Proposing

LEMMA ProposingType ==
    ASSUME SafeInv, NEW p \in Proposals, Proposing(p)
    PROVE  SafeInv'
  <1>1. TypeOK'
    BY ProposingStep DEF SafeInv, TypeOK
  <1>2. PlanInv'
    BY ProposingStep DEF SafeInv, PlanInv
  <1>3. ImplInv'
    BY ProposingStep DEF SafeInv, ImplInv
  <1>4. JobInv'
    <2>1. CASE Free
      BY <2>1, ProposingStep DEF JobInv, Free
    <2>2. CASE ~Free
      <3>1. AtHand \in Proposals /\ AtHand # p /\ AtHand' = AtHand
        BY <2>2, ProposingStep DEF SafeInv, JobInv, ImplInv, AtHand
      <3>2. Changed(AtHand)' = Changed(AtHand)
        BY <3>1, ProposingStep DEF Changed
      <3> QED  BY <2>2, <3>2, ProposingStep DEF SafeInv, JobInv, Free
    <2> QED  BY <2>1, <2>2
  <1> QED  BY <1>1, <1>2, <1>3, <1>4 DEF SafeInv

(* Only an implementation that is not on disk changes.                     *)
LEMMA PreparingStep ==
    ASSUME SafeInv, NEW i \in Implementations, Preparing(i)
    PROVE  /\ UNCHANGED <<plans, proposals, tree, backups, job, edits, faults, calm>>
           /\ impls[i].status \in {"none", "preparing"}
           /\ impls'[i].status \in {"preparing", "APPROVED_FOR_APPLY"}
           /\ \A k \in Implementations \ {i} : impls'[k] = impls[k]
           /\ impls' \in [Implementations ->
                             [status : ImplementationStatus, proposal : Proposals \cup {Nothing}]]
           /\ impls'[i].proposal \in Proposals
           /\ proposals[impls'[i].proposal].status = "ACCEPTED"
  <1>1. CASE PrepareImplementation(i)
    BY <1>1, SMT DEF PrepareImplementation, SafeInv, TypeOK, ImplementationStatus
  <1>2. CASE SaveImplementation(i)
    <2>1. impls'[i] = [status |-> "APPROVED_FOR_APPLY", proposal |-> impls[i].proposal]
      BY <1>2 DEF SaveImplementation, SafeInv, TypeOK
    <2> QED  BY <1>2, <2>1 DEF SaveImplementation, SafeInv, TypeOK, ImplInv, ImplementationStatus
  <1> QED  BY <1>1, <1>2 DEF Preparing

LEMMA PreparingType ==
    ASSUME SafeInv, NEW i \in Implementations, Preparing(i)
    PROVE  SafeInv'
  <1>1. TypeOK'
    BY PreparingStep DEF SafeInv, TypeOK
  <1>2. PlanInv'
    BY PreparingStep DEF SafeInv, PlanInv
  <1>3. ImplInv'
    BY PreparingStep DEF SafeInv, ImplInv
  <1>4. JobInv'
    <2>1. CASE Free
      BY <2>1, PreparingStep DEF JobInv, Free
    <2>2. CASE ~Free
      <3>1. job.impl \in Implementations \ {i}
        BY <2>2, PreparingStep DEF SafeInv, JobInv
      <3>2. AtHand' = AtHand /\ Changed(AtHand)' = Changed(AtHand)
        BY <3>1, PreparingStep DEF AtHand, Changed
      <3> QED  BY <2>2, <3>1, <3>2, PreparingStep DEF SafeInv, JobInv, Free
    <2> QED  BY <2>1, <2>2
  <1> QED  BY <1>1, <1>2, <1>3, <1>4 DEF SafeInv
-----------------------------------------------------------------------------
(* The apply and the rollback                                              *)

LEMMA StageFacts ==
    /\ Applying \cup After \subseteq Stages /\ "idle" \notin Applying \cup After
    /\ Applying \cap After = {} /\ WithFile \subseteq Stages
  BY DEF Applying, After, WithFile, Stages

LEMMA JobFacts ==
    ASSUME SafeInv, ~Free
    PROVE  /\ job.impl \in Implementations /\ AtHand \in Proposals
           /\ proposals[AtHand].status = "ACCEPTED" /\ Current = proposals[AtHand]
           /\ Changed(AtHand) \subseteq Files
           /\ impls[job.impl].status \in {"APPROVED_FOR_APPLY", "APPLIED_AWAITING_REVIEW"}
           /\ Current.pre \in Images /\ Current.post \in Images
           /\ \A f \in Changed(AtHand) : Current.post[f] \in Snapshot
  <1>1. /\ job.impl \in Implementations
        /\ impls[job.impl].status \in {"APPROVED_FOR_APPLY", "APPLIED_AWAITING_REVIEW"}
    BY DEF SafeInv, JobInv
  <1>2. AtHand \in Proposals /\ proposals[AtHand].status = "ACCEPTED"
    BY <1>1 DEF SafeInv, ImplInv, AtHand
  <1>3. Current = proposals[AtHand]
    BY DEF Current, AtHand
  <1>4. Current.pre \in Images /\ Current.post \in Images
    BY <1>2, <1>3 DEF SafeInv, TypeOK, ProposalRecord
  <1>5. Changed(AtHand) \subseteq Files
    BY DEF Changed
  <1>6. \A f \in Changed(AtHand) : Current.post[f] \in Snapshot
    BY <1>3, <1>4 DEF Changed, Images
  <1> QED  BY <1>1, <1>2, <1>3, <1>4, <1>5, <1>6

(* The job goes on, and neither proposals nor implementations change.      *)
LEMMA JobStepType ==
    ASSUME SafeInv, UNCHANGED <<plans, proposals, impls>>,
           tree' \in [Files -> Snapshot], backups' \in [Implementations -> Images],
           edits' \in Nat, faults' \in Nat, calm' \in BOOLEAN,
           job' \in Jobs,
           \/ job'.stage = "idle"
           \/ /\ ~Free /\ job'.impl = job.impl
              /\ job.stage \in Applying => job'.stage \in Applying
              /\ job.stage \in After => job'.stage \in After
              /\ job'.todo \subseteq Changed(AtHand) /\ job'.done \subseteq Changed(AtHand)
              /\ job'.stage \in WithFile => job'.file \in Changed(AtHand)
    PROVE  SafeInv'
  <1>1. TypeOK'
    BY DEF SafeInv, TypeOK
  <1>2. PlanInv' /\ ImplInv'
    BY DEF SafeInv, PlanInv, ImplInv
  <1>3. JobInv'
    <2>1. CASE job'.stage = "idle"
      BY <2>1 DEF JobInv, Free
    <2>2. CASE job'.stage # "idle"
      <3>1. AtHand' = AtHand /\ Changed(AtHand)' = Changed(AtHand)
        BY <2>2 DEF AtHand, Changed
      <3> QED  BY <2>2, <3>1 DEF SafeInv, JobInv, Free
    <2> QED  BY <2>1, <2>2
  <1> QED  BY <1>1, <1>2, <1>3 DEF SafeInv

LEMMA NoJobType == NoJob \in Jobs /\ NoJob.stage = "idle"
  BY DEF NoJob, Jobs, NoImages, Images, Stages

LEMMA StartType ==
    ASSUME SafeInv, NEW i \in Implementations, StartApply(i) \/ StartRollback(i)
    PROVE  SafeInv'
  <1> DEFINE p == impls[i].proposal
  <1>1. /\ UNCHANGED <<plans, proposals, impls, tree, backups, edits, faults, calm>>
        /\ impls[i].status \in {"APPROVED_FOR_APPLY", "APPLIED_AWAITING_REVIEW"}
        /\ p \in Proposals
    BY DEF StartApply, StartRollback, SafeInv, ImplInv
  <1>2. /\ job'.impl = i /\ job'.todo = Changed(p) /\ job'.done = {}
        /\ \/ job'.stage = "checking" /\ impls[i].status = "APPROVED_FOR_APPLY"
           \/ job'.stage = "rb_checking" /\ impls[i].status = "APPLIED_AWAITING_REVIEW"
        /\ job' \in Jobs
    BY DEF StartApply, StartRollback, Begin, Jobs, Stages, SafeInv, TypeOK, Images, Changed
  <1>3. TypeOK'
    BY <1>1, <1>2 DEF SafeInv, TypeOK
  <1>4. PlanInv' /\ ImplInv'
    BY <1>1 DEF SafeInv, PlanInv, ImplInv
  <1>5. JobInv'
    BY <1>1, <1>2 DEF JobInv, AtHand, Changed, Applying, After, WithFile
  <1> QED  BY <1>3, <1>4, <1>5 DEF SafeInv

(* The job, gone on.                                                       *)
At(stage, file, todo, done) ==
    [stage |-> stage, impl |-> job.impl, file |-> file, todo |-> todo, done |-> done,
     base |-> job.base]

LEMMA AtFields ==
    ASSUME NEW stage, NEW file, NEW todo, NEW done
    PROVE  /\ At(stage, file, todo, done).stage = stage
           /\ At(stage, file, todo, done).impl = job.impl
           /\ At(stage, file, todo, done).file = file
           /\ At(stage, file, todo, done).todo = todo
           /\ At(stage, file, todo, done).done = done
           /\ At(stage, file, todo, done).base = job.base
           /\ job \in Jobs /\ stage \in Stages /\ file \in Files \cup {Nothing}
                 /\ todo \subseteq Files /\ done \subseteq Files
              => At(stage, file, todo, done) \in Jobs
  <1>1. job \in Jobs => job.impl \in Implementations \cup {Nothing} /\ job.base \in Images
    BY DEF Jobs
  <1> QED  BY <1>1 DEF At, Jobs

LEMMA AtExcept ==
    ASSUME job \in Jobs, NEW stage, NEW file, NEW todo, NEW done
    PROVE  /\ [job EXCEPT !.todo = todo] = At(job.stage, job.file, todo, job.done)
           /\ [job EXCEPT !.stage = stage] = At(stage, job.file, job.todo, job.done)
           /\ [job EXCEPT !.stage = stage, !.todo = todo] = At(stage, job.file, todo, job.done)
           /\ [job EXCEPT !.stage = stage, !.file = file, !.todo = todo]
                = At(stage, file, todo, job.done)
           /\ [job EXCEPT !.stage = stage, !.file = file]
                = At(stage, file, job.todo, job.done)
           /\ [job EXCEPT !.stage = stage, !.file = file, !.done = done]
                = At(stage, file, job.todo, done)
  <1>1. [job EXCEPT !.todo = todo] = At(job.stage, job.file, todo, job.done)
    BY DEF At, Jobs
  <1>2. [job EXCEPT !.stage = stage] = At(stage, job.file, job.todo, job.done)
    BY DEF At, Jobs
  <1> DEFINE staged == [job EXCEPT !.stage = stage]
  <1> DEFINE filed == [job EXCEPT !.stage = stage, !.file = file]
  <1>3. staged = At(stage, job.file, job.todo, job.done)
    BY <1>2
  <1> HIDE DEF staged, filed
  <1>4. /\ [staged EXCEPT !.todo = todo] = At(stage, job.file, todo, job.done)
        /\ [staged EXCEPT !.file = file] = At(stage, file, job.todo, job.done)
    BY <1>3 DEF At
  <1>5. filed = At(stage, file, job.todo, job.done)
    BY <1>4, Zenon DEF staged, filed
  <1>6. /\ [filed EXCEPT !.todo = todo] = At(stage, file, todo, job.done)
        /\ [filed EXCEPT !.done = done] = At(stage, file, job.todo, done)
    BY <1>5 DEF At
  <1>7. [job EXCEPT !.stage = stage, !.todo = todo] = At(stage, job.file, todo, job.done)
    BY <1>4, Zenon DEF staged
  <1>8. /\ [job EXCEPT !.stage = stage, !.file = file, !.todo = todo]
             = At(stage, file, todo, job.done)
        /\ [job EXCEPT !.stage = stage, !.file = file, !.done = done]
             = At(stage, file, job.todo, done)
    BY <1>6, Zenon DEF filed
  <1>9. [job EXCEPT !.stage = stage, !.file = file] = At(stage, file, job.todo, job.done)
    BY <1>5, Zenon DEF filed
  <1> QED  BY <1>1, <1>2, <1>7, <1>8, <1>9, Zenon

(* What each step does, in these terms.                                    *)

CheckedPre(f) ==
    f \in job.todo /\ tree[f] = Current.pre[f]
        /\ job' = At("checking", job.file, job.todo \ {f}, job.done)

LEMMA CheckPreimagesStep ==
    ASSUME job \in Jobs, CheckPreimages
    PROVE  /\ job.stage = "checking"
           /\ UNCHANGED <<plans, proposals, impls, tree, backups, edits, faults, calm>>
           /\ \/ job' = NoJob
              \/ job.todo = {} /\ job' = At("copying", job.file, Changed(AtHand), job.done)
              \/ \E f \in job.todo : CheckedPre(f)
  <1>1. CASE job.todo = {} /\ job' = [job EXCEPT !.stage = "copying",
                                                  !.todo = Changed(impls[job.impl].proposal)]
    BY <1>1, AtExcept DEF CheckPreimages, AtHand
  <1>2. CASE \E f \in job.todo : job' = IF tree[f] = Current.pre[f]
                                       THEN [job EXCEPT !.todo = @ \ {f}] ELSE NoJob
    <2>1. PICK f \in job.todo : job' = IF tree[f] = Current.pre[f]
                                       THEN [job EXCEPT !.todo = @ \ {f}] ELSE NoJob
      BY <1>2
    <2>2. [job EXCEPT !.todo = @ \ {f}] = At(job.stage, job.file, job.todo \ {f}, job.done)
      BY AtExcept
    <2> QED  BY <2>1, <2>2 DEF CheckPreimages, CheckedPre
  <1> QED  BY <1>1, <1>2 DEF CheckPreimages

CopiedFile(f) ==
    f \in job.todo /\ backups' = [backups EXCEPT ![job.impl][f] = tree[f]]
        /\ job' = At("writing", f, job.todo \ {f}, job.done)

LEMMA CopyFileStep ==
    ASSUME job \in Jobs, CopyFile
    PROVE  /\ job.stage = "copying"
           /\ UNCHANGED <<plans, proposals, impls, tree, edits, faults, calm>>
           /\ \E f \in job.todo : CopiedFile(f)
  <1>1. PICK f \in job.todo :
           /\ backups' = [backups EXCEPT ![job.impl][f] = tree[f]]
           /\ job' = [job EXCEPT !.stage = "writing", !.file = f, !.todo = @ \ {f}]
    BY DEF CopyFile
  <1>2. PICK todo : todo = job.todo \ {f}
    OBVIOUS
  <1>3. [job EXCEPT !.stage = "writing", !.file = f, !.todo = todo] = At("writing", f, todo, job.done)
    BY AtExcept, Zenon
  <1>4. job' = At("writing", f, job.todo \ {f}, job.done)
    BY <1>1, <1>2, <1>3, SMT
  <1> QED  BY <1>1, <1>4 DEF CopyFile, CopiedFile

LEMMA ReplaceFileStep ==
    ASSUME job \in Jobs, ReplaceFile
    PROVE  /\ job.stage = "writing"
           /\ UNCHANGED <<plans, proposals, impls, backups, edits, faults, calm>>
           /\ tree' = [tree EXCEPT ![job.file] = Current.post[job.file]]
           /\ job' = At("verifying", job.file, job.todo, job.done)
  BY AtExcept DEF ReplaceFile

LEMMA VerifyFileStep ==
    ASSUME job \in Jobs, VerifyFile
    PROVE  /\ job.stage = "verifying"
           /\ UNCHANGED <<plans, proposals, impls, tree, backups, edits, faults, calm>>
           /\ tree[job.file] = Current.post[job.file]
                => job' = At("copying", Nothing, job.todo, job.done \cup {job.file})
           /\ tree[job.file] # Current.post[job.file]
                => job' = At("restoring", job.file, job.done, job.done)
  <1> DEFINE filed == [job EXCEPT !.stage = "copying", !.file = Nothing]
  <1>1. filed = At("copying", Nothing, job.todo, job.done)
    BY AtExcept, Zenon
  <1> HIDE DEF filed
  <1>2. [filed EXCEPT !.done = job.done \cup {job.file}]
          = At("copying", Nothing, job.todo, job.done \cup {job.file})
    BY <1>1 DEF At
  <1>3. [job EXCEPT !.stage = "copying", !.file = Nothing, !.done = job.done \cup {job.file}]
          = At("copying", Nothing, job.todo, job.done \cup {job.file})
    BY <1>2, SMT DEF filed
  <1>4. [job EXCEPT !.stage = "restoring", !.file = job.file, !.todo = job.done]
          = At("restoring", job.file, job.done, job.done)
    BY AtExcept, Zenon
  <1> QED  BY <1>3, <1>4 DEF VerifyFile, Undo

LEMMA WriteFailsStep ==
    ASSUME job \in Jobs, WriteFails
    PROVE  /\ UNCHANGED <<plans, proposals, impls, tree, backups, edits, calm>>
           /\ faults' = faults + 1
           /\ \/ /\ job.stage \in {"copying", "writing"}
                 /\ job' = At("restoring", Nothing, job.done, job.done)
              \/ /\ job.stage = "verifying"
                 /\ job' = At("restoring", job.file, job.done, job.done)
  <1>1. ASSUME NEW left PROVE Undo(left) = At("restoring", left, job.done, job.done)
    BY AtExcept, Zenon DEF Undo
  <1> QED  BY <1>1 DEF WriteFails

LEMMA RequestFailsStep ==
    ASSUME RequestFails
    PROVE  /\ job.stage \in {"checking", "rb_checking", "rb_verifying", "flagging", "rb_saving",
                             "copying", "rb_writing"}
           /\ job' = NoJob /\ faults' = faults + 1
           /\ UNCHANGED <<plans, proposals, impls, tree, backups, edits, calm>>
  BY DEF RequestFails

RestoredFile(f) ==
    f \in job.todo
        /\ tree' = [tree EXCEPT ![f] = IF backups[job.impl][f] = Nothing THEN @
                                        ELSE backups[job.impl][f]]
        /\ job' = At("restoring", job.file, job.todo \ {f}, job.done)

LEMMA RestoreFilesStep ==
    ASSUME job \in Jobs, RestoreFiles
    PROVE  /\ job.stage = "restoring"
           /\ UNCHANGED <<plans, proposals, impls, backups, edits, faults, calm>>
           /\ \/ job.todo = {} /\ job' = NoJob /\ UNCHANGED tree
              \/ \E f \in job.todo : RestoredFile(f)
  BY SMT DEF RestoreFiles, RestoredFile, At, Jobs

CheckedPost(f) ==
    f \in job.todo /\ tree[f] = Current.post[f]
        /\ job' = At("rb_checking", job.file, job.todo \ {f}, job.done)

LEMMA CheckPostimagesStep ==
    ASSUME job \in Jobs, CheckPostimages
    PROVE  /\ job.stage = "rb_checking"
           /\ UNCHANGED <<plans, proposals, impls, tree, backups, edits, faults, calm>>
           /\ \/ job' = NoJob
              \/ job.todo = {} /\ job' = At("rb_writing", job.file, Changed(AtHand), job.done)
              \/ \E f \in job.todo : CheckedPost(f)
  <1>1. CASE job.todo = {} /\ job' = [job EXCEPT !.stage = "rb_writing",
                                                  !.todo = Changed(impls[job.impl].proposal)]
    BY <1>1, AtExcept DEF CheckPostimages, AtHand
  <1>2. CASE \E f \in job.todo : job' = IF tree[f] = Current.post[f]
                                       THEN [job EXCEPT !.todo = @ \ {f}] ELSE NoJob
    <2>1. PICK f \in job.todo : job' = IF tree[f] = Current.post[f]
                                       THEN [job EXCEPT !.todo = @ \ {f}] ELSE NoJob
      BY <1>2
    <2>2. [job EXCEPT !.todo = @ \ {f}] = At(job.stage, job.file, job.todo \ {f}, job.done)
      BY AtExcept
    <2> QED  BY <2>1, <2>2 DEF CheckPostimages, CheckedPost
  <1> QED  BY <1>1, <1>2 DEF CheckPostimages

WrittenBack(f) ==
    f \in job.todo /\ backups[job.impl][f] # Nothing
        /\ tree' = [tree EXCEPT ![f] = backups[job.impl][f]]
        /\ job' = At("rb_verifying", f, job.todo \ {f}, job.done)

LEMMA PutBackStep ==
    ASSUME job \in Jobs, PutBack
    PROVE  /\ job.stage = "rb_writing"
           /\ UNCHANGED <<plans, proposals, impls, backups, edits, faults, calm>>
           /\ \/ job' = NoJob /\ UNCHANGED tree
              \/ \E f \in job.todo : WrittenBack(f)
  <1>1. PICK f \in job.todo :
           IF backups[job.impl][f] = Nothing
           THEN job' = NoJob /\ UNCHANGED tree
           ELSE /\ tree' = [tree EXCEPT ![f] = backups[job.impl][f]]
                /\ job' = [job EXCEPT !.stage = "rb_verifying", !.file = f, !.todo = @ \ {f}]
    BY DEF PutBack
  <1>2. PICK todo : todo = job.todo \ {f}
    OBVIOUS
  <1>3. [job EXCEPT !.stage = "rb_verifying", !.file = f, !.todo = todo]
          = At("rb_verifying", f, todo, job.done)
    BY AtExcept, Zenon
  <1>4. [job EXCEPT !.stage = "rb_verifying", !.file = f, !.todo = @ \ {f}]
          = At("rb_verifying", f, job.todo \ {f}, job.done)
    BY <1>2, <1>3, SMT
  <1> QED  BY <1>1, <1>4 DEF PutBack, WrittenBack

LEMMA VerifyPutBackStep ==
    ASSUME job \in Jobs, VerifyPutBack
    PROVE  /\ job.stage = "rb_verifying"
           /\ UNCHANGED <<plans, proposals, impls, tree, backups, edits, faults, calm>>
           /\ \/ job' = NoJob
              \/ /\ tree[job.file] = Current.pre[job.file]
                 /\ job' = At("rb_writing", Nothing, job.todo, job.done)
  BY AtExcept DEF VerifyPutBack

LEMMA RestoreFailsStep ==
    ASSUME RestoreFails
    PROVE  /\ job.stage \in {"restoring", "rb_writing"} /\ job' = NoJob /\ ~calm'
           /\ UNCHANGED <<plans, proposals, impls, backups, edits>>
           /\ faults' = faults + 1
           /\ \E f \in job.todo : tree' \in {tree, [tree EXCEPT ![f] = Torn]}
  BY DEF RestoreFails

(* Every step of a job that leaves proposals and implementations alone.    *)
JobStep ==
    \/ CheckPreimages \/ CopyFile \/ ReplaceFile \/ VerifyFile \/ RestoreFiles \/ WriteFails
    \/ CheckPostimages \/ PutBack \/ VerifyPutBack \/ RequestFails \/ RestoreFails

LEMMA JobRunning ==
    ASSUME SafeInv, ~Free
    PROVE  /\ job \in Jobs /\ job.stage \in Stages
           /\ job.impl \in Implementations /\ AtHand \in Proposals
           /\ Changed(AtHand) \subseteq Files
           /\ job.todo \subseteq Changed(AtHand) /\ job.done \subseteq Changed(AtHand)
           /\ job.stage \in WithFile => job.file \in Changed(AtHand)
           /\ job.file \in Files \cup {Nothing}
           /\ \A f \in Changed(AtHand) : Current.post[f] \in Snapshot
           /\ tree \in [Files -> Snapshot] /\ backups \in [Implementations -> Images]
           /\ backups[job.impl] \in Images
           /\ edits \in Nat /\ faults \in Nat /\ faults + 1 \in Nat /\ calm \in BOOLEAN
  <1>1. job \in Jobs /\ tree \in [Files -> Snapshot] /\ backups \in [Implementations -> Images]
    BY DEF SafeInv, TypeOK
  <1>2. job.file \in Files \cup {Nothing} /\ job.stage \in Stages
    BY <1>1 DEF Jobs
  <1>3. /\ job.todo \subseteq Changed(AtHand) /\ job.done \subseteq Changed(AtHand)
        /\ job.stage \in WithFile => job.file \in Changed(AtHand)
    BY DEF SafeInv, JobInv
  <1>4. edits \in Nat /\ faults \in Nat /\ faults + 1 \in Nat /\ calm \in BOOLEAN
    BY DEF SafeInv, TypeOK
  <1> QED  BY <1>1, <1>2, <1>3, <1>4, JobFacts

LEMMA StepType ==
    ASSUME SafeInv, JobStep
    PROVE  SafeInv'
  <1> USE StageFacts, NoJobType, AtFields
  <1>1. job \in Jobs /\ Torn \in Snapshot
    BY DEF SafeInv, TypeOK, Snapshot
  <1>2. ~Free
    BY DEF JobStep, CheckPreimages, CopyFile, ReplaceFile, VerifyFile, RestoreFiles, WriteFails,
           CheckPostimages, PutBack, VerifyPutBack, RequestFails, RestoreFails, Free
  <1> USE <1>1, <1>2, JobRunning, JobStepType
  <1>3. CASE CheckPreimages
    <2> USE <1>3, CheckPreimagesStep
    <2>1. CASE job' = NoJob
      BY <2>1
    <2>2. CASE job' = At("copying", job.file, Changed(AtHand), job.done)
      BY <2>2 DEF Applying, After, WithFile, Stages
    <2>3. CASE \E f \in job.todo : CheckedPre(f)
      BY <2>3 DEF CheckedPre, Applying, After, WithFile, Stages
    <2> QED  BY <2>1, <2>2, <2>3
  <1>4. CASE CopyFile
    <2>1. PICK f \in job.todo : CopiedFile(f)
      BY <1>4, CopyFileStep
    <2>2. backups' \in [Implementations -> Images]
      BY <2>1 DEF CopiedFile, Images
    <2> QED  BY <1>4, <2>1, <2>2, CopyFileStep DEF CopiedFile, Applying, After, WithFile, Stages
  <1>5. CASE ReplaceFile
    BY <1>5, ReplaceFileStep DEF Applying, After, WithFile, Stages
  <1>6. CASE VerifyFile
    BY <1>6, VerifyFileStep DEF Applying, After, WithFile, Stages
  <1>7. CASE RestoreFiles
    <2> USE <1>7, RestoreFilesStep
    <2>1. CASE job' = NoJob /\ UNCHANGED tree
      BY <2>1
    <2>2. CASE \E f \in job.todo : RestoredFile(f)
      <3>1. PICK f \in job.todo : RestoredFile(f)
        BY <2>2
      <3>2. tree' \in [Files -> Snapshot]
        BY <3>1 DEF RestoredFile, Images
      <3> QED  BY <3>1, <3>2 DEF RestoredFile, Applying, After, WithFile, Stages
    <2> QED  BY <2>1, <2>2
  <1>8. CASE WriteFails
    <2> USE <1>8, WriteFailsStep
    <2>1. CASE job' = At("restoring", Nothing, job.done, job.done)
               /\ job.stage \in {"copying", "writing"}
      BY <2>1 DEF Applying, After, WithFile, Stages
    <2>2. CASE job' = At("restoring", job.file, job.done, job.done) /\ job.stage = "verifying"
      BY <2>2 DEF Applying, After, WithFile, Stages
    <2> QED  BY <2>1, <2>2
  <1>9. CASE CheckPostimages
    <2> USE <1>9, CheckPostimagesStep
    <2>1. CASE job' = NoJob
      BY <2>1
    <2>2. CASE job' = At("rb_writing", job.file, Changed(AtHand), job.done)
      BY <2>2 DEF Applying, After, WithFile, Stages
    <2>3. CASE \E f \in job.todo : CheckedPost(f)
      BY <2>3 DEF CheckedPost, Applying, After, WithFile, Stages
    <2> QED  BY <2>1, <2>2, <2>3
  <1>10. CASE PutBack
    <2> USE <1>10, PutBackStep
    <2>1. CASE job' = NoJob /\ UNCHANGED tree
      BY <2>1
    <2>2. CASE \E f \in job.todo : WrittenBack(f)
      <3>1. PICK f \in job.todo : WrittenBack(f)
        BY <2>2
      <3>2. tree' \in [Files -> Snapshot]
        BY <3>1 DEF WrittenBack, Images
      <3> QED  BY <3>1, <3>2 DEF WrittenBack, Applying, After, WithFile, Stages
    <2> QED  BY <2>1, <2>2
  <1>11. CASE VerifyPutBack
    BY <1>11, VerifyPutBackStep DEF Applying, After, WithFile, Stages
  <1>12. CASE RestoreFails
    <2>1. PICK f \in job.todo : tree' \in {tree, [tree EXCEPT ![f] = Torn]}
      BY <1>12, RestoreFailsStep
    <2>2. tree' \in [Files -> Snapshot]
      BY <2>1
    <2>3. calm' \in BOOLEAN
      BY <1>12 DEF RestoreFails
    <2> QED  BY <1>12, <2>2, <2>3, RestoreFailsStep
  <1>13. CASE RequestFails
    BY <1>13, RequestFailsStep
  <1> QED  BY <1>3, <1>4, <1>5, <1>6, <1>7, <1>8, <1>9, <1>10, <1>11, <1>12, <1>13 DEF JobStep

(* The saves of an apply and of a rollback: one implementation's status,   *)
(* or the flag of its proposal.                                            *)
Finish == FinishApply \/ FinishRollback

Flagged(flag) ==
    /\ proposals' = [proposals EXCEPT ![AtHand].applied = flag]
    /\ UNCHANGED <<plans, impls, tree, backups, edits, faults, calm>>

Saved(status) ==
    /\ impls' = [impls EXCEPT ![job.impl].status = status]
    /\ UNCHANGED <<plans, proposals, tree, backups, edits, faults, calm>>

LEMMA FinishStep ==
    ASSUME job \in Jobs, Finish
    PROVE  \/ /\ job.stage = "copying" /\ job.todo = {}
              /\ Saved("APPLIED_AWAITING_REVIEW")
              /\ job' = At("flagging", job.file, job.todo, job.done)
           \/ job.stage = "flagging" /\ Flagged(TRUE) /\ job' = NoJob
           \/ /\ job.stage = "rb_writing" /\ job.todo = {}
              /\ Flagged(FALSE) /\ job' = At("rb_saving", job.file, job.todo, job.done)
           \/ job.stage = "rb_saving" /\ Saved("ROLLED_BACK") /\ job' = NoJob
  <1>1. ASSUME NEW stage
        PROVE  [job EXCEPT !.stage = stage] = At(stage, job.file, job.todo, job.done)
    BY AtExcept, Zenon
  <1> QED  BY <1>1 DEF Finish, FinishApply, FinishRollback, Flagged, Saved, AtHand

LEMMA FlaggedStep ==
    ASSUME SafeInv, ~Free, NEW flag \in BOOLEAN, Flagged(flag)
    PROVE  /\ proposals' \in [Proposals -> ProposalRecord]
           /\ proposals'[AtHand].applied = flag
           /\ \A p \in Proposals \ {AtHand} : proposals'[p] = proposals[p]
           /\ \A p \in Proposals : /\ proposals'[p].status = proposals[p].status
                                   /\ proposals'[p].plan = proposals[p].plan
                                   /\ proposals'[p].pre = proposals[p].pre
                                   /\ proposals'[p].post = proposals[p].post
  <1>1. AtHand \in Proposals
    BY JobFacts
  <1> DEFINE r == proposals[AtHand]
  <1>2. proposals'[AtHand] = [status |-> r.status, plan |-> r.plan, pre |-> r.pre,
                              post |-> r.post, applied |-> flag]
    BY <1>1 DEF Flagged, SafeInv, TypeOK, ProposalRecord
  <1>3. proposals'[AtHand] \in ProposalRecord
    BY <1>1, <1>2 DEF SafeInv, TypeOK, ProposalRecord
  <1> QED  BY <1>1, <1>2, <1>3 DEF Flagged, SafeInv, TypeOK

LEMMA StatusStep ==
    ASSUME SafeInv, NEW i \in Implementations, NEW status \in ImplementationStatus,
           impls' = [impls EXCEPT ![i].status = status]
    PROVE  /\ impls' \in [Implementations ->
                             [status : ImplementationStatus, proposal : Proposals \cup {Nothing}]]
           /\ impls'[i].status = status
           /\ \A k \in Implementations \ {i} : impls'[k] = impls[k]
           /\ \A k \in Implementations : impls'[k].proposal = impls[k].proposal
  <1>1. impls'[i] = [status |-> status, proposal |-> impls[i].proposal]
    BY DEF SafeInv, TypeOK
  <1>2. impls'[i] \in [status : ImplementationStatus, proposal : Proposals \cup {Nothing}]
    BY <1>1 DEF SafeInv, TypeOK
  <1> QED  BY <1>1, <1>2 DEF SafeInv, TypeOK

LEMMA FinishType ==
    ASSUME SafeInv, Finish
    PROVE  SafeInv'
  <1> USE StageFacts, NoJobType, AtFields
  <1>1. job \in Jobs /\ ~Free
    BY DEF SafeInv, TypeOK, Finish, FinishApply, FinishRollback, Free
  <1>2. ASSUME NEW flag \in BOOLEAN, Flagged(flag),
               \/ job' = NoJob
               \/ job.stage = "rb_writing" /\ job' = At("rb_saving", job.file, job.todo, job.done)
        PROVE  SafeInv'
    <2> USE <1>1, <1>2, FlaggedStep, JobRunning
    <2>1. job' \in Jobs
      BY DEF Stages
    <2>2. TypeOK'
      BY <2>1 DEF SafeInv, TypeOK, Flagged
    <2>3. PlanInv' /\ ImplInv'
      BY DEF SafeInv, PlanInv, ImplInv, Flagged
    <2>4. JobInv'
      <3>1. CASE job' = NoJob
        BY <3>1 DEF JobInv, Free
      <3>2. CASE job.stage = "rb_writing" /\ job' = At("rb_saving", job.file, job.todo, job.done)
        <4>0. AtHand' = AtHand
          <5>1. job'.impl = job.impl
            BY <3>2
          <5> QED  BY <5>1 DEF AtHand, Flagged
        <4>1. Changed(AtHand)' = Changed(AtHand)
          BY <4>0 DEF Changed
        <4>2. job'.stage \in After /\ job'.stage \notin WithFile
          BY <3>2 DEF After, WithFile
        <4>3. job.stage \notin Applying
          BY <3>2 DEF Applying
        <4> QED  BY <3>2, <4>0, <4>1, <4>2, <4>3 DEF SafeInv, JobInv, Flagged
      <3> QED  BY <3>1, <3>2
    <2> QED  BY <2>2, <2>3, <2>4 DEF SafeInv
  <1>3. ASSUME NEW status \in ImplementationStatus \ {"none"}, Saved(status),
               \/ job' = NoJob
               \/ /\ job.stage = "copying" /\ status = "APPLIED_AWAITING_REVIEW"
                  /\ job' = At("flagging", job.file, job.todo, job.done)
        PROVE  SafeInv'
    <2> USE <1>1, <1>3, JobRunning
    <2>0. impls' = [impls EXCEPT ![job.impl].status = status]
      BY DEF Saved
    <2> USE <2>0, StatusStep
    <2>1. job' \in Jobs
      BY DEF Stages
    <2>2. TypeOK'
      BY <2>1 DEF SafeInv, TypeOK, Saved
    <2>3. PlanInv' /\ ImplInv'
      <3>1. impls[job.impl].status # "none"
        BY JobFacts
      <3> QED  BY <3>1 DEF SafeInv, PlanInv, ImplInv, Saved
    <2>4. JobInv'
      <3>1. CASE job' = NoJob
        BY <3>1 DEF JobInv, Free
      <3>2. CASE /\ job.stage = "copying" /\ status = "APPLIED_AWAITING_REVIEW"
                 /\ job' = At("flagging", job.file, job.todo, job.done)
        <4>0. job'.impl = job.impl /\ job'.todo = job.todo /\ job'.done = job.done
          BY <3>2
        <4>1. AtHand' = AtHand
          BY <4>0 DEF AtHand
        <4>2. Changed(AtHand)' = Changed(AtHand)
          BY <4>1 DEF Changed, Saved
        <4>3. job'.stage \in After /\ job'.stage \notin WithFile
          BY <3>2 DEF After, WithFile
        <4>4. impls'[job'.impl].status = "APPLIED_AWAITING_REVIEW"
          BY <3>2, <4>0
        <4> QED  BY <4>0, <4>1, <4>2, <4>3, <4>4 DEF JobInv
      <3> QED  BY <3>1, <3>2
    <2> QED  BY <2>2, <2>3, <2>4 DEF SafeInv
  <1> QED  BY <1>1, <1>2, <1>3, FinishStep DEF ImplementationStatus

LEMMA AcceptType ==
    ASSUME SafeInv, NEW i \in Implementations, AcceptImplementation(i)
    PROVE  SafeInv'
  <1>1. /\ impls' = [impls EXCEPT ![i].status = "ACCEPTED_IMPLEMENTATION"]
        /\ impls[i].status # "none" /\ Free
        /\ UNCHANGED <<plans, proposals, tree, backups, job, edits, faults, calm>>
    BY DEF AcceptImplementation
  <1> USE <1>1, StatusStep
  <1>2. "ACCEPTED_IMPLEMENTATION" \in ImplementationStatus
    BY DEF ImplementationStatus
  <1>3. TypeOK'
    BY <1>2 DEF SafeInv, TypeOK
  <1>4. PlanInv' /\ ImplInv' /\ JobInv'
    BY <1>2 DEF SafeInv, PlanInv, ImplInv, JobInv, Free
  <1> QED  BY <1>3, <1>4 DEF SafeInv

(* A crash drops what was not on disk; what was keeps everything.          *)
LEMMA CrashStep ==
    ASSUME SafeInv, Crash
    PROVE  /\ job' = NoJob /\ calm' = FALSE /\ faults' = faults + 1
           /\ UNCHANGED <<plans, backups, edits>>
           /\ tree' \in [Files -> Snapshot]
           /\ proposals' \in [Proposals -> ProposalRecord]
           /\ \A p \in Proposals :
                 /\ proposals'[p].applied = proposals[p].applied
                 /\ proposals'[p].status # "none" => proposals'[p] = proposals[p]
                 /\ proposals[p].status # "drafting" => proposals'[p] = proposals[p]
           /\ impls' \in [Implementations ->
                             [status : ImplementationStatus, proposal : Proposals \cup {Nothing}]]
           /\ \A i \in Implementations :
                 /\ impls'[i].status # "none" => impls'[i] = impls[i]
                 /\ impls[i].status # "preparing" => impls'[i] = impls[i]
  <1>1. tree' \in [Files -> Snapshot]
    BY DEF Crash, SafeInv, TypeOK, Snapshot
  <1>2. ASSUME NEW p \in Proposals
        PROVE  /\ proposals'[p].applied = proposals[p].applied
               /\ proposals'[p].status # "none" => proposals'[p] = proposals[p]
               /\ proposals[p].status # "drafting" => proposals'[p] = proposals[p]
               /\ proposals'[p] \in ProposalRecord
    <2> DEFINE r == proposals[p]
    <2>1. proposals'[p] = IF r.status = "drafting"
                          THEN [status |-> "none", plan |-> Nothing, pre |-> NoImages,
                                post |-> r.post, applied |-> r.applied]
                          ELSE r
      <3> DEFINE none == [r EXCEPT !.status = "none"]
      <3> DEFINE unplanned == [r EXCEPT !.status = "none", !.plan = Nothing]
      <3>1. r \in ProposalRecord
        BY DEF SafeInv, TypeOK
      <3>2. none = [status |-> "none", plan |-> r.plan, pre |-> r.pre,
                    post |-> r.post, applied |-> r.applied]
        BY <3>1 DEF ProposalRecord
      <3> HIDE DEF none
      <3>3. [none EXCEPT !.plan = Nothing] =
               [status |-> "none", plan |-> Nothing, pre |-> r.pre,
                post |-> r.post, applied |-> r.applied]
        BY <3>2
      <3>4. unplanned = [none EXCEPT !.plan = Nothing]
        BY Zenon DEF none
      <3>8. unplanned = [status |-> "none", plan |-> Nothing, pre |-> r.pre,
                         post |-> r.post, applied |-> r.applied]
        BY <3>3, <3>4, Zenon
      <3> HIDE DEF unplanned
      <3>5. [unplanned EXCEPT !.pre = NoImages] =
               [status |-> "none", plan |-> Nothing, pre |-> NoImages,
                post |-> r.post, applied |-> r.applied]
        BY <3>8
      <3>6. [r EXCEPT !.status = "none", !.plan = Nothing, !.pre = NoImages]
               = [unplanned EXCEPT !.pre = NoImages]
        BY Zenon DEF unplanned
      <3>7. proposals'[p] = IF r.status = "drafting" THEN [unplanned EXCEPT !.pre = NoImages]
                            ELSE r
        BY <3>6 DEF Crash
      <3> QED  BY <3>5, <3>7
    <2>2. NoImages \in Images
      BY DEF NoImages, Images
    <2> QED  BY <2>1, <2>2 DEF SafeInv, TypeOK, ProposalRecord, ProposalStatus, PlanStatus
  <1>3. ASSUME NEW i \in Implementations
        PROVE  /\ impls'[i].status # "none" => impls'[i] = impls[i]
               /\ impls[i].status # "preparing" => impls'[i] = impls[i]
               /\ impls'[i] \in [status : ImplementationStatus, proposal : Proposals \cup {Nothing}]
    BY DEF Crash, SafeInv, TypeOK, ImplementationStatus
  <1> QED  BY <1>1, <1>2, <1>3 DEF Crash

LEMMA CrashType ==
    ASSUME SafeInv, Crash
    PROVE  SafeInv'
  <1>1. /\ job' = NoJob /\ calm' = FALSE /\ faults' = faults + 1
        /\ UNCHANGED <<plans, backups, edits>>
        /\ tree' \in [Files -> Snapshot]
        /\ proposals' \in [Proposals -> ProposalRecord]
        /\ impls' \in [Implementations ->
                          [status : ImplementationStatus, proposal : Proposals \cup {Nothing}]]
    BY CrashStep
  <1>2. \A p \in Proposals :
           /\ proposals'[p].status # "none" => proposals'[p] = proposals[p]
           /\ proposals[p].status # "drafting" => proposals'[p] = proposals[p]
    BY CrashStep
  <1>3. \A i \in Implementations : impls'[i].status # "none" => impls'[i] = impls[i]
    BY CrashStep
  <1>4. TypeOK'
    <2>1. faults + 1 \in Nat
      BY DEF SafeInv, TypeOK
    <2>2. faults' \in Nat
      BY <1>1, <2>1
    <2>3. job' \in Jobs
      BY <1>1, NoJobType
    <2> QED  BY <1>1, <2>2, <2>3 DEF SafeInv, TypeOK
  <1>5. PlanInv'
    BY <1>1, <1>2 DEF SafeInv, PlanInv
  <1>6. ImplInv'
    BY <1>2, <1>3 DEF SafeInv, ImplInv
  <1>7. JobInv'
    BY <1>1, NoJobType DEF JobInv, Free
  <1> QED  BY <1>4, <1>5, <1>6, <1>7 DEF SafeInv

LEMMA EditStep ==
    ASSUME SafeInv, NEW f \in Files, Edit(f)
    PROVE  /\ UNCHANGED <<plans, proposals, impls, backups, job, faults>>
           /\ tree' \in [Files -> Snapshot]
           /\ calm' = (calm /\ Free)
           /\ edits' \in Nat
  BY DEF Edit, SafeInv, TypeOK, Snapshot

LEMMA EditType ==
    ASSUME SafeInv, NEW f \in Files, Edit(f)
    PROVE  SafeInv'
  <1> USE EditStep
  <1>1. TypeOK'
    BY DEF SafeInv, TypeOK, Free
  <1>2. PlanInv' /\ ImplInv' /\ JobInv'
    BY DEF SafeInv, PlanInv, ImplInv, JobInv, AtHand, Changed, Free
  <1> QED  BY <1>1, <1>2 DEF SafeInv
-----------------------------------------------------------------------------
LEMMA SafeInit == Init => SafeInv
  <1> SUFFICES ASSUME Init PROVE SafeInv
    OBVIOUS
  <1>1. plans \in [Plans -> PlanStatus]
    BY DEF Init, PlanStatus
  <1>2. proposals \in [Proposals -> ProposalRecord]
    BY DEF Init, ProposalRecord, ProposalStatus, PlanStatus, NoImages, Images
  <1>3. impls \in [Implementations ->
                      [status : ImplementationStatus, proposal : Proposals \cup {Nothing}]]
    BY DEF Init, ImplementationStatus
  <1>4. tree \in [Files -> Snapshot]
    BY DEF Init, Snapshot
  <1>5. backups \in [Implementations -> Images]
    BY DEF Init, NoImages, Images
  <1>6. job \in Jobs /\ job.stage = "idle"
    BY NoJobType DEF Init
  <1>7. edits \in Nat /\ faults \in Nat /\ calm \in BOOLEAN
    BY DEF Init
  <1>8. PlanInv /\ ImplInv
    BY DEF Init, PlanInv, ImplInv
  <1> QED  BY <1>1, <1>2, <1>3, <1>4, <1>5, <1>6, <1>7, <1>8 DEF SafeInv, TypeOK, JobInv, Free

(* Next, by kind of step.                                                  *)
LEMMA NextCases ==
    ASSUME Next
    PROVE  \/ \E q \in Plans : Planning(q)
           \/ \E p \in Proposals : Proposing(p)
           \/ \E i \in Implementations : Preparing(i)
           \/ \E i \in Implementations : StartApply(i) \/ StartRollback(i)
           \/ \E i \in Implementations : AcceptImplementation(i)
           \/ JobStep \/ Finish \/ Crash
           \/ \E f \in Files : Edit(f)
  BY DEF Next, Planning, Proposing, Preparing, JobStep, Finish

LEMMA SafeStep == SafeInv /\ [Next]_vars => SafeInv'
  <1> SUFFICES ASSUME SafeInv, [Next]_vars PROVE SafeInv'
    OBVIOUS
  <1>1. CASE Next
    BY <1>1, NextCases, PlanningType, ProposingType, PreparingType, StartType, AcceptType,
       StepType, FinishType, CrashType, EditType
  <1>2. CASE UNCHANGED vars
    BY <1>2 DEF vars, SafeInv, TypeOK, PlanInv, ImplInv, JobInv, Free, AtHand, Changed
  <1> QED  BY <1>1, <1>2

LEMMA Safe == Spec => []SafeInv
  BY SafeInit, SafeStep, PTL DEF Spec

(* Every file and the locals of the job have their schema, at every        *)
(* moment a crash could freeze.                                            *)
THEOREM TypeCorrect == Spec => []TypeOK
  <1>1. SafeInv => TypeOK
    BY DEF SafeInv
  <1> QED  BY <1>1, Safe, PTL

(* No implementation exists whose proposal, and the plan behind it, were   *)
(* not accepted by a person, whatever overlaps and crashes.                *)
(* (_generate_proposal, _prepare_implementation, _apply_implementation)    *)
THEOREM ReleasedByHumans == Spec => []HumanReleased
  <1>1. SafeInv => HumanReleased
    BY DEF SafeInv, PlanInv, ImplInv, HumanReleased
  <1> QED  BY <1>1, Safe, PTL
-----------------------------------------------------------------------------
(* The flag of a proposal                                                  *)

(* The flag is taken back before the implementation is.                    *)
FlagInv == FlagNeverAhead /\ (job.stage = "rb_saving" => ~Current.applied)

LEMMA FlagInit == Init => FlagInv
  BY DEF Init, FlagInv, FlagNeverAhead, NoJob

(* No proposal is flagged, no applied implementation is dropped and the    *)
(* job is not at the end of a rollback.                                    *)
LEMMA FlagKept ==
    ASSUME FlagNeverAhead,
           \A p \in Proposals : proposals'[p].applied => proposals[p].applied,
           \A i \in Implementations :
               impls[i].status \in {"APPLIED_AWAITING_REVIEW", "ACCEPTED_IMPLEMENTATION"} =>
                   /\ impls'[i].proposal = impls[i].proposal
                   /\ impls'[i].status \in {"APPLIED_AWAITING_REVIEW", "ACCEPTED_IMPLEMENTATION"}
    PROVE  FlagNeverAhead'
  BY DEF FlagNeverAhead

LEMMA JobStepStage ==
    ASSUME job \in Jobs, JobStep
    PROVE  job'.stage # "rb_saving" /\ UNCHANGED <<plans, proposals, impls>>
  <1>1. NoJob.stage # "rb_saving"
    BY DEF NoJob
  <1> USE <1>1
  <1>2. CASE CheckPreimages
    BY <1>2, CheckPreimagesStep DEF CheckedPre, At
  <1>3. CASE CopyFile
    <2>1. \E f \in job.todo : job' = At("writing", f, job.todo \ {f}, job.done)
      BY <1>3, CopyFileStep DEF CopiedFile
    <2> QED  BY <1>3, <2>1, CopyFileStep, AtFields
  <1>4. CASE ReplaceFile
    BY <1>4, ReplaceFileStep DEF At
  <1>5. CASE VerifyFile
    BY <1>5, VerifyFileStep DEF At
  <1>6. CASE RestoreFiles
    BY <1>6, RestoreFilesStep DEF RestoredFile, At
  <1>7. CASE WriteFails
    BY <1>7, WriteFailsStep DEF At
  <1>8. CASE CheckPostimages
    BY <1>8, CheckPostimagesStep DEF CheckedPost, At
  <1>9. CASE PutBack
    BY <1>9, PutBackStep DEF WrittenBack, At
  <1>10. CASE VerifyPutBack
    BY <1>10, VerifyPutBackStep DEF At
  <1>11. CASE RestoreFails
    BY <1>11, RestoreFailsStep DEF At
  <1>12. CASE RequestFails
    BY <1>12, RequestFailsStep
  <1> QED  BY <1>2, <1>3, <1>4, <1>5, <1>6, <1>7, <1>8, <1>9, <1>10, <1>11, <1>12 DEF JobStep

LEMMA FlagFinish ==
    ASSUME SafeInv, FlagInv, Finish
    PROVE  FlagInv'
  <1>1. job \in Jobs /\ ~Free
    BY DEF SafeInv, TypeOK, Finish, FinishApply, FinishRollback, Free
  <1>2. job.impl \in Implementations /\ AtHand \in Proposals /\ Current = proposals[AtHand]
    BY <1>1, JobFacts
  <1>3. NoJob.stage # "rb_saving"
    BY DEF NoJob
  <1>4. CASE /\ job.stage = "copying" /\ Saved("APPLIED_AWAITING_REVIEW")
             /\ job' = At("flagging", job.file, job.todo, job.done)
    <2>1. job'.stage # "rb_saving"
      BY <1>4, AtFields
    <2>2. "APPLIED_AWAITING_REVIEW" \in ImplementationStatus
      BY DEF ImplementationStatus
    <2>3. FlagNeverAhead'
      BY <1>2, <1>4, <2>2, StatusStep, FlagKept DEF Saved, FlagInv
    <2> QED  BY <2>1, <2>3 DEF FlagInv
  <1>5. CASE job.stage = "flagging" /\ Flagged(TRUE) /\ job' = NoJob
    <2>1. impls[job.impl].status = "APPLIED_AWAITING_REVIEW"
      BY <1>1, <1>5 DEF SafeInv, JobInv, Applying, Free
    <2>2. \A p \in Proposals \ {AtHand} : proposals'[p] = proposals[p]
      BY <1>1, <1>5, FlaggedStep
    <2>3. FlagNeverAhead'
      BY <1>2, <1>5, <2>1, <2>2 DEF Flagged, FlagInv, FlagNeverAhead, AtHand
    <2> QED  BY <1>3, <1>5, <2>3 DEF FlagInv
  <1>6. CASE /\ job.stage = "rb_writing" /\ Flagged(FALSE)
             /\ job' = At("rb_saving", job.file, job.todo, job.done)
    <2>1. ~proposals'[AtHand].applied
          /\ \A p \in Proposals \ {AtHand} : proposals'[p] = proposals[p]
      BY <1>1, <1>6, FlaggedStep
    <2>2. FlagNeverAhead'
      BY <1>6, <2>1, FlagKept DEF Flagged, FlagInv
    <2>3. job'.impl = job.impl
      BY <1>6, AtFields
    <2>4. Current' = proposals'[AtHand]
      BY <1>6, <2>3 DEF Current, AtHand, Flagged
    <2> QED  BY <2>1, <2>2, <2>4 DEF FlagInv
  <1>7. CASE job.stage = "rb_saving" /\ Saved("ROLLED_BACK") /\ job' = NoJob
    <2>1. "ROLLED_BACK" \in ImplementationStatus
      BY DEF ImplementationStatus
    <2>2. \A k \in Implementations \ {job.impl} : impls'[k] = impls[k]
      BY <1>2, <1>7, <2>1, StatusStep DEF Saved
    <2>3. ~proposals[AtHand].applied
      BY <1>2, <1>7 DEF FlagInv
    <2>4. FlagNeverAhead'
      BY <1>7, <2>2, <2>3 DEF Saved, FlagInv, FlagNeverAhead, AtHand
    <2> QED  BY <1>3, <1>7, <2>4 DEF FlagInv
  <1> QED  BY <1>1, <1>4, <1>5, <1>6, <1>7, FinishStep

LEMMA FlagStep == SafeInv /\ FlagInv /\ [Next]_vars => FlagInv'
  <1> SUFFICES ASSUME SafeInv, FlagInv, [Next]_vars PROVE FlagInv'
    OBVIOUS
  <1>0. FlagNeverAhead /\ job \in Jobs
    BY DEF FlagInv, SafeInv, TypeOK
  <1>1. ASSUME NEW q \in Plans, Planning(q) PROVE FlagInv'
    <2>1. UNCHANGED <<proposals, impls, job>>
      BY <1>1 DEF Planning, GeneratePlan, ReviewPlan
    <2> QED  BY <2>1 DEF FlagInv, FlagNeverAhead, Current
  <1>2. ASSUME NEW p \in Proposals, Proposing(p) PROVE FlagInv'
    <2>1. FlagNeverAhead'
      BY <1>0, <1>2, ProposingStep, FlagKept
    <2>2. job.stage = "rb_saving" => Current' = Current
      BY <1>2, ProposingStep, JobFacts DEF Current, AtHand, Free
    <2> QED  BY <1>2, <2>1, <2>2, ProposingStep DEF FlagInv
  <1>3. ASSUME NEW i \in Implementations, Preparing(i) PROVE FlagInv'
    <2>1. FlagNeverAhead'
      BY <1>0, <1>3, PreparingStep, FlagKept
    <2>2. job.stage = "rb_saving" => Current' = Current
      BY <1>3, PreparingStep, JobFacts DEF Current, Free
    <2> QED  BY <1>3, <2>1, <2>2, PreparingStep DEF FlagInv
  <1>4. ASSUME NEW i \in Implementations, StartApply(i) \/ StartRollback(i) PROVE FlagInv'
    BY <1>0, <1>4 DEF StartApply, StartRollback, Begin, FlagInv, FlagNeverAhead
  <1>5. ASSUME NEW i \in Implementations, AcceptImplementation(i) PROVE FlagInv'
    <2>1. "ACCEPTED_IMPLEMENTATION" \in ImplementationStatus
      BY DEF ImplementationStatus
    <2>2. FlagNeverAhead'
      BY <1>0, <1>5, <2>1, StatusStep, FlagKept DEF AcceptImplementation
    <2> QED  BY <1>5, <2>2 DEF AcceptImplementation, Free, FlagInv
  <1>6. CASE JobStep
    BY <1>0, <1>6, JobStepStage DEF FlagInv, FlagNeverAhead
  <1>7. CASE Finish
    BY <1>7, FlagFinish
  <1>8. CASE Crash
    <2>1. FlagNeverAhead'
      BY <1>0, <1>8, CrashStep, FlagKept
    <2> QED  BY <1>8, <2>1, CrashStep DEF FlagInv, NoJob
  <1>9. ASSUME NEW f \in Files, Edit(f) PROVE FlagInv'
    BY <1>9 DEF Edit, FlagInv, FlagNeverAhead, Current
  <1>10. CASE UNCHANGED vars
    BY <1>10 DEF vars, FlagInv, FlagNeverAhead, Current
  <1> QED  BY <1>1, <1>2, <1>3, <1>4, <1>5, <1>6, <1>7, <1>8, <1>9, <1>10, NextCases

(* The flag of a proposal is never ahead of the implementation it is       *)
(* about, at any moment a crash could freeze.                              *)
THEOREM FlagFollows == Spec => []FlagNeverAhead
  <1>1. FlagInv => FlagNeverAhead
    BY DEF FlagInv
  <1> QED  BY <1>1, Safe, FlagInit, FlagStep, PTL DEF Spec
-----------------------------------------------------------------------------
(* What an apply and a rollback have brought about, step by step, while    *)
(* nothing but them touched the files.                                     *)

(* The file at hand, while there is one.                                   *)
Busy == IF job.stage \in WithFile THEN {job.file} ELSE {}

Untouched(S) == \A f \in S : tree[f] = job.base[f]
BackedUp(S) == \A f \in S : backups[job.impl][f] = Current.pre[f]
AtPreimage(S) == \A f \in S : tree[f] = Current.pre[f]
AtPostimage(S) == \A f \in S : tree[f] = Current.post[f]

(* Files are compared, backed up and rewritten one by one; those not done  *)
(* are as the apply found them, and the apply found preimages.             *)
CheckingInv ==
    job.stage = "checking" =>
        Untouched(Files) /\ AtPreimage(Changed(AtHand) \ job.todo) /\ job.done = {}

ApplyingInv ==
    job.stage \in {"copying", "writing", "verifying"} =>
        /\ \A f \in Changed(AtHand) : job.base[f] = Current.pre[f]
        /\ Changed(AtHand) \subseteq job.todo \cup job.done \cup Busy
        /\ job.todo \cap (job.done \cup Busy) = {}
        /\ Untouched(Files \ (job.done \cup (IF job.stage = "verifying" THEN Busy ELSE {})))
        /\ BackedUp(job.done \cup Busy)
        /\ job.stage = "verifying" => AtPostimage(Busy)

(* Only the files still to be restored differ from what the apply found,   *)
(* and their backups hold that; and the one replaced and not verified.     *)
AsLeft(S) ==
    \A f \in S : tree[f] = job.base[f] \/ (f = job.file /\ tree[f] = Current.post[f])

RestoringInv ==
    job.stage = "restoring" =>
        /\ AsLeft(Files \ job.todo)
        /\ \A f \in job.todo : backups[job.impl][f] = job.base[f]

RollbackInv ==
    /\ job.stage = "rb_checking" => AtPostimage(Changed(AtHand) \ job.todo)
    /\ job.stage \in {"rb_writing", "rb_verifying"} =>
           AtPreimage(Changed(AtHand) \ (job.todo \cup Busy))
    /\ job.stage = "rb_saving" => AtPreimage(Changed(AtHand))

Progress == CheckingInv /\ ApplyingInv /\ RestoringInv /\ RollbackInv

(* A job starts from a tree in which every file is there.                  *)
BaseInv == ~Free => job.base \in [Files -> Snapshot]

CalmInv == BackupIsPreimage /\ BaseInv /\ (calm => Free \/ Progress)

(* The job goes on with the same implementation.                           *)
LEMMA SameProposal ==
    ASSUME job'.impl = job.impl, UNCHANGED <<proposals, impls>>
    PROVE  AtHand' = AtHand /\ Changed(AtHand)' = Changed(AtHand) /\ Current' = Current
  <1>1. AtHand' = AtHand
    BY DEF AtHand
  <1>2. Changed(AtHand)' = Changed(AtHand)
    BY <1>1 DEF Changed
  <1> QED  BY <1>1, <1>2 DEF Current

(* Nothing a job has in hand changes.                                      *)
LEMMA ProgressFrame ==
    ASSUME Progress, UNCHANGED <<job, tree, backups>>,
           AtHand' = AtHand, Changed(AtHand)' = Changed(AtHand), Current' = Current
    PROVE  Progress'
  <1>1. Busy' = Busy
    BY DEF Busy
  <1>2. CheckingInv'
    BY DEF Progress, CheckingInv, Untouched, AtPreimage
  <1>3. ApplyingInv'
    BY <1>1 DEF Progress, ApplyingInv, Untouched, BackedUp, AtPostimage
  <1>4. RestoringInv'
    BY DEF Progress, RestoringInv, AsLeft
  <1>5. RollbackInv'
    BY <1>1 DEF Progress, RollbackInv, AtPreimage, AtPostimage
  <1> QED  BY <1>2, <1>3, <1>4, <1>5 DEF Progress

(* What is required in the stage the job goes on to.                       *)
LEMMA ProgressAt ==
    /\ job'.stage = "checking" /\ CheckingInv' => Progress'
    /\ job'.stage \in {"copying", "writing", "verifying"} /\ ApplyingInv' => Progress'
    /\ job'.stage = "restoring" /\ RestoringInv' => Progress'
    /\ job'.stage \in {"rb_checking", "rb_writing", "rb_verifying", "rb_saving"}
         /\ RollbackInv' => Progress'
    /\ job'.stage = "flagging" => Progress'
  BY DEF Progress, CheckingInv, ApplyingInv, RestoringInv, RollbackInv

(* The steps of an apply.                                                  *)
LEMMA CheckPreimagesProgress ==
    ASSUME SafeInv, Progress, CheckPreimages
    PROVE  Free' \/ Progress'
  <1>1. ~Free /\ job \in Jobs /\ job.stage = "checking"
    BY DEF CheckPreimages, Free, SafeInv, TypeOK
  <1>2. CASE job' = NoJob
    BY <1>2, NoJobType DEF Free
  <1>3. CASE job.todo = {} /\ job' = At("copying", job.file, Changed(AtHand), job.done)
    <2>1. /\ job'.stage = "copying" /\ job'.impl = job.impl /\ job'.todo = Changed(AtHand)
          /\ job'.done = job.done /\ job'.base = job.base
      BY <1>3, AtFields
    <2>2. /\ AtHand' = AtHand /\ Changed(AtHand)' = Changed(AtHand) /\ Current' = Current
          /\ tree' = tree
      BY <1>1, <2>1, CheckPreimagesStep, SameProposal
    <2>3. Untouched(Files) /\ AtPreimage(Changed(AtHand)) /\ job.done = {}
      BY <1>1, <1>3 DEF Progress, CheckingInv, AtPreimage
    <2>4. Changed(AtHand) \subseteq Files /\ Busy' = {}
      BY <1>1, <2>1, JobFacts DEF Busy, WithFile
    <2>5. ApplyingInv'
      BY <2>1, <2>2, <2>3, <2>4 DEF ApplyingInv, Untouched, AtPreimage, BackedUp
    <2> QED  BY <2>1, <2>5, ProgressAt
  <1>4. CASE \E f \in job.todo : CheckedPre(f)
    <2>1. PICK f \in job.todo : CheckedPre(f)
      BY <1>4
    <2>2. /\ job'.stage = "checking" /\ job'.impl = job.impl /\ job'.todo = job.todo \ {f}
          /\ job'.done = job.done /\ job'.base = job.base /\ tree[f] = Current.pre[f]
      BY <2>1, AtFields DEF CheckedPre
    <2>3. /\ AtHand' = AtHand /\ Changed(AtHand)' = Changed(AtHand) /\ Current' = Current
          /\ tree' = tree
      BY <1>1, <2>2, CheckPreimagesStep, SameProposal
    <2>4. CheckingInv'
      BY <1>1, <2>2, <2>3 DEF Progress, CheckingInv, Untouched, AtPreimage
    <2> QED  BY <2>2, <2>4, ProgressAt
  <1> QED  BY <1>1, <1>2, <1>3, <1>4, CheckPreimagesStep

LEMMA CopyFileProgress ==
    ASSUME SafeInv, Progress, CopyFile
    PROVE  Progress'
  <1>1. ~Free /\ job \in Jobs /\ job.stage = "copying"
    BY DEF CopyFile, Free, SafeInv, TypeOK
  <1>2. PICK f \in job.todo : CopiedFile(f)
    BY <1>1, CopyFileStep
  <1>3. /\ job'.stage = "writing" /\ job'.impl = job.impl /\ job'.todo = job.todo \ {f}
        /\ job'.file = f /\ job'.done = job.done /\ job'.base = job.base
    BY <1>2, AtFields DEF CopiedFile
  <1>4. /\ AtHand' = AtHand /\ Changed(AtHand)' = Changed(AtHand) /\ Current' = Current
        /\ tree' = tree
    BY <1>1, <1>3, CopyFileStep, SameProposal
  <1>5. f \in Changed(AtHand) /\ f \in Files /\ Busy = {} /\ Busy' = {f}
    BY <1>1, <1>3, JobRunning DEF Busy, WithFile
  <1>6. /\ backups'[job.impl][f] = tree[f]
        /\ \A g \in Files \ {f} : backups'[job.impl][g] = backups[job.impl][g]
    BY <1>1, <1>2, <1>5, JobRunning DEF CopiedFile, Images
  <1>7. ApplyingInv
    BY DEF Progress
  <1>8. tree[f] = Current.pre[f] /\ f \notin job.done
    BY <1>1, <1>5, <1>7 DEF ApplyingInv, Untouched
  <1>9. job.done \subseteq Files
    BY <1>1, JobRunning
  <1>10. BackedUp(job.done \cup {f})'
    BY <1>1, <1>3, <1>4, <1>5, <1>6, <1>7, <1>8, <1>9 DEF ApplyingInv, BackedUp
  <1>11. ApplyingInv'
    <2>1. /\ \A g \in Changed(AtHand)' : job'.base[g] = Current'.pre[g]
          /\ Changed(AtHand)' \subseteq job'.todo \cup job'.done \cup Busy'
          /\ job'.todo \cap (job'.done \cup Busy') = {}
      BY <1>1, <1>3, <1>4, <1>5, <1>7, <1>8 DEF ApplyingInv
    <2>2. Untouched(Files \ job.done)'
      BY <1>1, <1>3, <1>4, <1>7 DEF ApplyingInv, Untouched
    <2>3. BackedUp(job.done \cup Busy)'
      BY <1>3, <1>5, <1>10 DEF BackedUp
    <2>4. Untouched(Files \ (job.done \cup (IF job.stage = "verifying" THEN Busy ELSE {})))'
      BY <1>3, <2>2 DEF Untouched
    <2> QED  BY <1>3, <2>1, <2>3, <2>4 DEF ApplyingInv
  <1> QED  BY <1>3, <1>11, ProgressAt

LEMMA ReplaceFileProgress ==
    ASSUME SafeInv, Progress, ReplaceFile
    PROVE  Progress'
  <1>1. ~Free /\ job \in Jobs /\ job.stage = "writing"
    BY DEF ReplaceFile, Free, SafeInv, TypeOK
  <1>2. /\ job'.stage = "verifying" /\ job'.impl = job.impl /\ job'.todo = job.todo
        /\ job'.file = job.file /\ job'.done = job.done /\ job'.base = job.base
        /\ tree' = [tree EXCEPT ![job.file] = Current.post[job.file]]
        /\ backups' = backups
    BY <1>1, AtFields, ReplaceFileStep
  <1>3. AtHand' = AtHand /\ Changed(AtHand)' = Changed(AtHand) /\ Current' = Current
    BY <1>1, <1>2, ReplaceFileStep, SameProposal
  <1>4. Busy = {job.file} /\ Busy' = {job.file} /\ job.file \in Files
    BY <1>1, <1>2, JobRunning DEF Busy, WithFile
  <1>5. /\ tree'[job.file] = Current.post[job.file]
        /\ \A g \in Files \ {job.file} : tree'[g] = tree[g]
    BY <1>1, <1>2, <1>4, JobRunning
  <1>6. ApplyingInv
    BY DEF Progress
  <1>7. ApplyingInv'
    <2>1. /\ \A g \in Changed(AtHand)' : job'.base[g] = Current'.pre[g]
          /\ Changed(AtHand)' \subseteq job'.todo \cup job'.done \cup Busy'
          /\ job'.todo \cap (job'.done \cup Busy') = {}
          /\ BackedUp(job.done \cup Busy)'
      BY <1>1, <1>2, <1>3, <1>4, <1>6 DEF ApplyingInv, BackedUp
    <2>2. Untouched(Files \ (job.done \cup Busy))'
      BY <1>1, <1>2, <1>4, <1>5, <1>6 DEF ApplyingInv, Untouched
    <2>3. AtPostimage(Busy)'
      BY <1>3, <1>4, <1>5 DEF AtPostimage
    <2>4. Untouched(Files \ (job.done \cup (IF job.stage = "verifying" THEN Busy ELSE {})))'
      BY <1>2, <2>2 DEF Untouched
    <2> QED  BY <1>2, <2>1, <2>3, <2>4 DEF ApplyingInv
  <1> QED  BY <1>2, <1>7, ProgressAt

LEMMA VerifyFileProgress ==
    ASSUME SafeInv, Progress, VerifyFile
    PROVE  Progress'
  <1>1. ~Free /\ job \in Jobs /\ job.stage = "verifying"
    BY DEF VerifyFile, Free, SafeInv, TypeOK
  <1>2. ApplyingInv /\ Busy = {job.file}
    BY <1>1 DEF Progress, Busy, WithFile
  <1>3. tree[job.file] = Current.post[job.file]
    BY <1>1, <1>2 DEF ApplyingInv, AtPostimage
  <1>4. /\ job'.stage = "copying" /\ job'.impl = job.impl /\ job'.todo = job.todo
        /\ job'.done = job.done \cup {job.file} /\ job'.base = job.base
        /\ tree' = tree /\ backups' = backups
    BY <1>1, <1>3, AtFields, VerifyFileStep
  <1>5. AtHand' = AtHand /\ Changed(AtHand)' = Changed(AtHand) /\ Current' = Current
    BY <1>1, <1>4, VerifyFileStep, SameProposal
  <1>6. Busy' = {}
    BY <1>4 DEF Busy, WithFile
  <1>7. ApplyingInv'
    BY <1>1, <1>2, <1>4, <1>5, <1>6 DEF ApplyingInv, Untouched, BackedUp
  <1> QED  BY <1>4, <1>7, ProgressAt

LEMMA WriteFailsProgress ==
    ASSUME SafeInv, Progress, WriteFails
    PROVE  Progress'
  <1>1. ~Free /\ job \in Jobs /\ job.stage \in {"copying", "writing", "verifying"}
    BY WriteFailsStep DEF WriteFails, Free, SafeInv, TypeOK
  <1>2. /\ job'.stage = "restoring" /\ job'.todo = job.done /\ job'.base = job.base
        /\ job'.impl = job.impl /\ tree' = tree /\ backups' = backups
        /\ job.stage = "verifying" => job'.file = job.file
    BY <1>1, AtFields, WriteFailsStep
  <1>3. Current' = Current
    BY <1>1, <1>2, WriteFailsStep, SameProposal
  <1>4. ApplyingInv /\ job.done \subseteq Changed(AtHand)
    BY <1>1, JobRunning DEF Progress
  <1>5. \A f \in job.done : backups[job.impl][f] = job.base[f]
    BY <1>1, <1>4 DEF ApplyingInv, BackedUp
  <1>6. ASSUME NEW f \in Files, f \notin job.done
        PROVE  tree'[f] = job'.base[f] \/ (f = job'.file /\ tree'[f] = Current'.post[f])
    <2>1. CASE job.stage = "verifying"
      <3>1. Busy = {job.file} /\ tree[job.file] = Current.post[job.file]
        BY <1>4, <2>1 DEF ApplyingInv, AtPostimage, Busy, WithFile
      <3>2. Untouched(Files \ (job.done \cup {job.file}))
        BY <1>4, <2>1, <3>1 DEF ApplyingInv
      <3> QED  BY <1>2, <1>3, <1>6, <2>1, <3>1, <3>2 DEF Untouched
    <2>2. CASE job.stage # "verifying"
      <3>1. Untouched(Files \ job.done)
        BY <1>1, <1>4, <2>2 DEF ApplyingInv, Untouched
      <3> QED  BY <1>2, <1>6, <3>1 DEF Untouched
    <2> QED  BY <2>1, <2>2
  <1>7. RestoringInv'
    BY <1>2, <1>5, <1>6 DEF RestoringInv, AsLeft
  <1> QED  BY <1>2, <1>7, ProgressAt

LEMMA RestoreFilesProgress ==
    ASSUME SafeInv, BaseInv, Progress, RestoreFiles
    PROVE  Free' \/ Progress'
  <1>1. ~Free /\ job \in Jobs /\ job.stage = "restoring"
    BY DEF RestoreFiles, Free, SafeInv, TypeOK
  <1>2. CASE job' = NoJob
    BY <1>2, NoJobType DEF Free
  <1>3. CASE \E f \in job.todo : RestoredFile(f)
    <2>1. PICK f \in job.todo : RestoredFile(f)
      BY <1>3
    <2>2. /\ job'.stage = "restoring" /\ job'.todo = job.todo \ {f} /\ job'.base = job.base
          /\ job'.impl = job.impl /\ job'.file = job.file
      BY <2>1, AtFields DEF RestoredFile
    <2>3. backups' = backups /\ Current' = Current
      BY <1>1, <2>2, RestoreFilesStep, SameProposal
    <2>4. f \in Files /\ job.base[f] \in Snapshot /\ Nothing \notin Snapshot
      BY <1>1, JobRunning, ContentsAssumption DEF BaseInv, Snapshot
    <2>5. backups[job.impl][f] = job.base[f]
      BY <1>1 DEF Progress, RestoringInv
    <2>6. tree' = [tree EXCEPT ![f] = job.base[f]]
      BY <2>1, <2>4, <2>5 DEF RestoredFile
    <2>7. tree'[f] = job.base[f] /\ \A g \in Files \ {f} : tree'[g] = tree[g]
      BY <1>1, <2>4, <2>6, JobRunning
    <2>8. AsLeft(Files \ job.todo)
      BY <1>1 DEF Progress, RestoringInv
    <2>9. ASSUME NEW g \in Files, g \notin job.todo \ {f}
          PROVE  tree'[g] = job'.base[g] \/ (g = job'.file /\ tree'[g] = Current'.post[g])
      BY <2>2, <2>3, <2>7, <2>8, <2>9 DEF AsLeft
    <2>10. RestoringInv'
      BY <1>1, <2>2, <2>3, <2>9 DEF Progress, RestoringInv, AsLeft
    <2> QED  BY <2>2, <2>10, ProgressAt
  <1> QED  BY <1>1, <1>2, <1>3, RestoreFilesStep

(* The steps of a rollback.                                                *)
LEMMA CheckPostimagesProgress ==
    ASSUME SafeInv, Progress, CheckPostimages
    PROVE  Free' \/ Progress'
  <1>1. ~Free /\ job \in Jobs /\ job.stage = "rb_checking"
    BY DEF CheckPostimages, Free, SafeInv, TypeOK
  <1>2. CASE job' = NoJob
    BY <1>2, NoJobType DEF Free
  <1>3. CASE job.todo = {} /\ job' = At("rb_writing", job.file, Changed(AtHand), job.done)
    <2>1. job'.stage = "rb_writing" /\ job'.impl = job.impl /\ job'.todo = Changed(AtHand)
      BY <1>3, AtFields
    <2>2. Changed(AtHand)' = Changed(AtHand)
      BY <1>1, <2>1, CheckPostimagesStep, SameProposal
    <2>3. RollbackInv'
      BY <2>1, <2>2 DEF RollbackInv, AtPreimage
    <2> QED  BY <2>1, <2>3, ProgressAt
  <1>4. CASE \E f \in job.todo : CheckedPost(f)
    <2>1. PICK f \in job.todo : CheckedPost(f)
      BY <1>4
    <2>2. /\ job'.stage = "rb_checking" /\ job'.impl = job.impl /\ job'.todo = job.todo \ {f}
          /\ tree[f] = Current.post[f]
      BY <2>1, AtFields DEF CheckedPost
    <2>3. /\ AtHand' = AtHand /\ Changed(AtHand)' = Changed(AtHand) /\ Current' = Current
          /\ tree' = tree
      BY <1>1, <2>2, CheckPostimagesStep, SameProposal
    <2>4. RollbackInv'
      BY <1>1, <2>2, <2>3 DEF Progress, RollbackInv, AtPostimage
    <2> QED  BY <2>2, <2>4, ProgressAt
  <1> QED  BY <1>1, <1>2, <1>3, <1>4, CheckPostimagesStep

(* A file that was put back is verified before the next one; here only     *)
(* those already verified count.                                           *)
LEMMA PutBackProgress ==
    ASSUME SafeInv, Progress, PutBack
    PROVE  Free' \/ Progress'
  <1>1. ~Free /\ job \in Jobs /\ job.stage = "rb_writing"
    BY DEF PutBack, Free, SafeInv, TypeOK
  <1>2. CASE job' = NoJob
    BY <1>2, NoJobType DEF Free
  <1>3. CASE \E f \in job.todo : WrittenBack(f)
    <2>1. PICK f \in job.todo : WrittenBack(f)
      BY <1>3
    <2>2. /\ job'.stage = "rb_verifying" /\ job'.impl = job.impl /\ job'.todo = job.todo \ {f}
          /\ job'.file = f
      BY <2>1, AtFields DEF WrittenBack
    <2>3. AtHand' = AtHand /\ Changed(AtHand)' = Changed(AtHand) /\ Current' = Current
      BY <1>1, <2>2, PutBackStep, SameProposal
    <2>4. Busy = {} /\ Busy' = {f} /\ f \in Files /\ Changed(AtHand) \subseteq Files
      BY <1>1, <2>2, JobRunning DEF Busy, WithFile
    <2>5. \A g \in Files \ {f} : tree'[g] = tree[g]
      BY <1>1, <2>1, JobRunning DEF WrittenBack
    <2>6. AtPreimage(Changed(AtHand) \ job.todo)
      BY <1>1, <2>4 DEF Progress, RollbackInv, AtPreimage
    <2>7. AtPreimage(Changed(AtHand) \ (job.todo \cup Busy))'
      BY <2>2, <2>3, <2>4, <2>5, <2>6 DEF AtPreimage
    <2>8. RollbackInv'
      BY <2>2, <2>7 DEF RollbackInv
    <2> QED  BY <2>2, <2>8, ProgressAt
  <1> QED  BY <1>1, <1>2, <1>3, PutBackStep

LEMMA VerifyPutBackProgress ==
    ASSUME SafeInv, Progress, VerifyPutBack
    PROVE  Free' \/ Progress'
  <1>1. ~Free /\ job \in Jobs /\ job.stage = "rb_verifying"
    BY DEF VerifyPutBack, Free, SafeInv, TypeOK
  <1>2. CASE job' = NoJob
    BY <1>2, NoJobType DEF Free
  <1>3. CASE /\ tree[job.file] = Current.pre[job.file]
             /\ job' = At("rb_writing", Nothing, job.todo, job.done)
    <2>1. job'.stage = "rb_writing" /\ job'.impl = job.impl /\ job'.todo = job.todo
      BY <1>3, AtFields
    <2>2. /\ AtHand' = AtHand /\ Changed(AtHand)' = Changed(AtHand) /\ Current' = Current
          /\ tree' = tree
      BY <1>1, <2>1, VerifyPutBackStep, SameProposal
    <2>3. Busy = {job.file} /\ Busy' = {}
      BY <1>1, <2>1 DEF Busy, WithFile
    <2>4. AtPreimage(Changed(AtHand) \ (job.todo \cup Busy))
      BY <1>1 DEF Progress, RollbackInv
    <2>5. AtPreimage(Changed(AtHand) \ (job.todo \cup Busy))'
      BY <1>3, <2>1, <2>2, <2>3, <2>4 DEF AtPreimage
    <2>6. RollbackInv'
      BY <2>1, <2>5 DEF RollbackInv
    <2> QED  BY <2>1, <2>6, ProgressAt
  <1> QED  BY <1>1, <1>2, <1>3, VerifyPutBackStep

LEMMA FinishProgress ==
    ASSUME SafeInv, Progress, Finish
    PROVE  Free' \/ Progress'
  <1>1. job \in Jobs /\ ~Free
    BY DEF SafeInv, TypeOK, Finish, FinishApply, FinishRollback, Free
  <1>2. CASE job' = NoJob
    BY <1>2, NoJobType DEF Free
  <1>3. CASE job' = At("flagging", job.file, job.todo, job.done)
    BY <1>3, AtFields, ProgressAt
  <1>4. CASE /\ job.stage = "rb_writing" /\ job.todo = {} /\ Flagged(FALSE)
             /\ job' = At("rb_saving", job.file, job.todo, job.done)
    <2>1. job'.stage = "rb_saving" /\ job'.impl = job.impl
      BY <1>4, AtFields
    <2>2. AtHand' = AtHand /\ AtHand \in Proposals /\ tree' = tree
      BY <1>1, <1>4, <2>1, JobFacts DEF AtHand, Flagged
    <2>3. /\ Current = proposals[AtHand] /\ Current' = proposals'[AtHand]
      BY <2>2 DEF Current, AtHand
    <2>4. proposals'[AtHand].pre = proposals[AtHand].pre
          /\ proposals'[AtHand].post = proposals[AtHand].post
      BY <1>1, <1>4, <2>2, FlaggedStep
    <2>5. Changed(AtHand)' = Changed(AtHand)
      BY <2>2, <2>4 DEF Changed
    <2>6. AtPreimage(Changed(AtHand))
      BY <1>4 DEF Progress, RollbackInv, AtPreimage, Busy, WithFile
    <2>7. AtPreimage(Changed(AtHand))'
      BY <2>2, <2>3, <2>4, <2>5, <2>6 DEF AtPreimage
    <2>8. RollbackInv'
      BY <2>1, <2>7 DEF RollbackInv
    <2> QED  BY <2>1, <2>8, ProgressAt
  <1> QED  BY <1>1, <1>2, <1>3, <1>4, FinishStep

(* A job keeps the tree it started from until it ends.                     *)
LEMMA JobKeepsBase ==
    ASSUME job \in Jobs, JobStep \/ Finish
    PROVE  Free' \/ (job'.base = job.base /\ ~Free)
  <1>0. NoJob.stage = "idle"
    BY DEF NoJob
  <1>1. CASE CheckPreimages
    BY <1>0, <1>1, CheckPreimagesStep DEF CheckedPre, Free, At
  <1>2. CASE CopyFile
    <2>1. \E f \in job.todo : job' = At("writing", f, job.todo \ {f}, job.done)
      BY <1>2, CopyFileStep DEF CopiedFile
    <2> QED  BY <1>2, <2>1, CopyFileStep, AtFields DEF Free
  <1>3. CASE ReplaceFile
    BY <1>3, ReplaceFileStep DEF Free, At
  <1>4. CASE VerifyFile
    BY <1>4, VerifyFileStep DEF Free, At
  <1>5. CASE RestoreFiles
    BY <1>0, <1>5, RestoreFilesStep DEF RestoredFile, Free, At
  <1>6. CASE WriteFails
    BY <1>6, WriteFailsStep DEF Free, At
  <1>7. CASE CheckPostimages
    BY <1>0, <1>7, CheckPostimagesStep DEF CheckedPost, Free, At
  <1>8. CASE PutBack
    BY <1>0, <1>8, PutBackStep DEF WrittenBack, Free, At
  <1>9. CASE VerifyPutBack
    BY <1>0, <1>9, VerifyPutBackStep DEF Free, At
  <1>10. CASE RestoreFails
    BY <1>0, <1>10, RestoreFailsStep DEF Free, At
  <1>11. CASE Finish
    <2>1. ~Free
      BY <1>11 DEF Finish, FinishApply, FinishRollback, Free
    <2>2. \/ job' = NoJob
          \/ \E stage : job' = At(stage, job.file, job.todo, job.done)
      BY <1>11, FinishStep
    <2> QED  BY <1>0, <2>1, <2>2, AtFields DEF Free
  <1>12. CASE RequestFails
    BY <1>0, <1>12, RequestFailsStep DEF Free
  <1> QED  BY <1>1, <1>2, <1>3, <1>4, <1>5, <1>6, <1>7, <1>8, <1>9, <1>10, <1>11, <1>12 DEF JobStep

LEMMA JobProgress ==
    ASSUME SafeInv, BaseInv, Progress, JobStep \/ Finish, calm'
    PROVE  Free' \/ Progress'
  <1>1. RequestFails => Free'
    BY RequestFailsStep, NoJobType DEF Free
  <1> QED
  BY <1>1, CheckPreimagesProgress, CopyFileProgress, ReplaceFileProgress, VerifyFileProgress,
     RestoreFilesProgress, WriteFailsProgress, CheckPostimagesProgress, PutBackProgress,
     VerifyPutBackProgress, FinishProgress, RestoreFailsStep DEF JobStep

(* The statuses of an implementation whose backups BackupIsPreimage is     *)
(* about.                                                                  *)
Recorded == {"APPLIED_AWAITING_REVIEW", "ACCEPTED_IMPLEMENTATION", "ROLLED_BACK"}

LEMMA BackupKept ==
    ASSUME SafeInv, BackupIsPreimage, calm' => calm,
           \A i \in Implementations :
               impls'[i].status \in Recorded =>
                   /\ impls[i].status \in Recorded
                   /\ impls'[i].proposal = impls[i].proposal /\ backups'[i] = backups[i],
           \A p \in Proposals :
               proposals[p].status = "ACCEPTED" =>
                   proposals'[p].pre = proposals[p].pre /\ proposals'[p].post = proposals[p].post
    PROVE  BackupIsPreimage'
  <1> SUFFICES ASSUME calm', NEW i \in Implementations, impls'[i].status \in Recorded,
                      NEW f \in Changed(impls[i].proposal)'
               PROVE  backups'[i][f] = proposals'[impls'[i].proposal].pre[f]
    BY DEF BackupIsPreimage, Recorded
  <1> DEFINE p == impls[i].proposal
  <1>1. calm /\ impls[i].status \in Recorded /\ impls'[i].proposal = p /\ backups'[i] = backups[i]
    OBVIOUS
  <1>2. p \in Proposals /\ proposals[p].status = "ACCEPTED"
    BY <1>1 DEF SafeInv, ImplInv, Recorded
  <1>3. f \in Changed(p)
    BY <1>1, <1>2 DEF Changed
  <1>4. backups[i][f] = proposals[p].pre[f]
    BY <1>1, <1>3 DEF BackupIsPreimage, Recorded
  <1> QED  BY <1>1, <1>2, <1>4

(* At the save that ends an apply every file has its preimage backed up.   *)
LEMMA BackupAtSave ==
    ASSUME SafeInv, CalmInv, job.stage = "copying", job.todo = {},
           Saved("APPLIED_AWAITING_REVIEW")
    PROVE  BackupIsPreimage'
  <1>1. ~Free /\ job.impl \in Implementations /\ AtHand \in Proposals
    BY JobFacts DEF Free
  <1>2. "APPLIED_AWAITING_REVIEW" \in ImplementationStatus
    BY DEF ImplementationStatus
  <1>3. /\ \A k \in Implementations \ {job.impl} : impls'[k] = impls[k]
        /\ \A k \in Implementations : impls'[k].proposal = impls[k].proposal
    BY <1>1, <1>2, StatusStep DEF Saved
  <1> SUFFICES ASSUME calm', NEW i \in Implementations, impls'[i].status \in Recorded,
                      NEW f \in Changed(impls[i].proposal)'
               PROVE  backups'[i][f] = proposals'[impls'[i].proposal].pre[f]
    BY DEF BackupIsPreimage, Recorded
  <1>4. calm /\ UNCHANGED <<proposals, backups>> /\ BackupIsPreimage
    BY DEF Saved, CalmInv
  <1>5. f \in Changed(impls[i].proposal)
    BY <1>3, <1>4 DEF Changed
  <1>6. CASE i = job.impl
    <2>1. Progress
      BY <1>1, <1>4 DEF CalmInv
    <2>2. Changed(AtHand) \subseteq job.done /\ BackedUp(job.done)
      BY <2>1 DEF Progress, ApplyingInv, Busy, WithFile, BackedUp
    <2>3. backups[i][f] = proposals[impls[i].proposal].pre[f]
      BY <1>5, <1>6, <2>2 DEF BackedUp, Current, AtHand
    <2> QED  BY <1>3, <1>4, <2>3
  <1>7. CASE i # job.impl
    <2>1. backups[i][f] = proposals[impls[i].proposal].pre[f]
      BY <1>3, <1>4, <1>5, <1>7 DEF BackupIsPreimage, Recorded
    <2> QED  BY <1>3, <1>4, <2>1
  <1> QED  BY <1>6, <1>7

LEMMA BackupStep ==
    ASSUME SafeInv, CalmInv, Next
    PROVE  BackupIsPreimage'
  <1>0. BackupIsPreimage /\ job \in Jobs
    BY DEF CalmInv, SafeInv, TypeOK
  <1> USE <1>0
  <1>1. ASSUME NEW q \in Plans, Planning(q) PROVE BackupIsPreimage'
    BY <1>1, BackupKept DEF Planning, GeneratePlan, ReviewPlan
  <1>2. ASSUME NEW p \in Proposals, Proposing(p) PROVE BackupIsPreimage'
    BY <1>2, ProposingStep, BackupKept
  <1>3. ASSUME NEW i \in Implementations, Preparing(i) PROVE BackupIsPreimage'
    BY <1>3, PreparingStep, BackupKept DEF Recorded
  <1>4. ASSUME NEW i \in Implementations, StartApply(i) \/ StartRollback(i)
        PROVE  BackupIsPreimage'
    BY <1>4, BackupKept DEF StartApply, StartRollback
  <1>5. ASSUME NEW i \in Implementations, AcceptImplementation(i) PROVE BackupIsPreimage'
    <2>1. "ACCEPTED_IMPLEMENTATION" \in ImplementationStatus
      BY DEF ImplementationStatus
    <2> QED  BY <1>5, <2>1, StatusStep, BackupKept DEF AcceptImplementation, Recorded
  <1>6. CASE JobStep
    <2>1. UNCHANGED <<plans, proposals, impls>>
      BY <1>6, JobStepStage
    <2>2. CASE CopyFile
      <3>1. PICK f \in job.todo : CopiedFile(f)
        BY <2>2, CopyFileStep
      <3>2. impls[job.impl].status \notin Recorded
        BY <2>2, CopyFileStep DEF SafeInv, JobInv, Free, After, Recorded
      <3>3. \A i \in Implementations \ {job.impl} : backups'[i] = backups[i]
        BY <3>1 DEF CopiedFile, SafeInv, TypeOK
      <3> QED  BY <2>1, <2>2, <3>2, <3>3, CopyFileStep, BackupKept
    <2>3. CASE ~CopyFile
      <3>1. backups' = backups /\ (calm' => calm)
        BY <1>6, <2>3, CheckPreimagesStep, ReplaceFileStep, VerifyFileStep, RestoreFilesStep,
           WriteFailsStep, CheckPostimagesStep, PutBackStep, VerifyPutBackStep,
           RestoreFailsStep, RequestFailsStep DEF JobStep
      <3> QED  BY <2>1, <3>1, BackupKept
    <2> QED  BY <2>2, <2>3
  <1>7. CASE Finish
    <2>1. ~Free
      BY <1>7 DEF Finish, FinishApply, FinishRollback, Free
    <2>2. ASSUME NEW flag \in BOOLEAN, Flagged(flag) PROVE BackupIsPreimage'
      BY <2>1, <2>2, FlaggedStep, BackupKept DEF Flagged
    <2>3. ASSUME job.stage = "rb_saving", Saved("ROLLED_BACK") PROVE BackupIsPreimage'
      <3>1. "ROLLED_BACK" \in ImplementationStatus /\ job.impl \in Implementations
        BY <2>1, JobFacts DEF ImplementationStatus
      <3>2. impls[job.impl].status \in Recorded
        BY <2>1, <2>3 DEF SafeInv, JobInv, Applying, Recorded
      <3> QED  BY <2>3, <3>1, <3>2, StatusStep, BackupKept DEF Saved
    <2> QED  BY <1>7, <2>2, <2>3, BackupAtSave, FinishStep
  <1>8. CASE Crash
    BY <1>8, CrashStep, BackupKept DEF Recorded
  <1>9. ASSUME NEW f \in Files, Edit(f) PROVE BackupIsPreimage'
    BY <1>9, BackupKept DEF Edit
  <1> QED  BY <1>1, <1>2, <1>3, <1>4, <1>5, <1>6, <1>7, <1>8, <1>9, NextCases

LEMMA BaseStep ==
    ASSUME SafeInv, BaseInv, Next
    PROVE  BaseInv'
  <1>1. job \in Jobs /\ tree \in [Files -> Snapshot]
    BY DEF SafeInv, TypeOK
  <1>2. ASSUME NEW i \in Implementations, StartApply(i) \/ StartRollback(i) PROVE BaseInv'
    BY <1>1, <1>2 DEF StartApply, StartRollback, Begin, BaseInv
  <1>3. CASE JobStep \/ Finish
    BY <1>1, <1>3, JobKeepsBase DEF BaseInv
  <1>4. CASE Crash
    BY <1>4, CrashStep, NoJobType DEF BaseInv, Free
  <1>5. CASE UNCHANGED job
    BY <1>5 DEF BaseInv, Free
  <1> QED  BY <1>2, <1>3, <1>4, <1>5, NextCases, PlanningStep, ProposingStep, PreparingStep
           DEF AcceptImplementation, Edit

LEMMA ProgressStep ==
    ASSUME SafeInv, CalmInv, Next, calm'
    PROVE  Free' \/ Progress'
  <1>1. BaseInv /\ job \in Jobs
    BY DEF CalmInv, SafeInv, TypeOK
  <1>2. ASSUME UNCHANGED <<job, tree, backups>>, calm' => calm, ~Free,
               AtHand' = AtHand, Changed(AtHand)' = Changed(AtHand), Current' = Current
        PROVE  Free' \/ Progress'
    BY <1>2, ProgressFrame DEF CalmInv
  <1>3. ASSUME UNCHANGED job, Free PROVE Free' \/ Progress'
    BY <1>3 DEF Free
  <1>4. ASSUME NEW q \in Plans, Planning(q) PROVE Free' \/ Progress'
    BY <1>4, <1>3 DEF Planning, GeneratePlan, ReviewPlan
  <1>5. ASSUME NEW p \in Proposals, Proposing(p), ~Free PROVE Free' \/ Progress'
    <2>1. AtHand \in Proposals \ {p} /\ AtHand' = AtHand
      BY <1>5, JobFacts, ProposingStep DEF AtHand
    <2>2. proposals'[AtHand] = proposals[AtHand]
      BY <1>5, <2>1, ProposingStep
    <2>3. Changed(AtHand)' = Changed(AtHand)
      BY <2>1, <2>2 DEF Changed
    <2>4. Current' = Current
      BY <2>1, <2>2 DEF Current, AtHand
    <2> QED  BY <1>2, <1>5, <2>1, <2>3, <2>4, ProposingStep
  <1>6. ASSUME NEW i \in Implementations, Preparing(i), ~Free PROVE Free' \/ Progress'
    <2>1. job.impl \in Implementations \ {i}
      BY <1>6, JobFacts, PreparingStep
    <2>2. AtHand' = AtHand
      <3>1. impls'[job.impl] = impls[job.impl] /\ job' = job
        BY <1>6, <2>1, PreparingStep, ZenonT(30)
      <3> QED  BY <3>1 DEF AtHand
    <2>3. Changed(AtHand)' = Changed(AtHand) /\ Current' = Current
      BY <1>6, <2>2, PreparingStep, ZenonT(30) DEF Changed, Current, AtHand
    <2> QED  BY <1>2, <1>6, <2>2, <2>3, PreparingStep
  <1>7. ASSUME NEW i \in Implementations, StartApply(i) PROVE Free' \/ Progress'
    <2>1. /\ job'.stage = "checking" /\ job'.base = tree /\ tree' = tree /\ job'.done = {}
          /\ job'.todo = Changed(impls[i].proposal) /\ job'.impl = i
          /\ UNCHANGED <<impls, proposals>>
      BY <1>7 DEF StartApply, Begin
    <2>2. Changed(AtHand)' = job'.todo
      BY <2>1 DEF Changed, AtHand
    <2>3. CheckingInv'
      BY <2>1, <2>2 DEF CheckingInv, Untouched, AtPreimage
    <2> QED  BY <2>1, <2>3, ProgressAt
  <1>8. ASSUME NEW i \in Implementations, StartRollback(i) PROVE Free' \/ Progress'
    <2>1. /\ job'.stage = "rb_checking" /\ job'.todo = Changed(impls[i].proposal)
          /\ job'.impl = i /\ UNCHANGED <<impls, proposals>>
      BY <1>8 DEF StartRollback, Begin
    <2>2. Changed(AtHand)' = job'.todo
      BY <2>1 DEF Changed, AtHand
    <2>3. RollbackInv'
      BY <2>1, <2>2 DEF RollbackInv, AtPostimage
    <2> QED  BY <2>1, <2>3, ProgressAt
  <1>9. ASSUME NEW i \in Implementations, AcceptImplementation(i) PROVE Free' \/ Progress'
    BY <1>9, <1>3 DEF AcceptImplementation
  <1>10. CASE JobStep \/ Finish
    <2>1. ~Free /\ calm
      <3>1. ~Free
        BY <1>10 DEF JobStep, CheckPreimages, CopyFile, ReplaceFile, VerifyFile, RestoreFiles,
           WriteFails, CheckPostimages, PutBack, VerifyPutBack, RequestFails, RestoreFails, Free,
           Finish, FinishApply, FinishRollback
      <3>2. calm' => calm
        BY <1>10 DEF JobStep, CheckPreimages, CopyFile, ReplaceFile, VerifyFile, RestoreFiles,
           WriteFails, CheckPostimages, PutBack, VerifyPutBack, RequestFails, RestoreFails,
           Finish, FinishApply, FinishRollback
      <3> QED  BY <3>1, <3>2
    <2> QED  BY <1>1, <1>10, <2>1, JobProgress DEF CalmInv
  <1>11. CASE Crash
    BY <1>11, CrashStep
  <1>12. ASSUME NEW f \in Files, Edit(f) PROVE Free' \/ Progress'
    BY <1>3, <1>12 DEF Edit
  <1>13. CASE Free /\ UNCHANGED job
    BY <1>13, <1>3
  <1> QED  BY <1>4, <1>5, <1>6, <1>7, <1>8, <1>9, <1>10, <1>11, <1>12, <1>13, NextCases,
              ProposingStep, PreparingStep

LEMMA CalmInit == Init => CalmInv
  BY NoJobType DEF Init, CalmInv, BackupIsPreimage, BaseInv, Free

LEMMA CalmStep == SafeInv /\ CalmInv /\ [Next]_vars => CalmInv'
  <1> SUFFICES ASSUME SafeInv, CalmInv, [Next]_vars PROVE CalmInv'
    OBVIOUS
  <1>1. CASE Next
    BY <1>1, BackupStep, BaseStep, ProgressStep DEF CalmInv
  <1>2. CASE UNCHANGED vars
    <2>1. UNCHANGED <<proposals, impls, tree, backups, job, calm>>
      BY <1>2 DEF vars
    <2>2. BackupIsPreimage' /\ BaseInv' /\ (Free' <=> Free)
      BY <2>1 DEF CalmInv, BackupIsPreimage, BaseInv, Changed, Free
    <2>3. AtHand' = AtHand /\ Changed(AtHand)' = Changed(AtHand) /\ Current' = Current
      BY <2>1, SameProposal
    <2> QED  BY <2>1, <2>2, <2>3, ProgressFrame DEF CalmInv
  <1> QED  BY <1>1, <1>2

LEMMA Calm == Spec => [](SafeInv /\ CalmInv)
  BY SafeInit, SafeStep, CalmInit, CalmStep, PTL DEF Spec

(* The backups of an applied implementation are the preimages, whatever    *)
(* was edited before or after it was applied.                              *)
THEOREM BackupsAreTrue == Spec => []BackupIsPreimage
  <1>1. CalmInv => BackupIsPreimage
    BY DEF CalmInv
  <1> QED  BY <1>1, Calm, PTL

(* An apply that failed, at whichever file, has left the tree as it was    *)
(* but for the one file replaced whose check failed.                       *)
THEOREM FailureRestores == Spec => FailedApplyRestores
  <1>1. ASSUME SafeInv, CalmInv, [Next]_vars,
               calm', job.stage = "restoring", job'.stage = "idle", NEW f \in Files
        PROVE  tree'[f] = job.base[f] \/ (f = job.file /\ tree'[f] = Current.post[f])
    <2>1. CASE RestoreFiles
      <3>1. job \in Jobs /\ tree \in [Files -> Snapshot] /\ ~Free
        BY <1>1 DEF SafeInv, TypeOK, Free
      <3>2. ~\E g \in job.todo : RestoredFile(g)
        <4>1. ASSUME NEW g \in job.todo, RestoredFile(g) PROVE job'.stage = "restoring"
          <5>1. job' = At("restoring", job.file, job.todo \ {g}, job.done)
            BY <4>1 DEF RestoredFile
          <5> QED  BY <5>1, AtFields
        <4> QED  BY <1>1, <4>1
      <3>4. job.todo = {} /\ UNCHANGED tree /\ calm
        BY <1>1, <2>1, <3>1, <3>2, RestoreFilesStep
      <3>3. AsLeft(Files)
        BY <1>1, <3>1, <3>4 DEF CalmInv, Progress, RestoringInv, AsLeft
      <3> QED  BY <3>3, <3>4 DEF AsLeft
    <2>2. CASE ~RestoreFiles
      <3>1. job' # job
        BY <1>1
      <3> QED  BY <1>1, <2>2, <3>1, NextCases, PlanningStep, ProposingStep, PreparingStep,
               CrashStep, RestoreFailsStep
          DEF StartApply, StartRollback, AcceptImplementation, Free, JobStep, CheckPreimages,
              CopyFile, ReplaceFile, VerifyFile, WriteFails, CheckPostimages, PutBack,
              VerifyPutBack, RequestFails, Finish, FinishApply, FinishRollback, Edit, vars
    <2> QED  BY <2>1, <2>2
  <1>2. SafeInv /\ CalmInv /\ [Next]_vars =>
           [ calm' /\ job.stage = "restoring" /\ job'.stage = "idle"
               => \A f \in Files :
                     \/ tree'[f] = job.base[f]
                     \/ f = job.file /\ tree'[f] = Current.post[f] ]_vars
    BY <1>1
  <1> QED  BY <1>2, Calm, PTL DEF Spec, FailedApplyRestores

(* A rollback writes only over postimages and is recorded only when every  *)
(* file is its preimage again.                                             *)
THEOREM RollbackGuarded == Spec => RollbackIsGuarded
  <1>1. ASSUME SafeInv, CalmInv, [Next]_vars, calm,
               job.stage = "rb_checking", job'.stage = "rb_writing",
               NEW f \in Changed(AtHand)
        PROVE  tree[f] = Current.post[f]
    <2>1. CASE CheckPostimages
      <3>1. job \in Jobs /\ ~Free /\ NoJob.stage = "idle"
        BY <1>1, NoJobType DEF SafeInv, TypeOK, Free
      <3>2. ~\E g \in job.todo : CheckedPost(g)
        <4>1. ASSUME NEW g \in job.todo, CheckedPost(g) PROVE job'.stage = "rb_checking"
          <5>1. job' = At("rb_checking", job.file, job.todo \ {g}, job.done)
            BY <4>1 DEF CheckedPost
          <5> QED  BY <5>1, AtFields
        <4> QED  BY <1>1, <4>1
      <3>3. job.todo = {}
        BY <1>1, <2>1, <3>1, <3>2, CheckPostimagesStep
      <3> QED  BY <1>1, <3>1, <3>3 DEF CalmInv, Progress, RollbackInv, AtPostimage
    <2>2. CASE ~CheckPostimages
      <3>1. job' # job /\ job'.stage # "idle"
        BY <1>1
      <3> QED  BY <1>1, <2>2, <3>1, NextCases, PlanningStep, ProposingStep, PreparingStep,
               CrashStep, NoJobType
          DEF StartApply, StartRollback, AcceptImplementation, Free, JobStep, CheckPreimages,
              CopyFile, ReplaceFile, VerifyFile, RestoreFiles, WriteFails, PutBack,
              VerifyPutBack, RequestFails, RestoreFails, Finish, FinishApply, FinishRollback, Edit, vars
    <2> QED  BY <2>1, <2>2
  <1>2. ASSUME SafeInv, CalmInv, [Next]_vars, calm',
               job.stage = "rb_saving", job'.stage = "idle",
               NEW f \in Changed(AtHand)
        PROVE  tree'[f] = Current.pre[f]
    <2>1. CASE Finish \/ RequestFails
      <3>1. tree' = tree /\ calm /\ ~Free
        BY <1>2, <2>1 DEF Finish, FinishApply, FinishRollback, RequestFails, Free
      <3> QED  BY <1>2, <3>1 DEF CalmInv, Progress, RollbackInv, AtPreimage
    <2>2. CASE ~(Finish \/ RequestFails)
      <3>1. job' # job
        BY <1>2
      <3> QED  BY <1>2, <2>2, <3>1, NextCases, PlanningStep, ProposingStep, PreparingStep,
               CrashStep
          DEF StartApply, StartRollback, AcceptImplementation, Free, JobStep, CheckPreimages,
              CopyFile, ReplaceFile, VerifyFile, RestoreFiles, WriteFails, CheckPostimages,
              PutBack, VerifyPutBack, RestoreFails, Edit, vars
    <2> QED  BY <2>1, <2>2
  <1>3. SafeInv /\ CalmInv /\ [Next]_vars =>
           [ /\ calm /\ job.stage = "rb_checking" /\ job'.stage = "rb_writing"
                   => \A f \in Changed(impls[job.impl].proposal) : tree[f] = Current.post[f]
             /\ calm' /\ job.stage = "rb_saving" /\ job'.stage = "idle"
                   => \A f \in Changed(impls[job.impl].proposal) :
                         tree'[f] = Current.pre[f] ]_vars
    BY <1>1, <1>2 DEF AtHand
  <1> QED  BY <1>3, Calm, PTL DEF Spec, RollbackIsGuarded
=============================================================================
