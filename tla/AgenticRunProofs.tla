-------------------------- MODULE AgenticRunProofs --------------------------
(***************************************************************************)
(* Safety of AgenticRuntime.execute for any number of runs, any requests   *)
(* and any tree.  What a receipt owes to its request holds of the locals   *)
(* of a run all along, and of every checkpoint, because a checkpoint is    *)
(* where the locals of the next run come from.  A run writes its           *)
(* checkpoint once, so what a resumed run extends stays what it was.       *)
(* That a resumption does not show in the receipt is about sums of sizes:  *)
(* the second half proves what it needs of sums over finite sets, and      *)
(* follows the runs on a tree that nobody edits.                           *)
(***************************************************************************)
EXTENDS AgenticRun, FiniteSetTheorems, WellFoundedInduction, TLAPS

(* Progress d extends the checkpoint of run s that it came from.           *)
Resumed(s, d) ==
    s # NoRun => /\ checkpoints[s] # {}
                 /\ \A old \in checkpoints[s] : Extends(d, old.done)

(* What holds of the locals of a run.                                      *)
RunInv(r) ==
    /\ pc[r] \in Running =>
          /\ Allows(job[r].request, done[r])
          /\ job[r].candidates \subseteq job[r].request.paths
          /\ Resumed(job[r].from, done[r])
    /\ pc[r] = "statting" =>
          /\ IsNth(job[r].candidates, done[r].next, visit[r].path)
          /\ Len(done[r].manifest) < job[r].request.files
    /\ pc[r] = "interrupting" => result[r] \in Interruptions
    /\ (pc[r] = "recording" /\ result[r] # "PASS") =>
          \E c \in checkpoints[r] : c.status = result[r] /\ c.done = done[r]

(* What holds of the files of a run.                                       *)
DiskInv(r) ==
    /\ \A c \in checkpoints[r] : Allows(c.request, c.done) /\ Resumed(c.from, c.done)
    /\ \A x \in receipts[r] :
          /\ Allows(x.request, x.done)
          /\ Resumed(x.from, x.done)
          /\ x.result # "PASS" =>
                \E c \in checkpoints[r] : c.status = x.result /\ c.done = x.done
    /\ \A c1, c2 \in checkpoints[r] : c1 = c2
    /\ checkpoints[r] # {} => pc[r] \in {"recording", "ended", "lost"}
    /\ receipts[r] # {} => pc[r] = "ended"

Inv == TypeOK /\ \A r \in Runs : RunInv(r) /\ DiskInv(r)
-----------------------------------------------------------------------------
(* Sets of paths are finite.                                               *)
LEMMA FinitePaths ==
    ASSUME NEW S \in SUBSET Paths
    PROVE  IsFiniteSet(S) /\ Cardinality(S) \in Nat
  <1>1. IsFiniteSet(S)
    BY PathsAssumption, FS_Subset
  <1> QED  BY <1>1, FS_CardinalityType

(* There is a place after the n-th path.                                   *)
LEMMA NthBound ==
    ASSUME NEW S \in SUBSET Paths, NEW n \in Nat, NEW p, IsNth(S, n, p)
    PROVE  p \in S /\ n + 1 <= Cardinality(S)
  <1> DEFINE T == {q \in S : q < p}
  <1>1. p \in S /\ Cardinality(T) = n
    BY DEF IsNth
  <1>2. p \in Nat /\ p \notin T
    BY <1>1, PathsAssumption
  <1>3. T \in SUBSET Paths /\ IsFiniteSet(T) /\ IsFiniteSet(S)
    BY FinitePaths
  <1>4. Cardinality(T \cup {p}) = n + 1
    BY <1>1, <1>2, <1>3, FS_AddElement
  <1>5. T \cup {p} \in SUBSET S
    BY <1>1
  <1>6. Cardinality(T \cup {p}) <= Cardinality(S)
    BY <1>3, <1>5, FS_Subset
  <1> QED  BY <1>1, <1>4, <1>6

LEMMA RequestType ==
    ASSUME NEW request \in Requests
    PROVE  /\ request.paths \in SUBSET Paths
           /\ request.files \in Nat /\ request.bytes \in Nat /\ request.retries \in Nat
  BY RequestsAssumption

LEMMA NothingType == Nothing \in Progress
  BY SMT DEF Nothing, Progress

LEMMA NoJobType == NoJob \in Job
  <1>1. (CHOOSE request \in Requests : TRUE) \in Requests
    BY RequestsAssumption
  <1> QED  BY <1>1, SMT DEF NoJob, Job

LEMMA JobOfType ==
    ASSUME NEW request \in Requests, NEW s \in Runs \cup {NoRun}
    PROVE  /\ JobOf(request, s) \in Job
           /\ JobOf(request, s).request = request
           /\ JobOf(request, s).from = s
           /\ JobOf(request, s).candidates = Candidates(request)
           /\ Candidates(request) \subseteq request.paths
  <1>1. Candidates(request) \subseteq request.paths
    BY DEF Candidates
  <1>2. Candidates(request) \in SUBSET Paths
    BY <1>1, RequestType
  <1> QED  BY <1>1, <1>2, SMT DEF JobOf, Job

(* The three ways to leave a candidate keep progress a progress.           *)
LEMMA ProgressType ==
    ASSUME NEW d \in Progress, NEW tries \in Nat, NEW p \in Paths, NEW size \in Nat
    PROVE  /\ PassedOver(d, tries) \in Progress
           /\ Listed(d, p, size, tries) \in Progress
           /\ GivenUp(d, tries) \in Progress
           /\ PassedOver(d, tries).next = d.next + 1
           /\ Listed(d, p, size, tries).next = d.next + 1
           /\ GivenUp(d, tries).next = d.next
  BY SMT DEF Progress, PassedOver, Listed, GivenUp

LEMMA AllowsNothing ==
    ASSUME NEW request \in Requests
    PROVE  Allows(request, Nothing)
  <1>1. Nothing.manifest = <<>> /\ Nothing.bytes = 0
    BY SMT DEF Nothing
  <1>2. request.files \in Nat /\ request.bytes \in Nat
    BY RequestType
  <1> QED  BY <1>1, <1>2, SMT DEF Allows

(* They keep it within the request, if a listed file is within it.         *)
LEMMA AllowsStep ==
    ASSUME NEW request \in Requests, NEW d \in Progress, Allows(request, d), NEW tries \in Nat
    PROVE  /\ Allows(request, PassedOver(d, tries))
           /\ Allows(request, GivenUp(d, tries))
           /\ \A p \in request.paths, size \in Nat :
                 Len(d.manifest) < request.files /\ d.bytes + size <= request.bytes =>
                    Allows(request, Listed(d, p, size, tries))
  <1>1. d.manifest \in Seq(Paths)
    BY SMT DEF Progress
  <1>2. Allows(request, PassedOver(d, tries)) /\ Allows(request, GivenUp(d, tries))
    BY SMT DEF Allows, PassedOver, GivenUp
  <1>3. ASSUME NEW p \in request.paths, NEW size \in Nat,
               Len(d.manifest) < request.files, d.bytes + size <= request.bytes
        PROVE  Allows(request, Listed(d, p, size, tries))
    <2>1. /\ Listed(d, p, size, tries).manifest = Append(d.manifest, p)
          /\ Listed(d, p, size, tries).bytes = d.bytes + size
      BY SMT DEF Listed
    <2>2. p \in Paths /\ request.files \in Nat
      BY RequestType
    <2>3. Len(Append(d.manifest, p)) <= request.files
      BY <1>1, <1>3, <2>2, SMT
    <2>4. \A i \in DOMAIN Append(d.manifest, p) : Append(d.manifest, p)[i] \in request.paths
      BY <1>1, <2>2, SMT DEF Allows
    <2> QED  BY <1>3, <2>1, <2>3, <2>4 DEF Allows
  <1> QED  BY <1>2, <1>3

LEMMA ExtendsItself ==
    ASSUME NEW d \in Progress
    PROVE  Extends(d, d)
  BY SMT DEF Extends, Progress

(* They extend whatever it extended.                                       *)
LEMMA ExtendsStep ==
    ASSUME NEW d \in Progress, NEW old \in Progress, Extends(d, old),
           NEW tries \in Nat, NEW p \in Paths, NEW size \in Nat
    PROVE  /\ Extends(PassedOver(d, tries), old)
           /\ Extends(GivenUp(d, tries), old)
           /\ Extends(Listed(d, p, size, tries), old)
  <1>1. Extends(PassedOver(d, tries), old) /\ Extends(GivenUp(d, tries), old)
    BY SMT DEF Extends, Progress, PassedOver, GivenUp
  <1>2. /\ Listed(d, p, size, tries).manifest = Append(d.manifest, p)
        /\ Listed(d, p, size, tries).bytes = d.bytes + size
        /\ Listed(d, p, size, tries).retries = d.retries + tries
    BY SMT DEF Listed
  <1>3. d.manifest \in Seq(Paths) /\ old.manifest \in Seq(Paths)
    BY SMT DEF Progress
  <1>4. /\ Len(old.manifest) <= Len(Append(d.manifest, p))
        /\ \A i \in DOMAIN old.manifest : Append(d.manifest, p)[i] = old.manifest[i]
    BY <1>3, SMT DEF Extends
  <1>5. old.bytes <= d.bytes + size /\ old.retries <= d.retries + tries
    BY SMT DEF Extends, Progress
  <1> QED  BY <1>1, <1>2, <1>4, <1>5 DEF Extends
-----------------------------------------------------------------------------
(* What a run has in its locals is of the right type.                      *)
LEMMA LocalsType ==
    ASSUME TypeOK, NEW r \in Runs
    PROVE  /\ pc[r] \in Phase
           /\ job[r] \in Job /\ job[r].request \in Requests
           /\ job[r].from \in Runs \cup {NoRun} /\ job[r].candidates \in SUBSET Paths
           /\ done[r] \in Progress /\ done[r].next \in Nat
           /\ visit[r].path \in Nat /\ visit[r].tries \in Nat
           /\ result[r] \in Results
           /\ checkpoints[r] \in SUBSET Checkpoint /\ receipts[r] \in SUBSET Receipt
  <1>1. job[r] \in Job /\ done[r] \in Progress
    BY DEF TypeOK
  <1>2. /\ job[r].request \in Requests
        /\ job[r].from \in Runs \cup {NoRun} /\ job[r].candidates \in SUBSET Paths
    BY <1>1, SMT DEF Job
  <1>3. done[r].next \in Nat
    BY <1>1, SMT DEF Progress
  <1>4. visit[r].path \in Nat /\ visit[r].tries \in Nat
    BY SMT DEF TypeOK
  <1> QED  BY <1>1, <1>2, <1>3, <1>4 DEF TypeOK

(* A step of run r before it writes a file disturbs nothing but its        *)
(* locals: if they are right after it, everything is.                      *)
LEMMA LocalStep ==
    ASSUME Inv, TypeOK', UNCHANGED disk,
           NEW r \in Runs, pc[r] \in {"new", "scanning", "statting"},
           \A s \in Runs \ {r} : /\ pc'[s] = pc[s]
                                 /\ job'[s] = job[s] /\ done'[s] = done[s]
                                 /\ visit'[s] = visit[s] /\ result'[s] = result[s],
           RunInv(r)'
    PROVE  Inv'
  <1>1. /\ checkpoints' = checkpoints /\ receipts' = receipts
        /\ RunInv(r) /\ DiskInv(r)
    BY DEF Inv, disk
  <1>2. \A s, d : Resumed(s, d)' <=> Resumed(s, d)
    BY <1>1 DEF Resumed
  <1>3. ASSUME NEW s \in Runs
        PROVE  RunInv(s)' /\ DiskInv(s)'
    <2>1. CASE s = r
      <3>1. checkpoints[r] = {} /\ receipts[r] = {}
        BY <1>1 DEF DiskInv
      <3> QED  BY <1>1, <2>1, <3>1 DEF DiskInv
    <2>2. CASE s # r
      <3>1. /\ pc'[s] = pc[s] /\ job'[s] = job[s] /\ done'[s] = done[s]
            /\ visit'[s] = visit[s] /\ result'[s] = result[s]
        BY <2>2
      <3>2. RunInv(s) /\ DiskInv(s)
        BY DEF Inv
      <3>3. RunInv(s)'
        BY <1>1, <1>2, <3>1, <3>2 DEF RunInv
      <3>4. DiskInv(s)'
        BY <1>1, <1>2, <3>1, <3>2 DEF DiskInv
      <3> QED  BY <3>3, <3>4
    <2> QED  BY <2>1, <2>2
  <1> QED  BY <1>3 DEF Inv

(* A run that enters the loop with what its request allows is right.       *)
LEMMA EnterStep ==
    ASSUME Inv, UNCHANGED disk, NEW r \in Runs, pc[r] = "new",
           NEW request \in Requests, NEW s \in Runs \cup {NoRun}, NEW d \in Progress,
           Allows(request, d), Resumed(s, d), d.next <= Cardinality(Candidates(request)),
           Enter(r, JobOf(request, s), d)
    PROVE  Inv'
  <1> DEFINE j == JobOf(request, s)
  <1>1. /\ j \in Job /\ j.request = request /\ j.from = s
        /\ j.candidates = Candidates(request) /\ Candidates(request) \subseteq request.paths
    BY JobOfType
  <1> HIDE DEF j
  <1>2. /\ pc' = [pc EXCEPT ![r] = "scanning"]
        /\ job' = [job EXCEPT ![r] = j] /\ done' = [done EXCEPT ![r] = d]
        /\ visit' = visit /\ result' = result
    BY DEF Enter, j
  <1>3. TypeOK /\ tree' = tree /\ checkpoints' = checkpoints /\ receipts' = receipts
        /\ edits' = edits /\ crashes' = crashes
    BY DEF Inv, disk
  <1>4. pc'[r] = "scanning" /\ job'[r] = j /\ done'[r] = d
    BY <1>2, <1>3 DEF TypeOK
  <1>5. \A q \in Runs \ {r} : /\ pc'[q] = pc[q]
                              /\ job'[q] = job[q] /\ done'[q] = done[q]
                              /\ visit'[q] = visit[q] /\ result'[q] = result[q]
    BY <1>2, <1>3 DEF TypeOK
  <1>6. TypeOK'
    <2>1. pc' \in [Runs -> Phase]
      BY <1>2, <1>3 DEF TypeOK, Phase
    <2>2. job' \in [Runs -> Job] /\ done' \in [Runs -> Progress]
      BY <1>1, <1>2, <1>3 DEF TypeOK
    <2>3. \A q \in Runs : pc'[q] = "scanning" => done'[q].next <= Cardinality(job'[q].candidates)
      BY <1>1, <1>3, <1>4, <1>5 DEF TypeOK
    <2> QED  BY <1>2, <1>3, <2>1, <2>2, <2>3 DEF TypeOK
  <1>7. RunInv(r)'
    <2>1. Resumed(s, d)'
      BY <1>3 DEF Resumed
    <2> QED  BY <1>1, <1>4, <2>1 DEF RunInv
  <1> QED  BY <1>5, <1>6, <1>7, LocalStep

LEMMA StartStep ==
    ASSUME Inv, NEW r \in Runs, NEW request \in Requests, Start(r, request)
    PROVE  Inv'
  <1>1. Nothing.next = 0
    BY SMT DEF Nothing
  <1>2. Nothing.next <= Cardinality(Candidates(request))
    <2>1. Candidates(request) \in SUBSET Paths
      BY RequestType DEF Candidates
    <2> QED  BY <1>1, <2>1, FinitePaths
  <1>3. Resumed(NoRun, Nothing)
    BY DEF Resumed
  <1> QED
    BY <1>2, <1>3, AllowsNothing, NothingType, EnterStep DEF Start

LEMMA ResumeStep ==
    ASSUME Inv, NEW r \in Runs, NEW request \in Requests, NEW s \in Runs, Resume(r, request, s)
    PROVE  Inv'
  <1>1. PICK c \in checkpoints[s] :
           \/ /\ Resumable(request, c) /\ InRange(request, c)
              /\ Enter(r, JobOf(request, s), Restored(c))
           \/ pc' = [pc EXCEPT ![r] = "refused"] /\ UNCHANGED locals
    BY DEF Resume
  <1>2. TypeOK /\ pc[r] = "new" /\ UNCHANGED disk
    BY DEF Inv, Resume
  <1>3. CASE /\ Resumable(request, c) /\ InRange(request, c)
             /\ Enter(r, JobOf(request, s), Restored(c))
    <2>1. c \in Checkpoint
      BY <1>2, LocalsType
    <2>2. c.done \in Progress
      BY <2>1, SMT DEF Checkpoint
    <2>3. Allows(request, c.done)
      BY <1>3 DEF Inv, DiskInv, Resumable
    <2>4. Resumed(s, c.done)
      <3>1. ASSUME NEW old \in checkpoints[s]
            PROVE  Extends(c.done, old.done)
        BY <2>2, ExtendsItself DEF Inv, DiskInv
      <3> QED  BY <3>1 DEF Resumed
    <2>5. c.done.next <= Cardinality(Candidates(request))
      BY <1>3 DEF InRange
    <2>6. Enter(r, JobOf(request, s), c.done)
      BY <1>3 DEF Restored
    <2> QED  BY <1>2, <2>2, <2>3, <2>4, <2>5, <2>6, EnterStep
  <1>4. CASE pc' = [pc EXCEPT ![r] = "refused"] /\ UNCHANGED locals
    <2>1. TypeOK'
      <3>1. pc' \in [Runs -> Phase]
        BY <1>2, <1>4 DEF TypeOK, Phase
      <3>2. \A q \in Runs : pc'[q] = "scanning" => done[q].next <= Cardinality(job[q].candidates)
        BY <1>2, <1>4 DEF TypeOK
      <3> QED  BY <1>2, <1>4, <3>1, <3>2 DEF TypeOK, locals, disk
    <2>2. pc'[r] = "refused" /\ \A q \in Runs \ {r} : pc'[q] = pc[q]
      BY <1>2, <1>4 DEF TypeOK
    <2>3. RunInv(r)'
      BY <2>2 DEF RunInv, Running
    <2> QED  BY <1>2, <1>4, <2>1, <2>2, <2>3, LocalStep DEF locals
  <1> QED  BY <1>1, <1>3, <1>4

(* The end of the loop, by itself or by an interruption.                   *)
LEMMA LeaveStep ==
    ASSUME Inv, NEW r \in Runs, Complete(r) \/ Interrupt(r)
    PROVE  Inv'
  <1>1. PICK at \in {"recording", "interrupting"}, why \in Results :
           /\ pc' = [pc EXCEPT ![r] = at] /\ result' = [result EXCEPT ![r] = why]
           /\ at = "recording" => why = "PASS"
           /\ at = "interrupting" => why \in Interruptions
    BY DEF Complete, Interrupt, Results, Interruptions
  <1>2. /\ TypeOK /\ RunInv(r) /\ pc[r] = "scanning"
        /\ UNCHANGED disk /\ job' = job /\ done' = done /\ visit' = visit
    BY DEF Inv, Complete, Interrupt
  <1>3. /\ pc'[r] = at /\ result'[r] = why
        /\ \A q \in Runs \ {r} : pc'[q] = pc[q] /\ result'[q] = result[q]
    BY <1>1, <1>2 DEF TypeOK
  <1>4. TypeOK'
    <2>1. pc' \in [Runs -> Phase] /\ result' \in [Runs -> Results]
      BY <1>1, <1>2 DEF TypeOK, Phase
    <2>2. \A q \in Runs : pc'[q] = "scanning" => done[q].next <= Cardinality(job[q].candidates)
      BY <1>1, <1>2, <1>3 DEF TypeOK
    <2> QED  BY <1>2, <2>1, <2>2 DEF TypeOK, disk
  <1>5. RunInv(r)'
    <2>1. Resumed(job[r].from, done[r])'
      BY <1>2 DEF RunInv, Running, Resumed, disk
    <2> QED  BY <1>1, <1>2, <1>3, <2>1 DEF RunInv, Running
  <1> QED  BY <1>2, <1>3, <1>4, <1>5, LocalStep

LEMMA VisitStep ==
    ASSUME Inv, NEW r \in Runs, Visit(r)
    PROVE  Inv'
  <1>1. PICK p \in job[r].candidates :
           /\ IsNth(job[r].candidates, done[r].next, p)
           /\ visit' = [visit EXCEPT ![r] = [path |-> p, tries |-> 0]]
    BY DEF Visit
  <1>2. /\ TypeOK /\ RunInv(r) /\ pc[r] = "scanning"
        /\ Len(done[r].manifest) < job[r].request.files
        /\ pc' = [pc EXCEPT ![r] = "statting"]
        /\ UNCHANGED disk /\ job' = job /\ done' = done /\ result' = result
    BY DEF Inv, Visit
  <1>3. /\ pc'[r] = "statting" /\ visit'[r].path = p
        /\ \A q \in Runs \ {r} : pc'[q] = pc[q] /\ visit'[q] = visit[q]
    BY <1>1, <1>2, SMT DEF TypeOK
  <1>4. TypeOK'
    <2>1. p \in Nat
      BY <1>2, LocalsType, PathsAssumption
    <2>2. visit' \in [Runs -> [path : Nat, tries : Nat]]
      BY <1>1, <1>2, <2>1, SMT DEF TypeOK
    <2>3. pc' \in [Runs -> Phase]
      BY <1>2 DEF TypeOK, Phase
    <2>4. \A q \in Runs : pc'[q] = "scanning" => done[q].next <= Cardinality(job[q].candidates)
      BY <1>2, <1>3 DEF TypeOK
    <2> QED  BY <1>2, <2>2, <2>3, <2>4 DEF TypeOK, disk
  <1>5. RunInv(r)'
    <2>1. Resumed(job[r].from, done[r])'
      BY <1>2 DEF RunInv, Running, Resumed, disk
    <2> QED  BY <1>1, <1>2, <1>3, <2>1 DEF RunInv, Running
  <1> QED  BY <1>2, <1>3, <1>4, <1>5, LocalStep

(* A step past or at the candidate at hand: the run goes on, or leaves the *)
(* loop, with progress d.                                                  *)
LEMMA ProgressStep ==
    ASSUME Inv, UNCHANGED <<disk, job>>, NEW r \in Runs, pc[r] = "statting",
           NEW d \in Progress, Allows(job[r].request, d),
           \A old \in Progress : Extends(done[r], old) => Extends(d, old),
           NEW at \in {"scanning", "recording", "interrupting"}, NEW why \in Results,
           at = "scanning" => d.next <= Cardinality(job[r].candidates),
           at = "recording" => why = "PASS",
           at = "interrupting" => why \in Interruptions,
           pc' = [pc EXCEPT ![r] = at], done' = [done EXCEPT ![r] = d],
           visit' = [visit EXCEPT ![r] = NoVisit], result' = [result EXCEPT ![r] = why]
    PROVE  Inv'
  <1>1. TypeOK /\ RunInv(r) /\ UNCHANGED disk /\ job' = job
    BY DEF Inv
  <1>2. /\ pc'[r] = at /\ done'[r] = d /\ result'[r] = why
        /\ \A q \in Runs \ {r} : /\ pc'[q] = pc[q] /\ done'[q] = done[q]
                                 /\ visit'[q] = visit[q] /\ result'[q] = result[q]
    BY <1>1 DEF TypeOK
  <1>3. TypeOK'
    <2>1. NoVisit \in [path : Nat, tries : Nat]
      BY SMT DEF NoVisit
    <2>2. /\ pc' \in [Runs -> Phase] /\ done' \in [Runs -> Progress]
          /\ visit' \in [Runs -> [path : Nat, tries : Nat]] /\ result' \in [Runs -> Results]
      BY <1>1, <2>1 DEF TypeOK, Phase
    <2>3. \A q \in Runs : pc'[q] = "scanning" => done'[q].next <= Cardinality(job[q].candidates)
      BY <1>1, <1>2 DEF TypeOK
    <2> QED  BY <1>1, <2>2, <2>3 DEF TypeOK, disk
  <1>4. RunInv(r)'
    <2>1. Resumed(job[r].from, done[r])
      BY <1>1 DEF RunInv, Running
    <2>2. ASSUME job[r].from # NoRun
          PROVE  \A old \in checkpoints[job[r].from] : old.done \in Progress
      <3>1. job[r].from \in Runs
        BY <1>1, <2>2, LocalsType
      <3>2. \A old \in checkpoints[job[r].from] : old \in Checkpoint
        BY <1>1, <3>1, LocalsType
      <3> QED  BY <3>2, SMT DEF Checkpoint
    <2>3. Resumed(job[r].from, d)
      BY <2>1, <2>2 DEF Resumed
    <2>4. Resumed(job[r].from, d)'
      BY <1>1, <2>3 DEF Resumed, disk
    <2> QED  BY <1>1, <1>2, <2>4 DEF RunInv, Running
  <1> QED  BY <1>1, <1>2, <1>3, <1>4, LocalStep

LEMMA StatFailsStep ==
    ASSUME Inv, NEW r \in Runs, StatFails(r)
    PROVE  Inv'
  <1>1. TypeOK /\ RunInv(r) /\ pc[r] = "statting" /\ UNCHANGED <<disk, job>>
    BY DEF Inv, StatFails
  <1>2. CASE /\ visit' = [visit EXCEPT ![r] = [path |-> visit[r].path,
                                               tries |-> visit[r].tries + 1]]
             /\ UNCHANGED <<pc, done, result>>
    <2>1. /\ visit'[r].path = visit[r].path
          /\ \A q \in Runs \ {r} : visit'[q] = visit[q]
      BY <1>1, <1>2, SMT DEF TypeOK
    <2>2. TypeOK'
      <3>1. visit' \in [Runs -> [path : Nat, tries : Nat]]
        BY <1>1, <1>2, LocalsType, SMT DEF TypeOK
      <3> QED  BY <1>1, <1>2, <3>1 DEF TypeOK, disk
    <2>3. RunInv(r)'
      <3>1. Resumed(job[r].from, done[r])'
        BY <1>1, <1>2 DEF RunInv, Running, Resumed, disk
      <3> QED  BY <1>1, <1>2, <2>1, <3>1 DEF RunInv, Running
    <2> QED  BY <1>1, <1>2, <2>1, <2>2, <2>3, LocalStep
  <1>3. CASE /\ pc' = [pc EXCEPT ![r] = "interrupting"]
             /\ done' = [done EXCEPT ![r] = GivenUp(done[r], job[r].request.retries)]
             /\ visit' = [visit EXCEPT ![r] = NoVisit]
             /\ result' = [result EXCEPT ![r] = "FAILED_RETRYABLE"]
    <2> DEFINE d == GivenUp(done[r], job[r].request.retries)
    <2>1. job[r].request \in Requests /\ done[r] \in Progress /\ job[r].request.retries \in Nat
      BY <1>1, LocalsType, RequestType
    <2>2. visit[r].path \in Paths
      BY <1>1, LocalsType DEF RunInv, IsNth
    <2>3. d \in Progress
      BY <2>1, <2>2, ProgressType
    <2>4. Allows(job[r].request, d)
      BY <1>1, <2>1, AllowsStep DEF RunInv, Running
    <2>5. \A old \in Progress : Extends(done[r], old) => Extends(d, old)
      BY <2>1, <2>2, ExtendsStep
    <2>6. "FAILED_RETRYABLE" \in Interruptions /\ "FAILED_RETRYABLE" \in Results
      BY DEF Interruptions, Results
    <2> HIDE DEF d
    <2> QED  BY <1>1, <1>3, <2>3, <2>4, <2>5, <2>6, ProgressStep DEF d
  <1> QED  BY <1>2, <1>3 DEF StatFails

LEMMA StatStep ==
    ASSUME Inv, NEW r \in Runs, Stat(r)
    PROVE  Inv'
  <1> DEFINE size == tree[visit[r].path]
             tries == visit[r].tries
             passed == PassedOver(done[r], tries)
             listed == Listed(done[r], visit[r].path, size, tries)
             full == GivenUp(done[r], tries)
  <1>1. /\ TypeOK /\ RunInv(r) /\ pc[r] = "statting" /\ UNCHANGED <<disk, job>>
        /\ visit' = [visit EXCEPT ![r] = NoVisit]
    BY DEF Inv, Stat
  <1>2. \/ /\ pc' = [pc EXCEPT ![r] = "scanning"]
           /\ done' = [done EXCEPT ![r] = passed]
           /\ UNCHANGED result
        \/ /\ size \in Sizes /\ done[r].bytes + size <= job[r].request.bytes
           /\ pc' = [pc EXCEPT ![r] = "scanning"]
           /\ done' = [done EXCEPT ![r] = listed]
           /\ UNCHANGED result
        \/ /\ pc' = [pc EXCEPT ![r] = "recording"]
           /\ done' = [done EXCEPT ![r] = full]
           /\ result' = [result EXCEPT ![r] = "PASS"]
    BY DEF Stat
  <1>3. /\ job[r].request \in Requests /\ done[r] \in Progress /\ tries \in Nat
        /\ result[r] \in Results /\ Allows(job[r].request, done[r])
    BY <1>1, LocalsType DEF RunInv, Running
  <1>4. /\ visit[r].path \in Paths /\ visit[r].path \in job[r].request.paths
        /\ done[r].next + 1 <= Cardinality(job[r].candidates)
        /\ Len(done[r].manifest) < job[r].request.files
    <2>1. /\ IsNth(job[r].candidates, done[r].next, visit[r].path)
          /\ Len(done[r].manifest) < job[r].request.files
          /\ job[r].candidates \subseteq job[r].request.paths
      BY <1>1 DEF RunInv, Running
    <2>2. job[r].candidates \in SUBSET Paths /\ done[r].next \in Nat
      BY <1>1, LocalsType
    <2> QED  BY <2>1, <2>2, NthBound
  <1>5. result' = [result EXCEPT ![r] = result[r]] <=> UNCHANGED result
    BY <1>1 DEF TypeOK
  <1> HIDE DEF size, tries
  <1>6. CASE /\ pc' = [pc EXCEPT ![r] = "scanning"]
             /\ done' = [done EXCEPT ![r] = passed]
             /\ UNCHANGED result
    <2>1. passed \in Progress /\ passed.next <= Cardinality(job[r].candidates)
      BY <1>3, <1>4, ProgressType, 0 \in Nat
    <2>2. Allows(job[r].request, passed)
      BY <1>3, AllowsStep
    <2>3. \A old \in Progress : Extends(done[r], old) => Extends(passed, old)
      BY <1>3, <1>4, ExtendsStep, 0 \in Nat
    <2> HIDE DEF passed
    <2> QED  BY <1>1, <1>3, <1>5, <1>6, <2>1, <2>2, <2>3, ProgressStep
  <1>7. CASE /\ size \in Sizes /\ done[r].bytes + size <= job[r].request.bytes
             /\ pc' = [pc EXCEPT ![r] = "scanning"]
             /\ done' = [done EXCEPT ![r] = listed]
             /\ UNCHANGED result
    <2>1. size \in Nat
      BY <1>7, PathsAssumption
    <2>2. listed \in Progress /\ listed.next <= Cardinality(job[r].candidates)
      BY <1>3, <1>4, <2>1, ProgressType
    <2>3. Allows(job[r].request, listed)
      BY <1>3, <1>4, <1>7, <2>1, AllowsStep
    <2>4. \A old \in Progress : Extends(done[r], old) => Extends(listed, old)
      BY <1>3, <1>4, <2>1, ExtendsStep
    <2> HIDE DEF listed
    <2> QED  BY <1>1, <1>3, <1>5, <1>7, <2>2, <2>3, <2>4, ProgressStep
  <1>8. CASE /\ pc' = [pc EXCEPT ![r] = "recording"]
             /\ done' = [done EXCEPT ![r] = full]
             /\ result' = [result EXCEPT ![r] = "PASS"]
    <2>1. full \in Progress
      BY <1>3, <1>4, ProgressType, 0 \in Nat
    <2>2. Allows(job[r].request, full)
      BY <1>3, AllowsStep
    <2>3. \A old \in Progress : Extends(done[r], old) => Extends(full, old)
      BY <1>3, <1>4, ExtendsStep, 0 \in Nat
    <2>4. "PASS" \in Results
      BY DEF Results
    <2> HIDE DEF full
    <2> QED  BY <1>1, <1>8, <2>1, <2>2, <2>3, <2>4, ProgressStep
  <1> QED  BY <1>2, <1>6, <1>7, <1>8
-----------------------------------------------------------------------------
(* What extends a checkpoint that is there does so after another is        *)
(* written.                                                                *)
LEMMA WriteCheckpointStep ==
    ASSUME Inv, NEW r \in Runs, WriteCheckpoint(r)
    PROVE  Inv'
  <1>0. PICK c : c = CheckpointOf(r)
    OBVIOUS
  <1>1. /\ TypeOK /\ RunInv(r) /\ DiskInv(r) /\ pc[r] = "interrupting"
        /\ checkpoints' = [checkpoints EXCEPT ![r] = {c}]
        /\ pc' = [pc EXCEPT ![r] = "recording"]
        /\ tree' = tree /\ receipts' = receipts /\ edits' = edits /\ crashes' = crashes
        /\ job' = job /\ done' = done /\ visit' = visit /\ result' = result
    BY <1>0 DEF Inv, WriteCheckpoint, locals
  <1>2. /\ c.request = job[r].request /\ c.from = job[r].from
        /\ c.status = result[r] /\ c.done = done[r]
    BY <1>0, SMT DEF CheckpointOf
  <1>3. c \in Checkpoint
    <2>1. result[r] \in Interruptions
      BY <1>1 DEF RunInv
    <2>2. /\ job[r].request \in Requests /\ job[r].from \in Runs \cup {NoRun}
          /\ done[r] \in Progress
      BY <1>1, LocalsType
    <2> QED  BY <1>0, <2>1, <2>2, SMT DEF CheckpointOf, Checkpoint
  <1>4. /\ pc'[r] = "recording" /\ checkpoints'[r] = {c}
        /\ \A q \in Runs \ {r} : pc'[q] = pc[q] /\ checkpoints'[q] = checkpoints[q]
    BY <1>1 DEF TypeOK
  <1>5. checkpoints[r] = {} /\ receipts[r] = {}
    BY <1>1 DEF DiskInv
  <1>6. ASSUME NEW s \in Runs \cup {NoRun}, NEW d, Resumed(s, d)
        PROVE  Resumed(s, d)'
    BY <1>4, <1>5, <1>6 DEF Resumed
  <1>7. TypeOK'
    <2>1. pc' \in [Runs -> Phase] /\ checkpoints' \in [Runs -> SUBSET Checkpoint]
      BY <1>1, <1>3 DEF TypeOK, Phase
    <2>2. \A q \in Runs : pc'[q] = "scanning" => done[q].next <= Cardinality(job[q].candidates)
      BY <1>1, <1>4 DEF TypeOK
    <2> QED  BY <1>1, <2>1, <2>2 DEF TypeOK
  <1>8. ASSUME NEW q \in Runs
        PROVE  RunInv(q)' /\ DiskInv(q)'
    <2>1. /\ job[q].from \in Runs \cup {NoRun}
          /\ \A x \in checkpoints[q] \cup receipts[q] : x.from \in Runs \cup {NoRun}
      <3>1. checkpoints[q] \in SUBSET Checkpoint /\ receipts[q] \in SUBSET Receipt
        BY <1>1, LocalsType
      <3>2. \A x \in Checkpoint : x.from \in Runs \cup {NoRun}
        BY SMT DEF Checkpoint
      <3>3. \A x \in Receipt : x.from \in Runs \cup {NoRun}
        BY SMT DEF Receipt
      <3> QED  BY <1>1, <3>1, <3>2, <3>3, LocalsType
    <2>2. RunInv(q) /\ DiskInv(q)
      BY DEF Inv
    <2>3. CASE q = r
      <3>1. Resumed(job[r].from, done[r])'
        <4>1. Resumed(job[r].from, done[r])
          BY <1>1 DEF RunInv, Running
        <4> QED  BY <1>1, <1>6, <2>1, <2>3, <4>1
      <3>2. RunInv(r)'
        BY <1>1, <1>2, <1>4, <3>1 DEF RunInv, Running
      <3>3. Allows(c.request, c.done) /\ Resumed(c.from, c.done)'
        <4>1. Resumed(job[r].from, done[r])
          BY <1>1 DEF RunInv, Running
        <4>2. Resumed(c.from, c.done) /\ c.from \in Runs \cup {NoRun}
          BY <1>2, <2>1, <2>3, <4>1
        <4>3. \A d : Resumed(c.from, d) => Resumed(c.from, d)'
          BY <1>6, <4>2
        <4> QED  BY <1>1, <1>2, <4>2, <4>3 DEF RunInv, Running
      <3>4. DiskInv(r)'
        BY <1>1, <1>4, <1>5, <3>3 DEF DiskInv
      <3> QED  BY <2>3, <3>2, <3>4
    <2>4. CASE q # r
      <3>1. RunInv(q)'
        <4>1. Resumed(job[q].from, done[q]) => Resumed(job[q].from, done[q])'
          BY <1>1, <1>6, <2>1
        <4> QED  BY <1>1, <1>4, <2>2, <2>4, <4>1 DEF RunInv
      <3>2. DiskInv(q)'
        <4>1. \A x \in checkpoints[q] \cup receipts[q] :
                 Resumed(x.from, x.done) => Resumed(x.from, x.done)'
          BY <1>6, <2>1
        <4> QED  BY <1>1, <1>4, <2>2, <2>4, <4>1 DEF DiskInv
      <3> QED  BY <3>1, <3>2
    <2> QED  BY <2>3, <2>4
  <1> QED  BY <1>7, <1>8 DEF Inv

LEMMA PersistReceiptStep ==
    ASSUME Inv, NEW r \in Runs, PersistReceipt(r)
    PROVE  Inv'
  <1>0. PICK x : x = ReceiptOf(r)
    OBVIOUS
  <1>1. /\ TypeOK /\ RunInv(r) /\ DiskInv(r) /\ pc[r] = "recording"
        /\ receipts' = [receipts EXCEPT ![r] = {x}]
        /\ pc' = [pc EXCEPT ![r] = "ended"]
        /\ job' = [job EXCEPT ![r] = NoJob] /\ done' = [done EXCEPT ![r] = Nothing]
        /\ visit' = [visit EXCEPT ![r] = NoVisit] /\ result' = [result EXCEPT ![r] = "PASS"]
        /\ tree' = tree /\ checkpoints' = checkpoints /\ edits' = edits /\ crashes' = crashes
    BY <1>0 DEF Inv, PersistReceipt
  <1>2. /\ x.request = job[r].request /\ x.from = job[r].from
        /\ x.result = result[r] /\ x.done = done[r]
    BY <1>0, SMT DEF ReceiptOf
  <1>3. x \in Receipt
    <2>1. /\ job[r].request \in Requests /\ job[r].from \in Runs \cup {NoRun}
          /\ done[r] \in Progress /\ result[r] \in Results
      BY <1>1, LocalsType
    <2> QED  BY <1>0, <2>1, SMT DEF ReceiptOf, Receipt
  <1>4. /\ pc'[r] = "ended" /\ receipts'[r] = {x}
        /\ \A q \in Runs \ {r} : /\ pc'[q] = pc[q] /\ receipts'[q] = receipts[q]
                                 /\ job'[q] = job[q] /\ done'[q] = done[q]
                                 /\ visit'[q] = visit[q] /\ result'[q] = result[q]
    BY <1>1 DEF TypeOK
  <1>5. \A s, d : Resumed(s, d)' <=> Resumed(s, d)
    BY <1>1 DEF Resumed
  <1>6. TypeOK'
    <2>1. NoVisit \in [path : Nat, tries : Nat] /\ "PASS" \in Results
      BY SMT DEF NoVisit, Results
    <2>2. /\ pc' \in [Runs -> Phase] /\ receipts' \in [Runs -> SUBSET Receipt]
          /\ job' \in [Runs -> Job] /\ done' \in [Runs -> Progress]
          /\ visit' \in [Runs -> [path : Nat, tries : Nat]] /\ result' \in [Runs -> Results]
      BY <1>1, <1>3, <2>1, NoJobType, NothingType DEF TypeOK, Phase
    <2>3. \A q \in Runs : pc'[q] = "scanning" => done'[q].next <= Cardinality(job'[q].candidates)
      BY <1>1, <1>4 DEF TypeOK
    <2> QED  BY <1>1, <2>2, <2>3 DEF TypeOK
  <1>7. ASSUME NEW q \in Runs
        PROVE  RunInv(q)' /\ DiskInv(q)'
    <2>1. RunInv(q) /\ DiskInv(q)
      BY DEF Inv
    <2>2. CASE q = r
      <3>1. RunInv(r)'
        BY <1>4 DEF RunInv, Running
      <3>2. Allows(x.request, x.done) /\ Resumed(x.from, x.done)'
        BY <1>1, <1>2, <1>5 DEF RunInv, Running
      <3>3. x.result # "PASS" => \E c \in checkpoints[r] : c.status = x.result /\ c.done = x.done
        BY <1>1, <1>2 DEF RunInv
      <3>4. DiskInv(r)'
        BY <1>1, <1>4, <1>5, <3>2, <3>3 DEF DiskInv
      <3> QED  BY <2>2, <3>1, <3>4
    <2>3. CASE q # r
      <3>1. RunInv(q)'
        BY <1>1, <1>4, <1>5, <2>1, <2>3 DEF RunInv
      <3>2. DiskInv(q)'
        BY <1>1, <1>4, <1>5, <2>1, <2>3 DEF DiskInv
      <3> QED  BY <3>1, <3>2
    <2> QED  BY <2>2, <2>3
  <1> QED  BY <1>6, <1>7 DEF Inv

(* A crash takes the locals and leaves the files.                          *)
LEMMA CrashStep ==
    ASSUME Inv, Crash
    PROVE  Inv'
  <1>1. /\ TypeOK
        /\ pc' = [r \in Runs |-> IF pc[r] \in Running THEN "lost" ELSE pc[r]]
        /\ job' = [r \in Runs |-> NoJob] /\ done' = [r \in Runs |-> Nothing]
        /\ visit' = [r \in Runs |-> NoVisit] /\ result' = [r \in Runs |-> "PASS"]
        /\ crashes' = crashes + 1 /\ edits' = edits
        /\ tree' = tree /\ checkpoints' = checkpoints /\ receipts' = receipts
    BY DEF Inv, Crash
  <1>2. \A r \in Runs : pc'[r] = IF pc[r] \in Running THEN "lost" ELSE pc[r]
    BY <1>1
  <1>3. \A r \in Runs : pc'[r] \in Phase /\ pc'[r] \notin Running
    BY <1>1, <1>2 DEF TypeOK, Phase, Running
  <1>4. \A s, d : Resumed(s, d)' <=> Resumed(s, d)
    BY <1>1 DEF Resumed
  <1>5. TypeOK'
    <2>1. NoVisit \in [path : Nat, tries : Nat] /\ "PASS" \in Results
      BY SMT DEF NoVisit, Results
    <2>2. pc' \in [Runs -> Phase]
      BY <1>1, <1>3
    <2>3. /\ job' \in [Runs -> Job] /\ done' \in [Runs -> Progress]
          /\ visit' \in [Runs -> [path : Nat, tries : Nat]] /\ result' \in [Runs -> Results]
      BY <1>1, <2>1, NoJobType, NothingType
    <2>4. \A r \in Runs : pc'[r] # "scanning"
      BY <1>3 DEF Running
    <2> QED  BY <1>1, <2>2, <2>3, <2>4 DEF TypeOK
  <1>6. ASSUME NEW r \in Runs
        PROVE  RunInv(r)' /\ DiskInv(r)'
    <2>1. DiskInv(r)
      BY DEF Inv
    <2>2. DiskInv(r)'
      BY <1>1, <1>2, <1>4, <2>1 DEF DiskInv, Running
    <2>3. RunInv(r)'
      BY <1>3 DEF RunInv, Running
    <2> QED  BY <2>2, <2>3
  <1> QED  BY <1>5, <1>6 DEF Inv

(* An edit touches no run.                                                 *)
LEMMA EditStep ==
    ASSUME Inv, NEW p \in Paths, Edit(p)
    PROVE  Inv'
  <1>1. /\ TypeOK /\ edits' = edits + 1 /\ pc' = pc
        /\ job' = job /\ done' = done /\ visit' = visit /\ result' = result
        /\ checkpoints' = checkpoints /\ receipts' = receipts /\ crashes' = crashes
    BY DEF Inv, Edit, locals
  <1>2. tree' \in [Paths -> Entries]
    BY <1>1 DEF Edit, TypeOK
  <1>3. TypeOK'
    BY <1>1, <1>2 DEF TypeOK
  <1>4. \A s, d : Resumed(s, d)' <=> Resumed(s, d)
    BY <1>1 DEF Resumed
  <1>5. ASSUME NEW r \in Runs
        PROVE  RunInv(r)' /\ DiskInv(r)'
    BY <1>1, <1>4 DEF Inv, RunInv, DiskInv
  <1> QED  BY <1>3, <1>5 DEF Inv

LEMMA StutterStep ==
    ASSUME Inv, UNCHANGED vars
    PROVE  Inv'
  <1>1. /\ TypeOK /\ tree' = tree /\ edits' = edits /\ crashes' = crashes /\ pc' = pc
        /\ job' = job /\ done' = done /\ visit' = visit /\ result' = result
        /\ checkpoints' = checkpoints /\ receipts' = receipts
    BY DEF Inv, vars, disk, locals
  <1>2. \A s, d : Resumed(s, d)' <=> Resumed(s, d)
    BY <1>1 DEF Resumed
  <1>3. TypeOK'
    BY <1>1 DEF TypeOK
  <1>4. ASSUME NEW r \in Runs
        PROVE  RunInv(r)' /\ DiskInv(r)'
    BY <1>1, <1>2 DEF Inv, RunInv, DiskInv
  <1> QED  BY <1>3, <1>4 DEF Inv
-----------------------------------------------------------------------------
LEMMA InvInit == Init => Inv
  <1> SUFFICES ASSUME Init PROVE Inv
    OBVIOUS
  <1>1. TypeOK
    <2>1. NoVisit \in [path : Nat, tries : Nat] /\ "PASS" \in Results
      BY SMT DEF NoVisit, Results
    <2>2. /\ job \in [Runs -> Job] /\ done \in [Runs -> Progress]
          /\ visit \in [Runs -> [path : Nat, tries : Nat]] /\ result \in [Runs -> Results]
      BY <2>1, NoJobType, NothingType DEF Init
    <2> QED  BY <2>2 DEF Init, TypeOK, Phase
  <1>2. \A r \in Runs : RunInv(r) /\ DiskInv(r)
    BY DEF Init, RunInv, DiskInv, Running
  <1> QED  BY <1>1, <1>2 DEF Inv

LEMMA InvNext == Inv /\ [Next]_vars => Inv'
  <1> SUFFICES ASSUME Inv, [Next]_vars PROVE Inv'
    OBVIOUS
  <1>1. ASSUME NEW r \in Runs, NEW request \in Requests, Start(r, request)
        PROVE  Inv'
    BY <1>1, StartStep
  <1>2. ASSUME NEW r \in Runs, NEW request \in Requests, NEW s \in Runs, Resume(r, request, s)
        PROVE  Inv'
    BY <1>2, ResumeStep
  <1>3. ASSUME NEW r \in Runs, Execute(r)
        PROVE  Inv'
    BY <1>3, LeaveStep, VisitStep, StatFailsStep, StatStep, WriteCheckpointStep,
       PersistReceiptStep DEF Execute
  <1>4. CASE Crash
    BY <1>4, CrashStep
  <1>5. ASSUME NEW p \in Paths, Edit(p)
        PROVE  Inv'
    BY <1>5, EditStep
  <1>6. CASE UNCHANGED vars
    BY <1>6, StutterStep
  <1> QED  BY <1>1, <1>2, <1>3, <1>4, <1>5, <1>6 DEF Next

LEMMA InvSafe == Inv => TypeOK /\ WithinAuthority /\ ResumeExtends /\ InterruptedHasCheckpoint
  <1> SUFFICES ASSUME Inv
               PROVE  TypeOK /\ WithinAuthority /\ ResumeExtends /\ InterruptedHasCheckpoint
    OBVIOUS
  <1>1. TypeOK /\ WithinAuthority /\ InterruptedHasCheckpoint
    BY DEF Inv, DiskInv, WithinAuthority, InterruptedHasCheckpoint
  <1>2. ASSUME NEW r \in Runs, NEW new \in checkpoints[r] \cup receipts[r], new.from # NoRun,
               NEW old \in checkpoints[new.from]
        PROVE  Extends(new.done, old.done)
    <2>1. Resumed(new.from, new.done)
      BY DEF Inv, DiskInv
    <2> QED  BY <1>2, <2>1 DEF Resumed
  <1> QED  BY <1>1, <1>2 DEF ResumeExtends

LEMMA InvAlways == Spec => []Inv
  BY InvInit, InvNext, PTL DEF Spec

(* The state of every run and of every file stays of its type: no run      *)
(* starts its loop past the end of its candidates.  (execute)              *)
THEOREM TypeCorrect == Spec => []TypeOK
  BY InvAlways, InvSafe, PTL

(* No chain of interruptions and resumptions takes a run outside the       *)
(* paths, the files and the bytes of its request.  (execute,               *)
(* _load_checkpoint)                                                       *)
THEOREM AuthorityHeld == Spec => []WithinAuthority
  BY InvAlways, InvSafe, PTL

(* A resumed run keeps all that the run it resumes had done.  (execute,    *)
(* _write_checkpoint)                                                      *)
THEOREM NothingLost == Spec => []ResumeExtends
  BY InvAlways, InvSafe, PTL

(* Whoever reads of an interruption finds the checkpoint to resume from.   *)
(* (_interrupted_receipt)                                                  *)
THEOREM CheckpointBeforeReceipt == Spec => []InterruptedHasCheckpoint
  BY InvAlways, InvSafe, PTL
-----------------------------------------------------------------------------
(* Sums over finite sets.  The fold that TotalSize is takes the elements   *)
(* of a set in an order nobody knows; that the sum does not depend on it   *)
(* follows from looking at a smallest set for which it would.              *)

(* A set of numbers has a least one.                                       *)
LEMMA LeastNumber ==
    ASSUME NEW N \in SUBSET Nat, N # {}
    PROVE  \E n \in N : \A m \in N : n <= m
  <1>1. PICK n \in N : \A m \in N : ~ (<<m, n>> \in OpToRel(<, Nat))
    BY WFMin, NatLessThanWellFounded
  <1>2. \A m \in N : ~(m < n)
    BY <1>1 DEF OpToRel
  <1> QED  BY <1>2, SMT

(* So a set of finite sets has a smallest one.                             *)
LEMMA SmallestSet ==
    ASSUME NEW S, IsFiniteSet(S), NEW Bad \in SUBSET (SUBSET S), Bad # {}
    PROVE  \E B \in Bad : \A T \in Bad : T \subseteq B => T = B
  <1> DEFINE N == {Cardinality(T) : T \in Bad}
  <1>1. \A T \in Bad : IsFiniteSet(T) /\ Cardinality(T) \in Nat
    BY FS_Subset, FS_CardinalityType
  <1>2. N \in SUBSET Nat /\ N # {}
    BY <1>1
  <1>3. PICK n \in N : \A m \in N : n <= m
    BY <1>2, LeastNumber
  <1>4. PICK B \in Bad : Cardinality(B) = n
    BY <1>3
  <1>5. ASSUME NEW T \in Bad, T \subseteq B
        PROVE  T = B
    <2>1. Cardinality(T) <= Cardinality(B) /\ (Cardinality(B) = Cardinality(T) => B = T)
      BY <1>1, <1>5, FS_Subset
    <2>2. n <= Cardinality(T)
      BY <1>3
    <2> QED  BY <1>1, <1>4, <2>1, <2>2, SMT
  <1> QED  BY <1>5

(* The element the fold takes, the sum it computes, and the recursion it   *)
(* computes it by.                                                         *)
Any(s) == CHOOSE x \in s : TRUE

SumOf(f, S) == MapThenSumSet(LAMBDA q : f[q], S)

Sums(f, g, S) ==
    g = [s \in SUBSET S |-> IF s = {} THEN 0 ELSE f[Any(s)] + g[s \ {Any(s)}]]

LEMMA SumByRecursion ==
    ASSUME NEW f, NEW S
    PROVE  SumOf(f, S) = (CHOOSE g : Sums(f, g, S))[S]
  BY DEF SumOf, MapThenSumSet, MapThenFoldSet, Sums, Any

LEMMA AnyOf == ASSUME NEW s, s # {} PROVE Any(s) \in s
  BY DEF Any

LEMMA SumsValue ==
    ASSUME NEW f, NEW g, NEW S, Sums(f, g, S), NEW s \in SUBSET S
    PROVE  /\ s = {} => g[s] = 0
           /\ s # {} => g[s] = f[Any(s)] + g[s \ {Any(s)}]
  BY DEF Sums

(* Two such recursions agree where both are defined.                       *)
LEMMA SumsAgree ==
    ASSUME NEW f, NEW g, NEW h, NEW S, NEW T, IsFiniteSet(T),
           Sums(f, g, S), Sums(f, h, T), T \subseteq S
    PROVE  \A s \in SUBSET T : g[s] = h[s]
  <1> DEFINE Bad == {s \in SUBSET T : g[s] # h[s]}
  <1> SUFFICES ASSUME Bad # {} PROVE FALSE
    OBVIOUS
  <1>1. PICK B \in Bad : \A s \in Bad : s \subseteq B => s = B
    <2>1. Bad \in SUBSET (SUBSET T)
      OBVIOUS
    <2> HIDE DEF Bad
    <2> QED  BY <2>1, SmallestSet
  <1>2. B \in SUBSET T /\ B \in SUBSET S
    BY <1>1
  <1>3. CASE B = {}
    BY <1>1, <1>2, <1>3, SumsValue
  <1>4. CASE B # {}
    <2>1. Any(B) \in B
      BY <1>4, AnyOf
    <2>2. B \ {Any(B)} \notin Bad
      BY <1>1, <2>1
    <2>3. g[B \ {Any(B)}] = h[B \ {Any(B)}]
      BY <1>2, <2>2
    <2>4. /\ g[B] = f[Any(B)] + g[B \ {Any(B)}]
          /\ h[B] = f[Any(B)] + h[B \ {Any(B)}]
      BY <1>2, <1>4, SumsValue
    <2> QED  BY <1>1, <2>3, <2>4
  <1> QED  BY <1>3, <1>4

(* There is one, on every finite set.                                      *)
LEMMA SumsExist ==
    ASSUME NEW f, NEW S, IsFiniteSet(S)
    PROVE  \E g : Sums(f, g, S)
  <1> DEFINE Bad == {T \in SUBSET S : ~\E g : Sums(f, g, T)}
  <1> SUFFICES ASSUME Bad # {} PROVE FALSE
    OBVIOUS
  <1>1. PICK B \in Bad : \A T \in Bad : T \subseteq B => T = B
    <2>1. Bad \in SUBSET (SUBSET S)
      OBVIOUS
    <2> HIDE DEF Bad
    <2> QED  BY <2>1, SmallestSet
  <1> DEFINE G(T) == CHOOSE g : Sums(f, g, T)
             value == [s \in SUBSET B |-> IF s = {} THEN 0
                           ELSE f[Any(s)] + G(s \ {Any(s)})[s \ {Any(s)}]]
  <1>2. \A T \in SUBSET B : T # B => Sums(f, G(T), T) /\ IsFiniteSet(T)
    <2> SUFFICES ASSUME NEW T \in SUBSET B, T # B
                 PROVE  Sums(f, G(T), T) /\ IsFiniteSet(T)
      OBVIOUS
    <2>1. T \in SUBSET S /\ T \notin Bad
      BY <1>1
    <2> QED  BY <2>1, FS_Subset
  <1> HIDE DEF G
  <1>3. ASSUME NEW s \in SUBSET B, s # {}
        PROVE  s \ {Any(s)} \in SUBSET B /\ s \ {Any(s)} # B
    BY <1>3, AnyOf
  <1>4. ASSUME NEW T \in SUBSET B, T # B
        PROVE  value[T] = G(T)[T]
    <2>1. Sums(f, G(T), T)
      BY <1>2, <1>4
    <2>2. CASE T = {}
      BY <2>1, <2>2, SumsValue
    <2>3. CASE T # {}
      <3> DEFINE U == T \ {Any(T)}
      <3>1. U \in SUBSET B /\ U # B /\ U \subseteq T
        BY <1>3, <2>3
      <3>2. Sums(f, G(U), U) /\ IsFiniteSet(U)
        BY <1>2, <3>1
      <3>3. G(T)[U] = G(U)[U]
        BY <2>1, <3>1, <3>2, SumsAgree
      <3>4. G(T)[T] = f[Any(T)] + G(T)[U]
        BY <2>1, <2>3, SumsValue
      <3>5. value[T] = f[Any(T)] + G(U)[U]
        BY <2>3
      <3> QED  BY <3>3, <3>4, <3>5
    <2> QED  BY <2>2, <2>3
  <1>5. value = [s \in SUBSET B |-> IF s = {} THEN 0
                     ELSE f[Any(s)] + value[s \ {Any(s)}]]
    <2>1. \A s \in SUBSET B : s # {} =>
             value[s \ {Any(s)}] = G(s \ {Any(s)})[s \ {Any(s)}]
      BY <1>3, <1>4
    <2> QED  BY <2>1
  <1>6. Sums(f, value, B)
    BY <1>5 DEF Sums
  <1> HIDE DEF value
  <1> QED  BY <1>1, <1>6

(* The sum over a set by any of its elements.                              *)
LEMMA SumBySomeElement ==
    ASSUME NEW f, NEW S, IsFiniteSet(S)
    PROVE  /\ S = {} => SumOf(f, S) = 0
           /\ S # {} => SumOf(f, S) = f[Any(S)] + SumOf(f, S \ {Any(S)})
  <1>1. PICK g : g = (CHOOSE k : Sums(f, k, S))
    OBVIOUS
  <1>2. Sums(f, g, S) /\ SumOf(f, S) = g[S]
    BY <1>1, SumsExist, SumByRecursion
  <1>3. ASSUME S # {}
        PROVE  SumOf(f, S) = f[Any(S)] + SumOf(f, S \ {Any(S)})
    <2> DEFINE T == S \ {Any(S)}
    <2>1. IsFiniteSet(T) /\ T \subseteq S
      BY FS_Subset
    <2>2. PICK h : h = (CHOOSE k : Sums(f, k, T))
      OBVIOUS
    <2>3. Sums(f, h, T) /\ SumOf(f, T) = h[T]
      BY <2>1, <2>2, SumsExist, SumByRecursion
    <2>4. g[T] = h[T]
      BY <1>2, <2>1, <2>3, SumsAgree
    <2>5. g[S] = f[Any(S)] + g[T]
      BY <1>2, <1>3, SumsValue
    <2> QED  BY <1>2, <2>3, <2>4, <2>5
  <1>4. S = {} => SumOf(f, S) = 0
    BY <1>2, SumsValue
  <1> QED  BY <1>3, <1>4

(* A sum of numbers is a number.                                           *)
LEMMA SumType ==
    ASSUME NEW f, NEW S, IsFiniteSet(S), \A q \in S : f[q] \in Nat
    PROVE  SumOf(f, S) \in Nat
  <1> DEFINE Bad == {T \in SUBSET S : SumOf(f, T) \notin Nat}
  <1> SUFFICES ASSUME Bad # {} PROVE FALSE
    OBVIOUS
  <1>1. PICK B \in Bad : \A T \in Bad : T \subseteq B => T = B
    <2>1. Bad \in SUBSET (SUBSET S)
      OBVIOUS
    <2> HIDE DEF Bad
    <2> QED  BY <2>1, SmallestSet
  <1>2. B \in SUBSET S /\ IsFiniteSet(B) /\ SumOf(f, B) \notin Nat
    BY <1>1, FS_Subset
  <1>3. CASE B = {}
    <2>1. SumOf(f, B) = 0
      BY <1>2, <1>3, SumBySomeElement
    <2> QED  BY <1>2, <2>1, SMT
  <1>4. CASE B # {}
    <2>1. Any(B) \in B
      BY <1>4, AnyOf
    <2>2. B \ {Any(B)} \notin Bad
      BY <1>1, <2>1
    <2>3. SumOf(f, B \ {Any(B)}) \in Nat /\ f[Any(B)] \in Nat
      BY <1>2, <2>1, <2>2
    <2>4. SumOf(f, B) = f[Any(B)] + SumOf(f, B \ {Any(B)})
      BY <1>2, <1>4, SumBySomeElement
    <2> QED  BY <1>2, <2>3, <2>4, SMT
  <1> QED  BY <1>3, <1>4

(* Whichever element is set apart, the sum is the same.                    *)
LEMMA SumByElement ==
    ASSUME NEW f, NEW S, IsFiniteSet(S), \A q \in S : f[q] \in Nat, NEW x \in S
    PROVE  SumOf(f, S) = f[x] + SumOf(f, S \ {x})
  <1> DEFINE Bad == {T \in SUBSET S : \E y \in T : SumOf(f, T) # f[y] + SumOf(f, T \ {y})}
  <1> SUFFICES ASSUME Bad # {} PROVE FALSE
    OBVIOUS
  <1>1. PICK B \in Bad : \A T \in Bad : T \subseteq B => T = B
    <2>1. Bad \in SUBSET (SUBSET S)
      OBVIOUS
    <2> HIDE DEF Bad
    <2> QED  BY <2>1, SmallestSet
  <1>2. PICK y \in B : SumOf(f, B) # f[y] + SumOf(f, B \ {y})
    BY <1>1
  <1>3. B \in SUBSET S /\ IsFiniteSet(B)
    BY <1>1, FS_Subset
  <1>4. PICK c : c = Any(B)
    OBVIOUS
  <1>5. c \in B /\ SumOf(f, B) = f[c] + SumOf(f, B \ {c})
    BY <1>2, <1>3, <1>4, AnyOf, SumBySomeElement
  <1>6. c # y
    BY <1>2, <1>5
  <1>7. B \ {c} \notin Bad /\ B \ {y} \notin Bad
    BY <1>1, <1>2, <1>5
  <1>8. SumOf(f, B \ {c}) = f[y] + SumOf(f, (B \ {c}) \ {y})
    BY <1>2, <1>3, <1>6, <1>7
  <1>9. SumOf(f, B \ {y}) = f[c] + SumOf(f, (B \ {y}) \ {c})
    BY <1>3, <1>5, <1>6, <1>7
  <1>10. PICK R : R = (B \ {c}) \ {y} /\ R = (B \ {y}) \ {c}
    <2>1. (B \ {c}) \ {y} = (B \ {y}) \ {c}
      OBVIOUS
    <2> QED  BY <2>1
  <1>11. SumOf(f, R) \in Nat /\ f[c] \in Nat /\ f[y] \in Nat
    <2>1. R \in SUBSET S /\ IsFiniteSet(R)
      BY <1>3, <1>10, FS_Subset
    <2> QED  BY <1>2, <1>3, <1>5, <2>1, SumType
  <1> HIDE DEF Bad
  <1>12. SumOf(f, B) = f[c] + (f[y] + SumOf(f, R)) /\ SumOf(f, B \ {y}) = f[c] + SumOf(f, R)
    BY <1>5, <1>8, <1>9, <1>10
  <1>13. f[c] + (f[y] + SumOf(f, R)) = f[y] + (f[c] + SumOf(f, R))
    BY <1>11, SMT
  <1> QED  BY <1>2, <1>12, <1>13

(* A sum over more is no less.                                             *)
LEMMA SumGrows ==
    ASSUME NEW f, NEW S, IsFiniteSet(S), \A q \in S : f[q] \in Nat, NEW T \in SUBSET S
    PROVE  SumOf(f, T) <= SumOf(f, S)
  <1> DEFINE Bad == {R \in SUBSET S : T \subseteq R /\ ~(SumOf(f, T) <= SumOf(f, R))}
  <1> SUFFICES ASSUME Bad # {} PROVE FALSE
    OBVIOUS
  <1>1. PICK B \in Bad : \A R \in Bad : R \subseteq B => R = B
    <2>1. Bad \in SUBSET (SUBSET S)
      OBVIOUS
    <2> HIDE DEF Bad
    <2> QED  BY <2>1, SmallestSet
  <1>2. /\ B \in SUBSET S /\ T \subseteq B /\ ~(SumOf(f, T) <= SumOf(f, B))
        /\ IsFiniteSet(B) /\ IsFiniteSet(T)
    BY <1>1, FS_Subset
  <1>3. SumOf(f, T) \in Nat /\ SumOf(f, B) \in Nat
    BY <1>2, SumType
  <1>4. T # B
    BY <1>2, <1>3, SMT
  <1>5. PICK y \in B : y \notin T
    BY <1>2, <1>4
  <1>6. B \ {y} \notin Bad
    BY <1>1, <1>5
  <1>7. SumOf(f, T) <= SumOf(f, B \ {y})
    BY <1>2, <1>5, <1>6
  <1>8. SumOf(f, B) = f[y] + SumOf(f, B \ {y})
    BY <1>2, SumByElement
  <1>9. f[y] \in Nat /\ SumOf(f, B \ {y}) \in Nat
    <2>1. IsFiniteSet(B \ {y})
      BY <1>2, FS_Subset
    <2> QED  BY <1>2, <1>5, <2>1, SumType
  <1> QED  BY <1>2, <1>3, <1>7, <1>8, <1>9, SMT
-----------------------------------------------------------------------------
(* The paths of a set in their order.                                      *)
Smaller(S, p) == {q \in S : q < p}

FirstOf(S, n) == {p \in S : Cardinality(Smaller(S, p)) < n}

LEMMA SmallerType ==
    ASSUME NEW S \in SUBSET Paths, NEW p
    PROVE  /\ Smaller(S, p) \in SUBSET S
           /\ IsFiniteSet(Smaller(S, p)) /\ Cardinality(Smaller(S, p)) \in Nat
  <1>1. Smaller(S, p) \in SUBSET S /\ Smaller(S, p) \in SUBSET Paths
    BY DEF Smaller
  <1> QED  BY <1>1, FinitePaths

(* Fewer paths come before the smaller of two.                             *)
LEMMA PlaceOrder ==
    ASSUME NEW S \in SUBSET Paths, NEW p \in S, NEW q \in S
    PROVE  Cardinality(Smaller(S, p)) < Cardinality(Smaller(S, q)) <=> p < q
  <1>1. ASSUME NEW x \in S, NEW y \in S, x < y
        PROVE  Cardinality(Smaller(S, x)) < Cardinality(Smaller(S, y))
    <2>1. x \in Nat /\ y \in Nat /\ \A z \in S : z \in Nat
      BY PathsAssumption
    <2>2. ~(x < x) /\ \A z \in S : z < x => z < y
      BY <1>1, <2>1, SMT
    <2>3. x \notin Smaller(S, x) /\ Smaller(S, x) \cup {x} \in SUBSET Smaller(S, y)
      BY <1>1, <2>2 DEF Smaller
    <2>4. Cardinality(Smaller(S, x) \cup {x}) = Cardinality(Smaller(S, x)) + 1
      BY <2>3, SmallerType, FS_AddElement
    <2>5. Cardinality(Smaller(S, x) \cup {x}) <= Cardinality(Smaller(S, y))
      BY <2>3, SmallerType, FS_Subset
    <2> QED  BY <2>4, <2>5, SmallerType, SMT
  <1>2. p \in Nat /\ q \in Nat
    BY PathsAssumption
  <1>3. p < q \/ p = q \/ q < p
    BY <1>2, SMT
  <1>4. CASE p < q
    BY <1>1, <1>4
  <1>5. CASE q < p
    <2>1. Cardinality(Smaller(S, q)) < Cardinality(Smaller(S, p))
      BY <1>1, <1>5
    <2> QED  BY <1>2, <1>5, <2>1, SmallerType, SMT
  <1>6. CASE p = q
    BY <1>2, <1>6, SmallerType, SMT
  <1> QED  BY <1>3, <1>4, <1>5, <1>6

(* The first n are those before the n-th, and with it the first n + 1.     *)
LEMMA FirstNext ==
    ASSUME NEW S \in SUBSET Paths, NEW n \in Nat, NEW p, IsNth(S, n, p)
    PROVE  /\ FirstOf(S, n) = Smaller(S, p)
           /\ p \notin Smaller(S, p)
           /\ FirstOf(S, n + 1) = FirstOf(S, n) \cup {p}
  <1>1. p \in S /\ Cardinality(Smaller(S, p)) = n
    BY DEF IsNth, Smaller
  <1>2. \A q \in S : Cardinality(Smaller(S, q)) < n <=> q < p
    BY <1>1, PlaceOrder
  <1>3. FirstOf(S, n) = Smaller(S, p)
    BY <1>2 DEF FirstOf, Smaller
  <1>4. p \in Nat /\ \A q \in S : q \in Nat
    BY <1>1, PathsAssumption
  <1>5. p \notin Smaller(S, p)
    BY <1>4, SMT DEF Smaller
  <1>6. \A q \in S : Cardinality(Smaller(S, q)) < n + 1 <=> q < p \/ q = p
    <2> SUFFICES ASSUME NEW q \in S
                 PROVE  Cardinality(Smaller(S, q)) < n + 1 <=> q < p \/ q = p
      OBVIOUS
    <2>1. p < q <=> n < Cardinality(Smaller(S, q))
      BY <1>1, PlaceOrder
    <2>2. Cardinality(Smaller(S, q)) \in Nat
      BY SmallerType
    <2> QED  BY <1>4, <2>1, <2>2, SMT
  <1> QED  BY <1>1, <1>3, <1>5, <1>6 DEF FirstOf, Smaller

(* No path is among the first none, and every path among the first all.    *)
LEMMA FirstAll ==
    ASSUME NEW S \in SUBSET Paths
    PROVE  FirstOf(S, Cardinality(S)) = S /\ FirstOf(S, 0) = {}
  <1>1. \A p \in S : Cardinality(Smaller(S, p)) < Cardinality(S)
    <2> SUFFICES ASSUME NEW p \in S
                 PROVE  Cardinality(Smaller(S, p)) < Cardinality(S)
      OBVIOUS
    <2>1. /\ IsNth(S, Cardinality(Smaller(S, p)), p)
          /\ Cardinality(Smaller(S, p)) \in Nat
      BY SmallerType DEF IsNth, Smaller
    <2>2. Cardinality(Smaller(S, p)) + 1 <= Cardinality(S)
      BY <2>1, NthBound
    <2> QED  BY <2>1, <2>2, FinitePaths, SMT
  <1>2. \A p \in S : ~(Cardinality(Smaller(S, p)) < 0)
    BY SmallerType, SMT
  <1> QED  BY <1>1, <1>2 DEF FirstOf
-----------------------------------------------------------------------------
(* What a run on a tree f has done is what any run would have done by the  *)
(* same candidate; when it stops for good, there is no more to be done.    *)
Regular(f, S) == {p \in S : f[p] \in Sizes}

Listing(f, request) == {p \in request.paths : f[p] # Absent}

Seen(f, request, n) == Regular(f, FirstOf(Listing(f, request), n))

Faithful(f, request, d) ==
    LET seen == Seen(f, request, d.next)
    IN  /\ {d.manifest[i] : i \in DOMAIN d.manifest} = seen
        /\ Len(d.manifest) = Cardinality(seen)
        /\ d.bytes = SumOf(f, seen)

Stopped(f, request, d) ==
    \/ d.next = Cardinality(Listing(f, request))
    \/ Len(d.manifest) >= request.files
    \/ \E p \in Listing(f, request) :
          /\ IsNth(Listing(f, request), d.next, p)
          /\ f[p] \in Sizes /\ ~(d.bytes + f[p] <= request.bytes)

LEMMA SeenType ==
    ASSUME NEW f, NEW request \in Requests, NEW n
    PROVE  /\ Listing(f, request) \in SUBSET request.paths
           /\ Listing(f, request) \in SUBSET Paths
           /\ Seen(f, request, n) \in SUBSET Listing(f, request)
           /\ Seen(f, request, n) \in SUBSET Paths
           /\ IsFiniteSet(Seen(f, request, n))
           /\ \A q \in Seen(f, request, n) : f[q] \in Sizes /\ f[q] \in Nat
  <1>1. Listing(f, request) \in SUBSET request.paths
    BY DEF Listing
  <1>2. Listing(f, request) \in SUBSET Paths
    BY <1>1, RequestType
  <1>3. /\ Seen(f, request, n) \in SUBSET Listing(f, request)
        /\ \A q \in Seen(f, request, n) : f[q] \in Sizes
    BY DEF Seen, Regular, FirstOf
  <1>4. Seen(f, request, n) \in SUBSET Paths
    BY <1>2, <1>3
  <1> QED  BY <1>1, <1>2, <1>3, <1>4, FinitePaths, PathsAssumption

(* A run that starts afresh.                                               *)
LEMMA FaithfulNothing ==
    ASSUME NEW f, NEW request \in Requests
    PROVE  Faithful(f, request, Nothing)
  <1>1. Nothing.next = 0 /\ Nothing.manifest = <<>> /\ Nothing.bytes = 0
    BY SMT DEF Nothing
  <1>2. Seen(f, request, 0) = {}
    BY SeenType, FirstAll DEF Seen, Regular
  <1>3. {Nothing.manifest[i] : i \in DOMAIN Nothing.manifest} = {} /\ Len(Nothing.manifest) = 0
    BY <1>1, SMT
  <1>4. Cardinality({}) = 0 /\ IsFiniteSet({})
    BY FS_EmptySet
  <1>5. SumOf(f, {}) = 0
    BY <1>4, SumBySomeElement
  <1> QED  BY <1>1, <1>2, <1>3, <1>4, <1>5 DEF Faithful

(* Past a candidate that is no regular file.                               *)
LEMMA FaithfulPass ==
    ASSUME NEW f, NEW request \in Requests, NEW d \in Progress, Faithful(f, request, d),
           NEW p, IsNth(Listing(f, request), d.next, p), f[p] \notin Sizes, NEW tries
    PROVE  Faithful(f, request, PassedOver(d, tries))
  <1>1. d.next \in Nat
    BY SMT DEF Progress
  <1>2. Seen(f, request, d.next + 1) = Seen(f, request, d.next)
    <2>1. FirstOf(Listing(f, request), d.next + 1) = FirstOf(Listing(f, request), d.next) \cup {p}
      BY <1>1, SeenType, FirstNext
    <2> QED  BY <2>1 DEF Seen, Regular
  <1>3. /\ PassedOver(d, tries).next = d.next + 1
        /\ PassedOver(d, tries).manifest = d.manifest
        /\ PassedOver(d, tries).bytes = d.bytes
    BY DEF PassedOver
  <1> QED  BY <1>2, <1>3 DEF Faithful

(* Past a regular file that was listed.                                    *)
LEMMA FaithfulList ==
    ASSUME NEW f, NEW request \in Requests, NEW d \in Progress, Faithful(f, request, d),
           NEW p, IsNth(Listing(f, request), d.next, p), f[p] \in Sizes, NEW tries
    PROVE  Faithful(f, request, Listed(d, p, f[p], tries))
  <1>1. d.next \in Nat /\ d.manifest \in Seq(Paths) /\ d.bytes \in Nat
    BY SMT DEF Progress
  <1>2. PICK seen : seen = Seen(f, request, d.next)
    OBVIOUS
  <1>3. /\ IsFiniteSet(seen) /\ \A q \in seen : f[q] \in Nat
        /\ seen \in SUBSET Paths
    BY <1>2, SeenType
  <1>4. /\ p \in Listing(f, request) /\ p \in Paths /\ f[p] \in Nat
    BY SeenType, PathsAssumption DEF IsNth
  <1>5. p \notin seen /\ Seen(f, request, d.next + 1) = seen \cup {p}
    <2>1. /\ FirstOf(Listing(f, request), d.next + 1) =
                FirstOf(Listing(f, request), d.next) \cup {p}
          /\ p \notin FirstOf(Listing(f, request), d.next)
      <3>1. Listing(f, request) \in SUBSET Paths
        BY SeenType
      <3>2. PICK S : S = Listing(f, request)
        OBVIOUS
      <3>3. /\ FirstOf(S, d.next) = Smaller(S, p) /\ p \notin Smaller(S, p)
            /\ FirstOf(S, d.next + 1) = FirstOf(S, d.next) \cup {p}
        BY <1>1, <3>1, <3>2, FirstNext
      <3> QED  BY <3>2, <3>3
    <2> QED  BY <1>2, <2>1 DEF Seen, Regular
  <1>6. /\ Listed(d, p, f[p], tries).next = d.next + 1
        /\ Listed(d, p, f[p], tries).manifest = Append(d.manifest, p)
        /\ Listed(d, p, f[p], tries).bytes = d.bytes + f[p]
    BY DEF Listed
  <1>7. /\ {d.manifest[i] : i \in DOMAIN d.manifest} = seen
        /\ Len(d.manifest) = Cardinality(seen) /\ d.bytes = SumOf(f, seen)
    BY <1>2 DEF Faithful
  <1>8. /\ IsFiniteSet(seen \cup {p})
        /\ Cardinality(seen \cup {p}) = Cardinality(seen) + 1
    BY <1>3, <1>5, FS_AddElement
  <1>9. Len(Append(d.manifest, p)) = Cardinality(seen \cup {p})
    BY <1>1, <1>4, <1>7, <1>8, SMT
  <1>10. {Append(d.manifest, p)[i] : i \in DOMAIN Append(d.manifest, p)} = seen \cup {p}
    <2>1. /\ DOMAIN Append(d.manifest, p) = (DOMAIN d.manifest) \cup {Len(d.manifest) + 1}
          /\ \A i \in DOMAIN d.manifest : Append(d.manifest, p)[i] = d.manifest[i]
          /\ Append(d.manifest, p)[Len(d.manifest) + 1] = p
      BY <1>1, <1>4, SMT
    <2> QED  BY <1>7, <2>1
  <1>11. SumOf(f, seen \cup {p}) = d.bytes + f[p]
    <2>1. (seen \cup {p}) \ {p} = seen
      BY <1>5
    <2>2. SumOf(f, seen \cup {p}) = f[p] + SumOf(f, seen)
      BY <1>3, <1>4, <1>8, <2>1, SumByElement
    <2> QED  BY <1>1, <1>4, <1>7, <2>2, SMT
  <1> QED  BY <1>5, <1>6, <1>9, <1>10, <1>11 DEF Faithful

(* At a candidate that was given up.                                       *)
LEMMA FaithfulStay ==
    ASSUME NEW f, NEW request, NEW d, NEW tries
    PROVE  /\ Faithful(f, request, d) => Faithful(f, request, GivenUp(d, tries))
           /\ Stopped(f, request, d) => Stopped(f, request, GivenUp(d, tries))
  <1>1. /\ GivenUp(d, tries).next = d.next /\ GivenUp(d, tries).manifest = d.manifest
        /\ GivenUp(d, tries).bytes = d.bytes
    BY DEF GivenUp
  <1> QED  BY <1>1 DEF Faithful, Stopped

(* A run that has stopped has listed what the budgets allow of the regular *)
(* files, in their order.                                                  *)
Upto(f, request, p) == {q \in request.paths : f[q] \in Sizes /\ q < p} \cup {p}

Fits(f, request, p) ==
    /\ f[p] \in Sizes
    /\ Cardinality(Upto(f, request, p)) <= request.files
    /\ SumOf(f, Upto(f, request, p)) <= request.bytes

LEMMA UptoType ==
    ASSUME NEW f, NEW request \in Requests, NEW p \in request.paths, f[p] \in Sizes
    PROVE  /\ p \in Listing(f, request) /\ p \in Paths /\ p \in Nat
           /\ Upto(f, request, p) \in SUBSET Listing(f, request)
           /\ IsFiniteSet(Upto(f, request, p)) /\ Cardinality(Upto(f, request, p)) \in Nat
           /\ \A q \in Upto(f, request, p) : f[q] \in Sizes /\ f[q] \in Nat /\ q \in Nat
           /\ \A q \in Listing(f, request) :
                 f[q] \in Sizes /\ (q < p \/ q = p) => q \in Upto(f, request, p)
           /\ \A q \in Upto(f, request, p) : q < p \/ q = p
           /\ SumOf(f, Upto(f, request, p)) \in Nat
  <1>1. p \in Paths /\ p \in Nat /\ request.paths \in SUBSET Paths
    BY RequestType, PathsAssumption
  <1>2. /\ p \in Listing(f, request)
        /\ Upto(f, request, p) \in SUBSET Listing(f, request)
    BY EntriesAssumption DEF Listing, Upto
  <1>3. Upto(f, request, p) \in SUBSET Paths
    BY <1>1, <1>2, SeenType
  <1>4. /\ \A q \in Upto(f, request, p) : f[q] \in Sizes
        /\ \A q \in Listing(f, request) :
              f[q] \in Sizes /\ (q < p \/ q = p) => q \in Upto(f, request, p)
        /\ \A q \in Upto(f, request, p) : q < p \/ q = p
    BY DEF Upto, Listing
  <1>5. \A q \in Upto(f, request, p) : f[q] \in Nat /\ q \in Nat
    BY <1>3, <1>4, PathsAssumption
  <1>6. IsFiniteSet(Upto(f, request, p)) /\ Cardinality(Upto(f, request, p)) \in Nat
    BY <1>3, FinitePaths
  <1>7. SumOf(f, Upto(f, request, p)) \in Nat
    BY <1>5, <1>6, SumType
  <1> QED  BY <1>1, <1>2, <1>4, <1>5, <1>6, <1>7

(* What is listed fits: no more comes before it.                           *)
LEMMA SeenFits ==
    ASSUME NEW f, NEW request \in Requests, NEW d \in Progress, Faithful(f, request, d),
           Allows(request, d), NEW p \in Seen(f, request, d.next)
    PROVE  p \in request.paths /\ Fits(f, request, p)
  <1>1. PICK seen : seen = Seen(f, request, d.next)
    OBVIOUS
  <1>2. /\ p \in request.paths /\ f[p] \in Sizes /\ IsFiniteSet(seen)
        /\ \A q \in seen : f[q] \in Nat
    BY <1>1, SeenType
  <1>3. PICK upto : upto = Upto(f, request, p)
    OBVIOUS
  <1>4. upto \in SUBSET seen
    <2> SUFFICES ASSUME NEW q \in upto PROVE q \in seen
      OBVIOUS
    <2>1. q \in Listing(f, request) /\ f[q] \in Sizes /\ (q < p \/ q = p)
      BY <1>2, <1>3, UptoType
    <2>2. /\ p \in Listing(f, request)
          /\ Cardinality(Smaller(Listing(f, request), p)) < d.next
      BY DEF Seen, Regular, FirstOf
    <2>3. Cardinality(Smaller(Listing(f, request), q)) < d.next
      <3>1. CASE q < p
        <4>1. Listing(f, request) \in SUBSET Paths
          BY SeenType
        <4>2. Cardinality(Smaller(Listing(f, request), q)) <
                  Cardinality(Smaller(Listing(f, request), p))
          BY <2>1, <2>2, <3>1, <4>1, PlaceOrder
        <4>3. /\ Cardinality(Smaller(Listing(f, request), q)) \in Nat
              /\ Cardinality(Smaller(Listing(f, request), p)) \in Nat
          BY <4>1, SmallerType
        <4>4. d.next \in Nat
          BY SMT DEF Progress
        <4> QED  BY <2>2, <4>2, <4>3, <4>4, SMT
      <3> QED  BY <2>1, <2>2, <3>1
    <2> QED  BY <1>1, <2>1, <2>3 DEF Seen, Regular, FirstOf
  <1>5. Cardinality(upto) <= Cardinality(seen) /\ SumOf(f, upto) <= SumOf(f, seen)
    BY <1>2, <1>4, FS_Subset, SumGrows
  <1>6. Cardinality(seen) <= request.files /\ SumOf(f, seen) <= request.bytes
    BY <1>1 DEF Faithful, Allows
  <1>7. /\ Cardinality(upto) \in Nat /\ SumOf(f, upto) \in Nat
        /\ Cardinality(seen) \in Nat /\ SumOf(f, seen) \in Nat
    <2>1. Cardinality(upto) \in Nat /\ SumOf(f, upto) \in Nat
      BY <1>2, <1>3, UptoType
    <2> QED  BY <1>2, <2>1, FS_CardinalityType, SumType
  <1>8. request.files \in Nat /\ request.bytes \in Nat
    BY RequestType
  <1>9. Cardinality(upto) <= request.files /\ SumOf(f, upto) <= request.bytes
    BY <1>5, <1>6, <1>7, <1>8, SMT
  <1> QED  BY <1>2, <1>3, <1>9 DEF Fits

(* What fits is listed once the run has stopped.                           *)
LEMMA FitsSeen ==
    ASSUME NEW f, NEW request \in Requests, NEW d \in Progress, Faithful(f, request, d),
           Stopped(f, request, d), NEW p \in request.paths, Fits(f, request, p)
    PROVE  p \in Seen(f, request, d.next)
  <1> SUFFICES ASSUME p \notin Seen(f, request, d.next) PROVE FALSE
    OBVIOUS
  <1>1. PICK seen : seen = Seen(f, request, d.next)
    OBVIOUS
  <1>2. PICK upto : upto = Upto(f, request, p)
    OBVIOUS
  <1>3. PICK S : S = Listing(f, request)
    OBVIOUS
  <1>4. /\ S \in SUBSET Paths /\ seen \in SUBSET S
        /\ IsFiniteSet(seen) /\ Cardinality(seen) \in Nat /\ SumOf(f, seen) \in Nat
        /\ \A q \in seen : f[q] \in Sizes
    BY <1>1, <1>3, SeenType, FS_CardinalityType, SumType
  <1>5. /\ f[p] \in Sizes /\ p \in S /\ p \in Nat /\ IsFiniteSet(upto)
        /\ Cardinality(upto) \in Nat /\ SumOf(f, upto) \in Nat
        /\ \A q \in upto : f[q] \in Nat
        /\ \A q \in S : f[q] \in Sizes /\ (q < p \/ q = p) => q \in upto
        /\ Cardinality(upto) <= request.files /\ SumOf(f, upto) <= request.bytes
    BY <1>2, <1>3, UptoType DEF Fits
  <1>6. d.next \in Nat /\ request.files \in Nat /\ request.bytes \in Nat
    BY RequestType, SMT DEF Progress
  <1>7. ~(Cardinality(Smaller(S, p)) < d.next)
    BY <1>3, <1>5 DEF Seen, Regular, FirstOf
  <1>8. ASSUME NEW q \in seen
        PROVE  q \in upto /\ q # p
    <2>1. Cardinality(Smaller(S, q)) < d.next
      BY <1>1, <1>3 DEF Seen, Regular, FirstOf
    <2>2. Cardinality(Smaller(S, q)) < Cardinality(Smaller(S, p))
      BY <1>4, <1>6, <1>7, <2>1, SmallerType, SMT
    <2>3. q < p
      BY <1>4, <1>5, <2>2, PlaceOrder
    <2>4. q # p
      BY <1>1
    <2> QED  BY <1>4, <1>5, <2>3, <2>4
  <1>9. p \in upto
    BY <1>5
  <1>10. CASE d.next = Cardinality(Listing(f, request))
    <2>1. FirstOf(S, d.next) = S
      BY <1>3, <1>4, <1>10, FirstAll
    <2> QED  BY <1>3, <1>5, <2>1 DEF Seen, Regular
  <1>11. CASE Len(d.manifest) >= request.files
    <2>1. seen \cup {p} \in SUBSET upto /\ p \notin seen
      BY <1>1, <1>8, <1>9
    <2>2. Cardinality(seen \cup {p}) = Cardinality(seen) + 1
      BY <1>4, <2>1, FS_AddElement
    <2>3. Cardinality(seen \cup {p}) <= Cardinality(upto)
      BY <1>5, <2>1, FS_Subset
    <2>4. Cardinality(seen) >= request.files
      BY <1>1, <1>11 DEF Faithful
    <2> QED  BY <1>4, <1>5, <1>6, <2>2, <2>3, <2>4, SMT
  <1>12. ASSUME NEW q, IsNth(Listing(f, request), d.next, q), f[q] \in Sizes,
                ~(d.bytes + f[q] <= request.bytes)
         PROVE  FALSE
    <2>1. /\ q \in S /\ Cardinality(Smaller(S, q)) = d.next
          /\ FirstOf(S, d.next) = Smaller(S, q) /\ q \notin Smaller(S, q)
      <3>1. IsNth(S, d.next, q)
        BY <1>3, <1>12
      <3>2. /\ FirstOf(S, d.next) = Smaller(S, q) /\ q \notin Smaller(S, q)
        BY <1>4, <1>6, <3>1, FirstNext
      <3> QED  BY <3>1, <3>2 DEF IsNth, Smaller
    <2>2. q \in Nat /\ f[q] \in Nat
      BY <1>4, <1>12, <2>1, PathsAssumption
    <2>3. ~(p < q)
      BY <1>4, <1>5, <1>7, <2>1, PlaceOrder
    <2>4. q \in upto
      BY <1>5, <1>12, <2>1, <2>2, <2>3, SMT
    <2>5. q \notin seen
      BY <1>1, <1>3, <2>1 DEF Seen, Regular
    <2>6. seen \cup {q} \in SUBSET upto
      BY <1>8, <2>4
    <2>7. /\ IsFiniteSet(seen \cup {q}) /\ \A x \in seen \cup {q} : f[x] \in Nat
          /\ (seen \cup {q}) \ {q} = seen
      BY <1>5, <2>5, <2>6, FS_Subset
    <2>8. SumOf(f, seen \cup {q}) = f[q] + SumOf(f, seen)
      BY <2>7, SumByElement
    <2>9. SumOf(f, seen \cup {q}) <= SumOf(f, upto)
      BY <1>5, <2>6, SumGrows
    <2>10. d.bytes = SumOf(f, seen)
      BY <1>1 DEF Faithful
    <2> QED  BY <1>4, <1>5, <1>6, <1>12, <2>2, <2>8, <2>9, <2>10, SMT
  <1> QED  BY <1>10, <1>11, <1>12 DEF Stopped
-----------------------------------------------------------------------------
(* On a tree nobody has edited: a run in its loop goes through the listing *)
(* any run would, and has done what any would have by its index.           *)
ScanRun(r) ==
    /\ pc[r] \in Running =>
          /\ job[r].candidates = Listing(tree, job[r].request)
          /\ Faithful(tree, job[r].request, done[r])
    /\ (pc[r] = "recording" /\ result[r] = "PASS") => Stopped(tree, job[r].request, done[r])

ScanDisk(r) ==
    /\ \A c \in checkpoints[r] : Faithful(tree, c.request, c.done)
    /\ \A x \in receipts[r] :
          /\ Faithful(tree, x.request, x.done)
          /\ x.result = "PASS" => Stopped(tree, x.request, x.done)

Scanned == \A r \in Runs : ScanRun(r) /\ ScanDisk(r)

ScanInv == edits = 0 => Scanned

(* A step of run r disturbs no other.                                      *)
LEMMA ScanStep ==
    ASSUME Scanned, tree' = tree, NEW r \in Runs,
           \A q \in Runs \ {r} : /\ pc'[q] = pc[q] /\ job'[q] = job[q]
                                 /\ done'[q] = done[q] /\ result'[q] = result[q]
                                 /\ checkpoints'[q] = checkpoints[q]
                                 /\ receipts'[q] = receipts[q],
           ScanRun(r)', ScanDisk(r)'
    PROVE  Scanned'
  <1> SUFFICES ASSUME NEW q \in Runs
               PROVE  ScanRun(q)' /\ ScanDisk(q)'
    BY DEF Scanned
  <1>1. CASE q = r
    BY <1>1
  <1>2. CASE q # r
    <2>1. ScanRun(q) /\ ScanDisk(q)
      BY DEF Scanned
    <2>2. /\ pc'[q] = pc[q] /\ job'[q] = job[q] /\ done'[q] = done[q] /\ result'[q] = result[q]
          /\ checkpoints'[q] = checkpoints[q] /\ receipts'[q] = receipts[q]
      BY <1>2
    <2>3. ScanRun(q)'
      BY <2>1, <2>2 DEF ScanRun
    <2>4. ScanDisk(q)'
      BY <2>1, <2>2 DEF ScanDisk
    <2> QED  BY <2>3, <2>4
  <1> QED  BY <1>1, <1>2

(* Nor do the locals disturb the disk.                                     *)
LEMMA ScanLocalStep ==
    ASSUME Inv, Scanned, UNCHANGED disk, NEW r \in Runs,
           NEW at \in Phase, NEW j, NEW d, NEW why,
           pc' = [pc EXCEPT ![r] = at], job' = [job EXCEPT ![r] = j],
           done' = [done EXCEPT ![r] = d], result' = [result EXCEPT ![r] = why],
           at \in Running => /\ j.candidates = Listing(tree, j.request)
                             /\ Faithful(tree, j.request, d),
           (at = "recording" /\ why = "PASS") => Stopped(tree, j.request, d)
    PROVE  Scanned'
  <1>1. TypeOK /\ ScanDisk(r) /\ tree' = tree
        /\ checkpoints' = checkpoints /\ receipts' = receipts
    BY DEF Inv, Scanned, disk
  <1>2. pc'[r] = at /\ job'[r] = j /\ done'[r] = d /\ result'[r] = why
    BY <1>1 DEF TypeOK
  <1>3. \A q \in Runs \ {r} : /\ pc'[q] = pc[q] /\ job'[q] = job[q]
                              /\ done'[q] = done[q] /\ result'[q] = result[q]
    BY <1>1 DEF TypeOK
  <1>4. ScanRun(r)'
    BY <1>1, <1>2 DEF ScanRun
  <1>5. ScanDisk(r)'
    BY <1>1 DEF ScanDisk
  <1> QED  BY <1>1, <1>3, <1>4, <1>5, ScanStep

(* What is the same is put back.                                           *)
LEMMA Unchanged ==
    ASSUME TypeOK, NEW r \in Runs
    PROVE  /\ job = [job EXCEPT ![r] = job[r]] /\ done = [done EXCEPT ![r] = done[r]]
           /\ result = [result EXCEPT ![r] = result[r]] /\ pc = [pc EXCEPT ![r] = pc[r]]
  BY DEF TypeOK

LEMMA ListingIs ==
    ASSUME NEW request, NEW s
    PROVE  /\ JobOf(request, s).request = request
           /\ JobOf(request, s).candidates = Listing(tree, request)
  BY DEF JobOf, Candidates, Listing

LEMMA ScanStart ==
    ASSUME Inv, Scanned, NEW r \in Runs, NEW request \in Requests, Start(r, request)
    PROVE  Scanned'
  <1> DEFINE j == JobOf(request, NoRun)
  <1>1. /\ TypeOK /\ UNCHANGED disk
        /\ pc' = [pc EXCEPT ![r] = "scanning"] /\ job' = [job EXCEPT ![r] = j]
        /\ done' = [done EXCEPT ![r] = Nothing] /\ result' = result
    BY DEF Inv, Start, Enter
  <1>2. result' = [result EXCEPT ![r] = result[r]]
    BY <1>1, Unchanged
  <1>3. /\ j.candidates = Listing(tree, j.request) /\ Faithful(tree, j.request, Nothing)
    BY ListingIs, FaithfulNothing
  <1>4. "scanning" \in Phase /\ "scanning" # "recording"
    BY DEF Phase
  <1> HIDE DEF j
  <1> QED  BY <1>1, <1>2, <1>3, <1>4, ScanLocalStep

(* A resumed run goes through the listing the interrupted one did: the     *)
(* request is the same, and the tree.                                      *)
LEMMA ScanResume ==
    ASSUME Inv, Scanned, NEW r \in Runs, NEW request \in Requests, NEW s \in Runs,
           Resume(r, request, s)
    PROVE  Scanned'
  <1>1. PICK c \in checkpoints[s] :
           \/ /\ Resumable(request, c)
              /\ Enter(r, JobOf(request, s), Restored(c))
           \/ pc' = [pc EXCEPT ![r] = "refused"] /\ UNCHANGED locals
    BY DEF Resume
  <1>2. TypeOK /\ UNCHANGED disk
    BY DEF Inv, Resume
  <1>3. CASE Resumable(request, c) /\ Enter(r, JobOf(request, s), Restored(c))
    <2> DEFINE j == JobOf(request, s)
    <2>1. /\ pc' = [pc EXCEPT ![r] = "scanning"] /\ job' = [job EXCEPT ![r] = j]
          /\ done' = [done EXCEPT ![r] = c.done] /\ result' = result
      BY <1>3 DEF Enter, Restored
    <2>2. result' = [result EXCEPT ![r] = result[r]]
      BY <1>2, <2>1, Unchanged
    <2>3. Faithful(tree, request, c.done)
      BY <1>3 DEF Scanned, ScanDisk, Resumable
    <2>4. /\ j.candidates = Listing(tree, j.request) /\ Faithful(tree, j.request, c.done)
      BY <2>3, ListingIs
    <2>5. "scanning" \in Phase /\ "scanning" # "recording"
      BY DEF Phase
    <2> HIDE DEF j
    <2> QED  BY <1>2, <2>1, <2>2, <2>4, <2>5, ScanLocalStep
  <1>4. CASE pc' = [pc EXCEPT ![r] = "refused"] /\ UNCHANGED locals
    <2>1. /\ job' = [job EXCEPT ![r] = job[r]] /\ done' = [done EXCEPT ![r] = done[r]]
          /\ result' = [result EXCEPT ![r] = result[r]]
      BY <1>2, <1>4, Unchanged DEF locals
    <2>2. "refused" \in Phase /\ "refused" \notin Running /\ "refused" # "recording"
      BY DEF Phase, Running
    <2> QED  BY <1>2, <1>4, <2>1, <2>2, ScanLocalStep
  <1> QED  BY <1>1, <1>3, <1>4

(* What a run in its loop knows.                                           *)
LEMMA ScanKnows ==
    ASSUME Scanned, NEW r \in Runs, pc[r] \in Running
    PROVE  /\ job[r].candidates = Listing(tree, job[r].request)
           /\ Faithful(tree, job[r].request, done[r])
  BY DEF Scanned, ScanRun

(* The loop ends where there is no candidate, or no room for a file.       *)
LEMMA ScanLeave ==
    ASSUME Inv, Scanned, NEW r \in Runs, Complete(r) \/ Interrupt(r) \/ Visit(r)
    PROVE  Scanned'
  <1>1. /\ TypeOK /\ UNCHANGED disk /\ job' = job /\ done' = done
        /\ pc[r] = "scanning" /\ pc[r] \in Running
    BY DEF Inv, Complete, Interrupt, Visit, Running
  <1>2. /\ job' = [job EXCEPT ![r] = job[r]] /\ done' = [done EXCEPT ![r] = done[r]]
    BY <1>1, Unchanged
  <1>3. /\ job[r].candidates = Listing(tree, job[r].request)
        /\ Faithful(tree, job[r].request, done[r])
    BY <1>1, ScanKnows
  <1>4. CASE Complete(r)
    <2>1. Stopped(tree, job[r].request, done[r])
      BY <1>3, <1>4 DEF Complete, AtEnd, Stopped
    <2>2. /\ pc' = [pc EXCEPT ![r] = "recording"] /\ result' = [result EXCEPT ![r] = "PASS"]
          /\ "recording" \in Phase
      BY <1>4 DEF Complete, Phase
    <2> QED  BY <1>1, <1>2, <1>3, <2>1, <2>2, ScanLocalStep
  <1>5. CASE Interrupt(r)
    <2>1. PICK why : result' = [result EXCEPT ![r] = why]
      BY <1>5 DEF Interrupt
    <2>2. /\ pc' = [pc EXCEPT ![r] = "interrupting"]
          /\ "interrupting" \in Phase /\ "interrupting" # "recording"
      BY <1>5 DEF Interrupt, Phase
    <2> QED  BY <1>1, <1>2, <1>3, <2>1, <2>2, ScanLocalStep
  <1>6. CASE Visit(r)
    <2>1. /\ pc' = [pc EXCEPT ![r] = "statting"] /\ result' = result
          /\ "statting" \in Phase /\ "statting" # "recording"
      BY <1>6 DEF Visit, Phase
    <2>2. PICK why : result' = [result EXCEPT ![r] = why]
      BY <1>1, <2>1, Unchanged
    <2> QED  BY <1>1, <1>2, <1>3, <2>1, <2>2, ScanLocalStep, ZenonT(30)
  <1> QED  BY <1>4, <1>5, <1>6

(* A run past a candidate, or out of bytes.                                *)
LEMMA ScanStatFails ==
    ASSUME Inv, Scanned, NEW r \in Runs, StatFails(r)
    PROVE  Scanned'
  <1>1. /\ TypeOK /\ UNCHANGED disk /\ job' = job
        /\ pc[r] = "statting" /\ pc[r] \in Running
    BY DEF Inv, StatFails, Running
  <1>2. job' = [job EXCEPT ![r] = job[r]]
    BY <1>1, Unchanged
  <1>3. /\ job[r].candidates = Listing(tree, job[r].request)
        /\ Faithful(tree, job[r].request, done[r])
    BY <1>1, ScanKnows
  <1>4. CASE UNCHANGED <<pc, done, result>>
    <2>1. /\ pc' = [pc EXCEPT ![r] = "statting"] /\ done' = [done EXCEPT ![r] = done[r]]
          /\ result' = [result EXCEPT ![r] = result[r]]
      BY <1>1, <1>4, Unchanged
    <2>2. "statting" \in Phase /\ "statting" # "recording"
      BY DEF Phase
    <2>3. PICK why : result' = [result EXCEPT ![r] = why]
      BY <2>1
    <2> QED  BY <1>1, <1>2, <1>3, <2>1, <2>2, <2>3, ScanLocalStep
  <1>5. CASE /\ pc' = [pc EXCEPT ![r] = "interrupting"]
             /\ done' = [done EXCEPT ![r] = GivenUp(done[r], job[r].request.retries)]
             /\ result' = [result EXCEPT ![r] = "FAILED_RETRYABLE"]
    <2>1. Faithful(tree, job[r].request, GivenUp(done[r], job[r].request.retries))
      BY <1>3, FaithfulStay
    <2>2. "interrupting" \in Phase /\ "interrupting" # "recording"
      BY DEF Phase
    <2> QED  BY <1>1, <1>2, <1>3, <1>5, <2>1, <2>2, ScanLocalStep
  <1> QED  BY <1>4, <1>5 DEF StatFails

LEMMA ScanStat ==
    ASSUME Inv, Scanned, NEW r \in Runs, Stat(r)
    PROVE  Scanned'
  <1>1. PICK p, tries, size, request :
           /\ p = visit[r].path /\ tries = visit[r].tries
           /\ size = tree[p] /\ request = job[r].request
    OBVIOUS
  <1>2. /\ TypeOK /\ UNCHANGED disk /\ job' = job
        /\ pc[r] = "statting" /\ pc[r] \in Running
    BY DEF Inv, Stat, Running
  <1>3. job' = [job EXCEPT ![r] = job[r]]
    BY <1>2, Unchanged
  <1>4. /\ job[r].candidates = Listing(tree, request)
        /\ Faithful(tree, request, done[r])
    BY <1>1, <1>2, ScanKnows
  <1>5. IsNth(Listing(tree, request), done[r].next, p)
    <2>1. RunInv(r)
      BY DEF Inv
    <2> QED  BY <1>1, <1>2, <1>4, <2>1 DEF RunInv
  <1>6. request \in Requests /\ done[r] \in Progress
    BY <1>1, <1>2, LocalsType
  <1>7. "scanning" \in Phase /\ "recording" \in Phase /\ "scanning" # "recording"
    BY DEF Phase
  <1>8. CASE /\ size = Directory
             /\ pc' = [pc EXCEPT ![r] = "scanning"]
             /\ done' = [done EXCEPT ![r] = PassedOver(done[r], tries)]
             /\ UNCHANGED result
    <2>1. Faithful(tree, request, PassedOver(done[r], tries))
      BY <1>1, <1>4, <1>5, <1>6, <1>8, EntriesAssumption, FaithfulPass
    <2>2. PICK why : result' = [result EXCEPT ![r] = why]
      BY <1>2, <1>8, Unchanged
    <2> QED  BY <1>1, <1>2, <1>3, <1>4, <1>7, <1>8, <2>1, <2>2, ScanLocalStep
  <1>9. CASE /\ size \in Sizes
             /\ pc' = [pc EXCEPT ![r] = "scanning"]
             /\ done' = [done EXCEPT ![r] = Listed(done[r], p, size, tries)]
             /\ UNCHANGED result
    <2>1. Faithful(tree, request, Listed(done[r], p, size, tries))
      BY <1>1, <1>4, <1>5, <1>6, <1>9, FaithfulList
    <2>2. result' = [result EXCEPT ![r] = result[r]]
      BY <1>2, <1>9, Unchanged
    <2> QED  BY <1>1, <1>2, <1>3, <1>4, <1>7, <1>9, <2>1, <2>2, ScanLocalStep
  <1>10. CASE /\ size \in Sizes /\ ~(done[r].bytes + size <= request.bytes)
              /\ pc' = [pc EXCEPT ![r] = "recording"]
              /\ done' = [done EXCEPT ![r] = GivenUp(done[r], tries)]
              /\ result' = [result EXCEPT ![r] = "PASS"]
    <2>1. Stopped(tree, request, done[r])
      <3>1. p \in Listing(tree, request)
        BY <1>5 DEF IsNth
      <3> QED  BY <1>1, <1>5, <1>10, <3>1 DEF Stopped
    <2>2. /\ Faithful(tree, request, GivenUp(done[r], tries))
          /\ Stopped(tree, request, GivenUp(done[r], tries))
      BY <1>4, <2>1, FaithfulStay
    <2> QED  BY <1>1, <1>2, <1>3, <1>4, <1>7, <1>10, <2>2, ScanLocalStep
  <1> QED  BY <1>1, <1>8, <1>9, <1>10 DEF Stat

(* What is written to the disk is what the run knows.                      *)
LEMMA ScanWrite ==
    ASSUME Inv, Scanned, NEW r \in Runs, WriteCheckpoint(r)
    PROVE  Scanned'
  <1>1. PICK c : c = CheckpointOf(r)
    OBVIOUS
  <1>2. /\ TypeOK /\ tree' = tree /\ receipts' = receipts
        /\ job' = job /\ done' = done /\ result' = result
        /\ pc[r] = "interrupting" /\ pc[r] \in Running
        /\ pc' = [pc EXCEPT ![r] = "recording"]
        /\ checkpoints' = [checkpoints EXCEPT ![r] = {c}]
    BY <1>1 DEF Inv, WriteCheckpoint, Running, locals
  <1>3. /\ pc'[r] = "recording" /\ checkpoints'[r] = {c}
        /\ \A q \in Runs \ {r} : pc'[q] = pc[q] /\ checkpoints'[q] = checkpoints[q]
    BY <1>2 DEF TypeOK
  <1>4. c.request = job[r].request /\ c.done = done[r]
    BY <1>1 DEF CheckpointOf
  <1>5. /\ job[r].candidates = Listing(tree, job[r].request)
        /\ Faithful(tree, job[r].request, done[r])
    BY <1>2, ScanKnows
  <1>6. result[r] # "PASS"
    BY <1>2 DEF Inv, RunInv, Interruptions
  <1>7. ScanRun(r)'
    BY <1>2, <1>3, <1>5, <1>6 DEF ScanRun
  <1>8. ScanDisk(r)'
    <2>1. ScanDisk(r)
      BY DEF Scanned
    <2> QED  BY <1>2, <1>3, <1>4, <1>5, <2>1 DEF ScanDisk
  <1> QED  BY <1>2, <1>3, <1>7, <1>8, ScanStep

LEMMA ScanPersist ==
    ASSUME Inv, Scanned, NEW r \in Runs, PersistReceipt(r)
    PROVE  Scanned'
  <1>1. PICK x : x = ReceiptOf(r)
    OBVIOUS
  <1>2. /\ TypeOK /\ tree' = tree /\ checkpoints' = checkpoints
        /\ job' = [job EXCEPT ![r] = NoJob] /\ done' = [done EXCEPT ![r] = Nothing]
        /\ result' = [result EXCEPT ![r] = "PASS"]
        /\ pc[r] = "recording" /\ pc[r] \in Running
        /\ pc' = [pc EXCEPT ![r] = "ended"]
        /\ receipts' = [receipts EXCEPT ![r] = {x}]
    BY <1>1 DEF Inv, PersistReceipt, Running
  <1>3. /\ pc'[r] = "ended" /\ receipts'[r] = {x}
        /\ \A q \in Runs \ {r} : /\ pc'[q] = pc[q] /\ job'[q] = job[q]
                                 /\ done'[q] = done[q] /\ result'[q] = result[q]
                                 /\ receipts'[q] = receipts[q]
    BY <1>2 DEF TypeOK
  <1>4. x.request = job[r].request /\ x.done = done[r] /\ x.result = result[r]
    BY <1>1 DEF ReceiptOf
  <1>5. ScanRun(r) /\ ScanDisk(r)
    BY DEF Scanned
  <1>6. /\ Faithful(tree, x.request, x.done)
        /\ x.result = "PASS" => Stopped(tree, x.request, x.done)
    BY <1>2, <1>4, <1>5 DEF ScanRun
  <1>7. ScanRun(r)'
    BY <1>3 DEF ScanRun, Running
  <1>8. ScanDisk(r)'
    BY <1>2, <1>3, <1>5, <1>6 DEF ScanDisk
  <1> QED  BY <1>2, <1>3, <1>7, <1>8, ScanStep

(* A crash leaves no run in its loop.                                      *)
LEMMA ScanCrash ==
    ASSUME Inv, Scanned, Crash
    PROVE  Scanned'
  <1> SUFFICES ASSUME NEW r \in Runs
               PROVE  ScanRun(r)' /\ ScanDisk(r)'
    BY DEF Scanned
  <1>1. /\ tree' = tree /\ checkpoints' = checkpoints /\ receipts' = receipts
        /\ pc'[r] \notin Running
    BY DEF Crash, Running
  <1>2. ScanRun(r)'
    BY <1>1 DEF ScanRun, Running
  <1>3. ScanDisk(r)'
    BY <1>1 DEF Scanned, ScanDisk
  <1> QED  BY <1>2, <1>3

LEMMA ScanStutter ==
    ASSUME Scanned, UNCHANGED vars
    PROVE  Scanned'
  <1> SUFFICES ASSUME NEW r \in Runs
               PROVE  ScanRun(r)' /\ ScanDisk(r)'
    BY DEF Scanned
  <1>1. /\ tree' = tree /\ pc' = pc /\ job' = job /\ done' = done /\ result' = result
        /\ checkpoints' = checkpoints /\ receipts' = receipts
    BY DEF vars, disk, locals
  <1>2. ScanRun(r) /\ ScanDisk(r)
    BY DEF Scanned
  <1> QED  BY <1>1, <1>2 DEF ScanRun, ScanDisk

LEMMA ScanInit == Init => ScanInv
  BY DEF Init, ScanInv, Scanned, ScanRun, ScanDisk, Running

LEMMA ScanNext == Inv /\ ScanInv /\ [Next]_vars => ScanInv'
  <1> SUFFICES ASSUME Inv, ScanInv, [Next]_vars, edits' = 0 PROVE Scanned'
    BY DEF ScanInv
  <1>1. edits \in Nat
    BY DEF Inv, TypeOK
  <1>2. ASSUME NEW r \in Runs, NEW request \in Requests, Start(r, request)
        PROVE  Scanned'
    <2>1. edits = 0
      BY <1>2 DEF Start, disk
    <2> QED  BY <1>2, <2>1, ScanStart DEF ScanInv
  <1>3. ASSUME NEW r \in Runs, NEW request \in Requests, NEW s \in Runs, Resume(r, request, s)
        PROVE  Scanned'
    <2>1. edits = 0
      BY <1>3 DEF Resume, disk
    <2> QED  BY <1>3, <2>1, ScanResume DEF ScanInv
  <1>4. ASSUME NEW r \in Runs, Execute(r)
        PROVE  Scanned'
    <2>1. edits = 0
      BY <1>4 DEF Execute, Complete, Interrupt, Visit, StatFails, Stat, WriteCheckpoint,
         PersistReceipt, disk
    <2>2. Scanned
      BY <2>1 DEF ScanInv
    <2> QED  BY <1>4, <2>2, ScanLeave, ScanStatFails, ScanStat, ScanWrite, ScanPersist
             DEF Execute
  <1>5. CASE Crash
    <2>1. edits = 0
      BY <1>5 DEF Crash
    <2> QED  BY <1>5, <2>1, ScanCrash DEF ScanInv
  <1>6. ASSUME NEW p \in Paths, Edit(p)
        PROVE  Scanned'
    <2>1. edits' = edits + 1
      BY <1>6 DEF Edit
    <2> QED  BY <1>1, <2>1, SMT
  <1>7. CASE UNCHANGED vars
    <2>1. edits = 0
      BY <1>7 DEF vars, disk
    <2> QED  BY <1>7, <2>1, ScanStutter DEF ScanInv
  <1> QED  BY <1>2, <1>3, <1>4, <1>5, <1>6, <1>7 DEF Next

(* What a receipt lists is what fits, as ResumeIsTransparent states it.    *)
LEMMA ScanSafe == Inv /\ ScanInv => ResumeIsTransparent
  <1> SUFFICES ASSUME Inv, ScanInv, edits = 0, NEW r \in Runs, NEW x \in receipts[r],
                      x.result = "PASS"
               PROVE  LET request == x.request
                          fits(p) ==
                              LET upto == Before(request.paths, p) \cup {p}
                              IN  /\ tree[p] \in Sizes
                                  /\ Cardinality(upto) <= request.files
                                  /\ TotalSize(upto) <= request.bytes
                          manifest == x.done.manifest
                          listed == {manifest[i] : i \in DOMAIN manifest}
                      IN  /\ listed = {p \in request.paths : fits(p)}
                          /\ Len(manifest) = Cardinality(listed)
    BY DEF ResumeIsTransparent
  <1>1. PICK request, d : request = x.request /\ d = x.done
    OBVIOUS
  <1>2. /\ Faithful(tree, request, d) /\ Stopped(tree, request, d) /\ Allows(request, d)
    BY <1>1 DEF Inv, DiskInv, ScanInv, Scanned, ScanDisk
  <1>3. request \in Requests /\ d \in Progress
    <2>1. x \in Receipt
      BY LocalsType DEF Inv
    <2> QED  BY <1>1, <2>1, SMT DEF Receipt
  <1>4. \A p : /\ Before(request.paths, p) \cup {p} = Upto(tree, request, p)
               /\ TotalSize(Upto(tree, request, p)) = SumOf(tree, Upto(tree, request, p))
    BY DEF Before, Upto, TotalSize, SumOf
  <1>5. PICK seen : seen = Seen(tree, request, d.next)
    OBVIOUS
  <1>6. seen = {p \in request.paths : Fits(tree, request, p)}
    BY <1>2, <1>3, <1>5, SeenFits, FitsSeen
  <1>7. /\ {d.manifest[i] : i \in DOMAIN d.manifest} = seen
        /\ Len(d.manifest) = Cardinality(seen)
    BY <1>2, <1>5 DEF Faithful
  <1>8. seen = {p \in request.paths :
                   /\ tree[p] \in Sizes
                   /\ Cardinality(Before(request.paths, p) \cup {p}) <= request.files
                   /\ TotalSize(Before(request.paths, p) \cup {p}) <= request.bytes}
    BY <1>4, <1>6 DEF Fits
  <1> QED  BY <1>1, <1>7, <1>8

LEMMA ScanAlways == Spec => []ScanInv
  BY InvAlways, ScanInit, ScanNext, PTL DEF Spec

(* On a tree nobody edits, a run that passes lists exactly the first       *)
(* regular files that its budget allows, whatever interruptions and        *)
(* resumptions it came from.  (execute)                                    *)
THEOREM ResumesAreTransparent == Spec => []ResumeIsTransparent
  BY InvAlways, ScanAlways, ScanSafe, PTL
=============================================================================
