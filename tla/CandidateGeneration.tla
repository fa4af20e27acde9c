------------------------- MODULE CandidateGeneration -------------------------
(***************************************************************************)
(* A generation with a human's authority behind the quality gate, as the   *)
(* coding-model provider does it (governed_coding_model_provider_v1.py):   *)
(* a candidate is made in a copy of the source, tested there, exported and *)
(* recorded under its key, once.  The template pipeline                    *)
(* (CandidatePipeline.tla) and the first read-only operation               *)
(* (FirstOperation.tla) take the same steps in other orders, each over     *)
(* files and a lock of its own; "path" is the order of the service at hand.*)
(* What a request decides before it takes the lock, it decides on settings *)
(* and on a gate that may have changed when the lock is its own.           *)
(***************************************************************************)
EXTENDS Naturals, Sequences, SequencesExt

CONSTANTS Workers,     \* threads of the pool
          Keys,        \* candidate keys
          Versions,    \* contents the source tree may have
          Built,       \* those of them that have a frontend/dist
          MaxRequests, \* bound: requests sent
          MaxOverlaps, \* bound: requests sent while another is in flight
          MaxEdits,    \* bound: edits of the source tree
          MaxCrashes   \* bound: crashes of the server

ASSUME BuiltAssumption == Built \subseteq Versions

ASSUME BoundsAssumption ==
    /\ MaxRequests \in Nat /\ MaxOverlaps \in Nat /\ MaxEdits \in Nat /\ MaxCrashes \in Nat

VARIABLES
    path,       \* the phases of a generation, in the order of the service
    source,     \* the contents the source tree has had, the present ones last
    dashboard,  \* the settings file: a setting, or none
    lock,       \* the worker that holds _LOCK
    workspace,  \* [Keys -> work]: what lies in the candidate's workspace
    export,     \* [Keys -> work]: what its archive was made of
    records,    \* [Keys -> record]: the candidate's manifest
    runs,       \* the run records: [key, attempt]
    latest,     \* the key latest.json points to
    latestRun,  \* the attempt latest_run.json points to
    reviews,    \* reviews.jsonl
    pc, call,   \* where a worker stands, and its request
    draft,      \* what a worker has read so far
    answers,    \* [Ids -> answer]: what the server answered
    requests, overlaps, edits, crashes

files == <<workspace, export, records, runs, latest, latestRun, reviews>>
counters == <<requests, overlaps, edits, crashes>>
vars == <<path, source, dashboard, lock, files, pc, call, draft, answers, counters>>

None == "none"
Nobody == "nobody"

(* The lock is free when nobody holds it.                                   *)
ASSUME NobodyAssumption == Nobody \notin Workers

Ids == 1..MaxRequests

(* The provider's settings: disabled, or enabled in one way or another.    *)
Settings == {"disabled", "target", "other"}

Decisions == {"APPROVE", "REJECT"}

(* The present moment: a moment is a position in the history of the source.*)
Now == Len(source)

(* What lies in a workspace: the attempt that wrote the application and    *)
(* the module, the moment of the package that was copied and of the        *)
(* application that was read, the moment of the frontend/dist, and the     *)
(* attempts whose tests have run there and may have left files.            *)
Work(attempt, copied, app, dist, state) ==
    [attempt |-> attempt, copied |-> copied, app |-> app, dist |-> dist, state |-> state]

NoWork == Work(0, 0, 0, 0, {})

(* What lies in an archive: the application and the module of an attempt.  *)
Archive(attempt, app) == [attempt |-> attempt, app |-> app]

NoArchive == Archive(0, 0)

Record(attempt, before, app, review) ==
    [attempt |-> attempt, before |-> before, app |-> app, review |-> review]

NoRecord == Record(0, 0, 0, "PENDING")

Calls ==
    [op : {"generate"}, key : Keys]
    \cup [op : {"review"}, key : Keys, decision : Decisions]
    \cup [op : {"save settings"}, settings : Settings]
    \cup [op : {"probe"}]

NoCall == [op |-> None]

(* before, copied, app: when the source was digested, copied, and read as  *)
(* text; passed: the result of the candidate's test.                       *)
Draft(before, copied, app, passed) ==
    [before |-> before, copied |-> copied, app |-> app, passed |-> passed]

NoDraft == Draft(0, 0, 0, FALSE)

(* Fault: the pointer to a candidate is written before its manifest.       *)
PointFirstPath ==
    <<"settings", "gate", "acquire", "digest", "ask", "copy", "patch", "test", "compare",
      "export", "point", "commit", "run", "point run", "log">>

(* The provider's generate                                                 *)
ProviderPath ==
    <<"settings", "gate", "acquire", "digest", "ask", "copy", "patch", "test", "compare",
      "export", "commit", "run", "point", "point run", "log">>

On(phase) == Contains(path, phase)

(* The phase after phase p of a generation; the last one answers.          *)
Then(p) ==
    LET i == CHOOSE j \in 1..Len(path) : path[j] = p
    IN  IF i = Len(path) THEN "idle" ELSE path[i + 1]

(* effective_settings: the file, then the environment, then the defaults,  *)
(* both of them disabled here.                                             *)
Effective == IF dashboard = None THEN "disabled" ELSE dashboard

Init(phases) ==
    /\ path = phases
    /\ \E v \in Versions : source = <<v>>
    /\ dashboard \in {None, "target"}
    /\ lock = Nobody
    /\ workspace = [k \in Keys |-> NoWork]
    /\ export = [k \in Keys |-> NoArchive]
    /\ records = [k \in Keys |-> NoRecord]
    /\ runs = {} /\ latest = None /\ latestRun = 0
    /\ reviews = <<>>
    /\ pc = [w \in Workers |-> "idle"]
    /\ call = [w \in Workers |-> NoCall]
    /\ draft = [w \in Workers |-> NoDraft]
    /\ answers = [i \in Ids |-> None]
    /\ requests = 0 /\ overlaps = 0 /\ edits = 0 /\ crashes = 0

(* Somebody edits the source tree, or undoes an edit.                      *)
Edit ==
    /\ edits < MaxEdits
    /\ edits' = edits + 1
    /\ \E v \in Versions \ {source[Now]} : source' = Append(source, v)
    /\ UNCHANGED <<path, dashboard, lock, files, pc, call, draft, answers, requests,
                   overlaps, crashes>>

(***************************************************************************)
(* Requests                                                                *)
(***************************************************************************)

FirstPhase(c) ==
    CASE c.op = "generate" -> path[1]
      [] c.op = "review" -> "acquire"
      [] c.op = "save settings" -> "write settings"
      [] c.op = "probe" -> "settings"

(* Worker w takes a request c, whose number is the next one.               *)
Accept(w, c) ==
    /\ pc[w] = "idle"
    /\ requests < MaxRequests
    /\ requests' = requests + 1
    /\ call' = [call EXCEPT ![w] = <<requests + 1, c>>]
    /\ pc' = [pc EXCEPT ![w] = FirstPhase(c)]
    /\ \/ (\A v \in Workers : pc[v] = "idle") /\ UNCHANGED overlaps
       \/ /\ \E v \in Workers : pc[v] # "idle"
          /\ overlaps < MaxOverlaps
          /\ overlaps' = overlaps + 1
    /\ UNCHANGED <<path, source, dashboard, lock, files, draft, answers, edits, crashes>>

Number(w) == call[w][1]
Asked(w) == call[w][2]
Key(w) == Asked(w).key

(* What a request reads and keeps; it goes on to phase p.                  *)
Proceed(w, p, memory) ==
    /\ pc' = [pc EXCEPT ![w] = p]
    /\ draft' = [draft EXCEPT ![w] = memory]
    /\ UNCHANGED <<path, source, dashboard, call, answers, counters>>

(* Fault: an exception leaves the lock taken.                              *)
KeptOnRefusal(w, answer) == IF lock = w /\ answer # "refused" THEN Nobody ELSE lock

Released(w, answer) == IF lock = w THEN Nobody ELSE lock

(* The end of a request, by a return or by an exception: _LOCK is left.    *)
Answer(w, answer) ==
    /\ pc' = [pc EXCEPT ![w] = "idle"]
    /\ call' = [call EXCEPT ![w] = NoCall]
    /\ draft' = [draft EXCEPT ![w] = NoDraft]
    /\ answers' = [answers EXCEPT ![Number(w)] = answer]
    /\ lock' = Released(w, answer)
    /\ UNCHANGED <<path, source, dashboard, counters>>

(* A phase that looks and writes nothing: on when ok, refused otherwise.   *)
Check(w, phase, ok, next) ==
    /\ pc[w] = phase
    /\ \/ ok /\ Proceed(w, next, draft[w]) /\ UNCHANGED lock
       \/ ~ok /\ Answer(w, "refused")
    /\ UNCHANGED files

(* Fault: a section of the lock is entered while another is open.          *)
NoLock == TRUE

LockFree == lock = Nobody

(* The settings of a generation or of a probe, read before any lock.       *)
ReadSettings(w) ==
    Check(w, "settings", Effective # "disabled",
          IF Asked(w).op = "probe" THEN "ping" ELSE Then("settings"))

(* _quality_gate: the laboratory's files, which change at any time.        *)
QualityGate(w) == \E satisfied \in BOOLEAN : Check(w, "gate", satisfied, Then("gate"))

(* Fault: only the candidate generated last is known.                      *)
LatestOnly(k) == latest = k

Existing(k) == records[k].attempt # 0

(* The lock is taken; an existing candidate is answered at once.           *)
Acquire(w) ==
    /\ pc[w] = "acquire" /\ Asked(w).op = "generate" /\ LockFree
    /\ \/ /\ Existing(Key(w))
          /\ Answer(w, "reused")
       \/ /\ ~Existing(Key(w))
          /\ lock' = w
          /\ Proceed(w, Then("acquire"), draft[w])
    /\ UNCHANGED files

(***************************************************************************)
(* generate, under the lock                                                *)
(***************************************************************************)

(* A phase of a generation that reads the source.                          *)
Reads(w, phase, memory) ==
    /\ pc[w] = phase
    /\ Proceed(w, Then(phase), memory)
    /\ UNCHANGED lock

(* A phase of a generation that may raise instead.                         *)
Raises(w, phase) ==
    /\ pc[w] = phase
    /\ Answer(w, "refused")
    /\ UNCHANGED files

Digest(w) ==
    /\ Reads(w, "digest", Draft(Now, 0, 0, FALSE))
    /\ UNCHANGED files

(* _call_provider and the checks of what it returned                       *)
Ask(w) == \E valid \in BOOLEAN : Check(w, "ask", valid, Then("ask"))

(* _copytree_filtered: the package of an earlier attempt is removed, its   *)
(* frontend/dist when the source has one, and nothing else.                *)
Copy(w) ==
    LET d == draft[w]
        old == workspace[Key(w)]
        dist == IF source[Now] \in Built THEN Now ELSE old.dist
    IN  /\ Reads(w, "copy", Draft(d.before, Now, 0, FALSE))
        /\ workspace' = [workspace EXCEPT ![Key(w)] =
                            Work(Number(w), Now, Now, dist, old.state)]
        /\ UNCHANGED <<export, records, runs, latest, latestRun, reviews>>

(* The application file is read once more, patched and written over the    *)
(* copy; an application that cannot be patched raises.                     *)
Patch(w) ==
    LET d == draft[w]
        old == workspace[Key(w)]
    IN  \/ /\ Reads(w, "patch", Draft(d.before, d.copied, Now, FALSE))
           /\ workspace' = [workspace EXCEPT ![Key(w)] =
                               Work(Number(w), d.copied, Now, old.dist, old.state)]
           /\ UNCHANGED <<export, records, runs, latest, latestRun, reviews>>
        \/ Raises(w, "patch")

(* The test of the candidate passes, fails, or runs out of its 90 seconds; *)
(* what it writes stays in the workspace.                                  *)
Test(w) ==
    LET d == draft[w]
        old == workspace[Key(w)]
    IN  /\ pc[w] = "test"
        /\ \/ \E passed \in BOOLEAN :
                 Reads(w, "test", Draft(d.before, d.copied, d.app, passed))
           \/ Answer(w, "refused")
        /\ workspace' = [workspace EXCEPT ![Key(w)] =
                            Work(old.attempt, old.copied, old.app, old.dist,
                                 old.state \cup {Number(w)})]
        /\ UNCHANGED <<export, records, runs, latest, latestRun, reviews>>

(* Fault: the second digest is not compared with the first.                *)
AnySource(w) == TRUE

(* The digests are of what lies there, whenever it was put there.          *)
SourceUnchanged(w) == source[Now] = source[draft[w].before]

Compare(w) == Check(w, "compare", SourceUnchanged(w) /\ draft[w].passed, Then("compare"))

(* A phase of a generation that writes one file.                           *)
Writes(w, phase) == Reads(w, phase, draft[w])

Export(w) ==
    LET made == workspace[Key(w)]
    IN  /\ Writes(w, "export")
        /\ export' = [export EXCEPT ![Key(w)] = Archive(made.attempt, made.app)]
        /\ UNCHANGED <<workspace, records, runs, latest, latestRun, reviews>>

Commit(w) ==
    LET d == draft[w]
    IN  /\ Writes(w, "commit")
        /\ records' = [records EXCEPT ![Key(w)] =
                          Record(Number(w), d.before, d.app, "PENDING")]
        /\ UNCHANGED <<workspace, export, runs, latest, latestRun, reviews>>

SaveRun(w) ==
    /\ Writes(w, "run")
    /\ runs' = runs \cup {[key |-> Key(w), attempt |-> Number(w)]}
    /\ UNCHANGED <<workspace, export, records, latest, latestRun, reviews>>

Point(w) ==
    /\ Writes(w, "point")
    /\ latest' = Key(w)
    /\ UNCHANGED <<workspace, export, records, runs, latestRun, reviews>>

PointRun(w) ==
    /\ Writes(w, "point run")
    /\ latestRun' = Number(w)
    /\ UNCHANGED <<workspace, export, records, runs, latest, reviews>>

(* The event that ends a request that went well; nothing reads it again.   *)
Log(w) ==
    LET answer == [op \in {"generate", "review", "save settings", "probe"} |->
                      CASE op = "generate" -> "generated" [] op = "review" -> "reviewed"
                        [] op = "save settings" -> "saved" [] op = "probe" -> "probed"]
    IN  /\ pc[w] = "log"
        /\ Answer(w, answer[Asked(w).op])
        /\ UNCHANGED files

(***************************************************************************)
(* The other requests                                                      *)
(***************************************************************************)

(* save_settings: no lock is taken.                                        *)
SaveSettings(w) ==
    /\ pc[w] = "write settings"
    /\ dashboard' = Asked(w).settings
    /\ pc' = [pc EXCEPT ![w] = "log"]
    /\ UNCHANGED <<path, source, lock, files, call, draft, answers, counters>>

(* probe: the provider answers or it does not.                             *)
Probe(w) == \E up \in BOOLEAN : Check(w, "ping", up, "log")

(* review, which the pipeline alone has: all of it is under the lock, and  *)
(* what was decided before does not matter.                                *)
Load(w) ==
    /\ pc[w] = "acquire" /\ Asked(w).op = "review" /\ LockFree
    /\ \/ /\ Existing(Key(w))
          /\ lock' = w
          /\ Proceed(w, "save review", draft[w])
       \/ /\ ~Existing(Key(w))
          /\ Answer(w, "refused")
    /\ UNCHANGED files

SaveReview(w) ==
    LET r == records[Key(w)]
    IN  /\ pc[w] = "save review"
        /\ Proceed(w, "log review", draft[w])
        /\ records' = [records EXCEPT ![Key(w)] =
                          Record(r.attempt, r.before, r.app, Asked(w).decision)]
        /\ UNCHANGED <<lock, workspace, export, runs, latest, latestRun, reviews>>

LogReview(w) ==
    /\ pc[w] = "log review"
    /\ Proceed(w, "log", draft[w])
    /\ reviews' = Append(reviews, [key |-> Key(w), decision |-> Asked(w).decision])
    /\ UNCHANGED <<lock, workspace, export, records, runs, latest, latestRun>>

(* The server dies: what was in memory is lost, and nobody is answered.    *)
Crash ==
    /\ crashes < MaxCrashes
    /\ \E w \in Workers : pc[w] # "idle"
    /\ crashes' = crashes + 1
    /\ pc' = [w \in Workers |-> "idle"]
    /\ call' = [w \in Workers |-> NoCall]
    /\ draft' = [w \in Workers |-> NoDraft]
    /\ lock' = Nobody
    /\ UNCHANGED <<path, source, dashboard, files, answers, requests, overlaps, edits>>

Making(w) ==
    \/ QualityGate(w) \/ Acquire(w) \/ Digest(w) \/ Copy(w) \/ Patch(w) \/ Test(w)
    \/ Compare(w) \/ Export(w) \/ Commit(w) \/ Point(w) \/ Log(w)

(* What the provider does and the pipeline does not.                       *)
Providing(w) ==
    ReadSettings(w) \/ Ask(w) \/ SaveRun(w) \/ PointRun(w) \/ SaveSettings(w) \/ Probe(w)

Reviewing(w) == Load(w) \/ SaveReview(w) \/ LogReview(w)

(* The provider's requests                                                 *)
Request(w) == \E c \in {d \in Calls : d.op # "review"} : Accept(w, c)

Environment == Edit \/ Crash

Next == Environment \/ \E w \in Workers : Request(w) \/ Making(w) \/ Providing(w)

Spec == Init(ProviderPath) /\ [][Next]_vars

(***************************************************************************)
(* Properties                                                              *)
(***************************************************************************)

Committed(k) == records[k].attempt # 0

(* The code of a committed candidate is of one attempt: the application,   *)
(* the module and the package in its workspace, its archive and its        *)
(* manifest, although attempts that failed or crashed left a workspace and *)
(* an archive under the same key.  The attempt was tested there; and what  *)
(* lies there of an earlier one is what tests left, and the frontend when  *)
(* the source that was copied has none.                                    *)
CandidateIsWhole ==
    On("copy") => \A k \in Keys : Committed(k) =>
        /\ workspace[k].attempt = records[k].attempt
        /\ workspace[k].app = records[k].app
        /\ source[workspace[k].copied] \in Built => workspace[k].dist = workspace[k].copied
        /\ records[k].attempt \in workspace[k].state
        /\ export[k] = Archive(records[k].attempt, records[k].app)

(* The source was edited after moment m and the edit was undone.           *)
Returned(m) == \E j \in m + 1..Now : source[j] = source[m]

(* A committed candidate is of one source: what was copied and tested, and *)
(* the application file that was patched, are what the digest in its       *)
(* manifest is of, although the tree is edited while it is read, unless an *)
(* edit was undone again, which two equal digests cannot tell.             *)
OneSource ==
    \A k \in Keys : Committed(k) =>
        \/ Returned(records[k].before)
        \/ /\ source[records[k].app] = source[records[k].before]
           /\ On("copy") => source[workspace[k].copied] = source[records[k].before]

(* Pointers lead somewhere, in a crash too; and a candidate has its run    *)
(* record as soon as its generation is over, unless the server died.       *)
LatestResolves ==
    /\ latest # None => Committed(latest)
    /\ latestRun # 0 => \E r \in runs : r.attempt = latestRun
    /\ \A r \in runs : records[r.key].attempt = r.attempt
    /\ On("run") /\ lock = Nobody /\ crashes = 0 =>
          \A k \in Keys : Committed(k) => [key |-> k, attempt |-> records[k].attempt] \in runs

LastDecision(k) ==
    LET about == {i \in DOMAIN reviews : reviews[i].key = k}
    IN  IF about = {} THEN "PENDING"
        ELSE reviews[CHOOSE i \in about : \A j \in about : j <= i].decision

(* The log of reviews ends with the decision the manifest shows, whatever  *)
(* reviews overlap, unless the server died between the two writes.         *)
ReviewLogged ==
    lock = Nobody /\ crashes = 0 =>
        \A k \in Keys : records[k].review = LastDecision(k)

(* Every request ends: the lock is left on every way out of a generation.  *)
RequestsEnd == \A w \in Workers : pc[w] # "idle" ~> pc[w] = "idle"
=============================================================================
