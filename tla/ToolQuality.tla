---------------------------- MODULE ToolQuality ----------------------------
(***************************************************************************)
(* The admission of the installed tools and the laboratory that measures   *)
(* them (open_source_tools_operational_admission_wave1_v1.py,              *)
(* tool_quality_lab_wave1_v1.py), and the tools the planner offers on      *)
(* their files (quality_accepted_tools_goal_planner_binding_v1.py).        *)
(* Requests are served by a pool of threads.  Every file is read whole,    *)
(* changed and written whole.  Admission does this under its lock.  The    *)
(* laboratory declares a lock and never takes it, and when it quarantines  *)
(* a tool it writes admission's file without admission's lock.             *)
(***************************************************************************)
EXTENDS Naturals, FiniteSets, Sequences, SequencesExt

CONSTANTS Workers,         \* threads of the pool
          Tools,           \* tools with a suite of the laboratory
          MaxBinary,       \* bound: binaries of a tool are 1..MaxBinary
          MaxRequests,     \* bound: requests sent
          MaxOverlaps,     \* bound: requests sent while another is in flight
          MaxReplacements, \* bound: times a binary on disk is replaced
          MaxCrashes,      \* bound: crashes of the server
          MaxFailures      \* bound: requests that fail on the way

Suites == {"native_index", "telemetry", "tree_sitter", "opentelemetry", "semgrep",
           "gitleaks", "trivy", "deferred"}

ASSUME BoundsAssumption ==
    /\ MaxBinary \in Nat \ {0} /\ MaxRequests \in Nat /\ MaxOverlaps \in Nat
    /\ MaxReplacements \in Nat /\ MaxCrashes \in Nat /\ MaxFailures \in Nat

VARIABLES
    suite,       \* the suite of each tool in the catalog, which no action changes
    disk,        \* the binary of each tool, 0 when there is none
    admission,   \* tool_admission_wave1_state.json: [Tools -> record]
    runs,        \* benchmark_runs.jsonl: [Ids -> run]
    scorecards,  \* scorecards.json: [Tools -> card]
    reviews,     \* reviews.jsonl, in order
    baselines,   \* quality_baselines.json: [Tools -> baseline]
    quarantines, \* quarantines.json: the tools in it
    pc, call,    \* where a worker stands, and its request
    copy,        \* the file a worker loaded and will write back
    found,       \* what a worker measured, and the card it read
    requests, overlaps, replacements, crashes, failures,
    unlocked,    \* for the properties: admission's file was once written
                 \* without its lock
    swapped,     \* for the properties: requests whose tool's binary was
                 \* replaced between its check and its run
    lapsed       \* for the properties: tools whose last withdrawal failed

files == <<admission, runs, scorecards, reviews, baselines, quarantines>>
ghosts == <<unlocked, swapped, lapsed>>
vars == <<suite, disk, files, pc, call, copy, found, requests, overlaps, replacements, crashes,
          failures, ghosts>>

None == 0

ASSUME NoneAssumption == None \notin Tools

Ids == 1..MaxRequests
Binaries == 0..MaxBinary

(* Tools the laboratory has an admission record for, and those it scans    *)
(* its fixtures with.                                                      *)
Registered == {t \in Tools : suite[t] \notin {"native_index", "telemetry", "deferred"}}
Scanners == {t \in Tools : suite[t] \in {"semgrep", "gitleaks"}}

(***************************************************************************)
(* Measurement                                                             *)
(***************************************************************************)

NoScore == 1000

Measurement(score, safe, limited) == [score |-> score, safe |-> safe, limited |-> limited]

(* _classify: thresholds 90, 80 and 70; a failed safety gate wins.         *)
Classified(m) ==
    CASE ~m.safe -> "QUARANTINED"
      [] m.safe /\ m.score = NoScore -> "NOT_ASSESSED"
      [] m.safe /\ m.score \in 90..100 /\ ~m.limited -> "QUALITY_ACCEPTED"
      [] m.safe /\ m.score \in 80..100 /\ (m.limited \/ m.score < 90) -> "PASS_WITH_LIMITATIONS"
      [] m.safe /\ m.score \in 70..79 -> "HUMAN_REVIEW_REQUIRED"
      [] m.safe /\ m.score < 70 -> "QUALITY_FAILED"

Results == {"QUARANTINED", "NOT_ASSESSED", "QUALITY_ACCEPTED", "PASS_WITH_LIMITATIONS",
            "HUMAN_REVIEW_REQUIRED", "QUALITY_FAILED"}

Eligible == {"QUALITY_ACCEPTED", "PASS_WITH_LIMITATIONS"}

NotAssessed == Measurement(NoScore, TRUE, TRUE)

(* Six golden lists make 85 points, equal repetitions the other 15.        *)
NativeIndex ==
    {Measurement((exact * 85) \div 6 + (IF same THEN 15 ELSE 0), same, exact < 6) :
        exact \in 0..6, same \in BOOLEAN}

LocalTelemetry == {Measurement(IF safe THEN 100 ELSE 0, safe, FALSE) : safe \in BOOLEAN}

TreeSitter(record) ==
    IF record.binary = None THEN {NotAssessed}
    ELSE {Measurement(IF record.state = "ADMITTED" THEN 85 ELSE 70, TRUE, TRUE)}

OpenTelemetry(record) ==
    IF record.binary = None THEN {NotAssessed}
    ELSE {Measurement(IF m.score < 95 THEN m.score ELSE 95, m.safe, TRUE) : m \in LocalTelemetry}

Semgrep ==
    {Measurement(IF detected /\ clean THEN 100 ELSE 60, clean, ~detected) :
        detected \in BOOLEAN, clean \in BOOLEAN}

Gitleaks ==
    {Measurement(IF present /\ clean THEN 100 ELSE 75, clean, ~present) :
        present \in BOOLEAN, clean \in BOOLEAN}

Trivy(record) ==
    {Measurement(NoScore,
                 record.state \in {"ADMITTED", "MISSING_NOT_FAILED", "REGISTERED_AWAITING_PROBE"},
                 TRUE)}

(* Six deferred tools, of which two must be blocked.                       *)
Deferred ==
    {Measurement((n * 100) \div 6, TRUE, TRUE) : n \in 2..6}
    \cup {Measurement((n * 100) \div 6, FALSE, TRUE) : n \in 0..5}

(* What a suite may find of a tool whose admission record is record,       *)
(* scanned or not.                                                         *)
Measured(t, record, scanned) ==
  LET measurements ==
    CASE suite[t] = "native_index" -> NativeIndex
      [] suite[t] = "telemetry" -> LocalTelemetry
      [] suite[t] = "tree_sitter" -> TreeSitter(record)
      [] suite[t] = "opentelemetry" -> OpenTelemetry(record)
      [] suite[t] = "semgrep" -> IF scanned THEN Semgrep ELSE {NotAssessed}
      [] suite[t] = "gitleaks" -> IF scanned THEN Gitleaks ELSE {NotAssessed}
      [] suite[t] = "trivy" -> Trivy(record)
      [] suite[t] = "deferred" -> Deferred
  IN {Classified(m) : m \in measurements}

(***************************************************************************)
(* Records                                                                 *)
(***************************************************************************)

(* "ADMITTED" stands for the state TARGET_STATE_WHEN_PRESENT gives a tool. *)
AdmissionStates ==
    {"REGISTERED_AWAITING_PROBE", "ADMITTED", "MISSING_NOT_FAILED", "VERSION_PROBE_HOLD",
     "SUSPENDED", "SUSPENDED_TIMEOUT_REVIEW"}

Records == [state : AdmissionStates, suspended : BOOLEAN, binary : Binaries]

Runs ==
    [tool : Tools \cup {None}, result : Results, binary : Binaries, scanned : Binaries]

(* "APPROVE" stands for APPROVE_WITH_LIMITATIONS too, "RETURN" for REJECT.  *)
Decisions == {"APPROVE", "RETURN"}

Cards == [run : Ids \cup {None}, result : Results, review : Decisions \cup {"PENDING"}]

Baselines == [run : Ids \cup {None}, result : Results, binary : Binaries]

NoRun == [tool |-> None, result |-> "NOT_ASSESSED", binary |-> None, scanned |-> None]
NoCard == [run |-> None, result |-> "NOT_ASSESSED", review |-> "PENDING"]
NoBaseline == [run |-> None, result |-> "NOT_ASSESSED", binary |-> None]

(* _initial_tool_record                                                    *)
NewRecord == [state |-> "REGISTERED_AWAITING_PROBE", suspended |-> FALSE, binary |-> None]

(***************************************************************************)
(* Requests.  A request goes through phases; a phase that changes a file   *)
(* is a load and a store of it.                                            *)
(***************************************************************************)

Calls(id) ==
    [op : {"look"}, id : {id}]
    \cup [op : {"probe", "suspend"}, id : {id}, tool : Registered]
    \cup [op : {"scan"}, id : {id}, tool : Scanners]
    \cup [op : {"benchmark", "accept", "quarantine"}, id : {id}, tool : Tools]
    \cup [op : {"review"}, id : {id}, run : Ids, decision : Decisions]

NoCall == [op |-> "none", id |-> None]

(* The phases in which _ensure_state and what follows it hold admission's  *)
(* lock: _ensure_state itself writes the file it has just read.            *)
Locked ==
    {"look", "probe", "suspend", "check scan", "settle", "tool record", "fingerprint", "reread"}

(* The phases that load and store a file of the laboratory.                *)
Unlocked == {"card", "mark", "baseline", "quarantine"}

Phases ==
    Locked \cup Unlocked
    \cup {"idle", "execute", "run", "append run", "append review", "read card", "read review",
          "withdraw"}

FirstPhase(c) ==
    CASE c.op \in {"look", "probe", "suspend", "quarantine"} -> c.op
      [] c.op = "scan" -> "check scan"
      [] c.op = "benchmark" ->
            IF suite[c.tool] \in {"native_index", "telemetry"} THEN "append run"
            ELSE "tool record"
      [] c.op = "review" -> "append review"
      [] c.op = "accept" -> "read card"

(* What a request keeps in memory: what a suite found, the binary that was *)
(* scanned, the one the record named, whether the scan timed out, and  *)
(* the card that an acceptance is about.                                   *)
NothingFound ==
    [result |-> "NOT_ASSESSED", scanned |-> None, expected |-> None, slow |-> FALSE,
     card |-> NoCard]

NoCopy == <<>>

Loaded(w) == copy[w] # NoCopy

Content(w) == copy[w][2]

(* What the store of a phase makes of the record the worker loaded.        *)

(* _state_after_probe, _apply_probe                                        *)
Probed(record, binary, pass) ==
    [state |-> IF record.suspended THEN "SUSPENDED"
               ELSE IF binary = None THEN "MISSING_NOT_FAILED"
               ELSE IF pass THEN "ADMITTED" ELSE "VERSION_PROBE_HOLD",
     suspended |-> record.suspended, binary |-> binary]

(* Fault: the state alone says that the tool is suspended.                 *)
StateOnly(record) ==
    [state |-> "SUSPENDED", suspended |-> record.suspended, binary |-> record.binary]

(* suspend, and the laboratory's quarantine                                *)
Suspended(record) == [state |-> "SUSPENDED", suspended |-> TRUE, binary |-> record.binary]

(* The end of a scan: one that timed out suspends its tool.                *)
Settled(record, slow) ==
    IF slow THEN [state |-> "SUSPENDED_TIMEOUT_REVIEW", suspended |-> TRUE,
                  binary |-> record.binary]
    ELSE record

Runnable(record) == ~record.suspended /\ record.state = "ADMITTED"

(* _latest_review                                                          *)
LatestReview(run) ==
    LET about == {i \in DOMAIN reviews : reviews[i].run = run}
    IN  IF about = {} THEN "none"
        ELSE reviews[CHOOSE i \in about : \A j \in about : j <= i].decision

(***************************************************************************)
(* Actions                                                                 *)
(***************************************************************************)

(* Any catalog and an installed registry, in which a tool was probed or    *)
(* not yet.                                                                *)
Init ==
    /\ suite \in [Tools -> Suites]
    /\ disk = [t \in Tools |-> IF t \in Registered THEN 1 ELSE None]
    /\ admission \in [Tools -> {NewRecord, Probed(NewRecord, 1, TRUE)}]
    /\ \A t \in Tools \ Registered : admission[t] = NewRecord
    /\ runs = [i \in Ids |-> NoRun]
    /\ scorecards = [t \in Tools |-> NoCard]
    /\ reviews = <<>>
    /\ baselines = [t \in Tools |-> NoBaseline]
    /\ quarantines = {}
    /\ pc = [w \in Workers |-> "idle"]
    /\ call = [w \in Workers |-> NoCall]
    /\ copy = [w \in Workers |-> NoCopy]
    /\ found = [w \in Workers |-> NothingFound]
    /\ requests = 0 /\ overlaps = 0 /\ replacements = 0 /\ crashes = 0 /\ failures = 0
    /\ unlocked = FALSE /\ swapped = {} /\ lapsed = {}

counters == <<requests, overlaps, replacements, crashes, failures>>

(* A worker goes on to phase p; one that is done forgets what it read.     *)
Proceed(w, p) ==
    /\ pc' = [pc EXCEPT ![w] = p]
    /\ call' = IF p = "idle" THEN [call EXCEPT ![w] = NoCall] ELSE call

Keeps(w, p, memory) ==
    found' = [found EXCEPT ![w] = IF p = "idle" THEN NothingFound ELSE memory]

(* Somebody replaces, installs or removes a tool's binary.                 *)
Replace(t) ==
    /\ replacements < MaxReplacements
    /\ \E b \in Binaries \ {disk[t]} : disk' = [disk EXCEPT ![t] = b]
    /\ replacements' = replacements + 1
    /\ swapped' = swapped \cup
          {call[w].id : w \in {v \in Workers : pc[v] = "run" /\ call[v].tool = t}}
    /\ UNCHANGED <<suite, files, pc, call, copy, found, requests, overlaps, crashes, failures,
                   unlocked, lapsed>>

(* A request arrives.  A review of an unknown run is refused at once.  The *)
(* two native suites read their fixtures only.                             *)
Start(w) ==
    /\ pc[w] = "idle"
    /\ requests < MaxRequests
    /\ \E c \in Calls(requests + 1) :
          /\ c.op = "review" => runs[c.run].tool # None
          /\ call' = [call EXCEPT ![w] = c]
          /\ pc' = [pc EXCEPT ![w] = FirstPhase(c)]
          /\ IF FirstPhase(c) = "append run"
             THEN \E m \in Measured(c.tool, admission[c.tool], FALSE) :
                    found' = [found EXCEPT ![w].result = m]
             ELSE UNCHANGED found
    /\ requests' = requests + 1
    /\ \/ /\ \A v \in Workers : pc[v] = "idle"
          /\ UNCHANGED overlaps
       \/ /\ \E v \in Workers : pc[v] # "idle"
          /\ overlaps < MaxOverlaps
          /\ overlaps' = overlaps + 1
    /\ UNCHANGED <<suite, disk, files, copy, replacements, crashes, failures, ghosts>>

(* Fault: a section is entered while another is open.                      *)
NoLock(w) == TRUE

(* Admission's lock is free.                                               *)
LockFree(w) == \A v \in Workers : ~(pc[v] \in Locked /\ Loaded(v))

File(p) ==
    CASE p \in Locked -> <<"admission", admission>>
      [] p \in {"card", "mark"} -> <<"scorecards", scorecards>>
      [] p = "baseline" -> <<"baselines", baselines>>
      [] p = "quarantine" -> <<"quarantines", quarantines>>

Load(w) ==
    /\ pc[w] \in Locked \cup Unlocked
    /\ ~Loaded(w)
    /\ pc[w] \in Locked => LockFree(w)
    /\ copy' = [copy EXCEPT ![w] = File(pc[w])]
    /\ UNCHANGED <<suite, disk, files, pc, call, found, counters, ghosts>>

(* The store that ends a section of admission's lock.                      *)
SaveAdmission(w, phase, content) ==
    /\ pc[w] = phase /\ Loaded(w)
    /\ admission' = content
    /\ copy' = [copy EXCEPT ![w] = NoCopy]
    /\ UNCHANGED <<suite, disk, runs, scorecards, reviews, baselines, quarantines, counters,
                   ghosts>>

(* health, state, catalog: a read, and still a write of what was read.     *)
Look(w) ==
    /\ SaveAdmission(w, "look", Content(w))
    /\ Proceed(w, "idle") /\ Keeps(w, "idle", found[w])

Probe(w) ==
    \E pass \in BOOLEAN :
      /\ SaveAdmission(w, "probe",
             [Content(w) EXCEPT ![call[w].tool] = Probed(@, disk[call[w].tool], pass)])
      /\ Proceed(w, "idle") /\ Keeps(w, "idle", found[w])

Suspend(w) ==
    /\ SaveAdmission(w, "suspend", [Content(w) EXCEPT ![call[w].tool] = Suspended(@)])
    /\ Proceed(w, "idle") /\ Keeps(w, "idle", found[w])

(* _run_controlled_scan: the tool must be admitted when the section ends.  *)
CheckScan(w) ==
    LET record == Content(w)[call[w].tool]
        next == IF Runnable(record) THEN "execute" ELSE "idle"
    IN  /\ SaveAdmission(w, "check scan", Content(w))
        /\ Proceed(w, next)
        /\ Keeps(w, next, [found[w] EXCEPT !.expected = record.binary])

(* Fault: whatever binary is on disk is run.                               *)
AnyBinary(t, expected) == disk[t] # None

(* _current_executable_or_block                                            *)
SameBinary(t, expected) == disk[t] # None /\ disk[t] = expected

(* A binary that is missing or not the recorded one is refused, and the    *)
(* tool is not suspended for it.                                           *)
CheckBinary(w) ==
    LET next == IF SameBinary(call[w].tool, found[w].expected) THEN "run" ELSE "idle"
    IN  /\ pc[w] = "execute"
        /\ Proceed(w, next) /\ Keeps(w, next, found[w])
        /\ UNCHANGED <<suite, disk, files, copy, counters, ghosts>>

(* _run_direct_argv: the scan itself, of whatever is on disk by now.  When *)
(* nothing is, the request fails.                                          *)
Execute(w) ==
    LET t == call[w].tool
    IN  /\ pc[w] = "run" /\ disk[t] # None
        /\ \E slow \in BOOLEAN, m \in Measured(t, admission[t], TRUE) :
              Keeps(w, "settle",
                    [found[w] EXCEPT !.scanned = disk[t], !.slow = slow, !.result = m])
        /\ Proceed(w, "settle")
        /\ UNCHANGED <<suite, disk, files, copy, counters, ghosts>>

Settle(w) ==
    LET next == IF call[w].op = "benchmark" THEN "fingerprint" ELSE "idle"
    IN  /\ SaveAdmission(w, "settle",
               [Content(w) EXCEPT ![call[w].tool] = Settled(@, found[w].slow)])
        /\ Proceed(w, next) /\ Keeps(w, next, found[w])

(* The suite looks at the tool's record: an admitted scanner is run on the *)
(* fixtures, any other tool is measured by its record alone.               *)
ReadToolRecord(w) ==
    LET t == call[w].tool
        record == Content(w)[t]
    IN  /\ SaveAdmission(w, "tool record", Content(w))
        /\ \/ /\ t \in Scanners /\ record.state = "ADMITTED"
              /\ Proceed(w, "check scan") /\ Keeps(w, "check scan", found[w])
           \/ /\ ~(t \in Scanners /\ record.state = "ADMITTED")
              /\ \E m \in Measured(t, record, FALSE) :
                    Keeps(w, "fingerprint", [found[w] EXCEPT !.result = m])
              /\ Proceed(w, IF t \in Registered THEN "fingerprint" ELSE "append run")

(* _run_suite reads the record again for the binary it notes.              *)
ReadFingerprint(w) ==
    /\ SaveAdmission(w, "fingerprint", Content(w))
    /\ Proceed(w, "append run")
    /\ Keeps(w, "append run",
             [found[w] EXCEPT !.expected = Content(w)[call[w].tool].binary])

(* _persist_run: the run, then its card.                                   *)
AppendRun(w) ==
    /\ pc[w] = "append run"
    /\ runs' = [runs EXCEPT ![call[w].id] =
                   [tool |-> call[w].tool, result |-> found[w].result,
                    binary |-> IF call[w].tool \in Registered THEN found[w].expected ELSE None,
                    scanned |-> found[w].scanned]]
    /\ Proceed(w, "card")
    /\ UNCHANGED <<suite, disk, admission, scorecards, reviews, baselines, quarantines, copy, found,
                   counters, ghosts>>

(* The store of a file of the laboratory.                                  *)
SaveLab(w, phase) ==
    /\ pc[w] = phase /\ Loaded(w)
    /\ copy' = [copy EXCEPT ![w] = NoCopy]
    /\ UNCHANGED <<suite, disk, admission, runs, reviews, counters, ghosts>>

SaveCard(w) ==
    LET t == call[w].tool
        result == found[w].result
        next == IF result = "QUARANTINED" THEN "quarantine" ELSE "idle"
    IN  /\ SaveLab(w, "card")
        /\ scorecards' = [Content(w) EXCEPT ![t] =
                             [run |-> call[w].id, result |-> result, review |-> "PENDING"]]
        /\ Proceed(w, next) /\ Keeps(w, next, found[w])
        /\ UNCHANGED <<baselines, quarantines>>

(* _review_run: the review, then the mark on the card of its run.          *)
AppendReview(w) ==
    /\ pc[w] = "append review"
    /\ reviews' = Append(reviews, [run |-> call[w].run, decision |-> call[w].decision])
    /\ Proceed(w, "mark")
    /\ UNCHANGED <<suite, disk, admission, runs, scorecards, baselines, quarantines, copy, found,
                   counters, ghosts>>

MarkCard(w) ==
    LET t == runs[call[w].run].tool
    IN  /\ SaveLab(w, "mark")
        /\ scorecards' = IF Content(w)[t].run = call[w].run
                         THEN [Content(w) EXCEPT ![t].review = call[w].decision]
                         ELSE scorecards
        /\ Proceed(w, "idle") /\ Keeps(w, "idle", found[w])
        /\ UNCHANGED <<baselines, quarantines>>

(* _accept_baseline: the card, then the latest review of the card's run,   *)
(* then the baseline.                                                      *)
ReadCard(w) ==
    LET card == scorecards[call[w].tool]
        next == IF card.run # None /\ card.result \in Eligible THEN "read review" ELSE "idle"
    IN  /\ pc[w] = "read card"
        /\ Proceed(w, next) /\ Keeps(w, next, [found[w] EXCEPT !.card = card])
        /\ UNCHANGED <<suite, disk, files, copy, counters, ghosts>>

ReadReview(w) ==
    LET next == IF LatestReview(found[w].card.run) = "APPROVE" THEN "baseline" ELSE "idle"
    IN  /\ pc[w] = "read review"
        /\ Proceed(w, next) /\ Keeps(w, next, found[w])
        /\ UNCHANGED <<suite, disk, files, copy, counters, ghosts>>

(* Fault: the baseline is made of the card as it is when it is written.    *)
CurrentBaseline(w) ==
    LET card == scorecards[call[w].tool]
    IN  [run |-> card.run, result |-> card.result, binary |-> runs[card.run].binary]

(* The baseline of the run whose card was read.                            *)
NewBaseline(w) ==
    LET card == found[w].card
    IN  [run |-> card.run, result |-> card.result, binary |-> runs[card.run].binary]

SaveBaseline(w) ==
    /\ SaveLab(w, "baseline")
    /\ baselines' = [Content(w) EXCEPT ![call[w].tool] = NewBaseline(w)]
    /\ Proceed(w, "idle") /\ Keeps(w, "idle", found[w])
    /\ UNCHANGED <<scorecards, quarantines>>

(* _quarantine_tool: the laboratory's record of it, then a copy of         *)
(* admission's file taken under admission's lock and written back without. *)
SaveQuarantine(w) ==
    LET next == IF call[w].tool \in Registered THEN "reread" ELSE "idle"
    IN  /\ SaveLab(w, "quarantine")
        /\ quarantines' = Content(w) \cup {call[w].tool}
        /\ Proceed(w, next) /\ Keeps(w, next, found[w])
        /\ UNCHANGED <<scorecards, baselines>>

Reread(w) ==
    /\ pc[w] = "reread" /\ Loaded(w)
    /\ admission' = Content(w)
    /\ Proceed(w, "withdraw")
    /\ UNCHANGED <<suite, disk, runs, scorecards, reviews, baselines, quarantines, copy, found,
                   counters, ghosts>>

Withdraw(w) ==
    /\ pc[w] = "withdraw"
    /\ admission' = [Content(w) EXCEPT ![call[w].tool] = Suspended(@)]
    /\ copy' = [copy EXCEPT ![w] = NoCopy]
    /\ Proceed(w, "idle") /\ Keeps(w, "idle", found[w])
    /\ unlocked' = TRUE
    /\ lapsed' = lapsed \ {call[w].tool}
    /\ UNCHANGED <<suite, disk, runs, scorecards, reviews, baselines, quarantines, counters,
                   swapped>>

(* A read, a write or the tool itself cannot be had, and the request ends. *)
(* _quarantine_tool swallows that when it withdraws the tool and answers   *)
(* as if it had.                                                           *)
Fails(w) ==
    /\ failures < MaxFailures
    /\ pc[w] # "idle"
    /\ copy' = [copy EXCEPT ![w] = NoCopy]
    /\ Proceed(w, "idle") /\ Keeps(w, "idle", found[w])
    /\ lapsed' = IF pc[w] \in {"reread", "withdraw"} THEN lapsed \cup {call[w].tool} ELSE lapsed
    /\ failures' = failures + 1
    /\ UNCHANGED <<suite, disk, files, requests, overlaps, replacements, crashes, unlocked,
                   swapped>>

(* The server dies: what was read is lost, what was renamed in place stays. *)
Crash ==
    /\ crashes < MaxCrashes
    /\ \E w \in Workers : pc[w] # "idle"
    /\ pc' = [w \in Workers |-> "idle"]
    /\ call' = [w \in Workers |-> NoCall]
    /\ copy' = [w \in Workers |-> NoCopy]
    /\ found' = [w \in Workers |-> NothingFound]
    /\ crashes' = crashes + 1
    /\ UNCHANGED <<suite, disk, files, requests, overlaps, replacements, failures,
                   ghosts>>

Admission(w) ==
    \/ Look(w) \/ Probe(w) \/ Suspend(w) \/ CheckScan(w) \/ CheckBinary(w)
    \/ Execute(w) \/ Settle(w)

Laboratory(w) ==
    \/ ReadToolRecord(w) \/ ReadFingerprint(w) \/ AppendRun(w) \/ SaveCard(w)
    \/ AppendReview(w) \/ MarkCard(w)
    \/ ReadCard(w) \/ ReadReview(w) \/ SaveBaseline(w)
    \/ SaveQuarantine(w) \/ Reread(w) \/ Withdraw(w)

Next ==
    \/ \E t \in Registered : Replace(t)
    \/ \E w \in Workers : Start(w) \/ Load(w) \/ Admission(w) \/ Laboratory(w) \/ Fails(w)
    \/ Crash

Spec == Init /\ [][Next]_vars

(***************************************************************************)
(* The planner                                                             *)
(***************************************************************************)

(* load_quality_snapshot: quarantine wins, and an accepted card counts     *)
(* while the baseline is that of the same result.  Every scan's result has *)
(* an identifier of its own in its hash, so that equal hashes stand for    *)
(* the same run; the other suites repeat the hash of the same result.      *)
PlannerState(t) ==
    IF t \in quarantines THEN "QUARANTINED"
    ELSE IF scorecards[t].run = None THEN "UNASSESSED"
    ELSE IF scorecards[t].result \notin Eligible THEN scorecards[t].result
    ELSE IF baselines[t].run = None THEN "REVALIDATION_REQUIRED"
    ELSE IF \/ t \in Scanners /\ baselines[t].run # scorecards[t].run
            \/ baselines[t].result # scorecards[t].result
    THEN "REVALIDATION_REQUIRED"
    ELSE scorecards[t].result

(* evaluate_plan: the tools it may select for a step, the limited ones     *)
(* with a person's reference.                                              *)
Offered == {t \in Tools : PlannerState(t) \in Eligible}

(***************************************************************************)
(* Properties                                                              *)
(***************************************************************************)

TypeOK ==
    /\ suite \in [Tools -> Suites]
    /\ disk \in [Tools -> Binaries]
    /\ admission \in [Tools -> Records]
    /\ runs \in [Ids -> Runs]
    /\ scorecards \in [Tools -> Cards]
    /\ reviews \in Seq([run : Ids, decision : Decisions])
    /\ baselines \in [Tools -> Baselines]
    /\ quarantines \subseteq Tools
    /\ pc \in [Workers -> Phases]
    /\ \A w \in Workers : call[w] \in Calls(call[w].id) \cup {NoCall}
    /\ requests \in 0..MaxRequests /\ crashes \in 0..MaxCrashes
    /\ swapped \subseteq Ids /\ lapsed \subseteq Tools
    /\ \A w, v \in Workers :
          pc[w] \in Locked /\ Loaded(w) /\ pc[v] \in Locked /\ Loaded(v) => w = v

(* A baseline is that of one run of its tool from end to end: the result   *)
(* and the binary are that run's, the result was eligible, and a person    *)
(* had approved that run, whatever runs, reviews and cards came between    *)
(* the reads of _accept_baseline.  With one request at a time the binary   *)
(* is also the one that was scanned, though _run_suite reads it from       *)
(* admission's file only afterwards, unless it was replaced after          *)
(* _current_executable_or_block had read its hash.                         *)
BaselineEarned ==
    \A t \in Tools :
      LET b == baselines[t]
      IN  b.run # None =>
            /\ runs[b.run].tool = t
            /\ b.result = runs[b.run].result /\ b.result \in Eligible
            /\ b.binary = runs[b.run].binary
            /\ overlaps = 0 /\ t \in Scanners /\ b.run \notin swapped =>
                  b.binary = runs[b.run].scanned
            /\ \E i \in DOMAIN reviews :
                  reviews[i].run = b.run /\ reviews[i].decision = "APPROVE"

(* With one request at a time and no crash, a quarantined tool is          *)
(* withdrawn for good, whatever requests failed before and after: it is    *)
(* suspended and no later probe admits it again, unless it was the         *)
(* withdrawal itself that failed (_quarantine_tool).                       *)
QuarantineWithdraws ==
    overlaps = 0 /\ crashes = 0 /\ (\A w \in Workers : pc[w] = "idle") =>
        \A t \in (quarantines \cap Registered) \ lapsed :
            admission[t].suspended /\ admission[t].state # "ADMITTED"

(* A suspension lasts: only the laboratory's write without admission's     *)
(* lock can lose one, whatever probes, scans, reads and crashes overlap.   *)
SuspensionLasts ==
    [][~unlocked' => \A t \in Tools : admission[t].suspended => admission'[t].suspended]_vars

(* The planner's policy: a tool whose version drifted from the one its     *)
(* baseline is for needs revalidation and is not offered.                  *)
DriftNeedsRevalidation ==
    \A t \in Offered \cap Scanners :
        admission[t].binary # None => admission[t].binary = baselines[t].binary
=============================================================================
