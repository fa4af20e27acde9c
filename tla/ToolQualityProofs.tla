-------------------------- MODULE ToolQualityProofs --------------------------
(***************************************************************************)
(* Safety of the installed tools' admission and of the laboratory that     *)
(* measures them, for any tools, threads, binaries, requests and crashes.  *)
(***************************************************************************)
EXTENDS ToolQuality, WellFoundedInduction, TLAPS

(* What a worker in a phase may be serving.                                *)
AnyCall == {NoCall} \cup UNION {Calls(i) : i \in Ids}

CallFits(p, c) ==
    /\ p = "idle" => c = NoCall
    /\ p # "idle" => c.id \in 1..requests
    /\ p \in {"probe", "suspend", "fingerprint", "reread", "withdraw"} => c.tool \in Registered
    /\ p \in {"check scan", "execute", "run", "settle"} => c.tool \in Scanners
    /\ p \in {"tool record", "append run", "card", "read card", "read review", "baseline",
              "quarantine"} => c.tool \in Tools
    /\ p \in {"append review", "mark"} => c.run \in Ids /\ c.decision \in Decisions

(* What it may have read, and the file it may have loaded.                 *)
Findings ==
    [result : Results, scanned : Binaries, expected : Binaries, slow : BOOLEAN, card : Cards]

Copied(file, contents) == {<<file, x>> : x \in contents}

CopyFits(p, k) ==
    \/ k = NoCopy /\ p # "withdraw"
    \/ p \in Locked \cup {"withdraw"} /\ k \in Copied("admission", [Tools -> Records])
    \/ p \in {"card", "mark"} /\ k \in Copied("scorecards", [Tools -> Cards])
    \/ p = "baseline" /\ k \in Copied("baselines", [Tools -> Baselines])
    \/ p = "quarantine" /\ k \in Copied("quarantines", SUBSET Tools)

(* The schemas, with those of what workers hold.                           *)
FilesInv ==
    /\ suite \in [Tools -> Suites]
    /\ disk \in [Tools -> Binaries]
    /\ admission \in [Tools -> Records]
    /\ runs \in [Ids -> Runs]
    /\ scorecards \in [Tools -> Cards]
    /\ reviews \in Seq([run : Ids, decision : Decisions])
    /\ baselines \in [Tools -> Baselines]
    /\ quarantines \subseteq Tools
    /\ requests \in 0..MaxRequests /\ crashes \in 0..MaxCrashes /\ overlaps \in Nat
    /\ swapped \subseteq Ids /\ lapsed \subseteq Tools

WorkersInv ==
    /\ pc \in [Workers -> Phases] /\ call \in [Workers -> AnyCall]
    /\ found \in [Workers -> Findings]
    /\ copy = [w \in Workers |-> copy[w]]
    /\ \A w \in Workers : CallFits(pc[w], call[w]) /\ CopyFits(pc[w], copy[w])
    /\ \A w, v \in Workers :
          pc[w] \in Locked /\ Loaded(w) /\ pc[v] \in Locked /\ Loaded(v) => w = v

TypeInv == FilesInv /\ WorkersInv

(* A section of admission's lock writes back what the file still is.       *)
LockInv ==
    ~unlocked => \A w \in Workers : pc[w] \in Locked /\ Loaded(w) => Content(w) = admission

(* The phases before a run is recorded.                                    *)
Before ==
    {"tool record", "check scan", "execute", "run", "settle", "fingerprint", "append run"}

(* A card, or a baseline, is that of a run of its tool.                    *)
CardTrue(rs, card, t) ==
    card.run # None => rs[card.run].tool = t /\ rs[card.run].result = card.result

Approved(vs, run) == \E i \in DOMAIN vs : vs[i].run = run /\ vs[i].decision = "APPROVE"

BaselineTrue(rs, vs, b, t) ==
    b.run # None =>
        /\ rs[b.run].tool = t
        /\ b.result = rs[b.run].result /\ b.result \in Eligible
        /\ b.binary = rs[b.run].binary
        /\ Approved(vs, b.run)

(* What a worker in a phase knows of the runs.                             *)
RunKept(rs, vs, p, c, k, f) ==
    /\ p \in Before => rs[c.id] = NoRun
    /\ p = "card" => rs[c.id].tool = c.tool /\ rs[c.id].result = f.result
    /\ p \in {"append review", "mark"} => rs[c.run].tool # None
    /\ p \in {"card", "mark"} /\ k # NoCopy => \A t \in Tools : CardTrue(rs, k[2][t], t)
    /\ p \in {"read review", "baseline"} =>
          f.card.run # None /\ CardTrue(rs, f.card, c.tool) /\ f.card.result \in Eligible
    /\ p = "baseline" => Approved(vs, f.card.run)
    /\ p = "baseline" /\ k # NoCopy => \A t \in Tools : BaselineTrue(rs, vs, k[2][t], t)

(* Every request has a number of its own, a run is recorded once, and      *)
(* cards, baselines and the copies of them are of recorded runs.           *)
RunInv ==
    /\ \A i \in Ids : i > requests => runs[i] = NoRun
    /\ \A v, w \in Workers :
          pc[v] # "idle" /\ pc[w] # "idle" /\ call[v].id = call[w].id => v = w
    /\ \A t \in Tools : CardTrue(runs, scorecards[t], t)
    /\ \A t \in Tools : BaselineTrue(runs, reviews, baselines[t], t)
    /\ \A w \in Workers : RunKept(runs, reviews, pc[w], call[w], copy[w], found[w])

(* What a worker that is alone knows.                                      *)
ScanTrue(run) == run.tool \in Scanners /\ run.result \in Eligible => run.binary = run.scanned

AloneKept(adm, qs, p, c, k, f) ==
    /\ p \in Locked \cup {"withdraw"} /\ k # NoCopy => k[2] = adm
    /\ p = "quarantine" /\ k # NoCopy => k[2] = qs
    /\ p = "execute" => f.expected = adm[c.tool].binary
    /\ p = "run" =>
          /\ f.expected = adm[c.tool].binary
          /\ c.id \notin swapped => disk[c.tool] = f.expected
    /\ p = "settle" /\ c.id \notin swapped => f.scanned = adm[c.tool].binary
    /\ p = "fingerprint" /\ c.tool \in Scanners /\ c.id \notin swapped =>
          f.scanned = adm[c.tool].binary \/ f.result \notin Eligible
    /\ p = "append run" /\ c.tool \in Scanners /\ c.id \notin swapped =>
          f.scanned = f.expected \/ f.result \notin Eligible

(* A tool is withdrawn for good.                                           *)
Held(record) == record.suspended /\ record.state # "ADMITTED"

(* With one request at a time, the worker that serves it finds every file  *)
(* as it left it, a run's binary is the one scanned unless it was replaced *)
(* just before, and a quarantined tool is withdrawn or being withdrawn,    *)
(* until a crash or a failure to withdraw it.                              *)
AloneInv ==
    overlaps = 0 =>
        /\ \A v, w \in Workers : pc[v] # "idle" /\ pc[w] # "idle" => v = w
        /\ \A i \in Ids \ swapped : ScanTrue(runs[i])
        /\ \A w \in Workers :
              AloneKept(admission, quarantines, pc[w], call[w], copy[w], found[w])
        /\ crashes = 0 =>
              \A t \in (quarantines \cap Registered) \ lapsed :
                  \/ Held(admission[t])
                  \/ \E w \in Workers : pc[w] \in {"reread", "withdraw"} /\ call[w].tool = t

IInv == TypeInv /\ LockInv /\ RunInv /\ AloneInv

-----------------------------------------------------------------------------
(* Requests, measurements and copies                                       *)

(* The catalog is what tools are registered and scanned by.                *)
LEMMA SameCatalog ==
    suite' = suite =>
        Registered' = Registered /\ Scanners' = Scanners /\ AnyCall' = AnyCall
  BY DEF Registered, Scanners, AnyCall, Calls

LEMMA ScannersRegistered == Scanners \subseteq Registered /\ Registered \subseteq Tools
  BY DEF Scanners, Registered

(* The fields of a request.                                                *)
LEMMA CallFields ==
    ASSUME NEW i, NEW c \in Calls(i)
    PROVE  /\ c.id = i
           /\ c.op \in {"look", "probe", "suspend", "scan", "benchmark", "accept", "quarantine",
                        "review"}
           /\ c.op \in {"probe", "suspend"} => c.tool \in Registered
           /\ c.op = "scan" => c.tool \in Scanners
           /\ c.op \in {"benchmark", "accept", "quarantine"} => c.tool \in Tools
           /\ c.op = "review" => c.run \in Ids /\ c.decision \in Decisions
  BY DEF Calls

LEMMA NoCallFields ==
    /\ NoCall.id = None /\ NoCall.op = "none"
    /\ \A i : NoCall \notin Calls(i)
  <1>1. NoCall.id = None /\ NoCall.op = "none"
    BY DEF NoCall
  <1>2. ASSUME NEW i, NoCall \in Calls(i) PROVE FALSE
    <2>1. NoCall.op \in {"look", "probe", "suspend", "scan", "benchmark", "accept", "quarantine",
                         "review"}
      BY <1>2, CallFields
    <2> QED  BY <1>1, <2>1
  <1> QED  BY <1>1, <1>2

(* A new request is of the phase it starts in.                             *)
LEMMA FirstFits ==
    ASSUME NEW i \in Ids, NEW c \in Calls(i)
    PROVE  /\ FirstPhase(c) \in {"look", "probe", "suspend", "quarantine", "check scan",
                                 "append run", "tool record", "append review", "read card"}
           /\ FirstPhase(c) \in {"probe", "suspend"} => c.tool \in Registered
           /\ FirstPhase(c) = "check scan" => c.tool \in Scanners
           /\ FirstPhase(c) \in {"tool record", "append run", "read card", "quarantine"} =>
                 c.tool \in Tools
           /\ FirstPhase(c) = "append review" =>
                 c.op = "review" /\ c.run \in Ids /\ c.decision \in Decisions
           /\ FirstPhase(c) = "append run" => suite[c.tool] \in {"native_index", "telemetry"}
  BY CallFields DEF FirstPhase

(* Every measurement a suite makes is classified.                          *)
Measurements ==
    {Measurement(score, safe, limited) :
        score \in 0..100 \cup {NoScore}, safe \in BOOLEAN, limited \in BOOLEAN}

LEMMA Measuring ==
    ASSUME NEW score \in 0..100 \cup {NoScore}, NEW safe \in BOOLEAN, NEW limited \in BOOLEAN
    PROVE  /\ Measurement(score, safe, limited) \in Measurements
           /\ Measurement(score, safe, limited).score = score
           /\ Measurement(score, safe, limited).safe = safe
           /\ Measurement(score, safe, limited).limited = limited
  <1>1. Measurement(score, safe, limited) \in Measurements
    BY DEF Measurements
  <1>2. /\ Measurement(score, safe, limited).score = score
        /\ Measurement(score, safe, limited).safe = safe
        /\ Measurement(score, safe, limited).limited = limited
    BY DEF Measurement
  <1> QED  BY <1>1, <1>2

LEMMA ClassifiedType == ASSUME NEW m \in Measurements PROVE Classified(m) \in Results
  <1>1. PICK score \in 0..100 \cup {NoScore}, safe \in BOOLEAN, limited \in BOOLEAN :
            m = Measurement(score, safe, limited)
    BY DEF Measurements
  <1>2. /\ m.score \in 0..100 \cup {NoScore}
        /\ m.safe \in BOOLEAN /\ m.limited \in BOOLEAN
    BY <1>1, Measuring, ZenonT(30)
  <1>3. ~m.safe => Classified(m) = "QUARANTINED"
    BY <1>2 DEF Classified
  <1>4. m.safe /\ m.score = NoScore => Classified(m) = "NOT_ASSESSED"
    BY <1>2 DEF Classified, NoScore
  <1>5. m.safe /\ m.score \in 0..100 => Classified(m) \in Results
    BY <1>2 DEF Classified, Results, NoScore
  <1> QED  BY <1>2, <1>3, <1>4, <1>5 DEF Results

LEMMA MeasuredType ==
    ASSUME NEW t \in Tools, NEW record, NEW scanned \in BOOLEAN, suite \in [Tools -> Suites]
    PROVE  Measured(t, record, scanned) \subseteq Results
  <1>1. NativeIndex \subseteq Measurements
    <2>1. ASSUME NEW exact \in 0..6, NEW same \in BOOLEAN
          PROVE  Measurement((exact * 85) \div 6 + (IF same THEN 15 ELSE 0), same, exact < 6)
                     \in Measurements
      <3>1. (exact * 85) \div 6 \in 0..85
        OBVIOUS
      <3>2. (exact * 85) \div 6 + (IF same THEN 15 ELSE 0) \in 0..100
        BY <3>1
      <3>3. (exact < 6) \in BOOLEAN
        OBVIOUS
      <3> QED  BY <3>2, <3>3, Measuring, ZenonT(30)
    <2> QED  BY <2>1 DEF NativeIndex
  <1>2. NotAssessed \in Measurements
    BY Measuring DEF NotAssessed
  <1>3. TreeSitter(record) \subseteq Measurements
    <2>1. (IF record.state = "ADMITTED" THEN 85 ELSE 70) \in 0..100
      OBVIOUS
    <2>2. Measurement(IF record.state = "ADMITTED" THEN 85 ELSE 70, TRUE, TRUE) \in Measurements
      BY <2>1, Measuring
    <2> QED  BY <1>2, <2>2 DEF TreeSitter
  <1>4. /\ LocalTelemetry \subseteq Measurements
        /\ \A m \in LocalTelemetry : m.score \in 0..100 /\ m.safe \in BOOLEAN
    <2>1. ASSUME NEW safe \in BOOLEAN
          PROVE  /\ Measurement(IF safe THEN 100 ELSE 0, safe, FALSE) \in Measurements
                 /\ Measurement(IF safe THEN 100 ELSE 0, safe, FALSE).score \in 0..100
                 /\ Measurement(IF safe THEN 100 ELSE 0, safe, FALSE).safe \in BOOLEAN
      <3>1. (IF safe THEN 100 ELSE 0) \in 0..100 /\ FALSE \in BOOLEAN
        OBVIOUS
      <3> DEFINE score == IF safe THEN 100 ELSE 0
      <3> HIDE DEF score
      <3>2. score \in 0..100 \cup {NoScore}
        BY <3>1 DEF score
      <3>3. /\ Measurement(score, safe, FALSE) \in Measurements
            /\ Measurement(score, safe, FALSE).score = score
            /\ Measurement(score, safe, FALSE).safe = safe
        BY <3>1, <3>2, Measuring
      <3>4. /\ Measurement(score, safe, FALSE).score \in 0..100
            /\ Measurement(score, safe, FALSE).safe \in BOOLEAN
        BY <3>1, <3>3 DEF score
      <3> QED  BY <3>3, <3>4 DEF score
    <2> QED  BY <2>1 DEF LocalTelemetry
  <1>5. OpenTelemetry(record) \subseteq Measurements
    <2>1. ASSUME NEW m \in LocalTelemetry
          PROVE  Measurement(IF m.score < 95 THEN m.score ELSE 95, m.safe, TRUE) \in Measurements
      <3>1. (IF m.score < 95 THEN m.score ELSE 95) \in 0..100
        BY <1>4
      <3> QED  BY <1>4, <3>1, Measuring, ZenonT(30)
    <2> QED  BY <1>2, <2>1 DEF OpenTelemetry
  <1>6. Semgrep \subseteq Measurements
    <2>1. ASSUME NEW detected \in BOOLEAN, NEW clean \in BOOLEAN
          PROVE  Measurement(IF detected /\ clean THEN 100 ELSE 60, clean, ~detected)
                     \in Measurements
      <3>1. (IF detected /\ clean THEN 100 ELSE 60) \in 0..100
        OBVIOUS
      <3>2. (~detected) \in BOOLEAN
        OBVIOUS
      <3> QED  BY <3>1, <3>2, Measuring
    <2> QED  BY <2>1 DEF Semgrep
  <1>7. Gitleaks \subseteq Measurements
    <2>1. ASSUME NEW present \in BOOLEAN, NEW clean \in BOOLEAN
          PROVE  Measurement(IF present /\ clean THEN 100 ELSE 75, clean, ~present)
                     \in Measurements
      <3>1. (IF present /\ clean THEN 100 ELSE 75) \in 0..100
        OBVIOUS
      <3>2. (~present) \in BOOLEAN
        OBVIOUS
      <3> QED  BY <3>1, <3>2, Measuring, ZenonT(30)
    <2> QED  BY <2>1 DEF Gitleaks
  <1>8. Trivy(record) \subseteq Measurements
    <2> DEFINE safe ==
            record.state \in {"ADMITTED", "MISSING_NOT_FAILED", "REGISTERED_AWAITING_PROBE"}
    <2>1. safe \in BOOLEAN
      OBVIOUS
    <2> HIDE DEF safe
    <2>2. Measurement(NoScore, safe, TRUE) \in Measurements
      BY <2>1, Measuring
    <2> QED  BY <2>2 DEF Trivy, safe
  <1>9. Deferred \subseteq Measurements
    <2>1. ASSUME NEW n \in 0..6, NEW safe \in BOOLEAN
          PROVE  Measurement((n * 100) \div 6, safe, TRUE) \in Measurements
      <3>1. (n * 100) \div 6 \in 0..100
        OBVIOUS
      <3> QED  BY <3>1, Measuring
    <2>2. 2..6 \subseteq 0..6 /\ 0..5 \subseteq 0..6 /\ TRUE \in BOOLEAN /\ FALSE \in BOOLEAN
      OBVIOUS
    <2> QED  BY <2>1, <2>2 DEF Deferred
  <1>10. /\ Measured(t, record, scanned) = {Classified(m) : m \in
                CASE suite[t] = "native_index" -> NativeIndex
                  [] suite[t] = "telemetry" -> LocalTelemetry
                  [] suite[t] = "tree_sitter" -> TreeSitter(record)
                  [] suite[t] = "opentelemetry" -> OpenTelemetry(record)
                  [] suite[t] = "semgrep" -> IF scanned THEN Semgrep ELSE {NotAssessed}
                  [] suite[t] = "gitleaks" -> IF scanned THEN Gitleaks ELSE {NotAssessed}
                  [] suite[t] = "trivy" -> Trivy(record)
                  [] suite[t] = "deferred" -> Deferred}
         /\ suite[t] \in Suites
    BY DEF Measured
  <1> DEFINE S == CASE suite[t] = "native_index" -> NativeIndex
                    [] suite[t] = "telemetry" -> LocalTelemetry
                    [] suite[t] = "tree_sitter" -> TreeSitter(record)
                    [] suite[t] = "opentelemetry" -> OpenTelemetry(record)
                    [] suite[t] = "semgrep" -> IF scanned THEN Semgrep ELSE {NotAssessed}
                    [] suite[t] = "gitleaks" -> IF scanned THEN Gitleaks ELSE {NotAssessed}
                    [] suite[t] = "trivy" -> Trivy(record)
                    [] suite[t] = "deferred" -> Deferred
  <1>11. S \subseteq Measurements
    BY <1>1, <1>2, <1>3, <1>4, <1>5, <1>6, <1>7, <1>8, <1>9, <1>10 DEF Suites
  <1> QED  BY <1>10, <1>11, ClassifiedType

(* What a worker that has loaded a file holds.                             *)
LEMMA CopyFields ==
    ASSUME NEW p, NEW k, CopyFits(p, k), k # NoCopy
    PROVE  /\ p \in Locked \cup {"withdraw"} => k[2] \in [Tools -> Records]
           /\ p \in {"card", "mark"} => k[2] \in [Tools -> Cards]
           /\ p = "baseline" => k[2] \in [Tools -> Baselines]
           /\ p = "quarantine" => k[2] \subseteq Tools
           /\ p \in Locked \cup Unlocked \cup {"withdraw"}
  <1>1. \A file, contents : k \in Copied(file, contents) => k[2] \in contents
    BY DEF Copied
  <1> QED  BY <1>1 DEF CopyFits, Locked, Unlocked

-----------------------------------------------------------------------------
(* One worker's step                                                       *)

(* Worker w goes to phase p with request c, copy k and memory f.           *)
Moves(w, p, c, k, f) ==
    /\ pc' = [pc EXCEPT ![w] = p]
    /\ call' = [call EXCEPT ![w] = c]
    /\ copy' = [copy EXCEPT ![w] = k]
    /\ found' = [found EXCEPT ![w] = f]

LEMMA OneMoves ==
    ASSUME TypeInv, NEW w \in Workers, NEW p, NEW c, NEW k, NEW f, Moves(w, p, c, k, f)
    PROVE  /\ pc'[w] = p /\ call'[w] = c /\ copy'[w] = k /\ found'[w] = f
           /\ \A v \in Workers \ {w} :
                 /\ pc'[v] = pc[v] /\ call'[v] = call[v]
                 /\ copy'[v] = copy[v] /\ found'[v] = found[v]
           /\ copy' = [v \in Workers |-> copy'[v]]
  BY DEF Moves, TypeInv, WorkersInv

(* What a worker and the files hold, by the worker's phase.                *)
LEMMA WorkerFields ==
    ASSUME TypeInv, NEW w \in Workers
    PROVE  /\ pc[w] \in Phases /\ call[w] \in AnyCall /\ found[w] \in Findings
           /\ CallFits(pc[w], call[w]) /\ CopyFits(pc[w], copy[w])
           /\ Loaded(w) => copy[w] # NoCopy
           /\ pc[w] \in Locked \cup {"withdraw"} /\ Loaded(w) => Content(w) \in [Tools -> Records]
           /\ pc[w] \in {"card", "mark"} /\ Loaded(w) => Content(w) \in [Tools -> Cards]
           /\ pc[w] = "baseline" /\ Loaded(w) => Content(w) \in [Tools -> Baselines]
           /\ pc[w] = "quarantine" /\ Loaded(w) => Content(w) \subseteq Tools
           /\ pc[w] = "withdraw" => Loaded(w)
  <1>1. /\ pc[w] \in Phases /\ call[w] \in AnyCall /\ found[w] \in Findings
        /\ CallFits(pc[w], call[w]) /\ CopyFits(pc[w], copy[w])
    BY DEF TypeInv, WorkersInv
  <1>2. pc[w] = "withdraw" => copy[w] # NoCopy
    <2>1. ASSUME pc[w] = "withdraw" PROVE copy[w] \in Copied("admission", [Tools -> Records])
      BY <1>1, <2>1 DEF CopyFits, Locked
    <2>2. NoCopy \notin Copied("admission", [Tools -> Records])
      BY DEF NoCopy, Copied
    <2> QED  BY <2>1, <2>2
  <1> QED  BY <1>1, <1>2, CopyFields DEF Loaded, Content

LEMMA NotCopied ==
    ASSUME TypeInv, NEW w \in Workers, pc[w] \notin Locked \cup Unlocked \cup {"withdraw"}
    PROVE  copy[w] = NoCopy
  <1>1. CopyFits(pc[w], copy[w])
    BY WorkerFields
  <1> QED  BY <1>1 DEF CopyFits, Unlocked

LEMMA TypeMoves ==
    ASSUME TypeInv, NEW w \in Workers, NEW p \in Phases, NEW c \in AnyCall, NEW k,
           NEW f \in Findings, Moves(w, p, c, k, f), suite' = suite, requests' = requests,
           CallFits(p, c), CopyFits(p, k),
           p \in Locked /\ k # NoCopy =>
               \A v \in Workers \ {w} : ~(pc[v] \in Locked /\ Loaded(v))
    PROVE  WorkersInv'
  <1>1. /\ pc'[w] = p /\ call'[w] = c /\ copy'[w] = k /\ found'[w] = f
        /\ \A v \in Workers \ {w} :
              /\ pc'[v] = pc[v] /\ call'[v] = call[v]
              /\ copy'[v] = copy[v] /\ found'[v] = found[v]
        /\ copy' = [v \in Workers |-> copy'[v]]
    BY OneMoves
  <1>2. Registered' = Registered /\ Scanners' = Scanners /\ AnyCall' = AnyCall
    BY SameCatalog
  <1>3. /\ pc' \in [Workers -> Phases] /\ call' \in [Workers -> AnyCall']
        /\ found' \in [Workers -> Findings]
    BY <1>2 DEF Moves, TypeInv, WorkersInv
  <1>4. ASSUME NEW v \in Workers PROVE CallFits(pc[v], call[v]) /\ CopyFits(pc[v], copy[v])
    BY DEF TypeInv, WorkersInv
  <1>5. ASSUME NEW v \in Workers
        PROVE  CallFits(pc'[v], call'[v]) /\ CopyFits(pc'[v], copy'[v])
    BY <1>1, <1>4
  <1>6. ASSUME NEW v \in Workers
        PROVE  (CallFits(pc[v], call[v]) /\ CopyFits(pc[v], copy[v]))'
    BY <1>2, <1>5 DEF CallFits, CopyFits
  <1>7. ASSUME NEW u \in Workers, NEW v \in Workers,
               pc'[u] \in Locked, copy'[u] # NoCopy, pc'[v] \in Locked, copy'[v] # NoCopy
        PROVE  u = v
    <2>1. ASSUME NEW x \in Workers, NEW y \in Workers,
                 pc[x] \in Locked, copy[x] # NoCopy, pc[y] \in Locked, copy[y] # NoCopy
          PROVE  x = y
      BY <2>1 DEF TypeInv, WorkersInv, Loaded
    <2> QED  BY <1>1, <1>7, <2>1 DEF Loaded
  <1> QED  BY <1>1, <1>3, <1>6, <1>7 DEF WorkersInv, Loaded

LEMMA LockMoves ==
    ASSUME TypeInv, LockInv, NEW w \in Workers, NEW p, NEW c, NEW k, NEW f, Moves(w, p, c, k, f),
           unlocked' = unlocked,
           ~unlocked /\ p \in Locked /\ k # NoCopy => k[2] = admission',
           admission' = admission \/ (pc[w] \in Locked /\ Loaded(w))
    PROVE  LockInv'
  <1>1. /\ pc'[w] = p /\ copy'[w] = k
        /\ \A v \in Workers \ {w} : pc'[v] = pc[v] /\ copy'[v] = copy[v]
    BY OneMoves
  <1>2. ASSUME ~unlocked, NEW v \in Workers, v # w, pc[v] \in Locked, copy[v] # NoCopy
        PROVE  copy[v][2] = admission'
    <2>1. copy[v][2] = admission
      BY <1>2 DEF LockInv, Loaded, Content
    <2>2. ~(pc[w] \in Locked /\ Loaded(w))
      BY <1>2 DEF TypeInv, WorkersInv, Loaded
    <2> QED  BY <2>1, <2>2
  <1>3. ASSUME ~unlocked', NEW v \in Workers, pc'[v] \in Locked, copy'[v] # NoCopy
        PROVE  copy'[v][2] = admission'
    BY <1>1, <1>2, <1>3
  <1> QED  BY <1>3 DEF LockInv, Loaded, Content

(* What is known of recorded runs and of reviews stays true.               *)
LEMMA RunKeptGrows ==
    ASSUME NEW rs, NEW rs2, NEW vs, NEW vs2, NEW p, NEW c, NEW k, NEW f \in Findings,
           requests \in 0..MaxRequests, CallFits(p, c), CopyFits(p, k),
           \A i \in Ids : rs[i].tool # None => rs2[i] = rs[i],
           p \in Before => rs2[c.id] = rs[c.id],
           \A r : Approved(vs, r) => Approved(vs2, r),
           RunKept(rs, vs, p, c, k, f)
    PROVE  RunKept(rs2, vs2, p, c, k, f)
  <1>1. ASSUME NEW card, card.run \in Ids \cup {None}, NEW t \in Tools, CardTrue(rs, card, t)
        PROVE  CardTrue(rs2, card, t)
    BY <1>1, NoneAssumption DEF CardTrue
  <1>2. ASSUME NEW b, b.run \in Ids \cup {None}, NEW t \in Tools, BaselineTrue(rs, vs, b, t)
        PROVE  BaselineTrue(rs2, vs2, b, t)
    BY <1>2, NoneAssumption DEF BaselineTrue
  <1>3. p = "card" => c.id \in Ids /\ c.tool \in Tools
    BY BoundsAssumption DEF CallFits, Ids
  <1>4. p \in {"append review", "mark"} => c.run \in Ids
    BY DEF CallFits
  <1>5. p \in {"read review", "baseline"} => c.tool \in Tools
    BY DEF CallFits
  <1>6. k # NoCopy =>
          /\ p \in {"card", "mark"} => k[2] \in [Tools -> Cards]
          /\ p = "baseline" => k[2] \in [Tools -> Baselines]
    BY CopyFields
  <1>7. f.card.run \in Ids \cup {None}
    BY DEF Findings, Cards
  <1>8. ASSUME p = "card" PROVE rs2[c.id].tool = c.tool /\ rs2[c.id].result = f.result
    BY <1>3, <1>8, NoneAssumption DEF RunKept
  <1>9. ASSUME p \in {"append review", "mark"} PROVE rs2[c.run].tool # None
    BY <1>4, <1>9 DEF RunKept
  <1>10. ASSUME p \in {"card", "mark"}, k # NoCopy, NEW t \in Tools PROVE CardTrue(rs2, k[2][t], t)
    <2>1. k[2][t].run \in Ids \cup {None}
      BY <1>6, <1>10 DEF Cards
    <2>2. CardTrue(rs, k[2][t], t)
      BY <1>10 DEF RunKept
    <2> QED  BY <1>1, <2>1, <2>2
  <1>11. ASSUME p \in {"read review", "baseline"}
         PROVE  /\ f.card.run # None /\ CardTrue(rs2, f.card, c.tool)
                /\ f.card.result \in Eligible
    <2>1. /\ f.card.run # None /\ CardTrue(rs, f.card, c.tool)
          /\ f.card.result \in Eligible
      BY <1>11 DEF RunKept
    <2> QED  BY <1>1, <1>5, <1>7, <1>11, <2>1
  <1>12. ASSUME p = "baseline", k # NoCopy, NEW t \in Tools
         PROVE  BaselineTrue(rs2, vs2, k[2][t], t)
    <2>1. k[2][t].run \in Ids \cup {None}
      BY <1>6, <1>12 DEF Baselines
    <2>2. BaselineTrue(rs, vs, k[2][t], t)
      BY <1>12 DEF RunKept
    <2> QED  BY <1>2, <2>1, <2>2
  <1>13. p = "baseline" => Approved(vs2, f.card.run)
    BY DEF RunKept
  <1>14. p \in Before => rs2[c.id] = NoRun
    BY DEF RunKept
  <1> QED  BY <1>8, <1>9, <1>10, <1>11, <1>12, <1>13, <1>14 DEF RunKept

LEMMA RunMoves ==
    ASSUME TypeInv, RunInv, NEW w \in Workers, NEW p, NEW c, NEW k, NEW f, Moves(w, p, c, k, f),
           requests' = requests, pc[w] # "idle", p # "idle" => c = call[w],
           \A i \in Ids : runs[i].tool # None => runs'[i] = runs[i],
           \A i \in Ids : i # call[w].id => runs'[i] = runs[i],
           \A r : Approved(reviews, r) => Approved(reviews', r),
           \A t \in Tools : CardTrue(runs', scorecards'[t], t),
           \A t \in Tools : BaselineTrue(runs', reviews', baselines'[t], t),
           RunKept(runs', reviews', p, c, k, f)
    PROVE  RunInv'
  <1>1. /\ pc'[w] = p /\ call'[w] = c /\ copy'[w] = k /\ found'[w] = f
        /\ \A v \in Workers \ {w} :
              /\ pc'[v] = pc[v] /\ call'[v] = call[v]
              /\ copy'[v] = copy[v] /\ found'[v] = found[v]
    BY OneMoves
  <1>2. /\ \A i \in Ids : i > requests => runs[i] = NoRun
        /\ \A u, v \in Workers :
              pc[u] # "idle" /\ pc[v] # "idle" /\ call[u].id = call[v].id => u = v
        /\ \A v \in Workers : RunKept(runs, reviews, pc[v], call[v], copy[v], found[v])
    BY DEF RunInv
  <1>3. requests \in 0..MaxRequests
    BY DEF TypeInv, FilesInv
  <1>4. ASSUME NEW v \in Workers, pc[v] # "idle"
        PROVE  call[v].id \in Ids /\ call[v].id <= requests
    <2>1. call[v].id \in 1..requests
      BY <1>4, WorkerFields DEF CallFits
    <2> QED  BY <1>3, <2>1, BoundsAssumption DEF Ids
  <1>5. \A i \in Ids : i > requests' => runs'[i] = NoRun
    BY <1>2, <1>3, <1>4 DEF Ids
  <1>6. \A u, v \in Workers :
            pc'[u] # "idle" /\ pc'[v] # "idle" /\ call'[u].id = call'[v].id => u = v
    BY <1>1, <1>2
  <1>7. ASSUME NEW v \in Workers, v # w
        PROVE  RunKept(runs', reviews', pc[v], call[v], copy[v], found[v])
    <2>1. pc[v] \in Before => runs'[call[v].id] = runs[call[v].id]
      BY <1>2, <1>4, <1>7 DEF Before
    <2>2. /\ CallFits(pc[v], call[v]) /\ CopyFits(pc[v], copy[v]) /\ found[v] \in Findings
          /\ RunKept(runs, reviews, pc[v], call[v], copy[v], found[v])
      BY <1>2, WorkerFields
    <2> QED  BY <1>3, <2>1, <2>2, RunKeptGrows
  <1>8. ASSUME NEW v \in Workers
        PROVE  RunKept(runs', reviews', pc'[v], call'[v], copy'[v], found'[v])
    BY <1>1, <1>7
  <1> QED  BY <1>5, <1>6, <1>8 DEF RunInv

LEMMA RunQuiet ==
    ASSUME TypeInv, RunInv, NEW w \in Workers, NEW p, NEW c, NEW k, NEW f, Moves(w, p, c, k, f),
           requests' = requests, pc[w] # "idle", p # "idle" => c = call[w],
           runs' = runs, reviews' = reviews, scorecards' = scorecards, baselines' = baselines,
           RunKept(runs, reviews, p, c, k, f)
    PROVE  RunInv'
  <1>1. /\ \A t \in Tools : CardTrue(runs', scorecards'[t], t)
        /\ \A t \in Tools : BaselineTrue(runs', reviews', baselines'[t], t)
        /\ RunKept(runs', reviews', p, c, k, f)
    BY DEF RunInv
  <1> QED  BY <1>1, RunMoves

(* A quarantined tool's record is withdrawn, or its worker will do it.     *)
Withdrawn(adm, p, c, t) == Held(adm[t]) \/ (p \in {"reread", "withdraw"} /\ c.tool = t)

LEMMA AloneMoves ==
    ASSUME TypeInv, AloneInv, NEW w \in Workers, NEW p, NEW c, NEW k, NEW f,
           Moves(w, p, c, k, f), pc[w] # "idle", suite' = suite, overlaps' = overlaps,
           crashes' = crashes, disk' = disk, swapped' = swapped,
           overlaps = 0 => \A i \in Ids \ swapped : ScanTrue(runs'[i]),
           overlaps = 0 => AloneKept(admission', quarantines', p, c, k, f),
           overlaps = 0 /\ crashes = 0 =>
               \A t \in (quarantines' \cap Registered) \ lapsed' : Withdrawn(admission', p, c, t)
    PROVE  AloneInv'
  <1> SUFFICES ASSUME overlaps = 0
               PROVE  (/\ \A v, u \in Workers : pc[v] # "idle" /\ pc[u] # "idle" => v = u
                       /\ \A i \in Ids \ swapped : ScanTrue(runs[i])
                       /\ \A v \in Workers :
                             AloneKept(admission, quarantines, pc[v], call[v], copy[v], found[v])
                       /\ crashes = 0 =>
                             \A t \in (quarantines \cap Registered) \ lapsed :
                                 \/ Held(admission[t])
                                 \/ \E v \in Workers :
                                       pc[v] \in {"reread", "withdraw"} /\ call[v].tool = t)'
    BY DEF AloneInv
  <1>1. /\ pc'[w] = p /\ call'[w] = c /\ copy'[w] = k /\ found'[w] = f
        /\ \A v \in Workers \ {w} :
              /\ pc'[v] = pc[v] /\ call'[v] = call[v]
              /\ copy'[v] = copy[v] /\ found'[v] = found[v]
    BY OneMoves
  <1>2. Registered' = Registered /\ Scanners' = Scanners
    BY SameCatalog
  <1>3. \A v \in Workers \ {w} : pc[v] = "idle"
    BY DEF AloneInv
  <1>4. ASSUME NEW v \in Workers, v # w
        PROVE  AloneKept(admission', quarantines', pc[v], call[v], copy[v], found[v])
    <2>1. pc[v] = "idle"
      BY <1>3, <1>4
    <2> QED  BY <2>1 DEF AloneKept, Locked
  <1>5. ASSUME NEW v \in Workers
        PROVE  AloneKept(admission', quarantines', pc'[v], call'[v], copy'[v], found'[v])
    BY <1>1, <1>4
  <1>6. \A v \in Workers :
            AloneKept(admission, quarantines, pc[v], call[v], copy[v], found[v])'
    BY <1>2, <1>5 DEF AloneKept
  <1>7. \A i \in Ids \ swapped : ScanTrue(runs[i])'
    BY <1>2 DEF ScanTrue
  <1>8. \A v, u \in Workers : pc'[v] # "idle" /\ pc'[u] # "idle" => v = u
    BY <1>1, <1>3
  <1>9. ASSUME crashes' = 0, NEW t \in (quarantines' \cap Registered') \ lapsed'
        PROVE  \/ Held(admission'[t])
               \/ \E v \in Workers : pc'[v] \in {"reread", "withdraw"} /\ call'[v].tool = t
    BY <1>1, <1>2, <1>9 DEF Withdrawn
  <1> QED  BY <1>6, <1>7, <1>8, <1>9 DEF Held

LEMMA AloneQuiet ==
    ASSUME TypeInv, AloneInv, NEW w \in Workers, NEW p, NEW c, NEW k, NEW f,
           Moves(w, p, c, k, f), pc[w] # "idle", suite' = suite, overlaps' = overlaps,
           crashes' = crashes, disk' = disk, swapped' = swapped, lapsed \subseteq lapsed',
           runs' = runs, quarantines' = quarantines,
           overlaps = 0 => AloneKept(admission', quarantines, p, c, k, f),
           overlaps = 0 => \A t \in Registered \ lapsed' :
               Withdrawn(admission, pc[w], call[w], t) => Withdrawn(admission', p, c, t)
    PROVE  AloneInv'
  <1>1. ASSUME overlaps = 0, crashes = 0, NEW t \in (quarantines \cap Registered) \ lapsed
        PROVE  Withdrawn(admission, pc[w], call[w], t)
    <2>1. /\ \A v, u \in Workers : pc[v] # "idle" /\ pc[u] # "idle" => v = u
          /\ \/ Held(admission[t])
             \/ \E v \in Workers : pc[v] \in {"reread", "withdraw"} /\ call[v].tool = t
      BY <1>1 DEF AloneInv
    <2>2. ASSUME NEW v \in Workers, pc[v] \in {"reread", "withdraw"}, call[v].tool = t
          PROVE  pc[w] \in {"reread", "withdraw"} /\ call[w].tool = t
      <3>1. pc[v] # "idle" /\ pc[w] # "idle"
        BY <2>2
      <3>2. v = w
        BY <2>1, <3>1
      <3> QED  BY <2>2, <3>2
    <2> QED  BY <2>1, <2>2 DEF Withdrawn
  <1>2. overlaps = 0 => \A i \in Ids \ swapped : ScanTrue(runs'[i])
    BY DEF AloneInv
  <1> QED  BY <1>1, <1>2, AloneMoves

(* A worker that is done keeps neither its request nor what it read.       *)
After(p, c) == IF p = "idle" THEN NoCall ELSE c
Kept(p, m) == IF p = "idle" THEN NothingFound ELSE m

LEMMA NothingFoundType == NothingFound \in Findings
  BY BoundsAssumption DEF NothingFound, Findings, Results, Binaries, None, NoCard, Cards

LEMMA Proceeding ==
    ASSUME TypeInv, NEW w \in Workers, NEW p, NEW m, NEW k, Proceed(w, p), Keeps(w, p, m),
           copy' = [copy EXCEPT ![w] = k]
    PROVE  Moves(w, p, After(p, call[w]), k, Kept(p, m))
  <1>1. call' = [call EXCEPT ![w] = After(p, call[w])]
    BY DEF Proceed, After, TypeInv, WorkersInv
  <1> QED  BY <1>1 DEF Proceed, Keeps, Moves, Kept

LEMMA IdleFits ==
    /\ CallFits("idle", NoCall) /\ CopyFits("idle", NoCopy)
    /\ NoCall \in AnyCall /\ "idle" \in Phases
    /\ \A p : p # "withdraw" => CopyFits(p, NoCopy)
  <1>1. CallFits("idle", NoCall)
    BY DEF CallFits
  <1>2. NoCall \in AnyCall
    BY DEF AnyCall
  <1>3. \A p : p # "withdraw" => CopyFits(p, NoCopy)
    BY DEF CopyFits
  <1> QED  BY <1>1, <1>2, <1>3 DEF Phases

LEMMA IdleKnows ==
    /\ \A rs, vs, c, k, f : RunKept(rs, vs, "idle", c, k, f)
    /\ \A adm, qs, c, k, f : AloneKept(adm, qs, "idle", c, k, f)
  BY DEF RunKept, AloneKept, Before, Locked

(* A worker's going on, whatever it does to admission's file and to those  *)
(* of the laboratory that hold no runs, keeps the invariant.               *)
LEMMA GoesOn ==
    ASSUME IInv, NEW w \in Workers, NEW p \in Phases, NEW m \in Findings, NEW k,
           Proceed(w, p), Keeps(w, p, m), copy' = [copy EXCEPT ![w] = k],
           pc[w] # "idle", CopyFits(p, k), ~(p \in Locked /\ k # NoCopy),
           FilesInv', UNCHANGED <<suite, disk, requests, overlaps, crashes, unlocked, swapped>>,
           lapsed \subseteq lapsed',
           UNCHANGED <<runs, reviews, scorecards, baselines, quarantines>>,
           admission' = admission \/ (pc[w] \in Locked /\ Loaded(w)),
           p # "idle" => CallFits(p, call[w]),
           p # "idle" => RunKept(runs, reviews, p, call[w], k, m),
           overlaps = 0 /\ p # "idle" => AloneKept(admission', quarantines, p, call[w], k, m),
           overlaps = 0 => \A t \in Registered \ lapsed' :
               Withdrawn(admission, pc[w], call[w], t) =>
                   Withdrawn(admission', p, After(p, call[w]), t)
    PROVE  IInv'
  <1> USE DEF IInv
  <1> DEFINE c == After(p, call[w])
  <1> DEFINE f == Kept(p, m)
  <1>1. Moves(w, p, c, k, f)
    BY Proceeding
  <1>2. c \in AnyCall /\ f \in Findings /\ CallFits(p, c)
    BY NothingFoundType, IdleFits, WorkerFields DEF After, Kept
  <1>3. RunKept(runs, reviews, p, c, k, f)
    BY IdleKnows DEF After, Kept
  <1>4. overlaps = 0 => AloneKept(admission', quarantines, p, c, k, f)
    BY IdleKnows DEF After, Kept
  <1>5. p # "idle" => c = call[w]
    BY DEF After
  <1> HIDE DEF c, f
  <1>6. WorkersInv'
    BY <1>1, <1>2, TypeMoves
  <1>7. LockInv'
    BY <1>1, LockMoves
  <1>8. RunInv'
    BY <1>1, <1>3, <1>5, RunQuiet
  <1>9. AloneInv'
    BY <1>1, <1>4, AloneQuiet DEF c
  <1> QED  BY <1>6, <1>7, <1>8, <1>9 DEF TypeInv

(* A section of admission's lock.                                          *)
LEMMA SectionKeeps ==
    ASSUME IInv, NEW w \in Workers, NEW phase \in Locked \ {"reread"},
           NEW content \in [Tools -> Records], NEW p \in Phases \ {"withdraw"},
           NEW m \in Findings, SaveAdmission(w, phase, content), Proceed(w, p), Keeps(w, p, m),
           p # "idle" => CallFits(p, call[w]),
           p # "idle" => RunKept(runs, reviews, p, call[w], NoCopy, m),
           overlaps = 0 /\ p # "idle" =>
               AloneKept(content, quarantines, p, call[w], NoCopy, m),
           \A t \in Tools : Held(Content(w)[t]) => Held(content[t])
    PROVE  IInv'
  <1>1. /\ pc[w] = phase /\ Loaded(w) /\ admission' = content
        /\ copy' = [copy EXCEPT ![w] = NoCopy]
        /\ UNCHANGED <<suite, requests, overlaps, crashes, unlocked, swapped, lapsed>>
        /\ UNCHANGED <<runs, reviews, scorecards, baselines, quarantines, disk>>
    BY DEF SaveAdmission, counters, ghosts
  <1>2. FilesInv'
    BY <1>1 DEF IInv, TypeInv, FilesInv
  <1>3. pc[w] \in Locked \ {"reread"} /\ pc[w] # "idle" /\ pc[w] # "withdraw"
    BY <1>1 DEF Locked
  <1>4. overlaps = 0 => Content(w) = admission
    BY <1>1, <1>3 DEF IInv, AloneInv, AloneKept, Loaded, Content
  <1>5. overlaps = 0 => \A t \in Registered :
            Withdrawn(admission, pc[w], call[w], t) =>
                Withdrawn(admission', p, After(p, call[w]), t)
    BY <1>1, <1>3, <1>4, ScannersRegistered DEF Withdrawn
  <1>6. CopyFits(p, NoCopy)
    BY IdleFits
  <1>7. overlaps = 0 /\ p # "idle" =>
            AloneKept(admission', quarantines, p, call[w], NoCopy, m)
    BY <1>1
  <1> QED  BY <1>1, <1>2, <1>3, <1>5, <1>6, <1>7, GoesOn

LEMMA SuspendedKept ==
    ASSUME NEW r \in Records
    PROVE  /\ Suspended(r) \in Records /\ Suspended(r).suspended
           /\ Suspended(r).state = "SUSPENDED" /\ Held(Suspended(r))
  BY DEF Records, AdmissionStates, Suspended, Held

(* What the store of a section makes of a record.                          *)
LEMMA RecordKept ==
    ASSUME NEW r \in Records, NEW binary \in Binaries, NEW pass \in BOOLEAN, NEW slow \in BOOLEAN
    PROVE  /\ Probed(r, binary, pass) \in Records
           /\ Settled(r, slow) \in Records
           /\ Held(r) => Held(Probed(r, binary, pass)) /\ Held(Settled(r, slow))
           /\ Settled(r, slow).binary = r.binary
           /\ r.suspended => Probed(r, binary, pass).suspended /\ Settled(r, slow).suspended
  BY DEF Records, AdmissionStates, Probed, Settled, Held

-----------------------------------------------------------------------------
(* Admission                                                               *)

LEMMA LookKeeps == ASSUME IInv, NEW w \in Workers, Look(w) PROVE IInv'
  <1>1. pc[w] = "look" /\ Loaded(w)
    BY DEF Look, SaveAdmission
  <1>2. Content(w) \in [Tools -> Records] /\ found[w] \in Findings
    BY <1>1, WorkerFields DEF Locked, IInv
  <1> QED  BY <1>2, SectionKeeps DEF Look, Locked, Phases

LEMMA ProbeKeeps == ASSUME IInv, NEW w \in Workers, Probe(w) PROVE IInv'
  <1>1. PICK pass \in BOOLEAN :
            /\ SaveAdmission(w, "probe",
                   [Content(w) EXCEPT ![call[w].tool] = Probed(@, disk[call[w].tool], pass)])
            /\ Proceed(w, "idle") /\ Keeps(w, "idle", found[w])
    BY DEF Probe
  <1>2. pc[w] = "probe" /\ Loaded(w)
    BY <1>1 DEF SaveAdmission
  <1>3. Content(w) \in [Tools -> Records] /\ found[w] \in Findings /\ call[w].tool \in Tools
    BY <1>2, WorkerFields, ScannersRegistered DEF Locked, IInv, CallFits
  <1> DEFINE t == call[w].tool
  <1> DEFINE content == [Content(w) EXCEPT ![t] = Probed(@, disk[t], pass)]
  <1>4. Content(w)[t] \in Records /\ disk[t] \in Binaries
    BY <1>3 DEF IInv, TypeInv, FilesInv
  <1>5. /\ content = [Content(w) EXCEPT ![t] = Probed(Content(w)[t], disk[t], pass)]
        /\ Probed(Content(w)[t], disk[t], pass) \in Records
        /\ Held(Content(w)[t]) => Held(Probed(Content(w)[t], disk[t], pass))
    BY <1>4, RecordKept
  <1>6. content \in [Tools -> Records] /\ \A u \in Tools : Held(Content(w)[u]) => Held(content[u])
    BY <1>3, <1>5
  <1> HIDE DEF content
  <1> QED  BY <1>1, <1>3, <1>6, SectionKeeps DEF Locked, Phases, content

LEMMA SuspendKeeps == ASSUME IInv, NEW w \in Workers, Suspend(w) PROVE IInv'
  <1>1. pc[w] = "suspend" /\ Loaded(w)
    BY DEF Suspend, SaveAdmission
  <1>2. Content(w) \in [Tools -> Records] /\ found[w] \in Findings /\ call[w].tool \in Tools
    BY <1>1, WorkerFields, ScannersRegistered DEF Locked, IInv, CallFits
  <1> DEFINE t == call[w].tool
  <1> DEFINE content == [Content(w) EXCEPT ![t] = Suspended(@)]
  <1>3. /\ content = [Content(w) EXCEPT ![t] = Suspended(Content(w)[t])]
        /\ Suspended(Content(w)[t]) \in Records /\ Held(Suspended(Content(w)[t]))
    BY <1>2, SuspendedKept
  <1>4. content \in [Tools -> Records] /\ \A u \in Tools : Held(Content(w)[u]) => Held(content[u])
    BY <1>2, <1>3
  <1> HIDE DEF content
  <1> QED  BY <1>2, <1>4, SectionKeeps DEF Suspend, Locked, Phases, content

LEMMA CheckScanKeeps == ASSUME IInv, NEW w \in Workers, CheckScan(w) PROVE IInv'
  <1> DEFINE record == Content(w)[call[w].tool]
  <1> DEFINE next == IF Runnable(record) THEN "execute" ELSE "idle"
  <1> DEFINE m == [found[w] EXCEPT !.expected = record.binary]
  <1>1. /\ SaveAdmission(w, "check scan", Content(w))
        /\ Proceed(w, next) /\ Keeps(w, next, m)
    BY DEF CheckScan
  <1>2. pc[w] = "check scan" /\ Loaded(w)
    BY <1>1 DEF SaveAdmission
  <1>3. /\ Content(w) \in [Tools -> Records] /\ found[w] \in Findings
        /\ call[w].tool \in Scanners /\ call[w].tool \in Tools
        /\ call[w].id \in 1..requests
    BY <1>2, WorkerFields, ScannersRegistered DEF Locked, IInv, CallFits
  <1>4. record.binary \in Binaries
    BY <1>3 DEF Records
  <1>5. m \in Findings /\ m.expected = record.binary
    BY <1>3, <1>4 DEF Findings
  <1>6. CallFits("execute", call[w])
    BY <1>3 DEF CallFits
  <1>7. RunKept(runs, reviews, "execute", call[w], NoCopy, m)
    BY <1>2 DEF IInv, RunInv, RunKept, Before
  <1>8. AloneKept(Content(w), quarantines, "execute", call[w], NoCopy, m)
    BY <1>5 DEF AloneKept, Locked
  <1>9. next \in {"execute", "idle"} /\ next \in Phases \ {"withdraw"} 
    BY DEF Phases
  <1> HIDE DEF m, next
  <1> QED  BY <1>1, <1>3, <1>5, <1>6, <1>7, <1>8, <1>9, SectionKeeps DEF Locked

LEMMA SettleKeeps == ASSUME IInv, NEW w \in Workers, Settle(w) PROVE IInv'
  <1> DEFINE t == call[w].tool
  <1> DEFINE next == IF call[w].op = "benchmark" THEN "fingerprint" ELSE "idle"
  <1> DEFINE content == [Content(w) EXCEPT ![t] = Settled(@, found[w].slow)]
  <1>1. /\ SaveAdmission(w, "settle", content)
        /\ Proceed(w, next) /\ Keeps(w, next, found[w])
    BY DEF Settle
  <1>2. pc[w] = "settle" /\ Loaded(w)
    BY <1>1 DEF SaveAdmission
  <1>3. /\ Content(w) \in [Tools -> Records] /\ found[w] \in Findings
        /\ t \in Scanners /\ t \in Tools /\ t \in Registered
        /\ call[w].id \in 1..requests
    BY <1>2, WorkerFields, ScannersRegistered DEF Locked, IInv, CallFits
  <1>4. found[w].slow \in BOOLEAN
    BY <1>3 DEF Findings
  <1>5. /\ content = [Content(w) EXCEPT ![t] = Settled(Content(w)[t], found[w].slow)]
        /\ Settled(Content(w)[t], found[w].slow) \in Records
        /\ Held(Content(w)[t]) => Held(Settled(Content(w)[t], found[w].slow))
        /\ Settled(Content(w)[t], found[w].slow).binary = Content(w)[t].binary
    BY <1>3, <1>4, BoundsAssumption, RecordKept DEF Binaries
  <1>6. /\ content \in [Tools -> Records]
        /\ \A u \in Tools : Held(Content(w)[u]) => Held(content[u])
        /\ content[t].binary = Content(w)[t].binary
    BY <1>3, <1>5
  <1>7. CallFits("fingerprint", call[w])
    BY <1>3 DEF CallFits
  <1>8. RunKept(runs, reviews, "fingerprint", call[w], NoCopy, found[w])
    BY <1>2 DEF IInv, RunInv, RunKept, Before
  <1>9. overlaps = 0 => AloneKept(content, quarantines, "fingerprint", call[w], NoCopy, found[w])
    <2>1. overlaps = 0 =>
              /\ Content(w) = admission
              /\ call[w].id \notin swapped => found[w].scanned = admission[t].binary
      BY <1>2 DEF IInv, AloneInv, AloneKept, Locked, Loaded, Content
    <2> QED  BY <1>6, <2>1 DEF AloneKept, Locked
  <1>10. next \in {"fingerprint", "idle"} /\ next \in Phases \ {"withdraw"}
    BY DEF Phases, Locked
  <1> HIDE DEF next, content
  <1> QED  BY <1>1, <1>3, <1>6, <1>7, <1>8, <1>9, <1>10, SectionKeeps DEF Locked

(* The phases of a scan that hold no file.                                 *)
LEMMA Scanning ==
    ASSUME IInv, NEW w \in Workers, pc[w] \in {"execute", "run"},
           UNCHANGED <<suite, disk, files, copy, counters, ghosts>>
    PROVE  /\ found[w] \in Findings /\ call[w].tool \in Scanners /\ call[w].tool \in Tools
           /\ call[w].id \in 1..requests
           /\ copy' = [copy EXCEPT ![w] = NoCopy]
           /\ UNCHANGED <<suite, disk, requests, overlaps, crashes, unlocked, swapped, lapsed>>
           /\ UNCHANGED <<runs, reviews, scorecards, baselines, quarantines, admission>>
           /\ FilesInv'
  <1>1. /\ found[w] \in Findings /\ call[w].tool \in Scanners /\ call[w].tool \in Tools
        /\ call[w].id \in 1..requests
    BY WorkerFields, ScannersRegistered DEF IInv, CallFits
  <1>2. copy[w] = NoCopy
    BY NotCopied DEF IInv, Locked, Unlocked
  <1>3. /\ copy' = [copy EXCEPT ![w] = NoCopy]
        /\ UNCHANGED <<suite, disk, requests, overlaps, crashes, unlocked, swapped, lapsed>>
        /\ UNCHANGED <<runs, reviews, scorecards, baselines, quarantines, admission>>
    BY <1>2 DEF counters, ghosts, files, IInv, TypeInv, WorkersInv
  <1>4. FilesInv'
    BY <1>3 DEF IInv, TypeInv, FilesInv
  <1> QED  BY <1>1, <1>3, <1>4

LEMMA CheckBinaryKeeps == ASSUME IInv, NEW w \in Workers, CheckBinary(w) PROVE IInv'
  <1> DEFINE t == call[w].tool
  <1> DEFINE next == IF SameBinary(t, found[w].expected) THEN "run" ELSE "idle"
  <1>1. /\ pc[w] = "execute" /\ pc[w] # "idle"
        /\ UNCHANGED <<suite, disk, files, copy, counters, ghosts>>
        /\ Proceed(w, next) /\ Keeps(w, next, found[w])
    BY DEF CheckBinary
  <1>2. /\ found[w] \in Findings /\ t \in Scanners /\ t \in Tools /\ call[w].id \in 1..requests
        /\ copy' = [copy EXCEPT ![w] = NoCopy]
        /\ UNCHANGED <<suite, disk, requests, overlaps, crashes, unlocked, swapped, lapsed>>
        /\ UNCHANGED <<runs, reviews, scorecards, baselines, quarantines, admission>>
        /\ FilesInv'
    BY <1>1, Scanning
  <1>3. next \in {"run", "idle"} /\ next \in Phases /\ CopyFits(next, NoCopy)
    BY IdleFits DEF Phases
  <1>4. \A u : Withdrawn(admission, pc[w], call[w], u) =>
                   Withdrawn(admission, next, After(next, call[w]), u)
    BY <1>1 DEF Withdrawn
  <1>5. CallFits("run", call[w])
    BY <1>2 DEF CallFits
  <1>6. RunKept(runs, reviews, "run", call[w], NoCopy, found[w])
    BY <1>1 DEF IInv, RunInv, RunKept, Before
  <1>7. overlaps = 0 /\ next = "run" =>
            AloneKept(admission, quarantines, "run", call[w], NoCopy, found[w])
    <2>1. overlaps = 0 => found[w].expected = admission[t].binary
      BY <1>1 DEF IInv, AloneInv, AloneKept
    <2>2. next = "run" => disk[t] = found[w].expected
      BY DEF SameBinary
    <2> HIDE DEF next
    <2> QED  BY <2>1, <2>2 DEF AloneKept
  <1> HIDE DEF next
  <1> QED  BY <1>1, <1>2, <1>3, <1>4, <1>5, <1>6, <1>7, GoesOn

LEMMA ExecuteKeeps == ASSUME IInv, NEW w \in Workers, Execute(w) PROVE IInv'
  <1> DEFINE t == call[w].tool
  <1>1. /\ pc[w] = "run" /\ pc[w] # "idle"
        /\ UNCHANGED <<suite, disk, files, copy, counters, ghosts>>
        /\ Proceed(w, "settle")
    BY DEF Execute
  <1>2. /\ found[w] \in Findings /\ t \in Scanners /\ t \in Tools /\ call[w].id \in 1..requests
        /\ copy' = [copy EXCEPT ![w] = NoCopy]
        /\ UNCHANGED <<suite, disk, requests, overlaps, crashes, unlocked, swapped, lapsed>>
        /\ UNCHANGED <<runs, reviews, scorecards, baselines, quarantines, admission>>
        /\ FilesInv'
    BY <1>1, Scanning
  <1>3. PICK slow \in BOOLEAN, r \in Measured(t, admission[t], TRUE) :
            Keeps(w, "settle", [found[w] EXCEPT !.scanned = disk[t], !.slow = slow, !.result = r])
    BY DEF Execute
  <1> DEFINE m == [found[w] EXCEPT !.scanned = disk[t], !.slow = slow, !.result = r]
  <1>4. r \in Results /\ disk[t] \in Binaries
    BY <1>2, MeasuredType DEF IInv, TypeInv, FilesInv
  <1>5. m \in Findings /\ m.scanned = disk[t]
    BY <1>2, <1>4 DEF Findings
  <1>6. /\ "settle" \in Phases /\ CopyFits("settle", NoCopy)
        /\ \A u : Withdrawn(admission, pc[w], call[w], u) =>
                     Withdrawn(admission, "settle", After("settle", call[w]), u)
    BY <1>1, IdleFits DEF Phases, Locked, Withdrawn
  <1>7. CallFits("settle", call[w])
    BY <1>2 DEF CallFits
  <1>8. RunKept(runs, reviews, "settle", call[w], NoCopy, m)
    BY <1>1 DEF IInv, RunInv, RunKept, Before
  <1>9. overlaps = 0 => AloneKept(admission, quarantines, "settle", call[w], NoCopy, m)
    <2>1. overlaps = 0 /\ call[w].id \notin swapped => disk[t] = admission[t].binary
      BY <1>1 DEF IInv, AloneInv, AloneKept
    <2> QED  BY <1>5, <2>1 DEF AloneKept
  <1> HIDE DEF m
  <1> QED  BY <1>1, <1>2, <1>3, <1>5, <1>6, <1>7, <1>8, <1>9, GoesOn DEF m

(* A request that fails leaves the files alone; a withdrawal that fails    *)
(* leaves its tool as it is.                                               *)
LEMMA FailsKeeps == ASSUME IInv, NEW w \in Workers, Fails(w) PROVE IInv'
  <1>1. /\ pc[w] # "idle" /\ copy' = [copy EXCEPT ![w] = NoCopy]
        /\ Proceed(w, "idle") /\ Keeps(w, "idle", found[w])
        /\ lapsed' = IF pc[w] \in {"reread", "withdraw"} THEN lapsed \cup {call[w].tool}
                     ELSE lapsed
        /\ UNCHANGED <<suite, disk, requests, overlaps, crashes, unlocked, swapped>>
        /\ UNCHANGED <<runs, reviews, scorecards, baselines, quarantines, admission>>
    BY DEF Fails, files
  <1>2. /\ found[w] \in Findings
        /\ pc[w] \in {"reread", "withdraw"} => call[w].tool \in Tools
    BY WorkerFields, ScannersRegistered DEF IInv, CallFits
  <1>3. lapsed \subseteq lapsed' /\ lapsed' \subseteq Tools
    BY <1>1, <1>2 DEF IInv, TypeInv, FilesInv
  <1>4. FilesInv'
    BY <1>1, <1>3 DEF IInv, TypeInv, FilesInv
  <1>5. \A t \in Registered \ lapsed' :
            Withdrawn(admission, pc[w], call[w], t) =>
                Withdrawn(admission', "idle", After("idle", call[w]), t)
    BY <1>1 DEF Withdrawn
  <1>6. "idle" \in Phases /\ CopyFits("idle", NoCopy)
    BY IdleFits
  <1> QED  BY <1>1, <1>2, <1>3, <1>4, <1>5, <1>6, GoesOn

-----------------------------------------------------------------------------
(* The laboratory                                                          *)

LEMMA NotScanned ==
    ASSUME NEW t \in Scanners, NEW record, NEW r \in Measured(t, record, FALSE)
    PROVE  r = "NOT_ASSESSED" /\ r \notin Eligible
  <1>1. Measured(t, record, FALSE) = {Classified(NotAssessed)}
    BY DEF Measured, Scanners
  <1>2. NotAssessed.safe = TRUE /\ NotAssessed.score = NoScore
    BY DEF NotAssessed, Measurement
  <1>3. Classified(NotAssessed) = "NOT_ASSESSED"
    BY <1>2 DEF Classified, NoScore
  <1> QED  BY <1>1, <1>3 DEF Eligible

LEMMA ReadToolRecordKeeps == ASSUME IInv, NEW w \in Workers, ReadToolRecord(w) PROVE IInv'
  <1> DEFINE t == call[w].tool
  <1> DEFINE record == Content(w)[t]
  <1>1. SaveAdmission(w, "tool record", Content(w)) /\ pc[w] = "tool record" /\ Loaded(w)
    BY DEF ReadToolRecord, SaveAdmission
  <1>2. /\ Content(w) \in [Tools -> Records] /\ found[w] \in Findings /\ t \in Tools
        /\ call[w].id \in 1..requests
    BY <1>1, WorkerFields DEF Locked, IInv, CallFits
  <1>3. runs[call[w].id] = NoRun
    BY <1>1 DEF IInv, RunInv, RunKept, Before
  <1>4. CASE t \in Scanners /\ Proceed(w, "check scan") /\ Keeps(w, "check scan", found[w])
    <2>1. CallFits("check scan", call[w])
      BY <1>2, <1>4 DEF CallFits
    <2>2. RunKept(runs, reviews, "check scan", call[w], NoCopy, found[w])
      BY <1>3 DEF RunKept
    <2>3. AloneKept(Content(w), quarantines, "check scan", call[w], NoCopy, found[w])
      BY DEF AloneKept
    <2>4. "check scan" \in Phases \ {"withdraw"} /\ "tool record" \in Locked \ {"reread"}
      BY DEF Phases, Locked
    <2> QED  BY <1>1, <1>2, <1>4, <2>1, <2>2, <2>3, <2>4, SectionKeeps
  <1>5. CASE /\ ~(t \in Scanners /\ record.state = "ADMITTED")
             /\ \E r \in Measured(t, record, FALSE) :
                   Keeps(w, "fingerprint", [found[w] EXCEPT !.result = r])
             /\ Proceed(w, IF t \in Registered THEN "fingerprint" ELSE "append run")
    <2>1. PICK r \in Measured(t, record, FALSE) :
              Keeps(w, "fingerprint", [found[w] EXCEPT !.result = r])
      BY <1>5
    <2> DEFINE m == [found[w] EXCEPT !.result = r]
    <2> DEFINE p == IF t \in Registered THEN "fingerprint" ELSE "append run"
    <2>2. r \in Results
      BY <1>2, MeasuredType DEF IInv, TypeInv, FilesInv
    <2>3. m \in Findings /\ m.result = r
      BY <1>2, <2>2 DEF Findings
    <2>4. CallFits(p, call[w])
      BY <1>2 DEF CallFits
    <2>5. RunKept(runs, reviews, p, call[w], NoCopy, m)
      BY <1>3 DEF RunKept, Before
    <2>6. AloneKept(Content(w), quarantines, p, call[w], NoCopy, m)
      BY <2>3, NotScanned, ScannersRegistered DEF AloneKept
    <2>7. p \in Phases \ {"withdraw"} /\ p # "idle" /\ "tool record" \in Locked \ {"reread"}
      BY DEF Phases, Locked
    <2>8. Keeps(w, p, m) /\ Proceed(w, p)
      BY <1>5, <2>1 DEF Keeps
    <2> HIDE DEF m, p
    <2> QED  BY <1>1, <1>2, <2>3, <2>4, <2>5, <2>6, <2>7, <2>8, SectionKeeps
  <1> QED  BY <1>4, <1>5 DEF ReadToolRecord

LEMMA ReadFingerprintKeeps == ASSUME IInv, NEW w \in Workers, ReadFingerprint(w) PROVE IInv'
  <1> DEFINE t == call[w].tool
  <1> DEFINE m == [found[w] EXCEPT !.expected = Content(w)[t].binary]
  <1>1. /\ SaveAdmission(w, "fingerprint", Content(w)) /\ pc[w] = "fingerprint" /\ Loaded(w)
        /\ Proceed(w, "append run") /\ Keeps(w, "append run", m)
    BY DEF ReadFingerprint, SaveAdmission
  <1>2. /\ Content(w) \in [Tools -> Records] /\ found[w] \in Findings
        /\ t \in Registered /\ t \in Tools /\ call[w].id \in 1..requests
    BY <1>1, WorkerFields, ScannersRegistered DEF Locked, IInv, CallFits
  <1>3. Content(w)[t].binary \in Binaries
    BY <1>2 DEF Records
  <1>4. /\ m \in Findings /\ m.expected = Content(w)[t].binary
        /\ m.scanned = found[w].scanned /\ m.result = found[w].result
    BY <1>2, <1>3 DEF Findings
  <1>5. CallFits("append run", call[w])
    BY <1>2 DEF CallFits
  <1>6. RunKept(runs, reviews, "append run", call[w], NoCopy, m)
    BY <1>1 DEF IInv, RunInv, RunKept, Before
  <1>7. overlaps = 0 => AloneKept(Content(w), quarantines, "append run", call[w], NoCopy, m)
    <2>1. ASSUME overlaps = 0
          PROVE  /\ Content(w) = admission
                 /\ t \in Scanners /\ call[w].id \notin swapped =>
                       \/ found[w].scanned = admission[t].binary
                       \/ found[w].result \notin Eligible
      BY <1>1, <2>1 DEF IInv, AloneInv, AloneKept, Locked, Loaded, Content
    <2> QED  BY <1>4, <2>1 DEF AloneKept
  <1>8. "append run" \in Phases \ {"withdraw"} /\ "fingerprint" \in Locked \ {"reread"}
    BY DEF Phases, Locked
  <1> HIDE DEF m
  <1> QED  BY <1>1, <1>2, <1>4, <1>5, <1>6, <1>7, <1>8, SectionKeeps

(* A card or a baseline of recorded runs stays one.                        *)
LEMMA CardsGrow ==
    ASSUME NEW rs, NEW rs2, NEW vs, NEW vs2, \A i \in Ids : rs[i].tool # None => rs2[i] = rs[i],
           \A r : Approved(vs, r) => Approved(vs2, r), NEW t \in Tools
    PROVE  /\ \A card \in Cards : CardTrue(rs, card, t) => CardTrue(rs2, card, t)
           /\ \A b \in Baselines : BaselineTrue(rs, vs, b, t) => BaselineTrue(rs2, vs2, b, t)
  <1>1. ASSUME NEW card \in Cards, CardTrue(rs, card, t) PROVE CardTrue(rs2, card, t)
    BY <1>1, NoneAssumption DEF CardTrue, Cards
  <1>2. ASSUME NEW b \in Baselines, BaselineTrue(rs, vs, b, t) PROVE BaselineTrue(rs2, vs2, b, t)
    BY <1>2, NoneAssumption DEF BaselineTrue, Baselines
  <1> QED  BY <1>1, <1>2

LEMMA AppendRunKeeps == ASSUME IInv, NEW w \in Workers, AppendRun(w) PROVE IInv'
  <1> DEFINE t == call[w].tool
  <1> DEFINE id == call[w].id
  <1> DEFINE run == [tool |-> t, result |-> found[w].result,
                     binary |-> IF t \in Registered THEN found[w].expected ELSE None,
                     scanned |-> found[w].scanned]
  <1>1. /\ pc[w] = "append run" /\ runs' = [runs EXCEPT ![id] = run] /\ Proceed(w, "card")
        /\ UNCHANGED <<suite, disk, admission, scorecards, reviews, baselines, quarantines, copy,
                       found, requests, overlaps, crashes, unlocked, swapped, lapsed>>
    BY DEF AppendRun, counters, ghosts
  <1>2. /\ found[w] \in Findings /\ t \in Tools /\ id \in 1..requests /\ copy[w] = NoCopy
    BY <1>1, WorkerFields, NotCopied DEF IInv, CallFits, Locked, Unlocked
  <1>3. id \in Ids /\ runs \in [Ids -> Runs] /\ requests \in 0..MaxRequests
    BY <1>2, BoundsAssumption DEF IInv, TypeInv, FilesInv, Ids
  <1>4. runs[id] = NoRun /\ NoRun.tool = None
    BY <1>1 DEF IInv, RunInv, RunKept, Before, NoRun
  <1>5. run \in Runs /\ run.tool = t /\ run.result = found[w].result
    BY <1>2, BoundsAssumption DEF Runs, Findings, Binaries, None
  <1>6. copy' = [copy EXCEPT ![w] = NoCopy] /\ Keeps(w, "card", found[w])
    BY <1>1, <1>2 DEF IInv, TypeInv, WorkersInv, Keeps
  <1>7. Moves(w, "card", call[w], NoCopy, found[w])
    <2>1. After("card", call[w]) = call[w] /\ Kept("card", found[w]) = found[w]
      BY DEF After, Kept
    <2> QED  BY <1>1, <1>6, <2>1, Proceeding DEF IInv
  <1>8. overlaps = 0 /\ id \notin swapped => ScanTrue(run)
    <2>1. ASSUME overlaps = 0, t \in Scanners, id \notin swapped
          PROVE  found[w].scanned = found[w].expected \/ found[w].result \notin Eligible
      BY <1>1, <2>1 DEF IInv, AloneInv, AloneKept
    <2> QED  BY <2>1, ScannersRegistered DEF ScanTrue
  <1>9. /\ runs'[id] = run /\ runs' \in [Ids -> Runs]
        /\ \A i \in Ids : i # id => runs'[i] = runs[i]
    BY <1>1, <1>3, <1>5
  <1> HIDE DEF run
  <1>10. FilesInv'
    BY <1>1, <1>9 DEF IInv, TypeInv, FilesInv
  <1>11. CallFits("card", call[w]) /\ CopyFits("card", NoCopy) /\ "card" \in Phases
    BY <1>2, IdleFits DEF CallFits, Phases, Unlocked
  <1>12. call[w] \in AnyCall
    BY WorkerFields DEF IInv
  <1>13. WorkersInv'
    BY <1>1, <1>2, <1>7, <1>11, <1>12, TypeMoves DEF IInv
  <1>14. LockInv'
    BY <1>1, <1>7, LockMoves DEF IInv
  <1>15. RunInv'
    <2>1. \A i \in Ids : runs[i].tool # None => runs'[i] = runs[i]
      BY <1>4, <1>9
    <2>2. ASSUME NEW u \in Tools
          PROVE  CardTrue(runs', scorecards[u], u) /\ BaselineTrue(runs', reviews, baselines[u], u)
      <3>1. scorecards[u] \in Cards /\ baselines[u] \in Baselines
        BY DEF IInv, TypeInv, FilesInv
      <3>2. CardTrue(runs, scorecards[u], u) /\ BaselineTrue(runs, reviews, baselines[u], u)
        BY DEF IInv, RunInv
      <3> QED  BY <2>1, <3>1, <3>2, CardsGrow
    <2>3. RunKept(runs', reviews, "card", call[w], NoCopy, found[w])
      BY <1>5, <1>9 DEF RunKept, Before
    <2> QED  BY <1>1, <1>7, <1>9, <2>1, <2>2, <2>3, RunMoves DEF IInv
  <1>16. AloneInv'
    <2>1. overlaps = 0 => \A i \in Ids \ swapped : ScanTrue(runs'[i])
      BY <1>3, <1>8, <1>9 DEF IInv, AloneInv
    <2>2. AloneKept(admission', quarantines', "card", call[w], NoCopy, found[w])
      BY DEF AloneKept
    <2>3. ASSUME overlaps = 0, crashes = 0, NEW u \in (quarantines \cap Registered) \ lapsed
          PROVE  Held(admission[u])
      BY <1>1, <2>3 DEF IInv, AloneInv
    <2> QED  BY <1>1, <1>7, <2>1, <2>2, <2>3, AloneMoves DEF IInv, Withdrawn
  <1> QED  BY <1>10, <1>13, <1>14, <1>15, <1>16 DEF IInv, TypeInv

(* A worker's going on when it stores a file of the laboratory.            *)
LEMMA LabGoesOn ==
    ASSUME IInv, NEW w \in Workers, NEW p \in Phases \ {"withdraw"}, NEW m \in Findings,
           Proceed(w, p), Keeps(w, p, m), copy' = [copy EXCEPT ![w] = NoCopy],
           pc[w] # "idle", FilesInv',
           UNCHANGED <<suite, disk, requests, overlaps, crashes, unlocked, swapped, lapsed>>,
           UNCHANGED <<admission, runs>>,
           \A r : Approved(reviews, r) => Approved(reviews', r),
           \A t \in Tools : CardTrue(runs, scorecards'[t], t),
           \A t \in Tools : BaselineTrue(runs, reviews', baselines'[t], t),
           p # "idle" => CallFits(p, call[w]),
           p # "idle" => RunKept(runs, reviews', p, call[w], NoCopy, m),
           overlaps = 0 /\ p # "idle" =>
               AloneKept(admission, quarantines', p, call[w], NoCopy, m),
           overlaps = 0 /\ crashes = 0 =>
               \A t \in (quarantines' \cap Registered) \ lapsed :
                   Withdrawn(admission, p, After(p, call[w]), t)
    PROVE  IInv'
  <1> USE DEF IInv
  <1> DEFINE c == After(p, call[w])
  <1> DEFINE f == Kept(p, m)
  <1>1. Moves(w, p, c, NoCopy, f)
    BY Proceeding
  <1>2. c \in AnyCall /\ f \in Findings /\ CallFits(p, c) /\ CopyFits(p, NoCopy)
    BY NothingFoundType, IdleFits, WorkerFields DEF After, Kept
  <1>3. RunKept(runs, reviews', p, c, NoCopy, f)
    BY IdleKnows DEF After, Kept
  <1>4. overlaps = 0 => AloneKept(admission, quarantines', p, c, NoCopy, f)
    BY IdleKnows DEF After, Kept
  <1>5. p # "idle" => c = call[w]
    BY DEF After
  <1>6. overlaps = 0 /\ crashes = 0 =>
            \A t \in (quarantines' \cap Registered) \ lapsed : Withdrawn(admission, p, c, t)
    OBVIOUS
  <1>7. overlaps = 0 => \A i \in Ids \ swapped : ScanTrue(runs[i])
    BY DEF AloneInv
  <1> HIDE DEF c, f
  <1>8. WorkersInv'
    BY <1>1, <1>2, TypeMoves
  <1>9. LockInv'
    BY <1>1, LockMoves
  <1>10. RunInv'
    BY <1>1, <1>3, <1>5, RunMoves
  <1>11. AloneInv'
    BY <1>1, <1>4, <1>6, <1>7, AloneMoves
  <1> QED  BY <1>8, <1>9, <1>10, <1>11 DEF TypeInv

(* What is known where a worker stands, and of quarantined tools while it  *)
(* is not withdrawing one.                                                 *)
LEMMA Standing ==
    ASSUME IInv, NEW w \in Workers, pc[w] # "idle"
    PROVE  /\ call[w].id \in Ids /\ found[w] \in Findings
           /\ \A t \in Tools : CardTrue(runs, scorecards[t], t)
           /\ \A t \in Tools : BaselineTrue(runs, reviews, baselines[t], t)
           /\ RunKept(runs, reviews, pc[w], call[w], copy[w], found[w])
           /\ overlaps = 0 =>
                 AloneKept(admission, quarantines, pc[w], call[w], copy[w], found[w])
           /\ overlaps = 0 /\ crashes = 0 /\ pc[w] \notin {"reread", "withdraw"} =>
                 \A t \in (quarantines \cap Registered) \ lapsed : Held(admission[t])
  <1>1. /\ found[w] \in Findings
        /\ \A t \in Tools : CardTrue(runs, scorecards[t], t)
        /\ \A t \in Tools : BaselineTrue(runs, reviews, baselines[t], t)
        /\ RunKept(runs, reviews, pc[w], call[w], copy[w], found[w])
        /\ overlaps = 0 =>
              AloneKept(admission, quarantines, pc[w], call[w], copy[w], found[w])
    BY WorkerFields DEF IInv, RunInv, AloneInv
  <1>2. call[w].id \in Ids
    <2>1. call[w].id \in 1..requests /\ requests \in 0..MaxRequests
      BY WorkerFields DEF IInv, TypeInv, FilesInv, CallFits
    <2> QED  BY <2>1, BoundsAssumption DEF Ids
  <1>3. ASSUME overlaps = 0, crashes = 0, pc[w] \notin {"reread", "withdraw"},
               NEW t \in (quarantines \cap Registered) \ lapsed
        PROVE  Held(admission[t])
    <2>1. \A v \in Workers : pc[v] # "idle" => v = w
      BY <1>3 DEF IInv, AloneInv
    <2>2. \/ Held(admission[t])
          \/ \E v \in Workers : pc[v] \in {"reread", "withdraw"} /\ call[v].tool = t
      BY <1>3 DEF IInv, AloneInv
    <2> QED  BY <1>3, <2>1, <2>2
  <1> QED  BY <1>1, <1>2, <1>3

LEMMA SaveCardKeeps == ASSUME IInv, NEW w \in Workers, SaveCard(w) PROVE IInv'
  <1> DEFINE t == call[w].tool
  <1> DEFINE result == found[w].result
  <1> DEFINE next == IF result = "QUARANTINED" THEN "quarantine" ELSE "idle"
  <1> DEFINE card == [run |-> call[w].id, result |-> result, review |-> "PENDING"]
  <1>1. /\ pc[w] = "card" /\ Loaded(w) /\ copy' = [copy EXCEPT ![w] = NoCopy]
        /\ UNCHANGED <<suite, disk, admission, runs, reviews, requests, overlaps, crashes,
                       unlocked, swapped, lapsed, baselines, quarantines>>
        /\ scorecards' = [Content(w) EXCEPT ![t] = card]
        /\ Proceed(w, next) /\ Keeps(w, next, found[w])
    BY DEF SaveCard, SaveLab, counters, ghosts
  <1>2. /\ Content(w) \in [Tools -> Cards] /\ t \in Tools /\ call[w].id \in 1..requests
    BY <1>1, WorkerFields DEF IInv, CallFits
  <1>3. /\ call[w].id \in Ids /\ found[w] \in Findings
        /\ \A u \in Tools : BaselineTrue(runs, reviews, baselines[u], u)
        /\ RunKept(runs, reviews, "card", call[w], copy[w], found[w])
        /\ overlaps = 0 /\ crashes = 0 =>
              \A u \in (quarantines \cap Registered) \ lapsed : Held(admission[u])
    BY <1>1, Standing
  <1>4. /\ \A u \in Tools : CardTrue(runs, Content(w)[u], u)
        /\ runs[call[w].id].tool = t /\ runs[call[w].id].result = result
    BY <1>1, <1>3 DEF RunKept, Loaded, Content
  <1>5. card \in Cards /\ CardTrue(runs, card, t)
    BY <1>3, <1>4 DEF Cards, Findings, CardTrue
  <1>6. /\ scorecards' \in [Tools -> Cards]
        /\ \A u \in Tools : CardTrue(runs, scorecards'[u], u)
    BY <1>1, <1>2, <1>4, <1>5
  <1>7. FilesInv'
    BY <1>1, <1>6 DEF IInv, TypeInv, FilesInv
  <1>8. /\ next \in {"quarantine", "idle"} /\ next \in Phases \ {"withdraw"}
        /\ CallFits("quarantine", call[w])
        /\ RunKept(runs, reviews, "quarantine", call[w], NoCopy, found[w])
        /\ AloneKept(admission, quarantines, "quarantine", call[w], NoCopy, found[w])
    BY <1>2 DEF Phases, Unlocked, CallFits, RunKept, Before, AloneKept
  <1> HIDE DEF next, card
  <1>9. overlaps = 0 /\ crashes = 0 =>
           \A u \in (quarantines' \cap Registered) \ lapsed :
               Withdrawn(admission, next, After(next, call[w]), u)
    BY <1>1, <1>3 DEF Withdrawn
  <1> QED  BY <1>1, <1>3, <1>6, <1>7, <1>8, <1>9, LabGoesOn

LEMMA Appended ==
    ASSUME NEW S, NEW s \in Seq(S), NEW e \in S
    PROVE  /\ Append(s, e) \in Seq(S)
           /\ \A i \in DOMAIN s : i \in DOMAIN Append(s, e) /\ Append(s, e)[i] = s[i]
  OBVIOUS

LEMMA AppendReviewKeeps == ASSUME IInv, NEW w \in Workers, AppendReview(w) PROVE IInv'
  <1> DEFINE review == [run |-> call[w].run, decision |-> call[w].decision]
  <1>1. /\ pc[w] = "append review" /\ reviews' = Append(reviews, review) /\ Proceed(w, "mark")
        /\ UNCHANGED <<suite, disk, admission, runs, scorecards, baselines, quarantines, copy,
                       found, requests, overlaps, crashes, unlocked, swapped, lapsed>>
    BY DEF AppendReview, counters, ghosts
  <1>2. /\ call[w].run \in Ids /\ call[w].decision \in Decisions /\ copy[w] = NoCopy
        /\ call[w].id \in 1..requests
    BY <1>1, WorkerFields, NotCopied DEF IInv, CallFits, Locked, Unlocked
  <1>3. /\ found[w] \in Findings
        /\ \A u \in Tools : CardTrue(runs, scorecards[u], u)
        /\ \A u \in Tools : BaselineTrue(runs, reviews, baselines[u], u)
        /\ RunKept(runs, reviews, "append review", call[w], copy[w], found[w])
        /\ overlaps = 0 /\ crashes = 0 =>
              \A u \in (quarantines \cap Registered) \ lapsed : Held(admission[u])
    BY <1>1, Standing
  <1>4. /\ review \in [run : Ids, decision : Decisions]
        /\ reviews \in Seq([run : Ids, decision : Decisions])
    BY <1>2 DEF IInv, TypeInv, FilesInv
  <1> HIDE DEF review
  <1>5. /\ reviews' \in Seq([run : Ids, decision : Decisions])
        /\ \A i \in DOMAIN reviews : i \in DOMAIN reviews' /\ reviews'[i] = reviews[i]
    <2> DEFINE R == [run : Ids, decision : Decisions]
    <2> HIDE DEF R
    <2>1. review \in R /\ reviews \in Seq(R)
      BY <1>4 DEF R
    <2>2. /\ Append(reviews, review) \in Seq(R)
          /\ \A i \in DOMAIN reviews : /\ i \in DOMAIN Append(reviews, review)
                                       /\ Append(reviews, review)[i] = reviews[i]
      BY <2>1, Appended
    <2> QED  BY <1>1, <2>2 DEF R
  <1>6. FilesInv'
    BY <1>1, <1>5 DEF IInv, TypeInv, FilesInv
  <1>7. \A r : Approved(reviews, r) => Approved(reviews', r)
    BY <1>5 DEF Approved
  <1>8. \A u \in Tools : BaselineTrue(runs, reviews', baselines'[u], u)
    BY <1>1, <1>3, <1>7 DEF BaselineTrue
  <1>9. /\ "mark" \in Phases \ {"withdraw"} /\ CallFits("mark", call[w])
        /\ RunKept(runs, reviews', "mark", call[w], NoCopy, found[w])
        /\ AloneKept(admission, quarantines, "mark", call[w], NoCopy, found[w])
    BY <1>2, <1>3 DEF Phases, Unlocked, CallFits, RunKept, Before, AloneKept, Locked
  <1>10. copy' = [copy EXCEPT ![w] = NoCopy] /\ Keeps(w, "mark", found[w])
    BY <1>1, <1>2 DEF IInv, TypeInv, WorkersInv, Keeps
  <1>11. overlaps = 0 /\ crashes = 0 =>
           \A u \in (quarantines' \cap Registered) \ lapsed :
               Withdrawn(admission, "mark", After("mark", call[w]), u)
    BY <1>1, <1>3 DEF Withdrawn
  <1> QED  BY <1>1, <1>3, <1>6, <1>7, <1>8, <1>9, <1>10, <1>11, LabGoesOn

LEMMA MarkCardKeeps == ASSUME IInv, NEW w \in Workers, MarkCard(w) PROVE IInv'
  <1> DEFINE t == runs[call[w].run].tool
  <1>1. /\ pc[w] = "mark" /\ Loaded(w) /\ copy' = [copy EXCEPT ![w] = NoCopy]
        /\ UNCHANGED <<suite, disk, admission, runs, reviews, requests, overlaps, crashes,
                       unlocked, swapped, lapsed, baselines, quarantines>>
        /\ scorecards' = IF Content(w)[t].run = call[w].run
                         THEN [Content(w) EXCEPT ![t].review = call[w].decision]
                         ELSE scorecards
        /\ Proceed(w, "idle") /\ Keeps(w, "idle", found[w])
    BY DEF MarkCard, SaveLab, counters, ghosts
  <1>2. /\ Content(w) \in [Tools -> Cards] /\ call[w].run \in Ids /\ call[w].decision \in Decisions
        /\ call[w].id \in 1..requests
    BY <1>1, WorkerFields DEF IInv, CallFits
  <1>3. /\ found[w] \in Findings
        /\ \A u \in Tools : CardTrue(runs, scorecards[u], u)
        /\ \A u \in Tools : BaselineTrue(runs, reviews, baselines[u], u)
        /\ RunKept(runs, reviews, "mark", call[w], copy[w], found[w])
        /\ overlaps = 0 /\ crashes = 0 =>
              \A u \in (quarantines \cap Registered) \ lapsed : Held(admission[u])
    BY <1>1, Standing
  <1>4. t \in Tools /\ \A u \in Tools : CardTrue(runs, Content(w)[u], u)
    <2>1. t # None /\ \A u \in Tools : CardTrue(runs, Content(w)[u], u)
      BY <1>1, <1>3 DEF RunKept, Loaded, Content
    <2>2. runs[call[w].run] \in Runs
      BY <1>2 DEF IInv, TypeInv, FilesInv
    <2> QED  BY <2>1, <2>2 DEF Runs
  <1> DEFINE card == [Content(w)[t] EXCEPT !.review = call[w].decision]
  <1>5. card \in Cards /\ card.run = Content(w)[t].run /\ card.result = Content(w)[t].result
    BY <1>2, <1>4 DEF Cards
  <1>6. [Content(w) EXCEPT ![t].review = call[w].decision] = [Content(w) EXCEPT ![t] = card]
    BY <1>2, <1>4
  <1>7. CardTrue(runs, card, t)
    BY <1>4, <1>5 DEF CardTrue
  <1> HIDE DEF card
  <1>8. /\ scorecards' \in [Tools -> Cards]
        /\ \A u \in Tools : CardTrue(runs, scorecards'[u], u)
    <2>1. scorecards \in [Tools -> Cards]
      BY DEF IInv, TypeInv, FilesInv
    <2> QED  BY <1>1, <1>2, <1>3, <1>4, <1>5, <1>6, <1>7, <2>1
  <1>9. FilesInv'
    BY <1>1, <1>8 DEF IInv, TypeInv, FilesInv
  <1>10. overlaps = 0 /\ crashes = 0 =>
           \A u \in (quarantines' \cap Registered) \ lapsed :
               Withdrawn(admission, "idle", After("idle", call[w]), u)
    BY <1>1, <1>3 DEF Withdrawn
  <1>11. "idle" \in Phases \ {"withdraw"}
    BY DEF Phases
  <1> QED  BY <1>1, <1>3, <1>8, <1>9, <1>10, <1>11, LabGoesOn

LEMMA ReadCardKeeps == ASSUME IInv, NEW w \in Workers, ReadCard(w) PROVE IInv'
  <1> DEFINE t == call[w].tool
  <1> DEFINE card == scorecards[t]
  <1> DEFINE next ==
          IF card.run # None /\ card.result \in Eligible THEN "read review" ELSE "idle"
  <1> DEFINE m == [found[w] EXCEPT !.card = card]
  <1>1. /\ pc[w] = "read card" /\ Proceed(w, next) /\ Keeps(w, next, m)
        /\ UNCHANGED <<suite, disk, admission, runs, scorecards, reviews, baselines, quarantines,
                       copy, requests, overlaps, crashes, unlocked, swapped, lapsed>>
    BY DEF ReadCard, counters, ghosts, files
  <1>2. t \in Tools /\ call[w].id \in 1..requests /\ copy[w] = NoCopy
    BY <1>1, WorkerFields, NotCopied DEF IInv, CallFits, Locked, Unlocked
  <1>3. /\ found[w] \in Findings
        /\ \A u \in Tools : CardTrue(runs, scorecards[u], u)
        /\ \A u \in Tools : BaselineTrue(runs, reviews, baselines[u], u)
        /\ overlaps = 0 /\ crashes = 0 =>
              \A u \in (quarantines \cap Registered) \ lapsed : Held(admission[u])
    BY <1>1, Standing
  <1>4. FilesInv'
    BY <1>1 DEF IInv, TypeInv, FilesInv
  <1>5. card \in Cards
    BY <1>2 DEF IInv, TypeInv, FilesInv
  <1>6. m \in Findings /\ m.card = card
    BY <1>3, <1>5 DEF Findings
  <1> HIDE DEF m
  <1>7. /\ next \in {"read review", "idle"} /\ next \in Phases \ {"withdraw"}
        /\ CallFits("read review", call[w])
    BY <1>2 DEF Phases, CallFits
  <1>8. next = "read review" => RunKept(runs, reviews, "read review", call[w], NoCopy, m)
    BY <1>2, <1>3, <1>6 DEF RunKept, Before
  <1>9. AloneKept(admission, quarantines, "read review", call[w], NoCopy, m)
    BY DEF AloneKept
  <1> HIDE DEF next
  <1>10. copy' = [copy EXCEPT ![w] = NoCopy]
    BY <1>1, <1>2 DEF IInv, TypeInv, WorkersInv
  <1>11. overlaps = 0 /\ crashes = 0 =>
           \A u \in (quarantines' \cap Registered) \ lapsed :
               Withdrawn(admission, next, After(next, call[w]), u)
    BY <1>1, <1>3 DEF Withdrawn
  <1> QED  BY <1>1, <1>3, <1>4, <1>6, <1>7, <1>8, <1>9, <1>10, <1>11, LabGoesOn

(* The latest review is one of the reviews.                                *)
LEMMA LatestExists ==
    ASSUME NEW n \in Nat, NEW S, S \subseteq 1..n, S # {}
    PROVE  \E i \in S : \A j \in S : j <= i
  <1> DEFINE T == {n - i : i \in S}
  <1> DEFINE R == OpToRel(<, Nat)
  <1>1. T \subseteq Nat
    BY SMT
  <1>2. T # {}
    OBVIOUS
  <1>3. IsWellFoundedOn(R, Nat)
    BY NatLessThanWellFounded
  <1>4. \A x, y \in Nat : y < x => <<y, x>> \in R
    BY DEF OpToRel
  <1> HIDE DEF T, R
  <1>5. PICK x \in T : \A y \in T : ~ (<<y, x>> \in R)
    BY <1>1, <1>2, <1>3, WFMin
  <1>6. PICK i \in S : x = n - i
    BY DEF T
  <1>7. ASSUME NEW j \in S PROVE j <= i
    <2>1. n - j \in T
      BY DEF T
    <2>2. n - i \in Nat /\ n - j \in Nat /\ ~(n - j < n - i)
      BY <1>1, <1>4, <1>5, <1>6, <2>1
    <2>3. i \in 1..n /\ j \in 1..n
      OBVIOUS
    <2> QED  BY <2>2, <2>3
  <1> QED  BY <1>7

LEMMA LatestIsOne ==
    ASSUME NEW run, LatestReview(run) = "APPROVE",
           reviews \in Seq([run : Ids, decision : Decisions])
    PROVE  Approved(reviews, run)
  <1> DEFINE about == {i \in DOMAIN reviews : reviews[i].run = run}
  <1>1. LatestReview(run) =
           IF about = {} THEN "none"
           ELSE reviews[CHOOSE i \in about : \A j \in about : j <= i].decision
    BY DEF LatestReview
  <1>2. about # {}
    BY <1>1
  <1>3. Len(reviews) \in Nat /\ about \subseteq 1..Len(reviews)
    <2> DEFINE R == [run : Ids, decision : Decisions]
    <2> HIDE DEF R
    <2>1. reviews \in Seq(R)
      BY DEF R
    <2> QED  BY <2>1
  <1> HIDE DEF about
  <1>4. \E i \in about : \A j \in about : j <= i
    BY <1>2, <1>3, LatestExists
  <1>5. (CHOOSE i \in about : \A j \in about : j <= i) \in about
    BY <1>4
  <1>6. \E i \in about : reviews[i].decision = "APPROVE"
    BY <1>1, <1>2, <1>5
  <1> QED  BY <1>6 DEF Approved, about

LEMMA ReadReviewKeeps == ASSUME IInv, NEW w \in Workers, ReadReview(w) PROVE IInv'
  <1> DEFINE card == found[w].card
  <1> DEFINE next == IF LatestReview(card.run) = "APPROVE" THEN "baseline" ELSE "idle"
  <1>1. /\ pc[w] = "read review" /\ Proceed(w, next) /\ Keeps(w, next, found[w])
        /\ UNCHANGED <<suite, disk, admission, runs, scorecards, reviews, baselines, quarantines,
                       copy, requests, overlaps, crashes, unlocked, swapped, lapsed>>
    BY DEF ReadReview, counters, ghosts, files
  <1>2. call[w].tool \in Tools /\ call[w].id \in 1..requests /\ copy[w] = NoCopy
    BY <1>1, WorkerFields, NotCopied DEF IInv, CallFits, Locked, Unlocked
  <1>3. /\ found[w] \in Findings
        /\ \A u \in Tools : CardTrue(runs, scorecards[u], u)
        /\ \A u \in Tools : BaselineTrue(runs, reviews, baselines[u], u)
        /\ RunKept(runs, reviews, "read review", call[w], copy[w], found[w])
        /\ overlaps = 0 /\ crashes = 0 =>
              \A u \in (quarantines \cap Registered) \ lapsed : Held(admission[u])
    BY <1>1, Standing
  <1>4. FilesInv'
    BY <1>1 DEF IInv, TypeInv, FilesInv
  <1>5. next = "baseline" => Approved(reviews, card.run)
    BY LatestIsOne DEF IInv, TypeInv, FilesInv
  <1>6. /\ next \in {"baseline", "idle"} /\ next \in Phases \ {"withdraw"}
        /\ CallFits("baseline", call[w])
    BY <1>2 DEF Phases, Unlocked, CallFits
  <1>7. next = "baseline" => RunKept(runs, reviews, "baseline", call[w], NoCopy, found[w])
    BY <1>3, <1>5 DEF RunKept, Before
  <1>8. AloneKept(admission, quarantines, "baseline", call[w], NoCopy, found[w])
    BY DEF AloneKept
  <1> HIDE DEF next
  <1>9. copy' = [copy EXCEPT ![w] = NoCopy]
    BY <1>1, <1>2 DEF IInv, TypeInv, WorkersInv
  <1>10. overlaps = 0 /\ crashes = 0 =>
           \A u \in (quarantines' \cap Registered) \ lapsed :
               Withdrawn(admission, next, After(next, call[w]), u)
    BY <1>1, <1>3 DEF Withdrawn
  <1> QED  BY <1>1, <1>3, <1>4, <1>6, <1>7, <1>8, <1>9, <1>10, LabGoesOn

LEMMA SaveBaselineKeeps == ASSUME IInv, NEW w \in Workers, SaveBaseline(w) PROVE IInv'
  <1> DEFINE t == call[w].tool
  <1> DEFINE card == found[w].card
  <1> DEFINE b == NewBaseline(w)
  <1>1. /\ pc[w] = "baseline" /\ Loaded(w) /\ copy' = [copy EXCEPT ![w] = NoCopy]
        /\ UNCHANGED <<suite, disk, admission, runs, reviews, requests, overlaps, crashes,
                       unlocked, swapped, lapsed, scorecards, quarantines>>
        /\ baselines' = [Content(w) EXCEPT ![t] = b]
        /\ Proceed(w, "idle") /\ Keeps(w, "idle", found[w])
    BY DEF SaveBaseline, SaveLab, counters, ghosts
  <1>2. Content(w) \in [Tools -> Baselines] /\ t \in Tools
    BY <1>1, WorkerFields DEF IInv, CallFits
  <1>3. /\ found[w] \in Findings
        /\ \A u \in Tools : CardTrue(runs, scorecards[u], u)
        /\ RunKept(runs, reviews, "baseline", call[w], copy[w], found[w])
        /\ overlaps = 0 /\ crashes = 0 =>
              \A u \in (quarantines \cap Registered) \ lapsed : Held(admission[u])
    BY <1>1, Standing
  <1>4. /\ card \in Cards /\ card.run # None /\ card.result \in Eligible
        /\ runs[card.run].tool = t /\ runs[card.run].result = card.result
        /\ Approved(reviews, card.run)
        /\ \A u \in Tools : BaselineTrue(runs, reviews, Content(w)[u], u)
    BY <1>1, <1>3 DEF RunKept, CardTrue, Findings, Loaded, Content
  <1>5. /\ b.run = card.run /\ b.result = card.result /\ b.binary = runs[card.run].binary
        /\ b = [run |-> card.run, result |-> card.result, binary |-> runs[card.run].binary]
    BY DEF NewBaseline
  <1>6. runs[card.run].binary \in Binaries
    BY <1>4 DEF IInv, TypeInv, FilesInv, Runs, Cards
  <1>7. b \in Baselines
    BY <1>4, <1>5, <1>6 DEF Baselines, Cards
  <1>8. BaselineTrue(runs, reviews, b, t)
    BY <1>4, <1>5 DEF BaselineTrue
  <1> HIDE DEF b
  <1>9. /\ baselines' \in [Tools -> Baselines]
        /\ \A u \in Tools : BaselineTrue(runs, reviews, baselines'[u], u)
    BY <1>1, <1>2, <1>4, <1>7, <1>8
  <1>10. FilesInv'
    BY <1>1, <1>9 DEF IInv, TypeInv, FilesInv
  <1>11. overlaps = 0 /\ crashes = 0 =>
           \A u \in (quarantines' \cap Registered) \ lapsed :
               Withdrawn(admission, "idle", After("idle", call[w]), u)
    BY <1>1, <1>3 DEF Withdrawn
  <1>12. "idle" \in Phases \ {"withdraw"}
    BY DEF Phases
  <1> QED  BY <1>1, <1>3, <1>9, <1>10, <1>11, <1>12, LabGoesOn

LEMMA SaveQuarantineKeeps == ASSUME IInv, NEW w \in Workers, SaveQuarantine(w) PROVE IInv'
  <1> DEFINE t == call[w].tool
  <1> DEFINE next == IF t \in Registered THEN "reread" ELSE "idle"
  <1>1. /\ pc[w] = "quarantine" /\ Loaded(w) /\ copy' = [copy EXCEPT ![w] = NoCopy]
        /\ UNCHANGED <<suite, disk, admission, runs, reviews, requests, overlaps, crashes,
                       unlocked, swapped, lapsed, scorecards, baselines>>
        /\ quarantines' = Content(w) \cup {t}
        /\ Proceed(w, next) /\ Keeps(w, next, found[w])
    BY DEF SaveQuarantine, SaveLab, counters, ghosts
  <1>2. Content(w) \subseteq Tools /\ t \in Tools /\ call[w].id \in 1..requests
    BY <1>1, WorkerFields DEF IInv, CallFits
  <1>3. /\ found[w] \in Findings
        /\ \A u \in Tools : CardTrue(runs, scorecards[u], u)
        /\ \A u \in Tools : BaselineTrue(runs, reviews, baselines[u], u)
        /\ overlaps = 0 => AloneKept(admission, quarantines, "quarantine", call[w], copy[w], found[w])
        /\ overlaps = 0 /\ crashes = 0 =>
              \A u \in (quarantines \cap Registered) \ lapsed : Held(admission[u])
    BY <1>1, Standing
  <1>4. FilesInv'
    BY <1>1, <1>2 DEF IInv, TypeInv, FilesInv
  <1>5. overlaps = 0 => Content(w) = quarantines
    BY <1>1, <1>3 DEF AloneKept, Loaded, Content
  <1>6. /\ next \in {"reread", "idle"} /\ next \in Phases \ {"withdraw"}
        /\ next = "reread" => CallFits("reread", call[w])
        /\ RunKept(runs, reviews, "reread", call[w], NoCopy, found[w])
        /\ AloneKept(admission, quarantines', "reread", call[w], NoCopy, found[w])
    BY <1>2 DEF Phases, Locked, CallFits, RunKept, Before, AloneKept
  <1>7. ASSUME overlaps = 0, crashes = 0, NEW u \in (quarantines' \cap Registered) \ lapsed
        PROVE  Withdrawn(admission, next, After(next, call[w]), u)
    <2>1. CASE u = t
      BY <1>7, <2>1 DEF Withdrawn, After
    <2>2. CASE u # t
      BY <1>1, <1>3, <1>5, <1>7, <2>2 DEF Withdrawn
    <2> QED  BY <2>1, <2>2
  <1> HIDE DEF next
  <1> QED  BY <1>1, <1>3, <1>4, <1>6, <1>7, LabGoesOn

LEMMA RereadKeeps == ASSUME IInv, NEW w \in Workers, Reread(w) PROVE IInv'
  <1>1. /\ pc[w] = "reread" /\ Loaded(w) /\ pc[w] \in Locked /\ Proceed(w, "withdraw")
        /\ admission' = Content(w)
        /\ UNCHANGED <<suite, disk, runs, scorecards, reviews, baselines, quarantines, copy,
                       found, requests, overlaps, crashes, unlocked, swapped, lapsed>>
    BY DEF Reread, counters, ghosts, Locked
  <1>2. /\ Content(w) \in [Tools -> Records] /\ call[w].tool \in Registered
        /\ call[w].id \in 1..requests /\ found[w] \in Findings /\ CopyFits("reread", copy[w])
    BY <1>1, WorkerFields DEF IInv, CallFits, Locked
  <1>3. CopyFits("withdraw", copy[w]) /\ copy[w] # NoCopy /\ "withdraw" \in Phases
    BY <1>1, <1>2 DEF CopyFits, Loaded, Locked, Phases
  <1>4. overlaps = 0 => Content(w) = admission
    BY <1>1 DEF IInv, AloneInv, AloneKept, Loaded, Content
  <1>5. FilesInv'
    BY <1>1, <1>2 DEF IInv, TypeInv, FilesInv
  <1>6. CallFits("withdraw", call[w])
    BY <1>2 DEF CallFits
  <1>7. /\ RunKept(runs, reviews, "withdraw", call[w], copy[w], found[w])
        /\ AloneKept(admission', quarantines, "withdraw", call[w], copy[w], found[w])
    BY <1>1 DEF RunKept, Before, AloneKept, Content, Locked
  <1>8. overlaps = 0 => \A t \in Registered :
            Withdrawn(admission, pc[w], call[w], t) =>
                Withdrawn(admission', "withdraw", After("withdraw", call[w]), t)
    BY <1>1, <1>4 DEF Withdrawn, After
  <1>9. copy' = [copy EXCEPT ![w] = copy[w]] /\ Keeps(w, "withdraw", found[w])
    BY <1>1 DEF IInv, TypeInv, WorkersInv, Keeps
  <1>10. ~("withdraw" \in Locked)
    BY DEF Locked
  <1>11. pc[w] # "idle"
    BY <1>1
  <1> QED  BY <1>1, <1>2, <1>3, <1>5, <1>6, <1>7, <1>8, <1>9, <1>10, <1>11, GoesOn

LEMMA WithdrawKeeps == ASSUME IInv, NEW w \in Workers, Withdraw(w) PROVE IInv'
  <1> DEFINE t == call[w].tool
  <1> DEFINE content == [Content(w) EXCEPT ![t] = Suspended(@)]
  <1>1. /\ pc[w] = "withdraw" /\ pc[w] # "idle" /\ Proceed(w, "idle") /\ Keeps(w, "idle", found[w])
        /\ copy' = [copy EXCEPT ![w] = NoCopy]
        /\ admission' = content /\ unlocked' = TRUE /\ lapsed' = lapsed \ {t}
        /\ UNCHANGED <<suite, disk, runs, scorecards, reviews, baselines, quarantines,
                       requests, overlaps, crashes, swapped>>
    BY DEF Withdraw, counters, ghosts
  <1>2. Content(w) \in [Tools -> Records] /\ t \in Tools
    BY <1>1, WorkerFields, ScannersRegistered DEF IInv, CallFits
  <1>3. /\ content = [Content(w) EXCEPT ![t] = Suspended(Content(w)[t])]
        /\ Suspended(Content(w)[t]) \in Records /\ Held(Suspended(Content(w)[t]))
    BY <1>2, SuspendedKept
  <1>4. /\ content \in [Tools -> Records] /\ Held(content[t])
        /\ \A u \in Tools : Held(Content(w)[u]) => Held(content[u])
    BY <1>2, <1>3
  <1> HIDE DEF content
  <1>5. FilesInv'
    BY <1>1, <1>4 DEF IInv, TypeInv, FilesInv
  <1>6. Moves(w, "idle", NoCall, NoCopy, NothingFound)
    BY <1>1, Proceeding DEF IInv, After, Kept
  <1>7. WorkersInv'
    <2>1. "idle" \notin Locked
      BY DEF Locked
    <2> QED  BY <1>1, <1>6, <2>1, IdleFits, NothingFoundType, TypeMoves DEF IInv
  <1>8. LockInv'
    BY <1>1 DEF LockInv
  <1>9. RunInv'
    BY <1>1, <1>6, IdleKnows, RunQuiet DEF IInv
  <1>10. AloneInv'
    <2>1. overlaps = 0 => Content(w) = admission
      <3>1. overlaps = 0 => AloneKept(admission, quarantines, pc[w], call[w], copy[w], found[w])
        BY DEF IInv, AloneInv
      <3>2. Loaded(w)
        BY <1>1, WorkerFields DEF IInv
      <3> QED  BY <1>1, <3>1, <3>2 DEF AloneKept, Content, Loaded
    <2>2. ASSUME overlaps = 0, crashes = 0, NEW u \in (quarantines' \cap Registered) \ lapsed'
          PROVE  Withdrawn(admission', "idle", NoCall, u)
      <3>1. u \in Tools
        BY ScannersRegistered
      <3>2. CASE u = t
        BY <1>1, <1>4, <3>2 DEF Withdrawn
      <3>3. CASE u # t
        <4>1. u \in (quarantines \cap Registered) \ lapsed
          BY <1>1, <2>2, <3>3
        <4>2. \/ Held(admission[u])
              \/ \E v \in Workers : pc[v] \in {"reread", "withdraw"} /\ call[v].tool = u
          BY <2>2, <4>1 DEF IInv, AloneInv
        <4>3. \A v \in Workers : pc[v] # "idle" => v = w
          BY <1>1, <2>2 DEF IInv, AloneInv
        <4>4. Held(admission[u])
          BY <3>3, <4>2, <4>3
        <4> QED  BY <1>1, <1>4, <2>1, <2>2, <3>1, <4>4 DEF Withdrawn
      <3> QED  BY <3>2, <3>3
    <2>3. overlaps = 0 => \A i \in Ids \ swapped : ScanTrue(runs'[i])
      BY <1>1 DEF IInv, AloneInv
    <2> QED  BY <1>1, <1>6, <2>2, <2>3, IdleKnows, AloneMoves DEF IInv
  <1> QED  BY <1>5, <1>7, <1>8, <1>9, <1>10 DEF IInv, TypeInv

-----------------------------------------------------------------------------
(* Requests, loads, and what happens to the tools and the server           *)

(* The file a phase loads.                                                 *)
LEMMA FileFields ==
    ASSUME IInv, NEW p \in Locked \cup Unlocked
    PROVE  /\ CopyFits(p, File(p)) /\ File(p) # NoCopy
           /\ p \in Locked => File(p)[2] = admission
           /\ p \in {"card", "mark"} => File(p)[2] = scorecards
           /\ p = "baseline" => File(p)[2] = baselines
           /\ p = "quarantine" => File(p)[2] = quarantines
  <1>1. /\ admission \in [Tools -> Records] /\ scorecards \in [Tools -> Cards]
        /\ baselines \in [Tools -> Baselines] /\ quarantines \subseteq Tools
    BY DEF IInv, TypeInv, FilesInv
  <1>2. CASE p \in Locked
    <2>1. File(p) = <<"admission", admission>>
      BY <1>2 DEF File, Locked
    <2>2. p \notin Unlocked
      BY <1>2 DEF Locked, Unlocked
    <2>3. File(p) \in Copied("admission", [Tools -> Records])
      BY <1>1, <2>1 DEF Copied
    <2> QED  BY <1>2, <2>1, <2>2, <2>3 DEF CopyFits, NoCopy, Unlocked
  <1>3. CASE p \in {"card", "mark"}
    <2>1. File(p) = <<"scorecards", scorecards>> /\ p \notin Locked
      BY <1>3 DEF File, Locked
    <2>2. File(p) \in Copied("scorecards", [Tools -> Cards])
      BY <1>1, <2>1 DEF Copied
    <2> QED  BY <1>3, <2>1, <2>2 DEF CopyFits, NoCopy
  <1>4. CASE p = "baseline"
    <2>1. File(p) = <<"baselines", baselines>> /\ p \notin Locked
      BY <1>4 DEF File, Locked
    <2>2. File(p) \in Copied("baselines", [Tools -> Baselines])
      BY <1>1, <2>1 DEF Copied
    <2> QED  BY <1>4, <2>1, <2>2 DEF CopyFits, NoCopy
  <1>5. CASE p = "quarantine"
    <2>1. File(p) = <<"quarantines", quarantines>> /\ p \notin Locked
      BY <1>5 DEF File, Locked
    <2>2. File(p) \in Copied("quarantines", SUBSET Tools)
      BY <1>1, <2>1 DEF Copied
    <2> QED  BY <1>5, <2>1, <2>2 DEF CopyFits, NoCopy
  <1> QED  BY <1>2, <1>3, <1>4, <1>5 DEF Unlocked

LEMMA LoadKeeps == ASSUME IInv, NEW w \in Workers, Load(w) PROVE IInv'
  <1> DEFINE p == pc[w]
  <1> DEFINE k == File(pc[w])
  <1>1. /\ p \in Locked \cup Unlocked /\ ~Loaded(w)
        /\ p \in Locked => LockFree(w)
        /\ copy' = [copy EXCEPT ![w] = k]
        /\ UNCHANGED <<suite, disk, admission, runs, scorecards, reviews, baselines, quarantines,
                       pc, call, found, requests, overlaps, crashes, unlocked, swapped, lapsed>>
    BY DEF Load, counters, ghosts, files
  <1>2. /\ CopyFits(p, k) /\ k # NoCopy
        /\ p \in Locked => k[2] = admission
        /\ p \in {"card", "mark"} => k[2] = scorecards
        /\ p = "baseline" => k[2] = baselines
        /\ p = "quarantine" => k[2] = quarantines
    BY <1>1, FileFields
  <1>3. /\ p # "idle" /\ p # "withdraw" /\ p # "execute" /\ p # "run"
        /\ p # "append run" /\ p # "read review"
    BY <1>1 DEF Locked, Unlocked
  <1>4. Moves(w, p, call[w], k, found[w])
    BY <1>1 DEF Moves, IInv, TypeInv, WorkersInv
  <1>5. /\ p \in Phases /\ call[w] \in AnyCall /\ found[w] \in Findings
        /\ CallFits(p, call[w])
    BY WorkerFields DEF IInv
  <1>6. /\ \A t \in Tools : CardTrue(runs, scorecards[t], t)
        /\ \A t \in Tools : BaselineTrue(runs, reviews, baselines[t], t)
        /\ RunKept(runs, reviews, p, call[w], copy[w], found[w])
        /\ overlaps = 0 => AloneKept(admission, quarantines, p, call[w], copy[w], found[w])
    BY <1>3, Standing
  <1> HIDE DEF p, k
  <1>7. FilesInv'
    BY <1>1 DEF IInv, TypeInv, FilesInv
  <1>8. WorkersInv'
    <2>1. p \in Locked => \A v \in Workers \ {w} : ~(pc[v] \in Locked /\ Loaded(v))
      BY <1>1 DEF LockFree
    <2> QED  BY <1>1, <1>2, <1>4, <1>5, <2>1, TypeMoves DEF IInv
  <1>9. LockInv'
    BY <1>1, <1>2, <1>4, LockMoves DEF IInv
  <1>10. RunKept(runs, reviews, p, call[w], k, found[w])
    BY <1>2, <1>6 DEF RunKept
  <1>11. RunInv'
    BY <1>1, <1>3, <1>4, <1>10, RunQuiet DEF IInv, p
  <1>12. overlaps = 0 => AloneKept(admission, quarantines, p, call[w], k, found[w])
    BY <1>2, <1>3, <1>6 DEF AloneKept
  <1>13. AloneInv'
    BY <1>1, <1>3, <1>4, <1>12, AloneQuiet DEF IInv, p
  <1> QED  BY <1>7, <1>8, <1>9, <1>11, <1>13 DEF IInv, TypeInv

LEMMA StartKeeps == ASSUME IInv, NEW w \in Workers, Start(w) PROVE IInv'
  <1>1. /\ pc[w] = "idle" /\ requests < MaxRequests /\ requests' = requests + 1
        /\ UNCHANGED <<suite, disk, admission, runs, scorecards, reviews, baselines, quarantines,
                       copy, crashes, unlocked, swapped, lapsed>>
        /\ \/ overlaps' = overlaps /\ \A v \in Workers : pc[v] = "idle"
           \/ overlaps' = overlaps + 1
    BY DEF Start, files, ghosts
  <1>2. PICK c \in Calls(requests + 1) :
            /\ c.op = "review" => runs[c.run].tool # None
            /\ call' = [call EXCEPT ![w] = c]
            /\ pc' = [pc EXCEPT ![w] = FirstPhase(c)]
            /\ IF FirstPhase(c) = "append run"
               THEN \E m \in Measured(c.tool, admission[c.tool], FALSE) :
                       found' = [found EXCEPT ![w].result = m]
               ELSE UNCHANGED found
    BY DEF Start
  <1> DEFINE p == FirstPhase(c)
  <1>3. /\ requests \in 0..MaxRequests /\ overlaps \in Nat /\ MaxRequests \in Nat
        /\ requests + 1 \in Ids /\ requests' \in 0..MaxRequests /\ overlaps' \in Nat
        /\ 1..requests \subseteq 1..requests' /\ requests + 1 \in 1..requests'
        /\ requests + 1 \notin 1..requests
    BY <1>1, BoundsAssumption DEF IInv, TypeInv, FilesInv, Ids
  <1>4. /\ c.id = requests + 1 /\ c \in AnyCall
        /\ p \in {"look", "probe", "suspend", "quarantine", "check scan",
                  "append run", "tool record", "append review", "read card"}
        /\ p \in {"probe", "suspend"} => c.tool \in Registered
        /\ p = "check scan" => c.tool \in Scanners
        /\ p \in {"tool record", "append run", "read card", "quarantine"} => c.tool \in Tools
        /\ p = "append review" => c.op = "review" /\ c.run \in Ids /\ c.decision \in Decisions
        /\ p = "append run" => c.tool \notin Scanners
    BY <1>3, CallFields, FirstFits DEF AnyCall, Scanners
  <1>5. /\ found[w] \in Findings /\ copy[w] = NoCopy
    BY <1>1, WorkerFields, NotCopied DEF IInv, Locked, Unlocked
  <1>6. PICK f \in Findings : found' = [found EXCEPT ![w] = f]
    <2>1. CASE p = "append run"
      <3>1. PICK m \in Measured(c.tool, admission[c.tool], FALSE) :
                found' = [found EXCEPT ![w].result = m]
        BY <1>2, <2>1
      <3>2. m \in Results
        BY <1>4, <2>1, MeasuredType DEF IInv, TypeInv, FilesInv
      <3>3. [found[w] EXCEPT !.result = m] \in Findings
        BY <1>5, <3>2 DEF Findings
      <3>4. [found EXCEPT ![w].result = m] = [found EXCEPT ![w] = [found[w] EXCEPT !.result = m]]
        BY DEF IInv, TypeInv, WorkersInv
      <3> QED  BY <3>1, <3>3, <3>4
    <2>2. CASE p # "append run"
      <3>1. found' = [found EXCEPT ![w] = found[w]]
        BY <1>2, <2>2 DEF IInv, TypeInv, WorkersInv
      <3> QED  BY <1>5, <3>1
    <2> QED  BY <2>1, <2>2
  <1> HIDE DEF p
  <1>7. Moves(w, p, c, NoCopy, f)
    BY <1>1, <1>2, <1>5, <1>6 DEF Moves, IInv, TypeInv, WorkersInv, p
  <1>8. /\ pc'[w] = p /\ call'[w] = c /\ copy'[w] = NoCopy /\ found'[w] = f
        /\ \A v \in Workers \ {w} :
              /\ pc'[v] = pc[v] /\ call'[v] = call[v]
              /\ copy'[v] = copy[v] /\ found'[v] = found[v]
        /\ copy' = [v \in Workers |-> copy'[v]]
    BY <1>7, OneMoves DEF IInv
  <1>9. Registered' = Registered /\ Scanners' = Scanners /\ AnyCall' = AnyCall
    BY <1>1, SameCatalog
  <1>10. p \in Phases /\ p # "idle" /\ p # "withdraw"
    BY <1>4 DEF Phases, Locked, Unlocked
  <1>11. FilesInv'
    BY <1>1, <1>3 DEF IInv, TypeInv, FilesInv
  <1>12. WorkersInv'
    <2>1. /\ pc' \in [Workers -> Phases] /\ call' \in [Workers -> AnyCall']
          /\ found' \in [Workers -> Findings]
      BY <1>4, <1>7, <1>9, <1>10 DEF Moves, IInv, TypeInv, WorkersInv
    <2>3. ASSUME NEW v \in Workers, v # w PROVE CallFits(pc[v], call[v])'
      <3>1. CallFits(pc[v], call[v])
        BY DEF IInv, TypeInv, WorkersInv
      <3> QED  BY <1>3, <1>8, <1>9, <2>3, <3>1 DEF CallFits
    <2>4. CallFits(pc[w], call[w])'
      BY <1>3, <1>4, <1>8, <1>9, <1>10 DEF CallFits
    <2>5. ASSUME NEW v \in Workers PROVE CopyFits(pc[v], copy[v])'
      <3>1. CopyFits(pc[v], copy[v]) /\ CopyFits(p, NoCopy)
        BY <1>10, IdleFits DEF IInv, TypeInv, WorkersInv
      <3>2. CopyFits(pc'[v], copy'[v])
        BY <1>8, <3>1
      <3> QED  BY <3>2 DEF CopyFits
    <2>6. ASSUME NEW u \in Workers, NEW v \in Workers,
                 pc'[u] \in Locked, copy'[u] # NoCopy, pc'[v] \in Locked, copy'[v] # NoCopy
          PROVE  u = v
      <3>1. u # w /\ v # w
        BY <1>8, <2>6
      <3> QED  BY <1>8, <2>6, <3>1 DEF IInv, TypeInv, WorkersInv, Loaded
    <2> QED  BY <1>8, <2>1, <2>3, <2>4, <2>5, <2>6 DEF WorkersInv, Loaded
  <1>13. LockInv'
    BY <1>1, <1>7, LockMoves DEF IInv
  <1>14. RunInv'
    <2>1. \A i \in Ids : i > requests' => runs'[i] = NoRun
      BY <1>1, <1>3 DEF IInv, RunInv, Ids
    <2>2. ASSUME NEW v \in Workers, v # w, pc[v] # "idle" PROVE call[v].id # c.id
      <3>1. call[v].id \in 1..requests
        BY <2>2, WorkerFields DEF IInv, CallFits
      <3> QED  BY <1>3, <1>4, <3>1
    <2>3. \A u, v \in Workers :
              pc'[u] # "idle" /\ pc'[v] # "idle" /\ call'[u].id = call'[v].id => u = v
      BY <1>8, <2>2 DEF IInv, RunInv
    <2>4. RunKept(runs, reviews, p, c, NoCopy, f)
      <3>1. \A i \in Ids : i > requests => runs[i] = NoRun
        BY DEF IInv, RunInv
      <3>2. c.id \in Ids /\ c.id > requests
        <4>1. requests \in Nat
          BY <1>3
        <4>2. c.id = requests + 1
          BY <1>4
        <4>3. c.id \in Ids
          BY <1>3, <4>2
        <4> QED  BY <4>1, <4>2, <4>3
      <3>3. runs[c.id] = NoRun
        BY <3>1, <3>2
      <3> QED  BY <1>2, <1>4, <3>3 DEF RunKept
    <2>5. ASSUME NEW v \in Workers
          PROVE  RunKept(runs', reviews', pc'[v], call'[v], copy'[v], found'[v])
      BY <1>1, <1>8, <2>4 DEF IInv, RunInv
    <2> QED  BY <1>1, <2>1, <2>3, <2>5 DEF IInv, RunInv
  <1>15. AloneInv'
    <2> SUFFICES ASSUME overlaps' = 0 PROVE AloneInv'
      BY DEF AloneInv
    <2>1. overlaps = 0 /\ \A v \in Workers : pc[v] = "idle"
      BY <1>1, <1>3
    <2>2. AloneKept(admission, quarantines, p, c, NoCopy, f)
      BY <1>4 DEF AloneKept
    <2>3. ASSUME NEW v \in Workers
          PROVE  AloneKept(admission, quarantines, pc[v], call[v], copy[v], found[v])'
      <3>1. AloneKept(admission, quarantines, pc'[v], call'[v], copy'[v], found'[v])
        BY <1>8, <2>1, <2>2 DEF IInv, AloneInv
      <3> QED  BY <1>1, <1>9, <3>1 DEF AloneKept
    <2>4. \A u, v \in Workers : pc'[u] # "idle" /\ pc'[v] # "idle" => u = v
      BY <1>8, <2>1
    <2>5. \A i \in Ids \ swapped : ScanTrue(runs[i])'
      BY <1>1, <1>9, <2>1 DEF IInv, AloneInv, ScanTrue
    <2>6. crashes' = 0 => \A t \in (quarantines' \cap Registered') \ lapsed' : Held(admission'[t])
      BY <1>1, <1>9, <2>1 DEF IInv, AloneInv
    <2> QED  BY <1>1, <2>3, <2>4, <2>5, <2>6 DEF AloneInv, Held
  <1> QED  BY <1>11, <1>12, <1>13, <1>14, <1>15 DEF IInv, TypeInv

(* The tools on disk are no part of what the files hold; a worker about to *)
(* run one knows which it was.                                             *)
LEMMA Unmoved ==
    ASSUME IInv, disk' \in [Tools -> Binaries],
           UNCHANGED <<suite, files, pc, call, copy, found, requests, overlaps, crashes>>,
           UNCHANGED <<unlocked, lapsed>>, swapped \subseteq swapped', swapped' \subseteq Ids,
           \A w \in Workers : pc[w] = "run" /\ call[w].id \notin swapped' =>
               disk'[call[w].tool] = disk[call[w].tool]
    PROVE  IInv'
  <1>1. /\ UNCHANGED <<suite, admission, runs, scorecards, reviews, baselines, quarantines>>
        /\ UNCHANGED <<pc, call, copy, found, requests, overlaps, crashes, unlocked, lapsed>>
    BY DEF files
  <1>2. Registered' = Registered /\ Scanners' = Scanners /\ AnyCall' = AnyCall
    BY <1>1, SameCatalog
  <1>3. FilesInv'
    BY <1>1 DEF IInv, TypeInv, FilesInv
  <1>4. WorkersInv'
    <2>1. ASSUME NEW w \in Workers PROVE CallFits(pc[w], call[w])'
      <3>1. CallFits(pc[w], call[w])
        BY DEF IInv, TypeInv, WorkersInv
      <3> QED  BY <1>1, <1>2, <3>1 DEF CallFits
    <2>2. ASSUME NEW w \in Workers PROVE CopyFits(pc[w], copy[w])'
      <3>1. CopyFits(pc[w], copy[w])
        BY DEF IInv, TypeInv, WorkersInv
      <3> QED  BY <1>1, <3>1
    <2> QED  BY <1>1, <1>2, <2>1, <2>2 DEF IInv, TypeInv, WorkersInv, Loaded
  <1>5. LockInv'
    BY <1>1 DEF IInv, LockInv, Loaded, Content
  <1>6. RunInv'
    BY <1>1 DEF IInv, RunInv
  <1>7. AloneInv'
    <2>1. ASSUME overlaps = 0, NEW w \in Workers
          PROVE  AloneKept(admission, quarantines, pc[w], call[w], copy[w], found[w])'
      <3>1. AloneKept(admission, quarantines, pc[w], call[w], copy[w], found[w])
        BY <2>1 DEF IInv, AloneInv
      <3>2. AloneKept(admission, quarantines, pc[w], call[w], copy[w], found[w]) =>
                AloneKept(admission, quarantines, pc[w], call[w], copy[w], found[w])'
        BY <1>1, <1>2 DEF AloneKept
      <3> QED  BY <3>1, <3>2
    <2>2. ASSUME overlaps = 0, NEW i \in Ids, i \notin swapped' PROVE ScanTrue(runs[i])'
      BY <1>1, <1>2, <2>2 DEF IInv, AloneInv, ScanTrue
    <2> QED  BY <1>1, <1>2, <2>1, <2>2 DEF IInv, AloneInv
  <1> QED  BY <1>3, <1>4, <1>5, <1>6, <1>7 DEF IInv, TypeInv

LEMMA ReplaceKeeps == ASSUME IInv, NEW t \in Registered, Replace(t) PROVE IInv'
  <1>1. PICK b \in Binaries \ {disk[t]} : disk' = [disk EXCEPT ![t] = b]
    BY DEF Replace
  <1>2. disk' \in [Tools -> Binaries] /\ \A u \in Tools : u # t => disk'[u] = disk[u]
    BY <1>1 DEF IInv, TypeInv, FilesInv
  <1> DEFINE running == {v \in Workers : pc[v] = "run" /\ call[v].tool = t}
  <1>3. swapped' = swapped \cup {call[w].id : w \in running}
    BY DEF Replace
  <1>4. ASSUME NEW w \in Workers, pc[w] = "run"
        PROVE  call[w].id \in Ids /\ call[w].tool \in Tools
    <2>1. pc[w] # "idle"
      BY <1>4
    <2>2. call[w].tool \in Scanners
      BY <1>4, WorkerFields DEF IInv, CallFits
    <2> QED  BY <2>1, <2>2, Standing, ScannersRegistered
  <1>5. swapped \subseteq swapped' /\ swapped' \subseteq Ids
    BY <1>3, <1>4 DEF IInv, TypeInv, FilesInv
  <1>6. ASSUME NEW w \in Workers, pc[w] = "run", call[w].id \notin swapped'
        PROVE  disk'[call[w].tool] = disk[call[w].tool]
    <2>1. w \notin running
      BY <1>3, <1>6
    <2> QED  BY <1>2, <1>4, <1>6, <2>1
  <1> HIDE DEF running
  <1>7. /\ UNCHANGED <<suite, files, pc, call, copy, found, requests, overlaps, crashes>>
        /\ UNCHANGED <<unlocked, lapsed>>
    BY DEF Replace
  <1> QED  BY <1>2, <1>5, <1>6, <1>7, Unmoved

LEMMA CrashKeeps == ASSUME IInv, Crash PROVE IInv'
  <1>1. /\ pc' = [w \in Workers |-> "idle"] /\ call' = [w \in Workers |-> NoCall]
        /\ copy' = [w \in Workers |-> NoCopy] /\ found' = [w \in Workers |-> NothingFound]
        /\ crashes < MaxCrashes /\ crashes' = crashes + 1
        /\ UNCHANGED <<suite, disk, admission, runs, scorecards, reviews, baselines, quarantines,
                       requests, overlaps, unlocked, swapped, lapsed>>
    BY DEF Crash, files, ghosts
  <1>2. FilesInv'
    <2>1. crashes' \in 0..MaxCrashes
      BY <1>1, BoundsAssumption DEF IInv, TypeInv, FilesInv
    <2> QED  BY <1>1, <2>1 DEF IInv, TypeInv, FilesInv
  <1>3. Registered' = Registered /\ Scanners' = Scanners /\ AnyCall' = AnyCall
    BY <1>1, SameCatalog
  <1>4. WorkersInv'
    BY <1>1, <1>3, IdleFits, NothingFoundType DEF WorkersInv, CallFits, CopyFits, Loaded
  <1>5. LockInv'
    BY <1>1 DEF LockInv, Loaded
  <1>6. RunInv'
    BY <1>1, IdleKnows DEF IInv, RunInv
  <1>7. AloneInv'
    <2>1. crashes' # 0
      BY <1>1 DEF IInv, TypeInv, FilesInv
    <2>2. \A w \in Workers : AloneKept(admission, quarantines, pc[w], call[w], copy[w], found[w])'
      BY <1>1 DEF AloneKept, Locked
    <2>3. overlaps = 0 => \A i \in Ids \ swapped' : ScanTrue(runs[i])'
      BY <1>1, <1>3 DEF IInv, AloneInv, ScanTrue
    <2> QED  BY <1>1, <2>1, <2>2, <2>3 DEF AloneInv
  <1> QED  BY <1>2, <1>4, <1>5, <1>6, <1>7 DEF IInv, TypeInv

LEMMA InitHolds == Init => IInv
  <1> SUFFICES ASSUME Init PROVE IInv
    OBVIOUS
  <1>1. /\ None \in Binaries /\ 1 \in Binaries
        /\ NewRecord \in Records /\ Probed(NewRecord, 1, TRUE) \in Records
        /\ NoRun \in Runs /\ NoCard \in Cards /\ NoBaseline \in Baselines
        /\ NoRun.tool = None /\ NoRun.result = "NOT_ASSESSED" /\ NoCard.run = None
        /\ NoBaseline.run = None
    BY BoundsAssumption
       DEF None, Binaries, NewRecord, Records, AdmissionStates, Probed, NoRun, Runs, Results,
           NoCard, Cards, NoBaseline, Baselines
  <1>2. FilesInv
    <2>1. admission \in [Tools -> Records]
      BY <1>1 DEF Init
    <2>2. runs \in [Ids -> Runs] /\ scorecards \in [Tools -> Cards]
      BY <1>1 DEF Init
    <2>3. baselines \in [Tools -> Baselines] /\ disk \in [Tools -> Binaries]
      BY <1>1 DEF Init
    <2>4. reviews \in Seq([run : Ids, decision : Decisions]) /\ quarantines \subseteq Tools
      BY DEF Init
    <2>5. requests \in 0..MaxRequests /\ crashes \in 0..MaxCrashes /\ overlaps \in Nat
      BY BoundsAssumption DEF Init
    <2>6. suite \in [Tools -> Suites]
      BY DEF Init
    <2>7. swapped \subseteq Ids /\ lapsed \subseteq Tools
      BY DEF Init
    <2> QED  BY <2>1, <2>2, <2>3, <2>4, <2>5, <2>6, <2>7 DEF FilesInv
  <1>3. WorkersInv
    BY IdleFits, NothingFoundType DEF Init, WorkersInv, Loaded
  <1>4. LockInv
    BY DEF Init, LockInv, Loaded
  <1>5. RunInv
    BY <1>1, IdleKnows DEF Init, RunInv, CardTrue, BaselineTrue
  <1>6. AloneInv
    BY <1>1, IdleKnows DEF Init, AloneInv, ScanTrue, Eligible
  <1> QED  BY <1>2, <1>3, <1>4, <1>5, <1>6 DEF IInv, TypeInv

LEMMA NextKeeps == IInv /\ [Next]_vars => IInv'
  <1> SUFFICES ASSUME IInv, [Next]_vars PROVE IInv'
    OBVIOUS
  <1>1. CASE \E t \in Registered : Replace(t)
    BY <1>1, ReplaceKeeps
  <1>2. ASSUME NEW w \in Workers, Start(w) \/ Load(w) \/ Fails(w) PROVE IInv'
    BY <1>2, StartKeeps, LoadKeeps, FailsKeeps
  <1>3. ASSUME NEW w \in Workers, Admission(w) PROVE IInv'
    BY <1>3, LookKeeps, ProbeKeeps, SuspendKeeps, CheckScanKeeps, CheckBinaryKeeps, ExecuteKeeps,
       SettleKeeps
       DEF Admission
  <1>4. ASSUME NEW w \in Workers, Laboratory(w) PROVE IInv'
    BY <1>4, ReadToolRecordKeeps, ReadFingerprintKeeps, AppendRunKeeps, SaveCardKeeps,
       AppendReviewKeeps, MarkCardKeeps, ReadCardKeeps, ReadReviewKeeps, SaveBaselineKeeps,
       SaveQuarantineKeeps, RereadKeeps, WithdrawKeeps DEF Laboratory
  <1>5. CASE Crash
    BY <1>5, CrashKeeps
  <1>6. CASE UNCHANGED vars
    <2>1. /\ disk' \in [Tools -> Binaries] /\ disk' = disk
          /\ swapped \subseteq swapped' /\ swapped' \subseteq Ids
      BY <1>6 DEF vars, ghosts, IInv, TypeInv, FilesInv
    <2> QED  BY <1>6, <2>1, Unmoved DEF vars, ghosts
  <1> QED  BY <1>1, <1>2, <1>3, <1>4, <1>5, <1>6 DEF Next

LEMMA Invariant == Spec => []IInv
  BY InitHolds, NextKeeps, PTL DEF Spec

-----------------------------------------------------------------------------
(* The theorems                                                            *)

(* Every file keeps to its schema whatever requests, loads, stores and     *)
(* crashes come in which order, and two sections of admission's lock never *)
(* overlap: _STATE_LOCK is held from the load of admission's file to its   *)
(* store.                                                                  *)
THEOREM TypeCorrect == Spec => []TypeOK
  <1>1. IInv => TypeOK
    <2> SUFFICES ASSUME IInv PROVE TypeOK
      OBVIOUS
    <2>1. ASSUME NEW w \in Workers PROVE call[w] \in Calls(call[w].id) \cup {NoCall}
      <3>1. call[w] \in AnyCall
        BY WorkerFields DEF IInv
      <3>2. ASSUME NEW i \in Ids, call[w] \in Calls(i) PROVE call[w] \in Calls(call[w].id)
        BY <3>2, CallFields
      <3> QED  BY <3>1, <3>2 DEF AnyCall
    <2> QED  BY <2>1 DEF IInv, TypeInv, FilesInv, WorkersInv, TypeOK
  <1> QED  BY <1>1, Invariant, PTL

(* A baseline is that of one run of its tool, eligible and approved by a   *)
(* person, whatever runs, reviews and cards come between the reads of      *)
(* _accept_baseline; with one request at a time a scanner's baseline names *)
(* the binary that was scanned, though the run reads it only afterwards,   *)
(* unless somebody replaced the binary between the check of its hash and   *)
(* the scan.                                                               *)
THEOREM BaselinesAreEarned == Spec => []BaselineEarned
  <1>1. IInv => BaselineEarned
    <2> SUFFICES ASSUME IInv, NEW t \in Tools, baselines[t].run # None
                 PROVE  /\ runs[baselines[t].run].tool = t
                        /\ baselines[t].result = runs[baselines[t].run].result
                        /\ baselines[t].result \in Eligible
                        /\ baselines[t].binary = runs[baselines[t].run].binary
                        /\ overlaps = 0 /\ t \in Scanners /\ baselines[t].run \notin swapped =>
                              baselines[t].binary = runs[baselines[t].run].scanned
                        /\ \E i \in DOMAIN reviews :
                              /\ reviews[i].run = baselines[t].run
                              /\ reviews[i].decision = "APPROVE"
      BY DEF BaselineEarned
    <2>1. BaselineTrue(runs, reviews, baselines[t], t)
      BY DEF IInv, RunInv
    <2>2. baselines[t].run \in Ids
      BY DEF IInv, TypeInv, FilesInv, Baselines
    <2>3. overlaps = 0 /\ baselines[t].run \notin swapped => ScanTrue(runs[baselines[t].run])
      BY <2>2 DEF IInv, AloneInv
    <2> QED  BY <2>1, <2>3 DEF BaselineTrue, Approved, ScanTrue
  <1> QED  BY <1>1, Invariant, PTL

(* With one request at a time and no crash, a tool that _quarantine_tool   *)
(* has quarantined is suspended and stays so, whatever probes, scans and   *)
(* benchmarks follow and whichever of them fail, unless its withdrawal was *)
(* what failed.                                                            *)
THEOREM QuarantineIsFinal == Spec => []QuarantineWithdraws
  <1>1. IInv => QuarantineWithdraws
    <2> SUFFICES ASSUME IInv, overlaps = 0, crashes = 0, \A w \in Workers : pc[w] = "idle",
                        NEW t \in (quarantines \cap Registered) \ lapsed
                 PROVE  admission[t].suspended /\ admission[t].state # "ADMITTED"
      BY DEF QuarantineWithdraws
    <2>1. \A w \in Workers : pc[w] \notin {"reread", "withdraw"}
      OBVIOUS
    <2>2. Held(admission[t])
      BY <2>1 DEF IInv, AloneInv
    <2> QED  BY <2>2 DEF Held
  <1> QED  BY <1>1, Invariant, PTL

(* No step loses a suspension but the laboratory's write of a copy of      *)
(* admission's file without its lock: a section under the lock writes back *)
(* what the file still is, and neither a probe nor a scan lifts one.       *)
LEMMA SuspensionStep ==
    IInv /\ [Next]_vars =>
        (~unlocked' => \A t \in Tools : admission[t].suspended => admission'[t].suspended)
  <1> SUFFICES ASSUME IInv, [Next]_vars, ~unlocked', NEW t \in Tools, admission[t].suspended
               PROVE  admission'[t].suspended
    OBVIOUS
  <1>1. CASE admission' = admission
    BY <1>1
  <1>2. ASSUME NEW w \in Workers, pc[w] \in Locked, Loaded(w), unlocked' = unlocked
        PROVE  Content(w) = admission /\ admission \in [Tools -> Records]
    BY <1>2 DEF IInv, LockInv, TypeInv, FilesInv
  <1>3. ASSUME NEW w \in Workers, NEW phase \in Locked, SaveAdmission(w, phase, Content(w))
        PROVE  admission' = admission
    BY <1>2, <1>3 DEF SaveAdmission, ghosts
  <1>4. ASSUME NEW w \in Workers, NEW phase \in Locked, NEW u, NEW r,
               SaveAdmission(w, phase, [Content(w) EXCEPT ![u] = r]),
               u = t => r.suspended
        PROVE  admission'[t].suspended
    BY <1>2, <1>4 DEF SaveAdmission, ghosts
  <1>5. CASE \E w \in Workers : Probe(w)
    <2>1. PICK w \in Workers, pass \in BOOLEAN :
              SaveAdmission(w, "probe",
                  [Content(w) EXCEPT ![call[w].tool] = Probed(@, disk[call[w].tool], pass)])
      BY <1>5 DEF Probe
    <2>2. Content(w) = admission /\ call[w].tool \in Tools
      BY <1>2, <2>1, WorkerFields, ScannersRegistered
          DEF SaveAdmission, Locked, IInv, CallFits, ghosts
    <2>3. call[w].tool = t =>
              Probed(Content(w)[call[w].tool], disk[call[w].tool], pass).suspended
      BY <2>2 DEF Probed
    <2> QED  BY <1>4, <2>1, <2>3 DEF Locked
  <1>6. CASE \E w \in Workers : Suspend(w)
    <2>1. PICK w \in Workers :
              SaveAdmission(w, "suspend", [Content(w) EXCEPT ![call[w].tool] = Suspended(@)])
      BY <1>6 DEF Suspend
    <2>2. Suspended(Content(w)[call[w].tool]).suspended
      BY DEF Suspended
    <2> QED  BY <1>4, <2>1, <2>2 DEF Locked
  <1>7. CASE \E w \in Workers : Settle(w)
    <2>1. PICK w \in Workers :
              SaveAdmission(w, "settle",
                  [Content(w) EXCEPT ![call[w].tool] = Settled(@, found[w].slow)])
      BY <1>7 DEF Settle
    <2>2. Content(w) = admission
      BY <1>2, <2>1 DEF SaveAdmission, Locked, ghosts
    <2>3. call[w].tool = t => Settled(Content(w)[call[w].tool], found[w].slow).suspended
      BY <2>2 DEF Settled
    <2> QED  BY <1>4, <2>1, <2>3 DEF Locked
  <1>8. CASE \E w \in Workers : Look(w) \/ CheckScan(w) \/ ReadToolRecord(w) \/ ReadFingerprint(w)
    BY <1>1, <1>3, <1>8 DEF Look, CheckScan, ReadToolRecord, ReadFingerprint, Locked
  <1>9. CASE \E w \in Workers : Reread(w)
    BY <1>1, <1>2, <1>9 DEF Reread, Locked, ghosts
  <1>10. CASE \E w \in Workers : Withdraw(w)
    BY <1>10 DEF Withdraw
  <1>11. CASE \E w \in Workers :
                 \/ AppendRun(w) \/ SaveCard(w) \/ AppendReview(w) \/ MarkCard(w)
                 \/ ReadCard(w) \/ ReadReview(w) \/ SaveBaseline(w) \/ SaveQuarantine(w)
    BY <1>1, <1>11 DEF AppendRun, SaveCard, AppendReview, MarkCard, ReadCard, ReadReview,
           SaveBaseline, SaveQuarantine, SaveLab, files
  <1>12. CASE \E w \in Workers :
                 Start(w) \/ Load(w) \/ CheckBinary(w) \/ Execute(w) \/ Fails(w)
    BY <1>1, <1>12 DEF Start, Load, CheckBinary, Execute, Fails, files
  <1>13. CASE (\E u \in Registered : Replace(u)) \/ Crash \/ UNCHANGED vars
    BY <1>1, <1>13 DEF Replace, Crash, vars, files
  <1> QED  BY <1>5, <1>6, <1>7, <1>8, <1>9, <1>10, <1>11, <1>12, <1>13
           DEF Next, Admission, Laboratory

THEOREM SuspensionsLast == Spec => SuspensionLasts
  <1>1. IInv /\ [Next]_vars =>
            [~unlocked' => \A t \in Tools : admission[t].suspended => admission'[t].suspended]_vars
    BY SuspensionStep
  <1> QED  BY <1>1, Invariant, PTL DEF Spec, SuspensionLasts
=============================================================================
