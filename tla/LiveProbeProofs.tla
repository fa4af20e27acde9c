--------------------------- MODULE LiveProbeProofs ---------------------------
(***************************************************************************)
(* Theorems about LiveProbe: the probe is a client like any other, so that *)
(* a service it probes is the service of CandidateGeneration; and the      *)
(* settings it says it has verified are put back for good.                 *)
(***************************************************************************)
EXTENDS LiveProbe, CandidateGenerationProofs

allVars == <<vars, probe>>

LiveSpec == LiveInit(ProviderPath) /\ [][LiveNext]_allVars
-----------------------------------------------------------------------------
(* The invariant                                                           *)

Answers == {None, "refused", "reused", "generated", "reviewed", "saved", "probed"}

(* Requests have numbers of their own and no answer while they are served. *)
NumberInv ==
    /\ answers \in [Ids -> Answers]
    /\ \A w \in Workers : pc[w] # "idle" => Number(w) <= requests /\ answers[Number(w)] = None
    /\ \A v, w \in Workers :
          pc[v] # "idle" /\ pc[w] # "idle" /\ Number(v) = Number(w) => v = w
    /\ \A i \in Ids : i > requests => answers[i] = None

(* The probe's own settings are on their way to the file only while it     *)
(* waits for the answer, or when it has given up on its first change, or   *)
(* when it says that the settings could not be restored.                   *)
Saving(w) == pc[w] = "write settings" /\ Number(w) \in sent

Waits(w) == step \in {"enable", "restore"} /\ exchange = Number(w)
GaveUpEnabling == ~changed /\ step \in {"finally", "close", "done"}

ProbeInv ==
    /\ sent \subseteq 1..requests /\ exchange \in sent \cup {0}
    /\ original \in Settings \cup {None}
    /\ changed \in BOOLEAN
    /\ step \in {"start", "read", "decide", "enable"} => ~changed
    /\ step \in {"restore", "verify"} => changed
    /\ step \notin {"start", "read", "close", "done", "finally"} => original \in Settings
    /\ changed => original \in Settings
    /\ step \notin {"close", "done"} => restored = None
    /\ restored \in {"PASS_VERIFIED", "FAIL"} => changed
    /\ \A w \in Workers : Saving(w) => Waits(w) \/ GaveUpEnabling \/ restored = "FAIL"
    /\ SettingsPutBack

LiveInv == IInv /\ NumberInv /\ ProbeInv
-----------------------------------------------------------------------------
(* What a worker does with its request                                     *)

(* A request goes on, has written its settings, or ends.                   *)
Onward(w) ==
    /\ pc[w] \notin {"idle", "log", "write settings"}
    /\ \E p : pc' = [pc EXCEPT ![w] = p]
    /\ UNCHANGED <<call, answers, requests, dashboard>>

WritesSettings(w) ==
    /\ pc[w] = "write settings"
    /\ pc' = [pc EXCEPT ![w] = "log"]
    /\ UNCHANGED <<call, answers, requests>>

Ends(w) ==
    /\ pc[w] # "idle"
    /\ pc' = [pc EXCEPT ![w] = "idle"]
    /\ call' = [call EXCEPT ![w] = NoCall]
    /\ \E a \in Answers : answers' = [answers EXCEPT ![Number(w)] = a]
    /\ UNCHANGED <<requests, dashboard>>

LEMMA ProceedOnward ==
    ASSUME NEW w \in Workers, NEW p, NEW d, Proceed(w, p, d),
           pc[w] \notin {"idle", "log", "write settings"}
    PROVE  Onward(w)
  BY DEF Proceed, Onward, counters

LEMMA AnswerEnds ==
    ASSUME NEW w \in Workers, NEW a \in Answers, Answer(w, a), pc[w] # "idle"
    PROVE  Ends(w)
  BY DEF Answer, Ends, counters

LEMMA CheckOutcome ==
    ASSUME NEW w \in Workers, NEW phase, NEW ok, NEW next, Check(w, phase, ok, next),
           phase \notin {"idle", "log", "write settings"}
    PROVE  Onward(w) \/ Ends(w)
  <1>1. pc[w] = phase
    BY DEF Check
  <1>2. CASE Proceed(w, next, draft[w])
    BY <1>1, <1>2, ProceedOnward
  <1>3. CASE Answer(w, "refused")
    BY <1>1, <1>3, AnswerEnds DEF Answers
  <1> QED  BY <1>2, <1>3 DEF Check

LEMMA ReadsOutcome ==
    ASSUME NEW w \in Workers, NEW phase, NEW d, Reads(w, phase, d),
           phase \notin {"idle", "log", "write settings"}
    PROVE  Onward(w)
  BY ProceedOnward DEF Reads

LEMMA RaisesOutcome ==
    ASSUME NEW w \in Workers, NEW phase, Raises(w, phase), phase # "idle"
    PROVE  Ends(w)
  BY AnswerEnds DEF Raises, Answers

LEMMA Outcomes ==
    ASSUME IInv, NEW w \in Workers, Making(w) \/ Providing(w)
    PROVE  Onward(w) \/ WritesSettings(w) \/ Ends(w)
  <1>1. CASE QualityGate(w) \/ Ask(w) \/ Probe(w)
    BY <1>1, CheckOutcome DEF QualityGate, Ask, Probe
  <1>2. CASE Compare(w) \/ ReadSettings(w)
    BY <1>2, CheckOutcome DEF Compare, ReadSettings
  <1>3. CASE Acquire(w)
    <2>1. pc[w] = "acquire" /\ (Answer(w, "reused") \/ Proceed(w, Then("acquire"), draft[w]))
      BY <1>3 DEF Acquire
    <2> QED  BY <2>1, AnswerEnds, ProceedOnward DEF Answers
  <1>4. CASE Digest(w) \/ Copy(w)
    <2>1. \E phase \in {"digest", "copy"}, d \in {Draft(Now, 0, 0, FALSE),
                                                Draft(draft[w].before, Now, 0, FALSE)} :
              Reads(w, phase, d)
      BY <1>4, Zenon DEF Digest, Copy
    <2> QED  BY <2>1, ReadsOutcome
  <1>5. CASE Patch(w)
    <2>1. (\E d : Reads(w, "patch", d)) \/ Raises(w, "patch")
      BY <1>5, Zenon DEF Patch
    <2> QED  BY <2>1, ReadsOutcome, RaisesOutcome
  <1>8. CASE Test(w)
    <2>1. pc[w] = "test" /\ ((\E d : Reads(w, "test", d)) \/ Answer(w, "refused"))
      BY <1>8, Zenon DEF Test
    <2> QED  BY <2>1, ReadsOutcome, AnswerEnds DEF Answers
  <1>6. CASE Export(w) \/ Commit(w) \/ SaveRun(w) \/ Point(w) \/ PointRun(w)
    BY <1>6, ReadsOutcome DEF Export, Commit, SaveRun, Point, PointRun, Writes
  <1>7. CASE Log(w)
    <2>1. PICK answer \in [{"generate", "review", "save settings", "probe"} -> Answers] :
              pc[w] = "log" /\ Answer(w, answer[Asked(w).op])
      BY <1>7 DEF Log, Answers
    <2>2. Asked(w).op \in {"generate", "review", "save settings", "probe"}
      BY <2>1, Asks, CallFields DEF IInv
    <2>3. answer[Asked(w).op] \in Answers
      BY <2>2
    <2> QED  BY <2>1, <2>3, AnswerEnds
  <1>9. CASE SaveSettings(w)
    BY <1>9 DEF SaveSettings, WritesSettings, counters
  <1> QED  BY <1>1, <1>2, <1>3, <1>4, <1>5, <1>6, <1>7, <1>8, <1>9 DEF Making, Providing

-----------------------------------------------------------------------------
(* What the server does, as far as the probe can tell                      *)

(* Settings reach the phase of being written only as a new request, and    *)
(* the file only from there.                                               *)
Effect ==
    /\ requests' \in {requests, requests + 1}
    /\ \A w \in Workers : pc'[w] = "write settings" =>
          \/ Number(w)' = requests + 1
          \/ pc[w] = "write settings" /\ Number(w)' = Number(w)
    /\ dashboard' = dashboard \/ \E w \in Workers : pc[w] = "write settings" /\ pc'[w] = "log"

LEMMA SettingsPhase ==
    ASSUME IInv, NEW w \in Workers, pc[w] = "write settings"
    PROVE  Asked(w).op = "save settings"
  BY Standing DEF Fits, Asked

LEMMA OtherPhase ==
    ASSUME IInv, NEW w \in Workers, pc[w] \notin {"idle", "log", "write settings"}
    PROVE  Asked(w).op # "save settings"
  <1>1. pc[w] \in Before \cup After \cup Deciding \cup {"gate", "acquire", "settings", "ping"}
    BY Standing DEF Fits, Phases
  <1> QED  BY <1>1, Standing DEF Fits, Asked

LEMMA AcceptEffect ==
    ASSUME IInv, NumberInv, NEW w \in Workers, NEW c \in Calls, Accept(w, c)
    PROVE  /\ NumberInv' /\ Effect
           /\ requests' = requests + 1 /\ Number(w)' = requests + 1
           /\ pc'[w] = FirstPhase(c) /\ dashboard' = dashboard /\ pc[w] = "idle"
           /\ \A v \in Workers \ {w} : pc'[v] = pc[v] /\ Number(v)' = Number(v)
  <1> DEFINE n == requests + 1
             p == FirstPhase(c)
  <1>1. /\ pc[w] = "idle" /\ requests' = n /\ UNCHANGED <<answers, dashboard>>
        /\ Moves(w, p, <<n, c>>, draft[w])
    BY DEF Accept, Moves, IInv, WorkersTyped
  <1>2. /\ requests \in Nat /\ n \in Ids /\ n \in Nat
    <2>1. requests < MaxRequests /\ MaxRequests \in Nat /\ requests \in Nat
      BY RequestsLeft, BoundsAssumption DEF Accept, IInv
    <2> QED  BY <2>1 DEF Ids
  <1>3. /\ pc'[w] = p /\ Number(w)' = n
        /\ \A v \in Workers \ {w} : pc'[v] = pc[v] /\ Number(v)' = Number(v)
    BY <1>1, MovedPhases DEF IInv, Number
  <1>4. \A v \in Workers : pc[v] # "idle" => Number(v) \in Nat /\ Number(v) <= requests
    BY Asks DEF NumberInv, IInv, Ids
  <1> HIDE DEF n, p
  <1>5. NumberInv'
    <2>1. answers' \in [Ids -> Answers]
      BY <1>1 DEF NumberInv
    <2>2. ASSUME NEW v \in Workers, pc'[v] # "idle"
          PROVE  Number(v)' <= requests' /\ answers'[Number(v)'] = None
      <3>1. CASE v = w
        <4>1. n > requests /\ n <= n
          BY <1>2 DEF n
        <4> QED  BY <1>1, <1>2, <1>3, <3>1, <4>1 DEF NumberInv
      <3>2. CASE v # w
        <4>1. pc[v] # "idle" /\ Number(v)' = Number(v)
          BY <1>3, <2>2, <3>2
        <4>2. Number(v) <= n
          BY <1>2, <1>4, <4>1 DEF n
        <4> QED  BY <1>1, <4>1, <4>2 DEF NumberInv
      <3> QED  BY <3>1, <3>2
    <2>3. ASSUME NEW u \in Workers, NEW v \in Workers, pc'[u] # "idle", pc'[v] # "idle",
                 Number(u)' = Number(v)'
          PROVE  u = v
      <3>1. \A x \in Workers \ {w} : pc'[x] # "idle" => Number(x)' # n
        BY <1>2, <1>3, <1>4 DEF n
      <3> QED  BY <1>3, <2>3, <3>1 DEF NumberInv
    <2>4. \A i \in Ids : i > requests' => answers'[i] = None
      BY <1>1, <1>2 DEF NumberInv, n, Ids
    <2> QED  BY <2>1, <2>2, <2>3, <2>4 DEF NumberInv
  <1>6. Effect
    BY <1>1, <1>3 DEF Effect, n
  <1> QED  BY <1>1, <1>3, <1>5, <1>6 DEF n, p

(* A worker that goes on, writes settings or ends keeps numbers apart.     *)
LEMMA NumbersKept ==
    ASSUME IInv, NumberInv, NEW w \in Workers,
           Onward(w) \/ WritesSettings(w) \/ Ends(w)
    PROVE  /\ NumberInv' /\ requests' = requests /\ pc[w] # "idle"
           /\ \A v \in Workers \ {w} : pc'[v] = pc[v]
           /\ \A v \in Workers : pc'[v] # "idle" => Number(v)' = Number(v)
  <1>1. /\ requests' = requests /\ pc[w] # "idle"
        /\ \A v \in Workers \ {w} : pc'[v] = pc[v] /\ call'[v] = call[v]
        /\ pc'[w] # "idle" => call'[w] = call[w] /\ answers' = answers
    BY DEF Onward, WritesSettings, Ends, IInv, WorkersTyped
  <1>2. \A v \in Workers : pc'[v] # "idle" => pc[v] # "idle" /\ Number(v)' = Number(v)
    BY <1>1 DEF Number
  <1>3. Number(w) \in Ids /\ Number(w) <= requests /\ requests \in Nat
    BY <1>1, Asks, RequestsLeft DEF IInv, NumberInv
  <1>4. answers' = answers \/ (pc'[w] = "idle" /\ \E a \in Answers :
                                  answers' = [answers EXCEPT ![Number(w)] = a])
    BY DEF Onward, WritesSettings, Ends, IInv, WorkersTyped
  <1>5. /\ answers' \in [Ids -> Answers]
        /\ \A i \in Ids : answers'[i] # answers[i] => i = Number(w) /\ pc'[w] = "idle"
    BY <1>4 DEF NumberInv
  <1>6. ASSUME NEW v \in Workers, pc'[v] # "idle"
        PROVE  Number(v)' <= requests' /\ answers'[Number(v)'] = None
    <2>1. pc[v] # "idle" /\ Number(v)' = Number(v) /\ Number(v) \in Ids
      BY <1>2, <1>6, Asks DEF IInv
    <2>2. answers'[Number(v)] = answers[Number(v)]
      BY <1>1, <1>5, <1>6, <2>1 DEF NumberInv
    <2> QED  BY <1>1, <2>1, <2>2 DEF NumberInv
  <1>7. \A i \in Ids : i > requests' => answers'[i] = None
    <2>1. ASSUME NEW i \in Ids, i > requests PROVE i # Number(w) /\ i \in Nat
      BY <1>3, <2>1 DEF Ids
    <2> QED  BY <1>1, <1>5, <2>1 DEF NumberInv
  <1>8. NumberInv'
    BY <1>2, <1>5, <1>6, <1>7 DEF NumberInv
  <1> QED  BY <1>1, <1>2, <1>8

LEMMA WorkerEffect ==
    ASSUME IInv, IInv', NumberInv, NEW w \in Workers, Making(w) \/ Providing(w)
    PROVE  NumberInv' /\ Effect
  <1>1. Onward(w) \/ WritesSettings(w) \/ Ends(w)
    BY Outcomes
  <1>2. /\ NumberInv' /\ requests' = requests
        /\ \A v \in Workers \ {w} : pc'[v] = pc[v]
        /\ \A v \in Workers : pc'[v] # "idle" => Number(v)' = Number(v)
    BY <1>1, NumbersKept
  <1>3. dashboard' = dashboard \/ (pc[w] = "write settings" /\ pc'[w] = "log")
    BY <1>1 DEF Onward, WritesSettings, Ends, IInv, WorkersTyped
  <1>4. pc'[w] # "write settings"
    <2>1. CASE Onward(w)
      <3>1. Asked(w).op # "save settings" /\ Asked(w)' = Asked(w)
        BY <2>1, OtherPhase DEF Onward, Asked
      <3>2. pc'[w] = "write settings" => Asked(w)'.op = "save settings"
        BY DEF IInv, WorkersTyped, Fits, Asked
      <3> QED  BY <3>1, <3>2
    <2>2. CASE WritesSettings(w) \/ Ends(w)
      BY <2>2 DEF WritesSettings, Ends, IInv, WorkersTyped
    <2> QED  BY <1>1, <2>1, <2>2
  <1>5. Effect
    BY <1>2, <1>3, <1>4 DEF Effect
  <1> QED  BY <1>2, <1>5

LEMMA ServerEffect ==
    ASSUME IInv, IInv', NumberInv, Next
    PROVE  NumberInv' /\ Effect
  <1>1. CASE Edit
    <2>1. UNCHANGED <<pc, call, answers, requests, dashboard>>
      BY <1>1 DEF Edit
    <2> QED  BY <2>1 DEF NumberInv, Effect, Number
  <1>2. CASE Crash
    <2>1. /\ UNCHANGED <<answers, requests, dashboard>> /\ pc' = [w \in Workers |-> "idle"]
      BY <1>2 DEF Crash
    <2>2. \A w \in Workers : pc'[w] = "idle"
      BY <2>1
    <2> QED  BY <2>1, <2>2 DEF NumberInv, Effect
  <1>3. ASSUME NEW w \in Workers, Request(w) PROVE NumberInv' /\ Effect
    BY <1>3, AcceptEffect DEF Request
  <1>4. ASSUME NEW w \in Workers, Making(w) \/ Providing(w) PROVE NumberInv' /\ Effect
    BY <1>4, WorkerEffect
  <1> QED  BY <1>1, <1>2, <1>3, <1>4 DEF Next, Environment

-----------------------------------------------------------------------------
(* The probe's own steps                                                   *)

LEMMA LiveStarts == LiveInit(ProviderPath) => LiveInv
  <1> SUFFICES ASSUME LiveInit(ProviderPath) PROVE LiveInv
    OBVIOUS
  <1>1. IInv
    BY InitInv DEF LiveInit, Services
  <1>2. /\ \A w \in Workers : pc[w] = "idle"
        /\ answers = [i \in Ids |-> None]
        /\ step = "start" /\ exchange = 0 /\ original = None
        /\ changed = FALSE /\ restored = None /\ sent = {}
    BY DEF LiveInit, Init
  <1>3. NumberInv
    BY <1>2 DEF NumberInv, Answers
  <1>4. ProbeInv
    BY <1>2 DEF ProbeInv, Saving, SettingsPutBack, None
  <1> QED  BY <1>1, <1>3, <1>4 DEF LiveInv

(* Where no settings of the probe's own can be on their way                *)
LEMMA NothingSaving ==
    ASSUME LiveInv, restored # "FAIL",
           \/ step \notin {"enable", "restore", "finally", "close", "done"}
           \/ changed /\ step \in {"finally", "close", "done"}
           \/ step \in {"enable", "restore"} /\ (exchange = 0 \/ answers[exchange] # None)
    PROVE  \A w \in Workers : ~Saving(w)
  <1> SUFFICES ASSUME NEW w \in Workers, Saving(w) PROVE FALSE
    OBVIOUS
  <1>1. Waits(w) \/ GaveUpEnabling
    BY DEF LiveInv, ProbeInv
  <1>2. pc[w] = "write settings" /\ Number(w) \in Ids /\ answers[Number(w)] = None
    BY Asks DEF Saving, LiveInv, IInv, NumberInv
  <1>3. \A n \in Ids : n # 0
    BY BoundsAssumption DEF Ids
  <1> QED  BY <1>1, <1>2, <1>3 DEF Waits, GaveUpEnabling

(* A step of the probe's alone leaves the server as it is.                 *)
LEMMA OwnStep ==
    ASSUME LiveInv, UNCHANGED <<vars, sent>>
    PROVE  /\ IInv' /\ NumberInv' /\ requests' = requests /\ dashboard' = dashboard
           /\ \A w \in Workers : Saving(w)' <=> Saving(w)
  <1>1. UNCHANGED <<pc, call, answers, requests, dashboard>>
    BY DEF vars, counters
  <1> QED  BY <1>1, StutterStep DEF LiveInv, NumberInv, Saving, Number

LEMMA CapturePreimageStep ==
    ASSUME LiveInv, CapturePreimage
    PROVE  LiveInv'
  <1>1. /\ UNCHANGED <<vars, sent, exchange, original, changed, restored, others>>
        /\ step = "start" /\ step' = "read"
    BY DEF CapturePreimage
  <1>2. \A w \in Workers : ~Saving(w)
    BY <1>1, NothingSaving DEF LiveInv, ProbeInv, None
  <1> QED  BY <1>1, <1>2, OwnStep DEF LiveInv, ProbeInv, SettingsPutBack

(* A step that leads neither to the end of the probe nor to a change       *)
LEMMA GoesOn ==
    ASSUME LiveInv,
           NEW s \in {"decide", "enable", "probe", "generate", "read back", "restore", "verify"},
           UNCHANGED <<vars, sent, restored>>, step' = s, exchange' = 0, restored = None,
           changed' \in BOOLEAN, original' \in Settings,
           s \in {"decide", "enable"} => ~changed', s \in {"restore", "verify"} => changed',
           \A w \in Workers : ~Saving(w)
    PROVE  LiveInv'
  BY OwnStep DEF LiveInv, ProbeInv, SettingsPutBack, None

LEMMA ClosingFails ==
    ASSUME LiveInv, FailsClosed, step \in {"read", "enable", "probe", "generate", "read back"}
    PROVE  LiveInv'
  <1>1. /\ UNCHANGED <<vars, sent, restored, changed, original, others>>
        /\ step' = "finally" /\ exchange' = 0 /\ restored = None
    BY DEF FailsClosed, Goes, SettingsChanged, LiveInv, ProbeInv
  <1>2. \A w \in Workers : Saving(w) => GaveUpEnabling'
    <2>1. CASE step = "enable"
      BY <1>1, <2>1 DEF GaveUpEnabling, LiveInv, ProbeInv
    <2>2. CASE step # "enable"
      BY <1>1, <2>2, NothingSaving DEF None
    <2> QED  BY <2>1, <2>2
  <1> QED  BY <1>1, <1>2, OwnStep DEF LiveInv, ProbeInv, SettingsPutBack, None

LEMMA ReadOriginalStep ==
    ASSUME LiveInv, ReadOriginal
    PROVE  LiveInv'
  <1>1. CASE step' = "decide" /\ original' = Effective /\
             UNCHANGED <<vars, exchange, changed, restored, result, preimage, sent, others>>
    <2>1. step = "read" /\ restored = None /\ ~changed
      BY DEF ReadOriginal, LiveInv, ProbeInv
    <2>2. Effective \in Settings
      BY DEF Effective, LiveInv, IInv, FilesTyped, Settings
    <2>3. \A w \in Workers : ~Saving(w)
      BY <2>1, NothingSaving DEF None
    <2> QED  BY <1>1, <2>1, <2>2, <2>3, OwnStep DEF LiveInv, ProbeInv, SettingsPutBack, None
  <1>2. CASE FailsClosed
    BY <1>2, ClosingFails DEF ReadOriginal
  <1> QED  BY <1>1, <1>2 DEF ReadOriginal

LEMMA DecideStep ==
    ASSUME LiveInv, Decide
    PROVE  LiveInv'
  <1>1. /\ UNCHANGED <<vars, sent, restored, changed, original, others>> /\ step = "decide"
        /\ step' \in {"close", "probe", "enable"} /\ exchange' = 0
    BY DEF Decide, Goes, Keeps
  <1>2. original \in Settings /\ ~changed /\ changed \in BOOLEAN /\ restored = None
    BY <1>1 DEF LiveInv, ProbeInv
  <1>3. \A w \in Workers : ~Saving(w)
    BY <1>1, <1>2, NothingSaving DEF None
  <1>4. CASE step' = "close"
    BY <1>1, <1>2, <1>3, <1>4, OwnStep DEF LiveInv, ProbeInv, SettingsPutBack, None
  <1>5. CASE step' \in {"probe", "enable"}
    BY <1>1, <1>2, <1>3, <1>5, GoesOn
  <1> QED  BY <1>1, <1>4, <1>5

LEMMA GiveUpStep ==
    ASSUME LiveInv, GiveUp
    PROVE  LiveInv'
  BY ClosingFails DEF GiveUp

LEMMA ReadBackStep ==
    ASSUME LiveInv, ReadBack
    PROVE  LiveInv'
  BY ClosingFails DEF ReadBack

LEMMA Ranges ==
    ASSUME NEW r \in Nat
    PROVE  1..r \subseteq 1..(r + 1) /\ r + 1 \in 1..(r + 1) /\ r + 1 \notin 1..r
  OBVIOUS

LEMMA SmallerId ==
    ASSUME NEW m \in Ids, NEW r \in Nat, m <= r
    PROVE  m # r + 1
  <1>1. m \in Nat
    BY BoundsAssumption DEF Ids
  <1> QED  BY <1>1

(* A request of the probe's: nothing else of its is under way.             *)
LEMMA SendStep ==
    ASSUME LiveInv, NEW s \in {"enable", "probe", "generate", "restore"},
           NEW c \in Calls, Send(s, c),
           c.op = "save settings" => s \in {"enable", "restore"}
    PROVE  LiveInv'
  <1>1. /\ step = s /\ exchange = 0 /\ exchange' = requests + 1
        /\ sent' = sent \cup {requests + 1}
        /\ UNCHANGED <<step, original, changed, restored, others>>
    BY DEF Send
  <1>2. PICK w \in Workers : Accept(w, c)
    BY DEF Send
  <1>3. IInv' /\ NumberInv'
    BY <1>2, AcceptStep, AcceptEffect DEF LiveInv
  <1>4. /\ requests' = requests + 1 /\ Number(w)' = requests + 1 /\ dashboard' = dashboard
        /\ pc'[w] = FirstPhase(c)
        /\ \A v \in Workers \ {w} : pc'[v] = pc[v] /\ Number(v)' = Number(v)
    BY <1>2, AcceptEffect DEF LiveInv
  <1>5. requests \in Nat /\ sent' \subseteq 1..requests'
    <2>1. requests \in Nat /\ sent \subseteq 1..requests
      BY RequestsLeft DEF LiveInv, IInv, ProbeInv
    <2>2. 1..requests \subseteq 1..(requests + 1) /\ requests + 1 \in 1..(requests + 1)
      BY <2>1, Ranges, Zenon
    <2> QED  BY <1>1, <1>4, <2>1, <2>2, Zenon
  <1>6. \A v \in Workers : ~Saving(v)
    <2>1. restored = None
      BY <1>1 DEF LiveInv, ProbeInv
    <2> QED  BY <1>1, <2>1, NothingSaving DEF None
  <1>7. ASSUME NEW v \in Workers, Saving(v)' PROVE Waits(v)'
    <2>1. CASE v = w
      <3>1. c.op \in {"generate", "review", "save settings", "probe"} /\ path \in Services
        BY CallFields DEF LiveInv, IInv, FilesTyped
      <3>2. pc'[w] = "write settings" => c.op = "save settings"
        <4>1. /\ ProviderPath[1] # "write settings"
              /\ PipelinePath[1] # "write settings"
              /\ OperationPath[1] # "write settings"
          BY DEF ProviderPath, PipelinePath, OperationPath, Pipeline!PipelinePath,
             First!OperationPath
        <4>2. path[1] # "write settings"
          BY <3>1, <4>1 DEF Services
        <4> QED  BY <1>4, <3>1, <4>2 DEF FirstPhase
      <3> QED  BY <1>1, <1>4, <1>7, <2>1, <3>2 DEF Saving, Waits
    <2>2. CASE v # w
      <3>1. pc[v] = "write settings" /\ Number(v)' = Number(v) /\ Number(v) \in sent'
        BY <1>4, <1>7, <2>2 DEF Saving
      <3>2. Number(v) \in Ids /\ Number(v) <= requests
        BY <3>1, Asks DEF LiveInv, IInv, NumberInv
      <3>3. Number(v) # requests + 1
        BY <1>5, <3>2, SmallerId, Zenon
      <3> QED  BY <1>1, <1>6, <3>1, <3>3 DEF Saving
    <2> QED  BY <2>1, <2>2
  <1>8. Effective' = Effective
    BY <1>4 DEF Effective
  <1>9. ProbeInv'
    BY <1>1, <1>5, <1>7, <1>8 DEF LiveInv, ProbeInv, SettingsPutBack
  <1> QED  BY <1>3, <1>9 DEF LiveInv

LEMMA EnableStep ==
    ASSUME LiveInv, Enable
    PROVE  LiveInv'
  <1>1. CASE Send("enable", [op |-> "save settings", settings |-> "target"])
    <2>1. [op |-> "save settings", settings |-> "target"] \in Calls
      BY DEF Calls, Settings
    <2> QED  BY <1>1, <2>1, SendStep
  <1>2. CASE /\ Answered("enable", {"saved"}) /\ changed' = TRUE
             /\ Goes("probe", result) /\ UNCHANGED restored
    <2>1. /\ UNCHANGED <<vars, sent, restored, original, others>>
          /\ step' = "probe" /\ exchange' = 0
          /\ changed' \in BOOLEAN /\ step = "enable" /\ answers[exchange] # None
      BY <1>2 DEF Goes, Answered, None
    <2>2. original \in Settings /\ restored = None
      BY <2>1 DEF LiveInv, ProbeInv
    <2>3. \A w \in Workers : ~Saving(w)
      BY <2>1, <2>2, NothingSaving DEF None
    <2> QED  BY <2>1, <2>2, <2>3, GoesOn
  <1> QED  BY <1>1, <1>2 DEF Enable

LEMMA AskingStep ==
    ASSUME LiveInv, ProbeProvider \/ Generate
    PROVE  LiveInv'
  <1>1. CASE Send("probe", [op |-> "probe"])
    <2>1. [op |-> "probe"] \in Calls
      BY DEF Calls
    <2> QED  BY <1>1, <2>1, SendStep
  <1>2. CASE Send("generate", [op |-> "generate", key |-> ProbeKey])
    <2>1. [op |-> "generate", key |-> ProbeKey] \in Calls
      BY ProbeKeyAssumption DEF Calls
    <2> QED  BY <1>2, <2>1, SendStep
  <1>3. CASE \E s \in {"generate", "read back"} :
                step \in {"probe", "generate"} /\ Goes(s, result) /\ Keeps
    <2>1. PICK s \in {"generate", "read back"} :
              step \in {"probe", "generate"} /\ Goes(s, result) /\ Keeps
      BY <1>3
    <2>2. /\ UNCHANGED <<vars, sent, restored, original, changed>> /\ step' = s /\ exchange' = 0
      BY <2>1 DEF Goes, Keeps
    <2>3. original \in Settings /\ restored = None /\ changed \in BOOLEAN
      BY <2>1 DEF LiveInv, ProbeInv
    <2>4. \A w \in Workers : ~Saving(w)
      BY <2>1, <2>3, NothingSaving DEF None
    <2> QED  BY <2>2, <2>3, <2>4, GoesOn
  <1> QED  BY <1>1, <1>2, <1>3 DEF ProbeProvider, Generate, Answered

LEMMA FinallyStep ==
    ASSUME LiveInv, Finally
    PROVE  LiveInv'
  <1>1. /\ UNCHANGED <<vars, sent, restored, changed, original, others>> /\ step = "finally"
        /\ exchange' = 0
        /\ (changed /\ step' = "restore") \/ (~changed /\ step' = "close")
    BY DEF Finally, Goes, Keeps
  <1>2. restored = None /\ changed \in BOOLEAN
    BY <1>1 DEF LiveInv, ProbeInv
  <1>3. CASE changed /\ step' = "restore"
    <2>1. original \in Settings
      BY <1>3 DEF LiveInv, ProbeInv
    <2>2. \A w \in Workers : ~Saving(w)
      BY <1>1, <1>2, <1>3, NothingSaving DEF None
    <2> QED  BY <1>1, <1>2, <1>3, <2>1, <2>2, GoesOn
  <1>4. CASE ~changed /\ step' = "close"
    <2>1. GaveUpEnabling'
      BY <1>1, <1>4 DEF GaveUpEnabling
    <2> QED  BY <1>1, <1>2, <1>4, <2>1, OwnStep DEF LiveInv, ProbeInv, SettingsPutBack, None
  <1> QED  BY <1>1, <1>3, <1>4

LEMMA FailingRestore ==
    ASSUME LiveInv, RestoreFails, step \in {"restore", "verify"}
    PROVE  LiveInv'
  <1>1. /\ UNCHANGED <<vars, sent, changed, original, others>> /\ step' = "close" /\ exchange' = 0
        /\ restored' = "FAIL"
    BY DEF RestoreFails, Goes
  <1> QED  BY <1>1, OwnStep DEF LiveInv, ProbeInv, SettingsPutBack, None

LEMMA RestoreStep ==
    ASSUME LiveInv, Restore
    PROVE  LiveInv'
  <1>1. CASE Send("restore", RestoreBody)
    <2>1. original \in Settings
      BY <1>1 DEF Send, LiveInv, ProbeInv
    <2>2. RestoreBody \in Calls /\ RestoreBody.op = "save settings"
      BY <2>1 DEF RestoreBody, Calls
    <2> QED  BY <1>1, <2>2, SendStep
  <1>2. CASE Answered("restore", {"saved"}) /\ Goes("verify", result) /\ Keeps
    <2>1. /\ UNCHANGED <<vars, sent, restored, original, changed>>
          /\ step' = "verify" /\ exchange' = 0
          /\ step = "restore" /\ answers[exchange] # None
      BY <1>2 DEF Goes, Keeps, Answered, None
    <2>2. original \in Settings /\ restored = None /\ changed \in BOOLEAN /\ changed
      BY <2>1 DEF LiveInv, ProbeInv
    <2>3. \A w \in Workers : ~Saving(w)
      BY <2>1, <2>2, NothingSaving DEF None
    <2> QED  BY <2>1, <2>2, <2>3, GoesOn
  <1> QED  BY <1>1, <1>2, FailingRestore DEF Restore

LEMMA VerifyStep ==
    ASSUME LiveInv, Verify
    PROVE  LiveInv'
  <1>1. CASE /\ Matches(Effective, original) /\ restored' = "PASS_VERIFIED"
             /\ Goes("close", result) /\ UNCHANGED changed
    <2>1. /\ UNCHANGED <<vars, sent, changed, original, others>> /\ step' = "close" /\ exchange' = 0
          /\ restored' = "PASS_VERIFIED" /\ step = "verify"
      BY <1>1 DEF Goes, Verify
    <2>2. Effective' = original'
      BY <1>1, <2>1 DEF Matches, Effective, vars
    <2>3. \A w \in Workers : ~Saving(w)
      <3>1. restored = None
        BY <2>1 DEF LiveInv, ProbeInv
      <3> QED  BY <2>1, <3>1, NothingSaving DEF None
    <2> QED  BY <2>1, <2>2, <2>3, OwnStep DEF LiveInv, ProbeInv, SettingsPutBack, None
  <1> QED  BY <1>1, FailingRestore DEF Verify

LEMMA CloseStep ==
    ASSUME LiveInv, Close
    PROVE  LiveInv'
  <1>1. /\ UNCHANGED <<vars, sent, changed, original, others>> /\ step = "close" /\ step' = "done"
        /\ exchange' = 0
        /\ restored' = restored \/ (~changed /\ restored' = "NOT_REQUIRED_ORIGINAL_ALREADY_MATCHED")
    BY DEF Close, Goes
  <1>2. Effective' = Effective
    BY <1>1 DEF Effective, vars
  <1>3. \A w \in Workers : Saving(w) => GaveUpEnabling' \/ restored' = "FAIL"
    BY <1>1 DEF Waits, GaveUpEnabling, LiveInv, ProbeInv
  <1> QED  BY <1>1, <1>2, <1>3, OwnStep DEF LiveInv, ProbeInv, SettingsPutBack, None
-----------------------------------------------------------------------------
(* The server's steps, and the whole                                       *)

LEMMA ServingStep ==
    ASSUME LiveInv, Serving
    PROVE  LiveInv'
  <1>1. IInv'
    BY ProviderServes, ServeStep DEF Serving, LiveInv
  <1>2. NumberInv' /\ Effect
    BY <1>1, ServerEffect DEF Serving, LiveInv
  <1>3. UNCHANGED <<step, exchange, original, changed, restored, sent>>
    BY DEF Serving
  <1>4. requests \in Nat /\ sent \subseteq 1..requests
    BY RequestsLeft DEF LiveInv, IInv, ProbeInv
  <1>5. sent' \subseteq 1..requests' /\ requests + 1 \notin sent
    <2>1. 1..requests \subseteq 1..(requests + 1) /\ requests + 1 \notin 1..requests
      BY <1>4, Ranges, Zenon
    <2>2. requests' = requests \/ requests' = requests + 1
      BY <1>2 DEF Effect
    <2> QED  BY <1>3, <1>4, <2>1, <2>2, Zenon
  <1>6. \A w \in Workers : Saving(w)' => Saving(w) /\ Number(w)' = Number(w)
    BY <1>2, <1>3, <1>5 DEF Effect, Saving
  <1>7. \A w \in Workers : Saving(w)' => Waits(w)' \/ GaveUpEnabling' \/ restored' = "FAIL"
    BY <1>3, <1>6 DEF LiveInv, ProbeInv, Waits, GaveUpEnabling
  <1>8. ASSUME step \in {"close", "done"}, restored = "PASS_VERIFIED", ~others'
        PROVE  Effective' = original
    <2>1. Effective = original
      BY <1>8 DEF Serving, LiveInv, ProbeInv, SettingsPutBack
    <2>2. ASSUME NEW w \in Workers, pc[w] = "write settings", pc'[w] = "log"
          PROVE  FALSE
      <3>1. Number(w) \in sent
        BY <1>8, <2>2 DEF Serving
      <3> QED  BY <1>8, <2>2, <3>1 DEF Saving, Waits, GaveUpEnabling, LiveInv, ProbeInv
    <2>3. dashboard' = dashboard
      BY <1>2, <2>2 DEF Effect
    <2> QED  BY <2>1, <2>3 DEF Effective
  <1>9. ProbeInv'
    BY <1>3, <1>5, <1>7, <1>8 DEF LiveInv, ProbeInv, SettingsPutBack
  <1> QED  BY <1>1, <1>2, <1>9 DEF LiveInv

LEMMA StillStep ==
    ASSUME LiveInv, UNCHANGED allVars
    PROVE  LiveInv'
  <1>1. UNCHANGED <<vars, step, exchange, original, changed, restored, sent, others>>
    BY DEF allVars, probe
  <1>2. Effective' = Effective /\ \A w \in Workers : Number(w)' = Number(w)
    BY <1>1 DEF Effective, Number, vars
  <1> QED  BY <1>1, <1>2, OwnStep DEF LiveInv, ProbeInv, SettingsPutBack, Waits, GaveUpEnabling

LEMMA ProbingStep ==
    ASSUME LiveInv, Probing
    PROVE  LiveInv'
  BY CapturePreimageStep, ReadOriginalStep, DecideStep, GiveUpStep, EnableStep, AskingStep,
     ReadBackStep, FinallyStep, RestoreStep, VerifyStep, CloseStep DEF Probing

LEMMA LiveInvariant == LiveSpec => []LiveInv
  <1>1. LiveInv /\ [LiveNext]_allVars => LiveInv'
    BY ProbingStep, ServingStep, StillStep DEF LiveNext
  <1> QED  BY LiveStarts, <1>1, PTL DEF LiveSpec

(* Settings that the probe has verified as restored stay those it noted,   *)
(* unless somebody else saved settings since: whatever the server still    *)
(* does of what the probe gave up on, none of it writes settings           *)
(* (restore in run_governed_live_probe_v1.py).                             *)
THEOREM SettingsArePutBack == LiveSpec => []SettingsPutBack
  <1>1. LiveInv => SettingsPutBack
    BY DEF LiveInv, ProbeInv
  <1> QED  BY <1>1, LiveInvariant, PTL

(* A step of the probe's is one of a client's, or none at all.             *)
LEMMA ProbingIsClient ==
    ASSUME LiveInv, Probing
    PROVE  Next \/ UNCHANGED vars
  <1>1. ASSUME NEW s, NEW c \in Calls, c.op # "review", Send(s, c)
        PROVE  Next
    BY <1>1 DEF Send, Next, Request
  <1>2. CASE Send("restore", RestoreBody)
    <2>1. original \in Settings
      BY <1>2 DEF Send, LiveInv, ProbeInv
    <2>2. RestoreBody \in Calls /\ RestoreBody.op # "review"
      BY <2>1 DEF RestoreBody, Calls
    <2> QED  BY <1>1, <1>2, <2>2
  <1>3. CASE \/ Send("enable", [op |-> "save settings", settings |-> "target"])
             \/ Send("probe", [op |-> "probe"])
             \/ Send("generate", [op |-> "generate", key |-> ProbeKey])
    <2>1. /\ [op |-> "save settings", settings |-> "target"] \in Calls
          /\ [op |-> "probe"] \in Calls
          /\ [op |-> "generate", key |-> ProbeKey] \in Calls
      BY ProbeKeyAssumption DEF Calls, Settings
    <2> QED  BY <1>1, <1>3, <2>1
  <1>4. ASSUME NEW s, NEW r, Goes(s, r) PROVE UNCHANGED vars
    BY <1>4 DEF Goes
  <1>5. FailsClosed \/ RestoreFails => UNCHANGED vars
    BY <1>4 DEF FailsClosed, RestoreFails
  <1>6. CASE CapturePreimage \/ ReadOriginal \/ Decide \/ GiveUp \/ ReadBack
    BY <1>4, <1>5, <1>6, Zenon DEF CapturePreimage, ReadOriginal, Decide, GiveUp, ReadBack
  <1>7. CASE Enable \/ ProbeProvider \/ Generate
    BY <1>3, <1>4, <1>7, Zenon DEF Enable, ProbeProvider, Generate
  <1>8. CASE Finally \/ Restore \/ Verify \/ Close
    BY <1>2, <1>4, <1>5, <1>8, Zenon DEF Finally, Restore, Verify, Close
  <1> QED  BY <1>6, <1>7, <1>8 DEF Probing

(* The probe has no way of its own to the server's files: with the probe   *)
(* the provider is the provider of CandidateGeneration, and what holds of  *)
(* that holds while it is probed, whatever the probe gives up on.          *)
THEOREM ProbeIsAClient == LiveSpec => Spec
  <1>1. LiveInit(ProviderPath) => Init(ProviderPath)
    BY DEF LiveInit
  <1>2. LiveInv /\ [LiveNext]_allVars => [Next]_vars
    BY ProbingIsClient DEF LiveNext, Serving, allVars
  <1> QED  BY <1>1, <1>2, LiveInvariant, PTL DEF LiveSpec, Spec
=============================================================================
