------------------------ MODULE GatedOperationProofs ------------------------
(***************************************************************************)
(* Safety of the gated operations for any number of workers, tasks,        *)
(* requests, changes of the gate and crashes.  Everything rests on what    *)
(* identifies a manifest: the request that made it.  Until it is bound to  *)
(* its task nobody else can name it, and once approved it is never written *)
(* again.                                                                  *)
(***************************************************************************)
EXTENDS GatedOperation, FiniteSetTheorems, TLAPS

Sights == [manifest : Ids \cup {None}, pins : PinSets]

(* The phases of a request about a task, of one about a run, and those in  *)
(* which a request goes by a manifest it has read.                         *)
OfTask ==
    {"create", "insert", "submit", "prepare", "describe", "write manifest", "bind manifest",
     "approve", "approve manifest", "run", "verify", "mark running", "execute", "save run",
     "finish", "log run", "fail"}

OfRun == {"review", "save verdict", "close task", "checkpoint", "log review"}

ByManifest == {"approve manifest", "verify", "mark running", "execute", "save run"}

CallInv ==
    \A w \in Workers :
        /\ pc[w] # "idle" => call[w].id \in Ids /\ call[w].id <= requests
        /\ pc[w] \in OfTask => call[w].task \in Tasks
        /\ pc[w] \in OfRun => call[w].run \in Ids /\ call[w].verdict \in Verdicts
        /\ pc[w] \in ByManifest => seen[w].manifest \in Ids

(* An approved task has a manifest.                                        *)
HasManifest == \A t \in Tasks : tasks[t].status = "APPROVED" => tasks[t].manifest # None

TypeInv == TypeOK /\ CallInv /\ HasManifest
-----------------------------------------------------------------------------
LEMMA PhaseFacts ==
    /\ Phases = OfTask \cup OfRun \cup {"idle"}
    /\ "idle" \notin OfTask \cup OfRun
    /\ ByManifest \subseteq OfTask /\ OfTask \cap OfRun = {}
  BY DEF Phases, Holding, OfTask, OfRun, ByManifest

LEMMA PinFacts ==
    /\ NoPins \in PinSets
    /\ TypeOK => gate.pins \in PinSets /\ GatePins \in PinSets
  <1>1. \A b, x, r \in Pins : Pinned(b, x, r) \in PinSets
    BY SMT DEF Pinned, PinSets
  <1>2. None \in Pins
    BY BoundsAssumption, SMT DEF None, Pins
  <1>3. ASSUME TypeOK PROVE gate.pins \in PinSets
    BY <1>3, SMT DEF TypeOK, Gates
  <1>4. ASSUME TypeOK PROVE GatePins \in PinSets
    <2>1. gate.pins.baseline \in Pins
      BY <1>3, <1>4, SMT DEF PinSets
    <2> QED  BY <1>1, <1>2, <1>3, <1>4, <2>1 DEF GatePins
  <1> QED  BY <1>1, <1>2, <1>3, <1>4 DEF NoPins

LEMMA SightFacts ==
    /\ NothingSeen \in Sights /\ NothingSeen.manifest = None
    /\ \A m \in Ids \cup {None}, pins \in PinSets :
          Saw(m, pins) \in Sights /\ Saw(m, pins).manifest = m /\ Saw(m, pins).pins = pins
  BY PinFacts, SMT DEF NothingSeen, Sights, Saw

(* What a worker's step does to the locals of all.                         *)
LEMMA Stepped ==
    ASSUME TypeOK, NEW w \in Workers, NEW p, NEW sight, Proceed(w, p, sight)
    PROVE  /\ pc'[w] = p
           /\ p = "idle" => seen'[w] = NothingSeen
           /\ p # "idle" => call'[w] = call[w] /\ seen'[w] = sight
           /\ \A v \in Workers \ {w} :
                 pc'[v] = pc[v] /\ call'[v] = call[v] /\ seen'[v] = seen[v]
  BY DEF Proceed, TypeOK

LEMMA MoveType ==
    ASSUME TypeInv, NEW w \in Workers, NEW p \in Phases, NEW sight \in Sights,
           Proceed(w, p, sight), requests' = requests, pc[w] # "idle",
           p \in OfTask => pc[w] \in OfTask,
           p \in OfRun => pc[w] \in OfRun,
           p \in ByManifest => sight.manifest \in Ids
    PROVE  /\ pc' \in [Workers -> Phases]
           /\ call' \in [Workers -> Calls \cup {NoCall}]
           /\ seen' \in [Workers -> Sights]
           /\ CallInv'
  <1>1. pc' \in [Workers -> Phases] /\ call' \in [Workers -> Calls \cup {NoCall}]
    BY DEF Proceed, TypeInv, TypeOK
  <1>2. seen' \in [Workers -> Sights]
    BY SightFacts DEF Proceed, TypeInv, TypeOK, Sights
  <1>3. CallInv'
    <2> SUFFICES ASSUME NEW v \in Workers
                 PROVE  /\ pc'[v] # "idle" => call'[v].id \in Ids /\ call'[v].id <= requests
                        /\ pc'[v] \in OfTask => call'[v].task \in Tasks
                        /\ pc'[v] \in OfRun => call'[v].run \in Ids /\ call'[v].verdict \in Verdicts
                        /\ pc'[v] \in ByManifest => seen'[v].manifest \in Ids
      BY DEF CallInv
    <2>1. CASE v = w
      <3>1. CASE p = "idle"
        BY <2>1, <3>1, Stepped, PhaseFacts DEF TypeInv
      <3>2. CASE p # "idle"
        BY <2>1, <3>2, Stepped, PhaseFacts DEF TypeInv, CallInv
      <3> QED  BY <3>1, <3>2
    <2>2. CASE v # w
      BY <2>2, Stepped DEF TypeInv, CallInv
    <2> QED  BY <2>1, <2>2
  <1> QED  BY <1>1, <1>2, <1>3

LEMMA CheckType ==
    ASSUME TypeInv, NEW w \in Workers, NEW phase \in Phases \ {"idle"}, NEW ok,
           NEW p \in Phases \ {"idle"}, NEW sight \in Sights,
           Check(w, phase, ok, p, sight),
           p \in OfTask => phase \in OfTask,
           p \in OfRun => phase \in OfRun,
           ok /\ p \in ByManifest => sight.manifest \in Ids
    PROVE  TypeInv'
  <1> DEFINE q == IF ok THEN p ELSE "idle"
  <1>1. /\ pc[w] = phase /\ Proceed(w, q, sight)
        /\ UNCHANGED <<gate, files, counters, started, drifted>>
    BY DEF Check
  <1>2. /\ q \in Phases
        /\ q \in OfTask => pc[w] \in OfTask
        /\ q \in OfRun => pc[w] \in OfRun
        /\ q \in ByManifest => sight.manifest \in Ids
    BY <1>1, PhaseFacts
  <1>3. requests' = requests
    BY <1>1 DEF counters
  <1> HIDE DEF q
  <1>4. /\ pc' \in [Workers -> Phases]
        /\ call' \in [Workers -> Calls \cup {NoCall}]
        /\ seen' \in [Workers -> Sights]
        /\ CallInv'
    BY <1>1, <1>2, <1>3, MoveType
  <1>5. TypeOK'
    BY <1>1, <1>4 DEF TypeInv, TypeOK, files, counters, Sights
  <1>6. HasManifest'
    BY <1>1 DEF TypeInv, HasManifest, files
  <1> QED  BY <1>4, <1>5, <1>6 DEF TypeInv

(* A step that writes: what it leaves to show is about the files alone.    *)
LEMMA WriteType ==
    ASSUME TypeInv, NEW w \in Workers, NEW p \in Phases, NEW sight \in Sights,
           Proceed(w, p, sight), UNCHANGED <<gate, counters, drifted>>, pc[w] # "idle",
           p \in OfTask => pc[w] \in OfTask,
           p \in OfRun => pc[w] \in OfRun,
           p \in ByManifest => sight.manifest \in Ids,
           tasks' \in [Tasks -> TaskRecords], manifests' \in [Ids -> ManifestRecords],
           runs' \in [Ids -> RunRecords], checkpoints' \subseteq Ids,
           reviews' \subseteq [id : Ids, run : Ids, verdict : Verdicts],
           started' \in [Ids -> Ids \cup {None}],
           HasManifest'
    PROVE  TypeInv'
  <1>1. requests' = requests
    BY DEF counters
  <1>2. /\ pc' \in [Workers -> Phases]
        /\ call' \in [Workers -> Calls \cup {NoCall}]
        /\ seen' \in [Workers -> Sights]
        /\ CallInv'
    BY <1>1, MoveType
  <1>3. TypeOK'
    BY <1>1, <1>2 DEF TypeInv, TypeOK, Sights
  <1> QED  BY <1>2, <1>3 DEF TypeInv

(* A task that is saved with another status.                               *)
LEMMA SetTaskType ==
    ASSUME TypeInv, NEW t, NEW task, t \in Tasks => task \in TaskRecords,
           SetTask(t, task), t \in Tasks /\ task.status = "APPROVED" => task.manifest # None
    PROVE  tasks' \in [Tasks -> TaskRecords] /\ HasManifest'
  <1>1. tasks' \in [Tasks -> TaskRecords]
    BY DEF TypeInv, TypeOK, SetTask
  <1>2. ASSUME NEW u \in Tasks, tasks'[u].status = "APPROVED"
        PROVE  tasks'[u].manifest # None
    <2>1. CASE u = t
      BY <1>2, <2>1 DEF TypeInv, TypeOK, SetTask
    <2>2. CASE u # t
      BY <1>2, <2>2 DEF TypeInv, TypeOK, SetTask, HasManifest
    <2> QED  BY <2>1, <2>2
  <1> QED  BY <1>1, <1>2 DEF HasManifest

LEMMA TaskFields ==
    ASSUME TypeOK
    PROVE  /\ \A s \in Statuses, m, r \in Ids \cup {None}, rules \in Pins :
                 /\ Task(s, m, r, rules) \in TaskRecords
                 /\ Task(s, m, r, rules).status = s /\ Task(s, m, r, rules).manifest = m
           /\ \A t \in Tasks : /\ tasks[t].status \in Statuses
                               /\ tasks[t].manifest \in Ids \cup {None}
                               /\ tasks[t].run \in Ids \cup {None}
                               /\ tasks[t].rules \in Pins
           /\ \A t \in Tasks, s \in Statuses :
                 /\ WithStatus(t, s) \in TaskRecords
                 /\ WithStatus(t, s).status = s /\ WithStatus(t, s).manifest = tasks[t].manifest
  <1>1. \A s \in Statuses, m, r \in Ids \cup {None}, rules \in Pins :
            /\ Task(s, m, r, rules) \in TaskRecords
            /\ Task(s, m, r, rules).status = s /\ Task(s, m, r, rules).manifest = m
    BY SMT DEF Task, TaskRecords
  <1>2. \A t \in Tasks : /\ tasks[t].status \in Statuses
                         /\ tasks[t].manifest \in Ids \cup {None}
                         /\ tasks[t].run \in Ids \cup {None}
                         /\ tasks[t].rules \in Pins
    BY SMT DEF TypeOK, TaskRecords
  <1>3. ASSUME NEW t \in Tasks, NEW s \in Statuses
        PROVE  /\ WithStatus(t, s) \in TaskRecords
               /\ WithStatus(t, s).status = s /\ WithStatus(t, s).manifest = tasks[t].manifest
    BY <1>2, SMT DEF WithStatus, Task, TaskRecords
  <1> QED  BY <1>1, <1>2, <1>3
-----------------------------------------------------------------------------
(* Type correctness, action by action                                      *)

LEMMA ChangeGateType ==
    ASSUME TypeInv, ChangeGate
    PROVE  TypeInv'
  <1>1. /\ UNCHANGED <<files, pc, call, seen, requests, overlaps, crashes, started>>
        /\ gate.pins \in PinSets
    BY PinFacts DEF ChangeGate, TypeInv
  <1>2. gate' \in Gates
    <2>1. /\ gate.qualified \in BOOLEAN /\ gate.admitted \in BOOLEAN
          /\ gate.pins.baseline \in Pins /\ gate.pins.binary \in Pins /\ gate.pins.rules \in Pins
      BY <1>1, SMT DEF TypeInv, TypeOK, Gates, PinSets
    <2>2. 1..MaxPin \subseteq Pins
      BY BoundsAssumption, SMT DEF Pins
    <2>3. \A b, x, r \in Pins : Pinned(b, x, r) \in PinSets
      BY SMT DEF Pinned, PinSets
    <2>4. \A q, a \in BOOLEAN, pins \in PinSets :
             [qualified |-> q, admitted |-> a, pins |-> pins] \in Gates
      BY DEF Gates
    <2> QED  BY <2>1, <2>2, <2>3, <2>4 DEF ChangeGate
  <1>3. TypeOK'
    BY <1>1, <1>2 DEF TypeInv, TypeOK, files
  <1>4. CallInv' /\ HasManifest'
    BY <1>1 DEF TypeInv, CallInv, HasManifest, files
  <1> QED  BY <1>3, <1>4 DEF TypeInv

(* A crash, or the end of one request.                                     *)
Cut == Crash \/ \E w \in Workers : Breaks(w)

LEMMA CutFacts ==
    ASSUME TypeOK, Cut
    PROVE  /\ UNCHANGED <<gate, files, requests, overlaps, started, drifted>>
           /\ crashes' = crashes + 1
           /\ \A v \in Workers : \/ pc'[v] = "idle"
                                 \/ pc'[v] = pc[v] /\ call'[v] = call[v] /\ seen'[v] = seen[v]
  <1>1. PICK dead \in SUBSET Workers : CutShort(dead)
    BY DEF Cut, Crash, Breaks
  <1> QED  BY <1>1 DEF CutShort

LEMMA CutType ==
    ASSUME TypeInv, Cut
    PROVE  TypeInv'
  <1>1. PICK dead \in SUBSET Workers : CutShort(dead)
    BY DEF Cut, Crash, Breaks
  <1>2. /\ pc' = [w \in Workers |-> IF w \in dead THEN "idle" ELSE pc[w]]
        /\ call' = [w \in Workers |-> IF w \in dead THEN NoCall ELSE call[w]]
        /\ seen' = [w \in Workers |-> IF w \in dead THEN NothingSeen ELSE seen[w]]
        /\ UNCHANGED <<gate, files, requests, started>>
    BY <1>1 DEF CutShort
  <1>3. TypeOK'
    BY <1>2, SightFacts, PhaseFacts DEF TypeInv, TypeOK, files, Sights
  <1>4. HasManifest'
    BY <1>2 DEF TypeInv, HasManifest, files
  <1>5. \A w \in Workers : \/ pc'[w] = "idle"
                           \/ pc'[w] = pc[w] /\ call'[w] = call[w] /\ seen'[w] = seen[w]
    BY <1>2
  <1>6. CallInv'
    BY <1>2, <1>5, PhaseFacts DEF TypeInv, CallInv
  <1> QED  BY <1>3, <1>4, <1>6 DEF TypeInv

(* What a request is, by its first phase.                                  *)
LEMMA CallFacts ==
    ASSUME NEW c \in Calls
    PROVE  /\ c.id \in Ids /\ c.op \in Phases \ {"idle"} /\ c.op \notin ByManifest
           /\ c.op \in OfTask => c.task \in Tasks
           /\ c.op \in OfRun => c.run \in Ids /\ c.verdict \in Verdicts
           /\ c.op \notin {"describe", "write manifest", "bind manifest", "save verdict"}
  <1>1. CASE c \in [op : {"create", "submit", "prepare", "approve", "run"}, id : Ids, task : Tasks]
    <2>1. /\ c.op \in {"create", "submit", "prepare", "approve", "run"}
          /\ c.id \in Ids /\ c.task \in Tasks
      BY <1>1
    <2>2. {"create", "submit", "prepare", "approve", "run"} \subseteq OfTask \ ByManifest
      BY DEF OfTask, ByManifest
    <2> QED  BY <2>1, <2>2, PhaseFacts
  <1>2. CASE c \in [op : {"review"}, id : Ids, run : Ids, verdict : Verdicts]
    <2>1. c.op = "review" /\ c.id \in Ids /\ c.run \in Ids /\ c.verdict \in Verdicts
      BY <1>2
    <2>2. "review" \in OfRun /\ "review" \notin ByManifest
      BY DEF OfRun, ByManifest
    <2> QED  BY <2>1, <2>2, PhaseFacts
  <1> QED  BY <1>1, <1>2 DEF Calls

(* What Start does, in one place.                                          *)
LEMMA Started ==
    ASSUME TypeOK, NEW w \in Workers, Start(w)
    PROVE  \E c \in Calls :
              /\ c.id = requests + 1 /\ requests < MaxRequests /\ requests' = requests + 1
              /\ c.op = "review" => runs[c.run].status # "none"
              /\ pc[w] = "idle" /\ call' = [call EXCEPT ![w] = c] /\ pc' = [pc EXCEPT ![w] = c.op]
              /\ UNCHANGED <<gate, files, seen, started, drifted>>
              /\ \/ overlaps' = overlaps /\ \A v \in Workers : pc[v] = "idle"
                 \/ overlaps' = overlaps + 1
  <1>1. PICK c \in {d \in Calls : d.id = requests + 1} :
           /\ c.op = "review" => runs[c.run].status # "none"
           /\ call' = [call EXCEPT ![w] = c] /\ pc' = [pc EXCEPT ![w] = c.op]
    BY DEF Start
  <1> QED  BY <1>1 DEF Start

LEMMA StartType ==
    ASSUME TypeInv, NEW w \in Workers, Start(w)
    PROVE  TypeInv'
  <1>1. PICK c \in Calls :
           /\ c.id = requests + 1 /\ requests < MaxRequests /\ requests' = requests + 1
           /\ call' = [call EXCEPT ![w] = c] /\ pc' = [pc EXCEPT ![w] = c.op]
           /\ UNCHANGED <<gate, files, seen, started>>
    BY Started DEF TypeInv
  <1>2. requests' \in 0..MaxRequests
    BY <1>1, BoundsAssumption, SMT DEF TypeInv, TypeOK
  <1>3. TypeOK'
    BY <1>1, <1>2, CallFacts DEF TypeInv, TypeOK, files
  <1>4. ASSUME NEW v \in Workers
        PROVE  /\ pc'[v] # "idle" => call'[v].id \in Ids /\ call'[v].id <= requests'
               /\ pc'[v] \in OfTask => call'[v].task \in Tasks
               /\ pc'[v] \in OfRun => call'[v].run \in Ids /\ call'[v].verdict \in Verdicts
               /\ pc'[v] \in ByManifest => seen'[v].manifest \in Ids
    <2>1. CASE v = w
      <3>1. pc'[v] = c.op /\ call'[v] = c
        BY <1>1, <2>1 DEF TypeInv, TypeOK
      <3>2. c.id <= requests'
        BY <1>1, <1>2
      <3> QED  BY <3>1, <3>2, CallFacts
    <2>2. CASE v # w
      <3>1. pc'[v] = pc[v] /\ call'[v] = call[v] /\ seen'[v] = seen[v]
        BY <1>1, <2>2 DEF TypeInv, TypeOK
      <3>2. pc[v] # "idle" => call[v].id \in Ids /\ call[v].id <= requests
        BY DEF TypeInv, CallInv
      <3>3. pc[v] # "idle" => call[v].id <= requests'
        BY <1>1, <3>2, BoundsAssumption, SMT DEF TypeInv, TypeOK, Ids
      <3> QED  BY <3>1, <3>2, <3>3 DEF TypeInv, CallInv
    <2> QED  BY <2>1, <2>2
  <1>5. CallInv' /\ HasManifest'
    BY <1>1, <1>4 DEF TypeInv, CallInv, HasManifest, files
  <1> QED  BY <1>3, <1>5 DEF TypeInv

(* The steps that only check.                                              *)
LEMMA ChecksType ==
    ASSUME TypeInv, NEW w \in Workers,
           Create(w) \/ Prepare(w) \/ Describe(w) \/ BeginRun(w) \/ Verify(w) \/ Review(w)
    PROVE  TypeInv'
  <1>1. /\ NothingSeen \in Sights /\ Saw(None, GatePins) \in Sights
        /\ \A m \in Ids \cup {None} : Saw(m, NoPins) \in Sights /\ Saw(m, NoPins).manifest = m
    BY PinFacts, SightFacts DEF TypeInv
  <1>2. {"create", "insert", "prepare", "describe", "write manifest", "run", "verify",
         "mark running", "review", "save verdict"} \subseteq Phases \ {"idle"}
    BY DEF Phases, Holding
  <1>3. CASE Create(w)
    <2>1. Check(w, "create", GatesCreation => Open, "insert", Saw(None, GatePins))
      BY <1>3 DEF Create
    <2> HIDE DEF Check
    <2> QED  BY <1>1, <1>2, <2>1, CheckType DEF OfTask, OfRun, ByManifest
  <1>4. CASE Prepare(w)
    <2>1. Check(w, "prepare", tasks[call[w].task].status \in Preparable, "describe", NothingSeen)
      BY <1>4 DEF Prepare
    <2> HIDE DEF Check
    <2> QED  BY <1>1, <1>2, <2>1, CheckType DEF OfTask, OfRun, ByManifest
  <1>5. CASE Describe(w)
    <2>1. Check(w, "describe", Open /\ tasks[call[w].task].rules = GatePins.rules,
                "write manifest", Saw(None, GatePins))
      BY <1>5 DEF Describe
    <2> HIDE DEF Check
    <2> QED  BY <1>1, <1>2, <2>1, CheckType DEF OfTask, OfRun, ByManifest
  <1>6. CASE Review(w)
    <2>1. Check(w, "review", runs[call[w].run].status = "HUMAN_RESULT_REVIEW", "save verdict",
                NothingSeen)
      BY <1>6 DEF Review
    <2> HIDE DEF Check
    <2> QED  BY <1>1, <1>2, <2>1, CheckType DEF OfTask, OfRun, ByManifest
  <1>7. CASE BeginRun(w)
    <2> DEFINE t == call[w].task
    <2>1. Check(w, "run", tasks[t].status = "APPROVED", "verify", Saw(tasks[t].manifest, NoPins))
      BY <1>7 DEF BeginRun
    <2>2. t \in Tasks
      BY <2>1 DEF Check, TypeInv, CallInv, OfTask
    <2>3. /\ tasks[t].manifest \in Ids \cup {None}
          /\ tasks[t].status = "APPROVED" => tasks[t].manifest \in Ids
      BY <2>2, TaskFields DEF TypeInv, HasManifest
    <2> QED  BY <1>1, <1>2, <2>1, <2>3, CheckType DEF OfTask, OfRun, ByManifest
  <1>8. CASE Verify(w)
    <2> DEFINE m == seen[w].manifest
               sight == Saw(m, manifests[m].pins)
    <2>1. Check(w, "verify", ManifestApproved(m) /\ Current(m), "mark running", sight)
      BY <1>8 DEF Verify
    <2>2. m \in Ids
      BY <2>1 DEF Check, TypeInv, CallInv, ByManifest
    <2>3. manifests[m].pins \in PinSets
      BY <2>2, SMT DEF TypeInv, TypeOK, ManifestRecords
    <2>4. sight \in Sights /\ sight.manifest \in Ids
      BY <2>2, <2>3, SightFacts
    <2> HIDE DEF sight, m
    <2> QED  BY <1>2, <2>1, <2>4, CheckType DEF OfTask, OfRun, ByManifest
  <1> QED  BY <1>3, <1>4, <1>5, <1>6, <1>7, <1>8

LEMMA ExecuteType ==
    ASSUME TypeInv, NEW w \in Workers, Execute(w)
    PROVE  TypeInv'
  <1>1. {"execute", "save run"} \subseteq Phases \ {"idle"}
    BY DEF Phases, Holding
  <1>2. pc[w] = "execute" /\ Check(w, "execute", TRUE, "save run", Saw(seen[w].manifest, GatePins))
    BY DEF Execute, Check
  <1>3. seen[w].manifest \in Ids
    BY <1>2 DEF TypeInv, CallInv, ByManifest
  <1>4. /\ Saw(seen[w].manifest, GatePins) \in Sights
        /\ Saw(seen[w].manifest, GatePins).manifest \in Ids
    BY <1>3, PinFacts, SightFacts DEF TypeInv
  <1> QED  BY <1>1, <1>2, <1>4, CheckType DEF OfTask, OfRun, ByManifest

LEMMA RaisesType ==
    ASSUME TypeInv, NEW w \in Workers, LogRun(w) \/ Raises(w)
    PROVE  TypeInv'
  <1>1. /\ "fail" \in Phases /\ "fail" \in OfTask /\ "fail" \notin OfRun \cup ByManifest
        /\ "idle" \in Phases /\ "idle" \notin OfTask \cup OfRun \cup ByManifest
        /\ \A p \in Trying : p \in Phases /\ p # "idle" /\ p \in OfTask
        /\ "log run" \in Trying
    BY DEF Phases, Holding, OfTask, OfRun, ByManifest, Trying
  <1>2. seen[w] \in Sights /\ NothingSeen \in Sights
    BY SightFacts DEF TypeInv, TypeOK, Sights
  <1>3. CASE LogRun(w)
    <2>1. Check(w, "log run", FALSE, "fail", NothingSeen)
      BY <1>3 DEF LogRun, Check
    <2> HIDE DEF Check
    <2> QED  BY <1>1, <1>2, <2>1, CheckType
  <1>4. CASE Raises(w)
    <2>1. PICK p \in Trying : Check(w, p, TRUE, "fail", seen[w])
      BY <1>4 DEF Raises
    <2>2. /\ p \in Phases /\ p # "idle" /\ p \in OfTask
      BY <1>1
    <2> HIDE DEF Check
    <2> QED  BY <1>1, <1>2, <2>1, <2>2, CheckType
  <1> QED  BY <1>3, <1>4

(* The steps that save a task and touch no other file.                     *)
LEMMA TaskSavedType ==
    ASSUME TypeInv, NEW w \in Workers, NEW p \in Phases, NEW sight \in Sights,
           Proceed(w, p, sight), UNCHANGED <<gate, counters, drifted>>, pc[w] # "idle",
           p \in OfTask => pc[w] \in OfTask,
           p \in OfRun => pc[w] \in OfRun,
           p \in ByManifest => sight.manifest \in Ids,
           UNCHANGED <<manifests, runs, checkpoints, reviews>>,
           started' \in [Ids -> Ids \cup {None}],
           NEW t, NEW task, SetTask(t, task), t \in Tasks => task \in TaskRecords,
           t \in Tasks /\ task.status = "APPROVED" => task.manifest # None
    PROVE  TypeInv'
  <1>1. tasks' \in [Tasks -> TaskRecords] /\ HasManifest'
    BY SetTaskType
  <1>2. /\ manifests' \in [Ids -> ManifestRecords] /\ runs' \in [Ids -> RunRecords]
        /\ checkpoints' \subseteq Ids
        /\ reviews' \subseteq [id : Ids, run : Ids, verdict : Verdicts]
    BY DEF TypeInv, TypeOK
  <1> QED  BY <1>1, <1>2, WriteType

LEMMA WritesOfTask ==
    ASSUME TypeInv, NEW w \in Workers, NEW phase \in OfTask, NEW p, Writes(w, phase, p)
    PROVE  /\ pc[w] = phase /\ pc[w] # "idle"
           /\ Proceed(w, p, seen[w]) /\ UNCHANGED <<gate, counters, drifted>>
           /\ seen[w] \in Sights
           /\ call[w].task \in Tasks /\ call[w].id \in Ids /\ call[w].id # None
           /\ phase \in ByManifest => seen[w].manifest \in Ids
  <1>1. pc[w] = phase /\ Proceed(w, p, seen[w]) /\ UNCHANGED <<gate, counters, drifted>>
    BY DEF Writes
  <1>2. pc[w] # "idle"
    BY <1>1, PhaseFacts
  <1>3. /\ seen[w] \in Sights /\ call[w].task \in Tasks /\ call[w].id \in Ids
        /\ phase \in ByManifest => seen[w].manifest \in Ids
    BY <1>1, <1>2 DEF TypeInv, TypeOK, CallInv, Sights
  <1>4. call[w].id # None
    BY <1>3, SMT DEF Ids, None
  <1> QED  BY <1>1, <1>2, <1>3, <1>4

LEMMA WritesOfRun ==
    ASSUME TypeInv, NEW w \in Workers, NEW phase \in OfRun, NEW p, Writes(w, phase, p)
    PROVE  /\ pc[w] = phase /\ pc[w] # "idle"
           /\ Proceed(w, p, seen[w]) /\ UNCHANGED <<gate, counters, drifted>>
           /\ seen[w] \in Sights
           /\ call[w].run \in Ids /\ call[w].verdict \in Verdicts
  <1>1. pc[w] = phase /\ Proceed(w, p, seen[w]) /\ UNCHANGED <<gate, counters, drifted>>
    BY DEF Writes
  <1>2. pc[w] # "idle"
    BY <1>1, PhaseFacts
  <1>3. seen[w] \in Sights /\ call[w].run \in Ids /\ call[w].verdict \in Verdicts
    BY <1>1 DEF TypeInv, TypeOK, CallInv, Sights
  <1> QED  BY <1>1, <1>2, <1>3

LEMMA InsertType ==
    ASSUME TypeInv, NEW w \in Workers, Insert(w)
    PROVE  TypeInv'
  <1> DEFINE t == call[w].task
             task == Task("DRAFT", None, None, seen[w].pins.rules)
  <1>1. /\ Writes(w, "insert", "idle") /\ SetTask(t, task)
        /\ UNCHANGED <<manifests, runs, checkpoints, reviews, started>>
    BY DEF Insert
  <1>a. "insert" \in OfTask
    BY DEF OfTask
  <1>b. /\ pc[w] = "insert" /\ pc[w] # "idle"
        /\ Proceed(w, "idle", seen[w]) /\ UNCHANGED <<gate, counters, drifted>>
        /\ seen[w] \in Sights
        /\ call[w].task \in Tasks /\ call[w].id \in Ids /\ call[w].id # None
    BY <1>1, <1>a, WritesOfTask
  <1>2. t \in Tasks /\ call[w].id \in Ids
    BY <1>b
  <1>3. task \in TaskRecords /\ task.status # "APPROVED"
    <2>1. "DRAFT" \in Statuses /\ seen[w].pins.rules \in Pins
      BY <1>b, SMT DEF Statuses, Sights, PinSets
    <2> QED  BY <1>2, <2>1, TaskFields DEF TypeInv
  <1> HIDE DEF t, task
  <1>4. started' \in [Ids -> Ids \cup {None}]
    BY <1>1 DEF TypeInv, TypeOK
  <1>5. "idle" \in Phases /\ "idle" \notin OfTask \cup OfRun \cup ByManifest /\ "insert" # "idle"
    BY PhaseFacts
  <1> QED  BY <1>1, <1>2, <1>3, <1>4, <1>5, TaskSavedType, <1>b

LEMMA FinishType ==
    ASSUME TypeInv, NEW w \in Workers, Finish(w)
    PROVE  TypeInv'
  <1> DEFINE t == call[w].task
             task == WithStatus(t, "HUMAN_RESULT_REVIEW")
  <1>1. /\ Writes(w, "finish", "log run") /\ SetTask(t, task)
        /\ UNCHANGED <<manifests, runs, checkpoints, reviews, started>>
    BY DEF Finish
  <1>a. "finish" \in OfTask
    BY DEF OfTask
  <1>b. /\ pc[w] = "finish" /\ pc[w] # "idle"
        /\ Proceed(w, "log run", seen[w]) /\ UNCHANGED <<gate, counters, drifted>>
        /\ seen[w] \in Sights
        /\ call[w].task \in Tasks /\ call[w].id \in Ids /\ call[w].id # None
    BY <1>1, <1>a, WritesOfTask
  <1>2. t \in Tasks /\ call[w].id \in Ids
    BY <1>b
  <1>3. task \in TaskRecords /\ task.status # "APPROVED"
    <2>1. "HUMAN_RESULT_REVIEW" \in Statuses
      BY DEF Statuses
    <2> QED  BY <1>2, <2>1, TaskFields DEF TypeInv
  <1> HIDE DEF t, task
  <1>4. started' \in [Ids -> Ids \cup {None}]
    BY <1>1 DEF TypeInv, TypeOK
  <1>5. /\ "log run" \in Phases /\ "log run" \notin OfRun \cup ByManifest /\ "log run" \in OfTask
        /\ "finish" # "idle"
    BY DEF Phases, OfTask, OfRun, ByManifest
  <1>6. /\ pc[w] \in OfTask /\ "log run" \notin OfRun /\ "log run" \notin ByManifest
        /\ UNCHANGED <<manifests, runs, checkpoints, reviews>>
    BY <1>a, <1>b, <1>1, <1>5
  <1>7. /\ t \in Tasks => task \in TaskRecords
        /\ t \in Tasks /\ task.status = "APPROVED" => task.manifest # None
        /\ SetTask(t, task) /\ Proceed(w, "log run", seen[w])
        /\ UNCHANGED <<gate, counters, drifted>> /\ seen[w] \in Sights
    BY <1>1, <1>3, <1>b
  <1> QED  BY <1>4, <1>5, <1>6, <1>7, <1>b, TaskSavedType

LEMMA FailType ==
    ASSUME TypeInv, NEW w \in Workers, Fail(w)
    PROVE  TypeInv'
  <1> DEFINE t == call[w].task
             task == WithStatus(t, "FAILED")
  <1>1. /\ Writes(w, "fail", "idle") /\ SetTask(t, task)
        /\ UNCHANGED <<manifests, runs, checkpoints, reviews, started>>
    BY DEF Fail
  <1>a. "fail" \in OfTask
    BY DEF OfTask
  <1>b. /\ pc[w] = "fail" /\ pc[w] # "idle"
        /\ Proceed(w, "idle", seen[w]) /\ UNCHANGED <<gate, counters, drifted>>
        /\ seen[w] \in Sights
        /\ call[w].task \in Tasks /\ call[w].id \in Ids /\ call[w].id # None
    BY <1>1, <1>a, WritesOfTask
  <1>2. t \in Tasks /\ call[w].id \in Ids
    BY <1>b
  <1>3. task \in TaskRecords /\ task.status # "APPROVED"
    <2>1. "FAILED" \in Statuses
      BY DEF Statuses
    <2> QED  BY <1>2, <2>1, TaskFields DEF TypeInv
  <1> HIDE DEF t, task
  <1>4. started' \in [Ids -> Ids \cup {None}]
    BY <1>1 DEF TypeInv, TypeOK
  <1>5. "idle" \in Phases /\ "idle" \notin OfTask \cup OfRun \cup ByManifest /\ "fail" # "idle"
    BY PhaseFacts
  <1> QED  BY <1>1, <1>2, <1>3, <1>4, <1>5, TaskSavedType, <1>b

LEMMA BindManifestType ==
    ASSUME TypeInv, NEW w \in Workers, BindManifest(w)
    PROVE  TypeInv'
  <1> DEFINE t == call[w].task
             task == Task(tasks[t].status, call[w].id, tasks[t].run, tasks[t].rules)
  <1>1. /\ Writes(w, "bind manifest", "idle") /\ SetTask(t, task)
        /\ UNCHANGED <<manifests, runs, checkpoints, reviews, started>>
    BY DEF BindManifest
  <1>a. "bind manifest" \in OfTask
    BY DEF OfTask
  <1>b. /\ pc[w] = "bind manifest" /\ pc[w] # "idle"
        /\ Proceed(w, "idle", seen[w]) /\ UNCHANGED <<gate, counters, drifted>>
        /\ seen[w] \in Sights
        /\ call[w].task \in Tasks /\ call[w].id \in Ids /\ call[w].id # None
    BY <1>1, <1>a, WritesOfTask
  <1>2. t \in Tasks /\ call[w].id \in Ids /\ call[w].id # None
    BY <1>b
  <1>3. task \in TaskRecords /\ task.manifest # None
    BY <1>2, TaskFields DEF TypeInv
  <1> HIDE DEF t, task
  <1>4. started' \in [Ids -> Ids \cup {None}]
    BY <1>1 DEF TypeInv, TypeOK
  <1> QED  BY <1>1, <1>2, <1>3, <1>4, TaskSavedType, <1>b, PhaseFacts

LEMMA MarkRunningType ==
    ASSUME TypeInv, NEW w \in Workers, MarkRunning(w)
    PROVE  TypeInv'
  <1> DEFINE t == call[w].task
             task == Running(w)
  <1>1. /\ Writes(w, "mark running", "execute") /\ SetTask(t, task)
        /\ started' = [started EXCEPT ![call[w].id] = seen[w].manifest]
        /\ UNCHANGED <<manifests, runs, checkpoints, reviews>>
    BY DEF MarkRunning
  <1>a. "mark running" \in OfTask /\ "mark running" \in ByManifest
    BY DEF OfTask, ByManifest
  <1>b. /\ pc[w] = "mark running" /\ pc[w] # "idle"
        /\ Proceed(w, "execute", seen[w]) /\ UNCHANGED <<gate, counters, drifted>>
        /\ seen[w] \in Sights
        /\ call[w].task \in Tasks /\ call[w].id \in Ids /\ call[w].id # None
        /\ seen[w].manifest \in Ids
    BY <1>1, <1>a, WritesOfTask
  <1>2. t \in Tasks /\ call[w].id \in Ids /\ seen[w].manifest \in Ids
    BY <1>b
  <1>3. task \in TaskRecords /\ task.status # "APPROVED"
    <2>1. "RUNNING" \in Statuses
      BY DEF Statuses
    <2> QED  BY <1>2, <2>1, TaskFields, ZenonT(30) DEF TypeInv, Running
  <1> HIDE DEF t, task
  <1>4. started' \in [Ids -> Ids \cup {None}]
    BY <1>1, <1>2 DEF TypeInv, TypeOK
  <1>5. "execute" \in Phases /\ "execute" \notin OfRun /\ "mark running" \in OfTask
    BY PhaseFacts DEF OfTask, OfRun
  <1>6. pc[w] = "mark running" /\ pc[w] # "idle" /\ Proceed(w, "execute", seen[w])
        /\ UNCHANGED <<gate, counters, drifted>> /\ seen[w] \in Sights
    BY <1>b
  <1> QED  BY <1>1, <1>2, <1>3, <1>4, <1>5, <1>6, TaskSavedType

LEMMA CloseTaskType ==
    ASSUME TypeInv, NEW w \in Workers, CloseTask(w)
    PROVE  TypeInv'
  <1> DEFINE t == runs[call[w].run].task
             task == WithStatus(t, call[w].verdict)
             p == AfterVerdict(call[w].verdict)
  <1>1. /\ Writes(w, "close task", p) /\ SetTask(t, task)
        /\ UNCHANGED <<manifests, runs, checkpoints, reviews, started>>
    BY DEF CloseTask
  <1>a. "close task" \in OfRun
    BY DEF OfRun
  <1>b. /\ pc[w] = "close task" /\ pc[w] # "idle"
        /\ Proceed(w, p, seen[w]) /\ UNCHANGED <<gate, counters, drifted>>
        /\ seen[w] \in Sights
        /\ call[w].run \in Ids /\ call[w].verdict \in Verdicts
    BY <1>1, <1>a, WritesOfRun
  <1>2. p \in {"checkpoint", "log review"}
    BY DEF AfterVerdict
  <1>3. /\ p \in OfRun /\ p \in Phases /\ p \notin OfTask \cup ByManifest
        /\ "close task" \in OfRun /\ "close task" # "idle"
    BY <1>2, PhaseFacts DEF OfRun, OfTask
  <1>4. call[w].verdict \in Verdicts
    BY <1>b
  <1>5. call[w].verdict \in Statuses /\ call[w].verdict # "APPROVED"
    BY <1>4 DEF Statuses, Verdicts
  <1>6. t \in Tasks => task \in TaskRecords /\ task.status # "APPROVED"
    BY <1>5, TaskFields DEF TypeInv
  <1>7. started' \in [Ids -> Ids \cup {None}]
    BY <1>1 DEF TypeInv, TypeOK
  <1> HIDE DEF t, task, p
  <1>8. /\ pc[w] = "close task" /\ Proceed(w, p, seen[w]) /\ UNCHANGED <<gate, counters, drifted>>
        /\ seen[w] \in Sights
    BY <1>b
  <1> QED  BY <1>1, <1>3, <1>6, <1>7, <1>8, TaskSavedType

LEMMA SubmitType ==
    ASSUME TypeInv, NEW w \in Workers, Submit(w)
    PROVE  TypeInv'
  <1> DEFINE t == call[w].task
             task == WithStatus(t, "READY_FOR_REVIEW")
  <1>1. /\ Writes(w, "submit", "idle")
        /\ SetTask(t, task) \/ UNCHANGED tasks
        /\ UNCHANGED <<manifests, runs, checkpoints, reviews, started>>
    BY DEF Submit
  <1>a. "submit" \in OfTask
    BY DEF OfTask
  <1>b. /\ pc[w] = "submit" /\ pc[w] # "idle"
        /\ Proceed(w, "idle", seen[w]) /\ UNCHANGED <<gate, counters, drifted>>
        /\ seen[w] \in Sights
        /\ call[w].task \in Tasks /\ call[w].id \in Ids /\ call[w].id # None
    BY <1>1, <1>a, WritesOfTask
  <1>2. t \in Tasks
    BY <1>b
  <1>3. task \in TaskRecords /\ task.status # "APPROVED"
    <2>1. "READY_FOR_REVIEW" \in Statuses
      BY DEF Statuses
    <2> QED  BY <1>2, <2>1, TaskFields DEF TypeInv
  <1> HIDE DEF t, task
  <1>4. /\ started' \in [Ids -> Ids \cup {None}] /\ manifests' \in [Ids -> ManifestRecords]
        /\ runs' \in [Ids -> RunRecords] /\ checkpoints' \subseteq Ids
        /\ reviews' \subseteq [id : Ids, run : Ids, verdict : Verdicts]
    BY <1>1 DEF TypeInv, TypeOK
  <1>5. tasks' \in [Tasks -> TaskRecords] /\ HasManifest'
    <2>1. CASE SetTask(t, task)
      BY <1>2, <1>3, <2>1, SetTaskType
    <2>2. CASE UNCHANGED tasks
      BY <2>2 DEF TypeInv, TypeOK, HasManifest
    <2> QED  BY <1>1, <2>1, <2>2
  <1> QED  BY <1>1, <1>4, <1>5, WriteType, <1>b, PhaseFacts

LEMMA ApproveType ==
    ASSUME TypeInv, NEW w \in Workers, Approve(w)
    PROVE  TypeInv'
  <1> DEFINE t == call[w].task
             m == tasks[t].manifest
             task == WithStatus(t, "APPROVED")
  <1>1. /\ pc[w] = "approve" /\ UNCHANGED <<gate, manifests, runs, checkpoints, reviews, counters,
                                            started, drifted>>
        /\ \/ /\ m # None /\ SetTask(t, task) /\ Proceed(w, "approve manifest", Saw(m, NoPins))
           \/ Proceed(w, "idle", NothingSeen) /\ UNCHANGED tasks
    BY DEF Approve
  <1>2. t \in Tasks
    BY <1>1 DEF TypeInv, CallInv, OfTask
  <1>3. task \in TaskRecords /\ task.manifest = m /\ m \in Ids \cup {None}
    <2>1. "APPROVED" \in Statuses
      BY DEF Statuses
    <2> QED  BY <1>2, <2>1, TaskFields DEF TypeInv
  <1>4. /\ started' \in [Ids -> Ids \cup {None}] /\ manifests' \in [Ids -> ManifestRecords]
        /\ runs' \in [Ids -> RunRecords] /\ checkpoints' \subseteq Ids
        /\ reviews' \subseteq [id : Ids, run : Ids, verdict : Verdicts]
    BY <1>1 DEF TypeInv, TypeOK
  <1>5. Saw(m, NoPins) \in Sights /\ Saw(m, NoPins).manifest = m
    BY <1>3, SightFacts, PinFacts
  <1>6. "approve manifest" \in OfTask /\ pc[w] \in OfTask /\ pc[w] # "idle"
    BY <1>1 DEF OfTask
  <1> HIDE DEF t, m, task
  <1>7. CASE m # None /\ SetTask(t, task) /\ Proceed(w, "approve manifest", Saw(m, NoPins))
    <2>1. tasks' \in [Tasks -> TaskRecords] /\ HasManifest'
      BY <1>2, <1>3, <1>7, SetTaskType
    <2>2. Saw(m, NoPins).manifest \in Ids
      BY <1>3, <1>5, <1>7
    <2>3. "approve manifest" \in Phases /\ "approve manifest" \notin OfRun
      BY <1>6, PhaseFacts
    <2> QED  BY <1>1, <1>4, <1>5, <1>6, <1>7, <2>1, <2>2, <2>3, WriteType
  <1>8. CASE Proceed(w, "idle", NothingSeen) /\ UNCHANGED tasks
    <2>1. tasks' \in [Tasks -> TaskRecords] /\ HasManifest'
      BY <1>8 DEF TypeInv, TypeOK, HasManifest
    <2> QED  BY <1>1, <1>4, <1>6, <1>8, <2>1, WriteType, SightFacts, PhaseFacts
  <1> QED  BY <1>1, <1>7, <1>8

LEMMA WriteManifestType ==
    ASSUME TypeInv, NEW w \in Workers, WriteManifest(w)
    PROVE  TypeInv'
  <1>1. /\ Writes(w, "write manifest", "bind manifest")
        /\ manifests' = [manifests EXCEPT ![call[w].id] =
                               Manifest(call[w].task, "PREPARED", seen[w].pins)]
        /\ UNCHANGED <<tasks, runs, checkpoints, reviews, started>>
    BY DEF WriteManifest
  <1>a. "write manifest" \in OfTask
    BY DEF OfTask
  <1>b. /\ pc[w] = "write manifest" /\ pc[w] # "idle"
        /\ Proceed(w, "bind manifest", seen[w]) /\ UNCHANGED <<gate, counters, drifted>>
        /\ seen[w] \in Sights
        /\ call[w].task \in Tasks /\ call[w].id \in Ids /\ call[w].id # None
    BY <1>1, <1>a, WritesOfTask
  <1>2. /\ "write manifest" \in OfTask /\ "bind manifest" \in Phases /\ "write manifest" # "idle"
        /\ "bind manifest" \in OfTask => "write manifest" \in OfTask
        /\ "bind manifest" \in OfRun => "write manifest" \in OfRun
        /\ "bind manifest" \notin ByManifest
    BY DEF Phases, Holding, OfTask, OfRun, ByManifest
  <1>3. Manifest(call[w].task, "PREPARED", seen[w].pins) \in ManifestRecords
    <2>1. seen[w].pins \in PinSets /\ seen[w].manifest \in Ids \cup {None}
      BY <1>b DEF Sights
    <2>2. call[w].task \in Tasks /\ call[w].id \in Ids
      BY <1>b
    <2> QED  BY <2>1, <2>2, SMT DEF Manifest, ManifestRecords
  <1>4. HasManifest' /\ tasks' \in [Tasks -> TaskRecords]
    BY <1>1 DEF TypeInv, TypeOK, HasManifest
  <1>5. /\ manifests' \in [Ids -> ManifestRecords] /\ runs' \in [Ids -> RunRecords]
        /\ checkpoints' \subseteq Ids /\ started' \in [Ids -> Ids \cup {None}]
        /\ reviews' \subseteq [id : Ids, run : Ids, verdict : Verdicts]
    BY <1>1, <1>3 DEF TypeInv, TypeOK
  <1> QED  BY <1>1, <1>2, <1>4, <1>5, WriteType, <1>b

LEMMA ApproveManifestType ==
    ASSUME TypeInv, NEW w \in Workers, ApproveManifest(w)
    PROVE  TypeInv'
  <1>1. /\ Writes(w, "approve manifest", "idle")
        /\ manifests' = [manifests EXCEPT ![seen[w].manifest] =
                            Manifest(manifests[seen[w].manifest].task, "APPROVED",
                                     manifests[seen[w].manifest].pins)]
        /\ UNCHANGED <<tasks, runs, checkpoints, reviews, started>>
    BY DEF ApproveManifest
  <1>a. "approve manifest" \in OfTask /\ "approve manifest" \in ByManifest
    BY DEF OfTask, ByManifest
  <1>b. /\ pc[w] = "approve manifest" /\ pc[w] # "idle"
        /\ Proceed(w, "idle", seen[w]) /\ UNCHANGED <<gate, counters, drifted>>
        /\ seen[w] \in Sights
        /\ call[w].task \in Tasks /\ call[w].id \in Ids /\ call[w].id # None
        /\ seen[w].manifest \in Ids
    BY <1>1, <1>a, WritesOfTask
  <1>2. /\ "approve manifest" \in ByManifest /\ "idle" \in Phases /\ "approve manifest" # "idle"
        /\ "idle" \in OfTask => "approve manifest" \in OfTask
        /\ "idle" \in OfRun => "approve manifest" \in OfRun
        /\ "idle" \notin ByManifest
    BY DEF Phases, Holding, OfTask, OfRun, ByManifest
  <1>3. Manifest(manifests[seen[w].manifest].task, "APPROVED", manifests[seen[w].manifest].pins)
           \in ManifestRecords
    <2>1. seen[w].manifest \in Ids
      BY <1>b
    <2> QED  BY <2>1, SMT DEF TypeInv, TypeOK, Manifest, ManifestRecords
  <1>4. HasManifest' /\ tasks' \in [Tasks -> TaskRecords]
    BY <1>1 DEF TypeInv, TypeOK, HasManifest
  <1>5. /\ manifests' \in [Ids -> ManifestRecords] /\ runs' \in [Ids -> RunRecords]
        /\ checkpoints' \subseteq Ids /\ started' \in [Ids -> Ids \cup {None}]
        /\ reviews' \subseteq [id : Ids, run : Ids, verdict : Verdicts]
    BY <1>1, <1>3 DEF TypeInv, TypeOK
  <1> QED  BY <1>1, <1>2, <1>4, <1>5, WriteType, <1>b

LEMMA SaveRunType ==
    ASSUME TypeInv, NEW w \in Workers, SaveRun(w)
    PROVE  TypeInv'
  <1>1. /\ Writes(w, "save run", "finish") /\ runs' = [runs EXCEPT ![call[w].id] =
                 Run(call[w].task, seen[w].manifest, "HUMAN_RESULT_REVIEW", seen[w].pins)]
        /\ UNCHANGED <<tasks, manifests, checkpoints, reviews, started>>
    BY DEF SaveRun
  <1>a. "save run" \in OfTask /\ "save run" \in ByManifest
    BY DEF OfTask, ByManifest
  <1>b. /\ pc[w] = "save run" /\ pc[w] # "idle"
        /\ Proceed(w, "finish", seen[w]) /\ UNCHANGED <<gate, counters, drifted>>
        /\ seen[w] \in Sights
        /\ call[w].task \in Tasks /\ call[w].id \in Ids /\ call[w].id # None
        /\ seen[w].manifest \in Ids
    BY <1>1, <1>a, WritesOfTask
  <1>2. /\ "save run" \in OfTask /\ "finish" \in Phases /\ "save run" # "idle"
        /\ "finish" \in OfTask => "save run" \in OfTask
        /\ "finish" \in OfRun => "save run" \in OfRun
        /\ "finish" \notin ByManifest
    BY DEF Phases, Holding, OfTask, OfRun, ByManifest
  <1>3. Run(call[w].task, seen[w].manifest, "HUMAN_RESULT_REVIEW", seen[w].pins) \in RunRecords
    <2>1. seen[w].pins \in PinSets /\ seen[w].manifest \in Ids \cup {None}
      BY <1>b DEF Sights
    <2>2. call[w].task \in Tasks /\ call[w].id \in Ids
      BY <1>b
    <2> QED  BY <2>1, <2>2, SMT DEF Run, RunRecords
  <1>4. HasManifest' /\ tasks' \in [Tasks -> TaskRecords]
    BY <1>1 DEF TypeInv, TypeOK, HasManifest
  <1>5. /\ manifests' \in [Ids -> ManifestRecords] /\ runs' \in [Ids -> RunRecords]
        /\ checkpoints' \subseteq Ids /\ started' \in [Ids -> Ids \cup {None}]
        /\ reviews' \subseteq [id : Ids, run : Ids, verdict : Verdicts]
    BY <1>1, <1>3 DEF TypeInv, TypeOK
  <1> QED  BY <1>1, <1>2, <1>4, <1>5, WriteType, <1>b

LEMMA SaveVerdictType ==
    ASSUME TypeInv, NEW w \in Workers, SaveVerdict(w)
    PROVE  TypeInv'
  <1>1. /\ Writes(w, "save verdict", "close task") /\ runs' = [runs EXCEPT ![call[w].run] =
                 Run(runs[call[w].run].task, runs[call[w].run].manifest, call[w].verdict,
                     runs[call[w].run].pins)]
        /\ UNCHANGED <<tasks, manifests, checkpoints, reviews, started>>
    BY DEF SaveVerdict
  <1>a. "save verdict" \in OfRun
    BY DEF OfRun
  <1>b. /\ pc[w] = "save verdict" /\ pc[w] # "idle"
        /\ Proceed(w, "close task", seen[w]) /\ UNCHANGED <<gate, counters, drifted>>
        /\ seen[w] \in Sights
        /\ call[w].run \in Ids /\ call[w].verdict \in Verdicts
    BY <1>1, <1>a, WritesOfRun
  <1>2. /\ "save verdict" \in OfRun /\ "close task" \in Phases /\ "save verdict" # "idle"
        /\ "close task" \in OfTask => "save verdict" \in OfTask
        /\ "close task" \in OfRun => "save verdict" \in OfRun
        /\ "close task" \notin ByManifest
    BY DEF Phases, Holding, OfTask, OfRun, ByManifest
  <1>3. Run(runs[call[w].run].task, runs[call[w].run].manifest, call[w].verdict,
            runs[call[w].run].pins) \in RunRecords
    <2>1. call[w].run \in Ids /\ call[w].verdict \in Verdicts
      BY <1>b
    <2> QED  BY <2>1, SMT DEF TypeInv, TypeOK, Run, RunRecords
  <1>4. HasManifest' /\ tasks' \in [Tasks -> TaskRecords]
    BY <1>1 DEF TypeInv, TypeOK, HasManifest
  <1>5. /\ manifests' \in [Ids -> ManifestRecords] /\ runs' \in [Ids -> RunRecords]
        /\ checkpoints' \subseteq Ids /\ started' \in [Ids -> Ids \cup {None}]
        /\ reviews' \subseteq [id : Ids, run : Ids, verdict : Verdicts]
    BY <1>1, <1>3 DEF TypeInv, TypeOK
  <1> QED  BY <1>1, <1>2, <1>4, <1>5, WriteType, <1>b

LEMMA CheckpointType ==
    ASSUME TypeInv, NEW w \in Workers, Checkpoint(w)
    PROVE  TypeInv'
  <1>1. /\ Writes(w, "checkpoint", "log review") /\ checkpoints' = checkpoints \cup {call[w].run}
        /\ UNCHANGED <<tasks, manifests, runs, reviews, started>>
    BY DEF Checkpoint
  <1>a. "checkpoint" \in OfRun
    BY DEF OfRun
  <1>b. /\ pc[w] = "checkpoint" /\ pc[w] # "idle"
        /\ Proceed(w, "log review", seen[w]) /\ UNCHANGED <<gate, counters, drifted>>
        /\ seen[w] \in Sights
        /\ call[w].run \in Ids /\ call[w].verdict \in Verdicts
    BY <1>1, <1>a, WritesOfRun
  <1>2. /\ "checkpoint" \in OfRun /\ "log review" \in Phases /\ "checkpoint" # "idle"
        /\ "log review" \in OfTask => "checkpoint" \in OfTask
        /\ "log review" \in OfRun => "checkpoint" \in OfRun
        /\ "log review" \notin ByManifest
    BY DEF Phases, Holding, OfTask, OfRun, ByManifest
  <1>3. call[w].run \in Ids
    BY <1>b
  <1>4. HasManifest' /\ tasks' \in [Tasks -> TaskRecords]
    BY <1>1 DEF TypeInv, TypeOK, HasManifest
  <1>5. /\ manifests' \in [Ids -> ManifestRecords] /\ runs' \in [Ids -> RunRecords]
        /\ checkpoints' \subseteq Ids /\ started' \in [Ids -> Ids \cup {None}]
        /\ reviews' \subseteq [id : Ids, run : Ids, verdict : Verdicts]
    BY <1>1, <1>3 DEF TypeInv, TypeOK
  <1> QED  BY <1>1, <1>2, <1>4, <1>5, WriteType, <1>b

LEMMA LogReviewType ==
    ASSUME TypeInv, NEW w \in Workers, LogReview(w)
    PROVE  TypeInv'
  <1> DEFINE entry == [id |-> call[w].id, run |-> call[w].run, verdict |-> call[w].verdict]
  <1>1. /\ pc[w] = "log review" /\ reviews' = reviews \cup {entry}
        /\ Proceed(w, "idle", NothingSeen)
        /\ UNCHANGED <<gate, tasks, manifests, runs, checkpoints, counters, started, drifted>>
    BY DEF LogReview
  <1>2. call[w].id \in Ids /\ call[w].run \in Ids /\ call[w].verdict \in Verdicts
    BY <1>1 DEF TypeInv, CallInv, OfRun
  <1>3. entry \in [id : Ids, run : Ids, verdict : Verdicts]
    BY <1>2
  <1> HIDE DEF entry
  <1>4. HasManifest' /\ tasks' \in [Tasks -> TaskRecords]
    BY <1>1 DEF TypeInv, TypeOK, HasManifest
  <1>5. /\ manifests' \in [Ids -> ManifestRecords] /\ runs' \in [Ids -> RunRecords]
        /\ checkpoints' \subseteq Ids /\ started' \in [Ids -> Ids \cup {None}]
        /\ reviews' \subseteq [id : Ids, run : Ids, verdict : Verdicts]
    BY <1>1, <1>3 DEF TypeInv, TypeOK
  <1> QED  BY <1>1, <1>4, <1>5, WriteType, SightFacts, PhaseFacts

THEOREM InitType == Init => TypeInv
  <1> SUFFICES ASSUME Init PROVE TypeInv
    OBVIOUS
  <1>1. 1 \in Pins /\ None \in Pins
    BY BoundsAssumption, SMT DEF Pins, None
  <1>2. gate \in Gates
    <2>1. Pinned(1, 1, 1) \in PinSets
      BY <1>1, SMT DEF Pinned, PinSets
    <2> QED  BY <2>1 DEF Init, Gates
  <1>3. NoTask \in TaskRecords /\ NoTask.status # "APPROVED"
    BY <1>1, SMT DEF NoTask, Task, TaskRecords, Statuses
  <1>4. NoManifest \in ManifestRecords /\ NoRun \in RunRecords
    BY PinFacts, SMT DEF NoManifest, Manifest, ManifestRecords, NoRun, Run, RunRecords
  <1>5. 0 \in 0..MaxRequests
    BY BoundsAssumption
  <1>6. TypeOK
    BY <1>2, <1>3, <1>4, <1>5, SightFacts, PhaseFacts DEF Init, TypeOK, Sights
  <1>7. CallInv /\ HasManifest
    BY <1>3, PhaseFacts DEF Init, CallInv, HasManifest
  <1> QED  BY <1>6, <1>7 DEF TypeInv

THEOREM TypeStep == TypeInv /\ [Next]_vars => TypeInv'
  <1> SUFFICES ASSUME TypeInv, [Next]_vars PROVE TypeInv'
    OBVIOUS
  <1>1. CASE ChangeGate \/ Cut
    BY <1>1, ChangeGateType, CutType
  <1>2. ASSUME NEW w \in Workers, Start(w) \/ Manifesting(w)
        PROVE  TypeInv'
    BY <1>2, StartType, ChecksType, InsertType, SubmitType, WriteManifestType, BindManifestType,
       ApproveType, ApproveManifestType DEF Manifesting
  <1>3. ASSUME NEW w \in Workers, Executing(w) \/ Reviewing(w)
        PROVE  TypeInv'
    BY <1>3, ChecksType, ExecuteType, RaisesType, MarkRunningType, SaveRunType, FinishType, FailType,
       SaveVerdictType, CloseTaskType, CheckpointType, LogReviewType DEF Executing, Reviewing
  <1>4. CASE UNCHANGED vars
    BY <1>4 DEF TypeInv, TypeOK, CallInv, HasManifest, vars, files, counters
  <1> QED  BY <1>1, <1>2, <1>3, <1>4 DEF Next, Cut

(* Every file, and every worker with its request, stays well typed.        *)
THEOREM TypeCorrect == Spec => []TypeOK
  <1>1. TypeInv => TypeOK
    BY DEF TypeInv
  <1> QED  BY <1>1, InitType, TypeStep, PTL DEF Spec
-----------------------------------------------------------------------------
(* What a step of a request may do                                         *)

(* The phases before a request's manifest is written.                      *)
Unwritten == {"prepare", "describe", "write manifest"}

(* The request of w goes on to phase p; the phases that matter below are   *)
(* entered by one action each.                                             *)
Moved(w, p, sight) ==
    /\ Proceed(w, p, sight)
    /\ pc[w] # "idle" /\ gate' = gate /\ drifted' = drifted /\ requests' = requests
    /\ p \in Unwritten => pc[w] \in Unwritten
    /\ p = "approve manifest" => Approve(w)
    /\ p = "mark running" => Verify(w)
    /\ p = "execute" => MarkRunning(w)
    /\ p = "save run" => Execute(w)
    /\ p = "save verdict" => Review(w)

Moves(w) == \E p, sight : Moved(w, p, sight)

Work(w) == Manifesting(w) \/ Executing(w) \/ Reviewing(w)

LEMMA MovedByWrite ==
    ASSUME NEW w, NEW phase, NEW p, Writes(w, phase, p), phase # "idle",
           p \notin Unwritten, p = "execute" => MarkRunning(w),
           p \notin {"approve manifest", "mark running", "save run", "save verdict"}
    PROVE  Moves(w)
  <1>1. Moved(w, p, seen[w])
    BY DEF Writes, Moved, counters
  <1> QED  BY <1>1 DEF Moves

LEMMA WorkMoves ==
    ASSUME NEW w \in Workers, Work(w)
    PROVE  Moves(w)
  <1> DEFINE Rest == gate' = gate /\ drifted' = drifted /\ requests' = requests
  <1>1. CASE Create(w)
    <2>1. PICK q \in {"insert", "idle"} :
             pc[w] = "create" /\ Proceed(w, q, Saw(None, GatePins)) /\ Rest
      BY <1>1 DEF Create, Check, counters
    <2>2. Moved(w, q, Saw(None, GatePins))
      BY <1>1, <2>1 DEF Moved, Unwritten
    <2> QED  BY <2>2 DEF Moves
  <1>2. CASE Prepare(w)
    <2>1. PICK q \in {"describe", "idle"} :
             pc[w] = "prepare" /\ Proceed(w, q, NothingSeen) /\ Rest
      BY <1>2 DEF Prepare, Check, counters
    <2>2. Moved(w, q, NothingSeen)
      BY <1>2, <2>1 DEF Moved, Unwritten
    <2> QED  BY <2>2 DEF Moves
  <1>3. CASE Describe(w)
    <2>1. PICK q \in {"write manifest", "idle"} :
             pc[w] = "describe" /\ Proceed(w, q, Saw(None, GatePins)) /\ Rest
      BY <1>3 DEF Describe, Check, counters
    <2>2. Moved(w, q, Saw(None, GatePins))
      BY <1>3, <2>1 DEF Moved, Unwritten
    <2> QED  BY <2>2 DEF Moves
  <1>4. CASE BeginRun(w)
    <2>1. PICK q \in {"verify", "idle"} :
             pc[w] = "run" /\ Proceed(w, q, Saw(tasks[call[w].task].manifest, NoPins)) /\ Rest
      BY <1>4 DEF BeginRun, Check, counters
    <2>2. Moved(w, q, Saw(tasks[call[w].task].manifest, NoPins))
      BY <1>4, <2>1 DEF Moved, Unwritten
    <2> QED  BY <2>2 DEF Moves
  <1>5. CASE Verify(w)
    <2> DEFINE m == seen[w].manifest
    <2>1. PICK q \in {"mark running", "idle"} :
             pc[w] = "verify" /\ Proceed(w, q, Saw(m, manifests[m].pins)) /\ Rest
      BY <1>5 DEF Verify, Check, counters
    <2>2. Moved(w, q, Saw(m, manifests[m].pins))
      BY <1>5, <2>1 DEF Moved, Unwritten
    <2> QED  BY <2>2 DEF Moves
  <1>6. CASE Execute(w)
    <2> DEFINE sight == Saw(seen[w].manifest, GatePins)
    <2>1. pc[w] = "execute" /\ Proceed(w, "save run", sight) /\ Rest
      BY <1>6 DEF Execute, Check, counters
    <2>2. Moved(w, "save run", sight)
      BY <1>6, <2>1 DEF Moved, Unwritten
    <2> QED  BY <2>2 DEF Moves
  <1>14. CASE LogRun(w) \/ Raises(w)
    <2>1. PICK q, s : q \in {"fail", "idle"} /\ pc[w] # "idle" /\ Proceed(w, q, s) /\ Rest
      BY <1>14 DEF LogRun, Raises, Check, counters, Trying
    <2>2. Moved(w, q, s)
      BY <2>1 DEF Moved, Unwritten
    <2> QED  BY <2>2 DEF Moves
  <1>7. CASE Review(w)
    <2>1. PICK q \in {"save verdict", "idle"} :
             pc[w] = "review" /\ Proceed(w, q, NothingSeen) /\ Rest
      BY <1>7 DEF Review, Check, counters
    <2>2. Moved(w, q, NothingSeen)
      BY <1>7, <2>1 DEF Moved, Unwritten
    <2> QED  BY <2>2 DEF Moves
  <1>8. CASE Insert(w) \/ Submit(w) \/ WriteManifest(w) \/ BindManifest(w) \/ ApproveManifest(w)
    BY <1>8, MovedByWrite DEF Insert, Submit, WriteManifest, BindManifest, ApproveManifest,
       Unwritten
  <1>9. CASE MarkRunning(w)
    <2>1. Writes(w, "mark running", "execute")
      BY <1>9 DEF MarkRunning
    <2> QED  BY <1>9, <2>1, MovedByWrite DEF Unwritten
  <1>10. CASE SaveRun(w) \/ Finish(w) \/ Fail(w)
    BY <1>10, MovedByWrite DEF SaveRun, Finish, Fail, Unwritten
  <1>11. CASE SaveVerdict(w) \/ CloseTask(w) \/ Checkpoint(w)
    BY <1>11, MovedByWrite DEF SaveVerdict, CloseTask, Checkpoint, AfterVerdict, Unwritten
  <1>12. CASE LogReview(w)
    <2>1. Moved(w, "idle", NothingSeen)
      BY <1>12 DEF LogReview, Moved, Unwritten, counters
    <2> QED  BY <2>1 DEF Moves
  <1>13. CASE Approve(w)
    <2>1. \/ Moved(w, "idle", NothingSeen)
          \/ Moved(w, "approve manifest", Saw(tasks[call[w].task].manifest, NoPins))
      BY <1>13 DEF Approve, Moved, Unwritten, counters
    <2> QED  BY <2>1 DEF Moves
  <1> QED  BY <1>1, <1>2, <1>3, <1>4, <1>5, <1>6, <1>7, <1>8, <1>9, <1>10, <1>11, <1>12, <1>13,
           <1>14 DEF Work, Manifesting, Executing, Reviewing

(* Two actions save a manifest, two a run, and one starts a run.           *)
LEMMA Untouched ==
    ASSUME NEW w \in Workers, Work(w)
    PROVE  /\ WriteManifest(w) \/ ApproveManifest(w) \/ manifests' = manifests
           /\ SaveRun(w) \/ SaveVerdict(w) \/ runs' = runs
           /\ MarkRunning(w) \/ started' = started
  <1>1. CASE Manifesting(w)
    BY <1>1 DEF Manifesting, Create, Insert, Submit, Prepare, Describe, WriteManifest, BindManifest,
       Approve, ApproveManifest, Check, files
  <1>2. CASE Executing(w)
    BY <1>2 DEF Executing, BeginRun, Verify, MarkRunning, Execute, SaveRun, Finish, LogRun, Raises, Fail,
       Check, files
  <1>3. CASE Reviewing(w)
    BY <1>3 DEF Reviewing, Review, SaveVerdict, CloseTask, Checkpoint, LogReview, Check, files
  <1> QED  BY <1>1, <1>2, <1>3 DEF Work
-----------------------------------------------------------------------------
(* A manifest that exists keeps its pins, and one approved stays approved  *)

Written(m) == manifests[m].status # "none"

Approved(m) == manifests[m].status = "APPROVED"

Kept ==
    \A m \in Ids : /\ Written(m) => manifests'[m].pins = manifests[m].pins
                   /\ Written(m) => manifests'[m].status # "none"
                   /\ Approved(m) => manifests'[m].status = "APPROVED"

(* No two requests share an id, and no manifest exists by the id of a      *)
(* request that has not come, or has not written it yet.                   *)
Distinct ==
    \A v, w \in Workers : v # w /\ pc[v] # "idle" /\ pc[w] # "idle" => call[v].id # call[w].id

Unborn == \A m \in Ids : m > requests => ~Written(m)

Unmade == \A w \in Workers : pc[w] \in Unwritten => ~Written(call[w].id)

Pending ==
    \A w \in Workers : pc[w] = "approve manifest" => Written(seen[w].manifest)

Fresh == Distinct /\ Unborn /\ Unmade /\ Pending

LEMMA WriteFacts ==
    ASSUME TypeInv, NEW w \in Workers, WriteManifest(w)
    PROVE  /\ pc[w] = "write manifest" /\ call[w].id \in Ids /\ call[w].id <= requests
           /\ \A m \in Ids : m # call[w].id => manifests'[m] = manifests[m]
           /\ pc'[w] = "bind manifest" /\ call'[w] = call[w]
  <1>1. /\ pc[w] = "write manifest" /\ Proceed(w, "bind manifest", seen[w])
        /\ manifests' = [manifests EXCEPT ![call[w].id] =
                            Manifest(call[w].task, "PREPARED", seen[w].pins)]
    BY DEF WriteManifest, Writes
  <1>2. call[w].id \in Ids /\ call[w].id <= requests
    BY <1>1 DEF TypeInv, CallInv
  <1>3. \A m \in Ids : m # call[w].id => manifests'[m] = manifests[m]
    BY <1>1 DEF TypeInv, TypeOK
  <1>4. pc'[w] = "bind manifest" /\ call'[w] = call[w]
    BY <1>1, Stepped DEF TypeInv
  <1> QED  BY <1>1, <1>2, <1>3, <1>4

LEMMA ApproveFacts ==
    ASSUME TypeInv, NEW w \in Workers, ApproveManifest(w)
    PROVE  /\ pc[w] = "approve manifest" /\ seen[w].manifest \in Ids
           /\ \A m \in Ids : m # seen[w].manifest => manifests'[m] = manifests[m]
           /\ manifests'[seen[w].manifest].status = "APPROVED"
           /\ manifests'[seen[w].manifest].pins = manifests[seen[w].manifest].pins
  <1> DEFINE m == seen[w].manifest
             approved == Manifest(manifests[m].task, "APPROVED", manifests[m].pins)
  <1>1. pc[w] = "approve manifest" /\ manifests' = [manifests EXCEPT ![m] = approved]
    BY DEF ApproveManifest, Writes
  <1>2. m \in Ids
    BY <1>1 DEF TypeInv, CallInv, ByManifest
  <1>3. approved.status = "APPROVED" /\ approved.pins = manifests[m].pins
    BY SMT DEF Manifest
  <1> HIDE DEF approved
  <1>4. \A k \in Ids : k # m => manifests'[k] = manifests[k]
    BY <1>1 DEF TypeInv, TypeOK
  <1>5. manifests'[m] = approved
    BY <1>1, <1>2 DEF TypeInv, TypeOK
  <1> QED  BY <1>1, <1>2, <1>3, <1>4, <1>5

LEMMA WorkKeeps ==
    ASSUME TypeInv, Fresh, NEW w \in Workers, Work(w)
    PROVE  Kept
  <1>1. CASE WriteManifest(w)
    <2>1. ~Written(call[w].id)
      BY <1>1, WriteFacts DEF Fresh, Unmade, Unwritten
    <2> QED  BY <1>1, <2>1, WriteFacts DEF Kept, Written, Approved
  <1>2. CASE ApproveManifest(w)
    BY <1>2, ApproveFacts DEF Kept, Written, Approved
  <1>3. CASE manifests' = manifests
    BY <1>3 DEF Kept, Written, Approved
  <1> QED  BY <1>1, <1>2, <1>3, Untouched

(* What a step does not write is left unborn and unmade.                   *)
LEMMA WorkFresh ==
    ASSUME TypeInv, TypeInv', Fresh, NEW w \in Workers, Work(w)
    PROVE  Fresh'
  <1>1. PICK p, sight : Moved(w, p, sight)
    BY WorkMoves DEF Moves
  <1>2. Proceed(w, p, sight) /\ pc[w] # "idle" /\ requests' = requests
    BY <1>1 DEF Moved
  <1>3. "idle" \notin Unwritten /\ (p \in Unwritten => pc[w] \in Unwritten)
    BY <1>1 DEF Moved, Unwritten
  <1>4. ASSUME NEW v \in Workers, pc'[v] # "idle"
        PROVE  /\ pc[v] # "idle" /\ call'[v] = call[v]
               /\ pc'[v] \in Unwritten => pc[v] \in Unwritten
    <2>1. CASE v = w
      BY <1>2, <1>3, <1>4, <2>1, Stepped DEF TypeInv
    <2>2. CASE v # w
      BY <1>2, <1>4, <2>2, Stepped DEF TypeInv
    <2> QED  BY <2>1, <2>2
  <1>5. Distinct'
    <2>1. \A v, x \in Workers :
             v # x /\ pc[v] # "idle" /\ pc[x] # "idle" => call[v].id # call[x].id
      BY DEF Fresh, Distinct
    <2> QED  BY <1>4, <2>1 DEF Distinct
  <1>6. \A m \in Ids : m > requests => manifests[m].status = "none"
    BY DEF Fresh, Unborn, Written
  <1>7. \A v \in Workers : pc[v] \in Unwritten => manifests[call[v].id].status = "none"
    BY DEF Fresh, Unmade, Written
  <1>8. Unborn' /\ Unmade'
    <2>1. CASE WriteManifest(w)
      <3>1. \A m \in Ids : m > requests => m # call[w].id
        <4>1. call[w].id \in Ids /\ call[w].id <= requests /\ requests \in 0..MaxRequests
          BY <2>1, WriteFacts DEF TypeInv, TypeOK
        <4> QED  BY <4>1, BoundsAssumption, SMT DEF Ids
      <3>2. \A m \in Ids : m > requests' => manifests'[m].status = "none"
        BY <1>2, <1>6, <2>1, <3>1, WriteFacts
      <3>3. ASSUME NEW v \in Workers, pc'[v] \in Unwritten
            PROVE  manifests'[call'[v].id].status = "none"
        <4>1. v # w
          BY <2>1, <3>3, WriteFacts DEF Unwritten
        <4>2. pc[v] \in Unwritten /\ pc[v] # "idle" /\ call'[v] = call[v]
          BY <1>3, <1>4, <3>3
        <4>3. call[v].id # call[w].id
          BY <1>2, <4>1, <4>2 DEF Fresh, Distinct
        <4>4. call[v].id \in Ids
          BY <4>2 DEF TypeInv, CallInv
        <4>5. manifests'[call[v].id] = manifests[call[v].id]
          BY <2>1, <4>3, <4>4, WriteFacts
        <4> QED  BY <1>7, <4>2, <4>5
      <3> QED  BY <3>2, <3>3 DEF Unborn, Unmade, Written
    <2>2. CASE ~WriteManifest(w)
      <3>1. ASSUME NEW m \in Ids, manifests[m].status = "none"
            PROVE  manifests'[m].status = "none"
        <4>1. CASE ApproveManifest(w)
          <5>1. manifests[seen[w].manifest].status # "none"
            BY <4>1, ApproveFacts DEF Fresh, Pending, Written
          <5> QED  BY <3>1, <4>1, <5>1, ApproveFacts
        <4>2. CASE manifests' = manifests
          BY <3>1, <4>2
        <4> QED  BY <2>2, <4>1, <4>2, Untouched
      <3>2. \A m \in Ids : m > requests' => manifests'[m].status = "none"
        BY <1>2, <1>6, <3>1
      <3>3. ASSUME NEW v \in Workers, pc'[v] \in Unwritten
            PROVE  manifests'[call'[v].id].status = "none"
        <4>1. pc[v] \in Unwritten /\ pc[v] # "idle" /\ call'[v] = call[v]
          BY <1>3, <1>4, <3>3
        <4>2. call[v].id \in Ids
          BY <4>1 DEF TypeInv, CallInv
        <4> QED  BY <1>7, <3>1, <4>1, <4>2
      <3> QED  BY <3>2, <3>3 DEF Unborn, Unmade, Written
    <2> QED  BY <2>1, <2>2
  <1>9. Pending'
    <2> SUFFICES ASSUME NEW v \in Workers, pc'[v] = "approve manifest"
                 PROVE  manifests'[seen'[v].manifest].status # "none"
      BY DEF Pending, Written
    <2>1. seen'[v].manifest \in Ids
      BY DEF TypeInv, CallInv, ByManifest
    <2>2. manifests[seen'[v].manifest].status # "none"
      <3>1. CASE v = w
        <4>1. p = "approve manifest" /\ Approve(w)
          BY <1>1, <1>2, <3>1, Stepped DEF Moved, TypeInv
        <4> DEFINE m == tasks[call[w].task].manifest
        <4>2. manifests[m].status = "PREPARED" /\ Proceed(w, "approve manifest", Saw(m, NoPins))
          <5>1. pc'[w] # "idle"
            BY <3>1
          <5>2. ~Proceed(w, "idle", NothingSeen)
            BY <5>1, Stepped DEF TypeInv
          <5> QED  BY <4>1, <5>2 DEF Approve
        <4>m. m \in Ids \cup {None}
          <5>1. call[w].task \in Tasks
            BY <4>1 DEF Approve, TypeInv, CallInv, OfTask
          <5> QED  BY <5>1, TaskFields DEF TypeInv
        <4> HIDE DEF m
        <4>3. seen'[w].manifest = m
          <5>1. seen' = [seen EXCEPT ![w] = Saw(m, NoPins)]
            BY <4>2 DEF Proceed
          <5>2. seen'[w] = Saw(m, NoPins)
            BY <5>1 DEF TypeInv, TypeOK
          <5>3. Saw(m, NoPins).manifest = m
            BY <4>m, SightFacts, PinFacts
          <5> QED  BY <5>2, <5>3
        <4> QED  BY <3>1, <4>2, <4>3
      <3>2. CASE v # w
        <4>1. pc[v] = "approve manifest" /\ seen'[v] = seen[v]
          BY <1>2, <3>2, Stepped DEF TypeInv
        <4> QED  BY <4>1 DEF Fresh, Pending, Written
      <3> QED  BY <3>1, <3>2
    <2> QED  BY <2>1, <2>2, WorkKeeps DEF Kept, Written
  <1> QED  BY <1>5, <1>8, <1>9 DEF Fresh
-----------------------------------------------------------------------------
(* Steps that are no request's, and the invariant                          *)

LEMMA StartFresh ==
    ASSUME TypeInv, TypeInv', Fresh, NEW w \in Workers, Start(w)
    PROVE  Fresh'
  <1>1. PICK c \in Calls :
           /\ c.id = requests + 1
           /\ call' = [call EXCEPT ![w] = c] /\ pc' = [pc EXCEPT ![w] = c.op]
    BY DEF Start
  <1>2. /\ pc[w] = "idle" /\ requests < MaxRequests /\ requests' = requests + 1
        /\ manifests' = manifests /\ seen' = seen
    BY DEF Start, files
  <1>3. /\ requests \in Nat /\ MaxRequests \in Nat /\ c.id \in Ids
        /\ \A m \in Ids : m \in Nat
    <2>1. requests \in 0..MaxRequests /\ c.id \in Ids
      BY CallFacts DEF TypeInv, TypeOK
    <2> QED  BY <2>1, BoundsAssumption, SMT DEF Ids
  <1>4. \A v \in Workers \ {w} : pc'[v] = pc[v] /\ call'[v] = call[v]
    BY <1>1 DEF TypeInv, TypeOK
  <1>5. pc'[w] = c.op /\ call'[w] = c /\ c.op # "approve manifest"
    BY <1>1, CallFacts DEF TypeInv, TypeOK, ByManifest
  <1>6. \A v \in Workers : pc[v] # "idle" => call[v].id \in Ids /\ call[v].id <= requests
    BY DEF TypeInv, CallInv
  <1>7. ASSUME NEW v \in Workers \ {w}, pc'[v] # "idle"
        PROVE  call'[v].id # c.id
    <2>1. call[v].id \in Ids /\ call[v].id <= requests
      BY <1>4, <1>6, <1>7
    <2>2. call[v].id # c.id
      BY <1>1, <1>3, <2>1, SMT
    <2> QED  BY <1>4, <2>2
  <1>8. Distinct'
    <2> SUFFICES ASSUME NEW v \in Workers, NEW x \in Workers, v # x,
                        pc'[v] # "idle", pc'[x] # "idle"
                 PROVE  call'[v].id # call'[x].id
      BY DEF Distinct
    <2>1. CASE v = w \/ x = w
      BY <1>5, <1>7, <2>1
    <2>2. CASE v # w /\ x # w
      BY <1>4, <2>2 DEF Fresh, Distinct
    <2> QED  BY <2>1, <2>2
  <1>9. \A m \in Ids : m > requests' => m > requests
    BY <1>2, <1>3, SMT
  <1>10. c.id > requests
    BY <1>1, <1>3, SMT
  <1>11. \A m \in Ids : m > requests => manifests'[m].status = "none"
    BY <1>2 DEF Fresh, Unborn, Written
  <1>12. Unborn'
    BY <1>9, <1>11 DEF Unborn, Written
  <1>13. ASSUME NEW v \in Workers, pc'[v] \in Unwritten
         PROVE  manifests'[call'[v].id].status = "none"
    <2>1. CASE v = w
      BY <1>3, <1>5, <1>10, <1>11, <2>1
    <2>2. CASE v # w
      <3>1. pc[v] \in Unwritten /\ call'[v] = call[v]
        BY <1>4, <1>13, <2>2
      <3> QED  BY <1>2, <3>1 DEF Fresh, Unmade, Written
    <2> QED  BY <2>1, <2>2
  <1>14. ASSUME NEW v \in Workers, pc'[v] = "approve manifest"
         PROVE  manifests'[seen'[v].manifest].status # "none"
    <2>1. pc[v] = "approve manifest"
      BY <1>4, <1>5, <1>14
    <2> QED  BY <1>2, <2>1 DEF Fresh, Pending, Written
  <1>15. Unmade' /\ Pending'
    BY <1>13, <1>14 DEF Unmade, Pending, Written
  <1> QED  BY <1>8, <1>12, <1>15 DEF Fresh

LEMMA InitFresh == Init => Fresh
  <1> SUFFICES ASSUME Init PROVE Fresh
    OBVIOUS
  <1>1. NoManifest.status = "none"
    BY SMT DEF NoManifest, Manifest
  <1>2. \A m \in Ids : manifests[m].status = "none"
    BY <1>1 DEF Init
  <1>3. \A w \in Workers : pc[w] = "idle"
    BY DEF Init
  <1>4. Unborn
    BY <1>2 DEF Unborn, Written
  <1>5. Distinct /\ Unmade /\ Pending
    BY <1>3 DEF Distinct, Unmade, Pending, Unwritten
  <1> QED  BY <1>4, <1>5 DEF Fresh

(* A step of Next, as the proofs below divide it.                          *)
LEMMA NextCases ==
    ASSUME [Next]_vars
    PROVE  \/ ChangeGate \/ Cut \/ UNCHANGED vars
           \/ \E w \in Workers : Start(w) \/ Work(w)
  BY DEF Next, Work, Cut

LEMMA FreshStep ==
    ASSUME TypeInv, TypeInv', Fresh, [Next]_vars
    PROVE  Fresh' /\ Kept
  <1>1. CASE ChangeGate \/ UNCHANGED vars
    BY <1>1 DEF ChangeGate, vars, files, Fresh, Distinct, Unborn, Unmade, Pending, Written, Kept,
       Approved, counters
  <1>2. CASE Cut
    <2>1. /\ manifests' = manifests /\ requests' = requests
          /\ \A v \in Workers : pc'[v] # "idle" => pc'[v] = pc[v] /\ call'[v] = call[v]
      BY <1>2, CutFacts DEF files, TypeInv
    <2>2. \A v \in Workers : pc'[v] # "idle" => seen'[v] = seen[v]
      BY <1>2, CutFacts DEF TypeInv
    <2>3. Distinct'
      BY <2>1 DEF Fresh, Distinct
    <2>4. Unmade'
      BY <2>1 DEF Fresh, Unmade, Unwritten, Written
    <2>5. Pending'
      BY <2>1, <2>2 DEF Fresh, Pending, Written
    <2> QED  BY <2>1, <2>3, <2>4, <2>5 DEF Fresh, Unborn, Written, Kept, Approved
  <1>3. ASSUME NEW w \in Workers, Start(w)
        PROVE  Fresh' /\ Kept
    <2>1. manifests' = manifests
      BY <1>3 DEF Start, files
    <2> QED  BY <1>3, <2>1, StartFresh DEF Kept, Written, Approved
  <1>4. ASSUME NEW w \in Workers, Work(w)
        PROVE  Fresh' /\ Kept
    BY <1>4, WorkFresh, WorkKeeps
  <1> QED  BY <1>1, <1>2, <1>3, <1>4, NextCases
-----------------------------------------------------------------------------
(* No run without approval                                                 *)

Approvals ==
    /\ ApprovedRuns
    /\ \A w \in Workers : pc[w] = "mark running" => Approved(seen[w].manifest)

LEMMA VerifyFacts ==
    ASSUME TypeInv, NEW w \in Workers, Verify(w), pc'[w] = "mark running"
    PROVE  /\ Approved(seen[w].manifest) /\ manifests[seen[w].manifest].pins = GatePins
           /\ seen[w].manifest \in Ids
           /\ seen'[w].manifest = seen[w].manifest
           /\ seen'[w].pins = manifests[seen[w].manifest].pins
           /\ gate' = gate /\ manifests' = manifests
  <1> DEFINE m == seen[w].manifest
             sight == Saw(m, manifests[m].pins)
  <1>1. /\ pc[w] = "verify" /\ gate' = gate /\ manifests' = manifests
        /\ Proceed(w, IF ManifestApproved(m) /\ Current(m) THEN "mark running" ELSE "idle", sight)
    BY DEF Verify, Check, files
  <1>2. m \in Ids
    BY <1>1 DEF TypeInv, CallInv, ByManifest
  <1>3. ManifestApproved(m) /\ Current(m)
    BY <1>1, Stepped DEF TypeInv
  <1>4. manifests[m].pins \in PinSets
    <2>1. manifests[m] \in ManifestRecords
      BY <1>2 DEF TypeInv, TypeOK
    <2> QED  BY <2>1 DEF ManifestRecords
  <1>5. Proceed(w, "mark running", sight)
    BY <1>1, <1>3
  <1>6. sight.manifest = m /\ sight.pins = manifests[m].pins
    BY <1>2, <1>4, SightFacts, ZenonT(30)
  <1> HIDE DEF sight
  <1>7. seen'[w] = sight
    BY <1>5 DEF Proceed, TypeInv, TypeOK
  <1> QED  BY <1>1, <1>2, <1>3, <1>6, <1>7 DEF ManifestApproved, Current, Approved

LEMMA MarkFacts ==
    ASSUME TypeInv, NEW w \in Workers, MarkRunning(w)
    PROVE  /\ pc[w] = "mark running" /\ seen[w].manifest \in Ids /\ call[w].id \in Ids
           /\ started'[call[w].id] = seen[w].manifest
           /\ \A r \in Ids : r # call[w].id => started'[r] = started[r]
           /\ manifests' = manifests /\ runs' = runs /\ gate' = gate /\ drifted' = drifted
           /\ pc'[w] = "execute" /\ seen'[w] = seen[w]
  <1>1. /\ pc[w] = "mark running" /\ started' = [started EXCEPT ![call[w].id] = seen[w].manifest]
        /\ manifests' = manifests /\ runs' = runs /\ gate' = gate /\ drifted' = drifted
        /\ Proceed(w, "execute", seen[w])
    BY DEF MarkRunning, Writes
  <1>2. call[w].id \in Ids /\ seen[w].manifest \in Ids
    BY <1>1 DEF TypeInv, CallInv, ByManifest
  <1>3. \A r \in Ids : r # call[w].id => started'[r] = started[r]
    BY <1>1 DEF TypeInv, TypeOK
  <1>4. started'[call[w].id] = seen[w].manifest
    BY <1>1, <1>2 DEF TypeInv, TypeOK
  <1>5. pc'[w] = "execute" /\ seen'[w] = seen[w]
    BY <1>1, Stepped, ZenonT(30) DEF TypeInv
  <1> QED  BY <1>1, <1>2, <1>3, <1>4, <1>5

LEMMA ApprovalsStep ==
    ASSUME TypeInv, Fresh, Approvals, [Next]_vars, Kept
    PROVE  Approvals'
  <1>1. \A m \in Ids : Approved(m) => manifests'[m].status = "APPROVED"
    BY DEF Kept
  <1>2. \A w \in Workers : pc[w] = "mark running" =>
           seen[w].manifest \in Ids /\ Approved(seen[w].manifest)
    BY DEF Approvals, TypeInv, CallInv, ByManifest
  <1>3. \A r \in Ids : started[r] # None => started[r] \in Ids /\ Approved(started[r])
    BY DEF Approvals, ApprovedRuns, Approved, TypeInv, TypeOK
  <1>4. CASE ChangeGate \/ UNCHANGED vars
    BY <1>4 DEF ChangeGate, vars, files, Approvals, ApprovedRuns, Approved
  <1>5. CASE Cut
    <2>1. /\ started' = started /\ manifests' = manifests
          /\ \A v \in Workers : pc'[v] # "idle" => pc'[v] = pc[v] /\ seen'[v] = seen[v]
      BY <1>5, CutFacts DEF files, TypeInv
    <2>2. ApprovedRuns'
      BY <2>1 DEF Approvals, ApprovedRuns
    <2>3. \A v \in Workers : pc'[v] = "mark running" => manifests'[seen'[v].manifest].status = "APPROVED"
      BY <2>1 DEF Approvals, Approved
    <2> QED  BY <2>2, <2>3 DEF Approvals, Approved
  <1>6. ASSUME NEW w \in Workers, Start(w)
        PROVE  Approvals'
    <2>1. started' = started /\ manifests' = manifests /\ seen' = seen
      BY <1>6 DEF Start, files
    <2>2. PICK c \in Calls : pc' = [pc EXCEPT ![w] = c.op]
      BY <1>6 DEF Start
    <2>3. \A v \in Workers : pc'[v] = "mark running" => pc[v] = "mark running"
      BY <2>2, CallFacts DEF TypeInv, TypeOK, ByManifest
    <2> QED  BY <2>1, <2>3 DEF Approvals, ApprovedRuns, Approved
  <1>7. ASSUME NEW w \in Workers, Work(w)
        PROVE  Approvals'
    <2>1. PICK p, sight : Moved(w, p, sight)
      BY <1>7, WorkMoves DEF Moves
    <2>2. ASSUME NEW v \in Workers, pc'[v] = "mark running"
          PROVE  manifests'[seen'[v].manifest].status = "APPROVED"
      <3>1. CASE v = w
        <4>1. p = "mark running" /\ Verify(w)
          BY <2>1, <2>2, <3>1, Stepped DEF Moved, TypeInv
        <4> QED  BY <2>2, <3>1, <4>1, VerifyFacts DEF Approved
      <3>2. CASE v # w
        <4>1. pc[v] = "mark running" /\ seen'[v] = seen[v]
          BY <2>1, <2>2, <3>2, Stepped DEF Moved, TypeInv
        <4> QED  BY <1>1, <1>2, <4>1
      <3> QED  BY <3>1, <3>2
    <2>3. ASSUME NEW r \in Ids, started'[r] # None
          PROVE  manifests'[started'[r]].status = "APPROVED"
      <3>1. CASE MarkRunning(w)
        <4>1. CASE r = call[w].id
          BY <1>1, <1>2, <3>1, <4>1, MarkFacts
        <4>2. CASE r # call[w].id
          BY <1>1, <1>3, <2>3, <3>1, <4>2, MarkFacts, ZenonT(30)
        <4> QED  BY <4>1, <4>2
      <3>2. CASE started' = started
        BY <1>1, <1>3, <2>3, <3>2
      <3> QED  BY <1>7, <3>1, <3>2, Untouched
    <2> QED  BY <2>2, <2>3 DEF Approvals, ApprovedRuns, Approved
  <1> QED  BY <1>4, <1>5, <1>6, <1>7, NextCases
-----------------------------------------------------------------------------
(* What ran is what was approved                                           *)

(* A run that is under way, or done, goes by a manifest that exists.       *)
Grounded ==
    /\ \A w \in Workers :
          /\ pc[w] \in {"mark running", "execute", "save run"} => Written(seen[w].manifest)
          /\ pc[w] = "save verdict" => runs[call[w].run].status # "none"
    /\ \A r \in Ids : runs[r].status # "none" =>
          runs[r].manifest \in Ids /\ Written(runs[r].manifest)

(* Until the gate changes, a run on its way has the pins of its manifest.  *)
Pinning ==
    \A w \in Workers :
        /\ pc[w] \in {"mark running", "execute"} => manifests[seen[w].manifest].pins = GatePins
        /\ pc[w] = "save run" => manifests[seen[w].manifest].pins = seen[w].pins

AsApproved == RunAsApproved /\ (~drifted => Pinning)

LEMMA ExecuteFacts ==
    ASSUME TypeInv, NEW w \in Workers, Execute(w), pc'[w] = "save run"
    PROVE  /\ pc[w] = "execute" /\ seen[w].manifest \in Ids
           /\ seen'[w].manifest = seen[w].manifest /\ seen'[w].pins = GatePins
           /\ manifests' = manifests
  <1> DEFINE sight == Saw(seen[w].manifest, GatePins)
  <1>1. pc[w] = "execute" /\ manifests' = manifests
    BY DEF Execute, Check, files
  <1>2. Proceed(w, "save run", sight)
    BY DEF Execute, Check
  <1>3. seen[w].manifest \in Ids
    BY <1>1 DEF TypeInv, CallInv, ByManifest
  <1>4. sight.manifest = seen[w].manifest /\ sight.pins = GatePins
    BY <1>3, SightFacts, PinFacts DEF TypeInv
  <1> HIDE DEF sight
  <1>5. seen'[w] = sight
    BY <1>2 DEF Proceed, TypeInv, TypeOK
  <1> QED  BY <1>1, <1>3, <1>4, <1>5

LEMMA RunFacts ==
    \A t, m, s, pins :
        /\ Run(t, m, s, pins).manifest = m
        /\ Run(t, m, s, pins).status = s
        /\ Run(t, m, s, pins).pins = pins
  BY SMT DEF Run

(* A run keeps its manifest and what it ran with; a new one has those its  *)
(* worker saw.                                                             *)
LEMMA WorkRuns ==
    ASSUME TypeInv, Grounded, NEW w \in Workers, Work(w), NEW r \in Ids,
           runs'[r].status # "none"
    PROVE  \/ /\ runs[r].status # "none"
              /\ runs'[r].manifest = runs[r].manifest /\ runs'[r].pins = runs[r].pins
           \/ /\ pc[w] = "save run" /\ seen[w].manifest \in Ids
              /\ runs'[r].manifest = seen[w].manifest /\ runs'[r].pins = seen[w].pins
  <1>1. CASE SaveRun(w)
    <2> DEFINE run == Run(call[w].task, seen[w].manifest, "HUMAN_RESULT_REVIEW", seen[w].pins)
    <2>1. pc[w] = "save run" /\ runs' = [runs EXCEPT ![call[w].id] = run]
      BY <1>1 DEF SaveRun, Writes
    <2>2. call[w].task \in Tasks /\ seen[w].manifest \in Ids
      BY <2>1 DEF TypeInv, CallInv, OfTask, ByManifest
    <2>3. run.manifest = seen[w].manifest /\ run.pins = seen[w].pins
      BY <2>2, RunFacts
    <2> HIDE DEF run
    <2>4. runs'[r] = IF r = call[w].id THEN run ELSE runs[r]
      BY <2>1 DEF TypeInv, TypeOK
    <2> QED  BY <2>1, <2>2, <2>3, <2>4
  <1>2. CASE SaveVerdict(w)
    <2> DEFINE k == call[w].run
               run == Run(runs[k].task, runs[k].manifest, call[w].verdict, runs[k].pins)
    <2>1. pc[w] = "save verdict" /\ runs' = [runs EXCEPT ![k] = run]
      BY <1>2 DEF SaveVerdict, Writes
    <2>2. k \in Ids /\ runs[k].status # "none"
      BY <2>1 DEF TypeInv, CallInv, OfRun, Grounded
    <2>3. runs[k].task \in Tasks \cup {None} /\ runs[k].manifest \in Ids \cup {None}
      BY <2>2, SMT DEF TypeInv, TypeOK, RunRecords
    <2>4. run.manifest = runs[k].manifest /\ run.pins = runs[k].pins
      BY DEF Run
    <2> HIDE DEF run
    <2>5. runs'[r] = IF r = k THEN run ELSE runs[r]
      BY <2>1 DEF TypeInv, TypeOK
    <2> QED  BY <2>2, <2>4, <2>5
  <1>3. CASE runs' = runs
    BY <1>3
  <1> QED  BY <1>1, <1>2, <1>3, Untouched

LEMMA GroundedStep ==
    ASSUME TypeInv, Approvals, Grounded, [Next]_vars, Kept, TypeInv'
    PROVE  Grounded'
  <1>1. \A m \in Ids : Written(m) => manifests'[m].status # "none"
    BY DEF Kept
  <1>2. \A w \in Workers : pc[w] \in {"mark running", "execute", "save run"} =>
           seen[w].manifest \in Ids /\ Written(seen[w].manifest)
    BY DEF Grounded, TypeInv, CallInv, ByManifest
  <1>3. CASE ChangeGate \/ UNCHANGED vars
    BY <1>3 DEF ChangeGate, vars, files, Grounded, Written
  <1>4. CASE Cut
    <2>1. /\ runs' = runs /\ manifests' = manifests
          /\ \A v \in Workers : pc'[v] # "idle" =>
                pc'[v] = pc[v] /\ call'[v] = call[v] /\ seen'[v] = seen[v]
      BY <1>4, CutFacts DEF files, TypeInv
    <2> QED  BY <2>1 DEF Grounded, Written
  <1>5. ASSUME NEW w \in Workers, Start(w)
        PROVE  Grounded'
    <2>1. runs' = runs /\ manifests' = manifests /\ seen' = seen
      BY <1>5 DEF Start, files
    <2>2. PICK c \in Calls : call' = [call EXCEPT ![w] = c] /\ pc' = [pc EXCEPT ![w] = c.op]
      BY <1>5 DEF Start
    <2>3. c.op \notin {"mark running", "execute", "save run", "save verdict"}
      BY CallFacts DEF ByManifest
    <2>4. \A v \in Workers :
             pc'[v] \in {"mark running", "execute", "save run", "save verdict"} =>
                 pc'[v] = pc[v] /\ call'[v] = call[v]
      BY <2>2, <2>3 DEF TypeInv, TypeOK
    <2> QED  BY <2>1, <2>4 DEF Grounded, Written
  <1>6. ASSUME NEW w \in Workers, Work(w)
        PROVE  Grounded'
    <2>1. PICK p, sight : Moved(w, p, sight)
      BY <1>6, WorkMoves DEF Moves
    <2>2. \A v \in Workers \ {w} : pc'[v] = pc[v] /\ call'[v] = call[v] /\ seen'[v] = seen[v]
      BY <2>1, Stepped DEF Moved, TypeInv
    <2>3. /\ pc'[w] = "mark running" => Verify(w)
          /\ pc'[w] = "execute" => MarkRunning(w)
          /\ pc'[w] = "save run" => Execute(w)
          /\ pc'[w] = "save verdict" => Review(w)
      BY <2>1, Stepped DEF Moved, TypeInv
    <2>4. ASSUME NEW v \in Workers, pc'[v] \in {"mark running", "execute", "save run"}
          PROVE  manifests'[seen'[v].manifest].status # "none"
      <3>1. CASE v # w
        BY <1>1, <1>2, <2>2, <2>4, <3>1
      <3>2. CASE v = w /\ pc'[w] = "mark running"
        BY <2>3, <3>2, VerifyFacts DEF Approved
      <3>3. CASE v = w /\ pc'[w] = "execute"
        BY <1>1, <1>2, <2>3, <3>3, MarkFacts
      <3>4. CASE v = w /\ pc'[w] = "save run"
        BY <1>1, <1>2, <2>3, <3>4, ExecuteFacts
      <3> QED  BY <2>4, <3>1, <3>2, <3>3, <3>4
    <2>5. ASSUME NEW r \in Ids, runs'[r].status # "none"
          PROVE  runs'[r].manifest \in Ids /\ manifests'[runs'[r].manifest].status # "none"
      <3>1. CASE runs[r].status # "none" /\ runs'[r].manifest = runs[r].manifest
        BY <1>1, <3>1 DEF Grounded
      <3>2. CASE pc[w] = "save run" /\ runs'[r].manifest = seen[w].manifest
        BY <1>1, <1>2, <3>2
      <3> QED  BY <1>6, <2>5, <3>1, <3>2, WorkRuns
    <2>6. ASSUME NEW r \in Ids, runs[r].status # "none"
          PROVE  runs'[r].status # "none"
      <3>1. CASE SaveRun(w)
        <4>1. PICK t, m, pins :
                 runs' = [runs EXCEPT ![call[w].id] = Run(t, m, "HUMAN_RESULT_REVIEW", pins)]
          BY <3>1 DEF SaveRun
        <4>2. Run(t, m, "HUMAN_RESULT_REVIEW", pins).status = "HUMAN_RESULT_REVIEW"
          BY DEF Run
        <4> QED  BY <2>6, <4>1, <4>2 DEF TypeInv, TypeOK
      <3>2. CASE SaveVerdict(w)
        <4>1. PICK t, m, pins :
                 runs' = [runs EXCEPT ![call[w].run] = Run(t, m, call[w].verdict, pins)]
          BY <3>2 DEF SaveVerdict
        <4>2. Run(t, m, call[w].verdict, pins).status = call[w].verdict
          BY DEF Run
        <4>3. call[w].verdict # "none"
          BY <3>2 DEF SaveVerdict, Writes, TypeInv, CallInv, OfRun, Verdicts
        <4> QED  BY <2>6, <4>1, <4>2, <4>3 DEF TypeInv, TypeOK
      <3>3. CASE runs' = runs
        BY <2>6, <3>3
      <3> QED  BY <1>6, <3>1, <3>2, <3>3, Untouched
    <2>7. ASSUME NEW v \in Workers, pc'[v] = "save verdict"
          PROVE  runs'[call'[v].run].status # "none"
      <3>1. call'[v].run \in Ids
        BY <2>7 DEF TypeInv, CallInv, OfRun
      <3>2. CASE v # w
        BY <2>2, <2>6, <2>7, <3>1, <3>2 DEF Grounded
      <3>3. CASE v = w
        <4>1. /\ pc[w] = "review" /\ runs' = runs
              /\ Proceed(w, IF runs[call[w].run].status = "HUMAN_RESULT_REVIEW"
                            THEN "save verdict" ELSE "idle", NothingSeen)
          BY <2>3, <2>7, <3>3 DEF Review, Check, files
        <4>2. runs[call[w].run].status = "HUMAN_RESULT_REVIEW" /\ call'[w] = call[w]
          BY <2>7, <3>3, <4>1 DEF Proceed, TypeInv, TypeOK
        <4> QED  BY <3>3, <4>1, <4>2
      <3> QED  BY <3>2, <3>3
    <2> QED  BY <2>4, <2>5, <2>7 DEF Grounded, Written
  <1> QED  BY <1>3, <1>4, <1>5, <1>6, NextCases

LEMMA AsApprovedStep ==
    ASSUME TypeInv, TypeInv', Grounded, AsApproved, [Next]_vars, Kept
    PROVE  AsApproved'
  <1>1. \A m \in Ids : Written(m) => manifests'[m].pins = manifests[m].pins
    BY DEF Kept
  <1>2. \A w \in Workers : pc[w] \in {"mark running", "execute", "save run"} =>
           seen[w].manifest \in Ids /\ Written(seen[w].manifest)
    BY DEF Grounded, TypeInv, CallInv, ByManifest
  <1>3. CASE ChangeGate
    <2>1. /\ manifests' = manifests /\ runs' = runs /\ pc' = pc /\ seen' = seen
          /\ drifted' = (drifted \/ \E w \in Workers : pc[w] \in {"mark running", "execute"})
      BY <1>3 DEF ChangeGate, files
    <2>2. ASSUME ~drifted'
          PROVE  ~drifted /\ \A w \in Workers : pc[w] \notin {"mark running", "execute"}
      BY <2>1, <2>2
    <2> QED  BY <2>1, <2>2 DEF AsApproved, RunAsApproved, Pinning
  <1>4. CASE UNCHANGED vars
    BY <1>4 DEF vars, files, AsApproved, RunAsApproved, Pinning, GatePins
  <1>5. CASE Cut
    <2>1. /\ runs' = runs /\ manifests' = manifests /\ drifted' = drifted /\ gate' = gate
          /\ \A v \in Workers : pc'[v] # "idle" => pc'[v] = pc[v] /\ seen'[v] = seen[v]
      BY <1>5, CutFacts DEF files, TypeInv
    <2>2. GatePins' = GatePins
      BY <2>1 DEF GatePins
    <2> QED  BY <2>1, <2>2 DEF AsApproved, RunAsApproved, Pinning
  <1>6. ASSUME NEW w \in Workers, Start(w)
        PROVE  AsApproved'
    <2>1. /\ runs' = runs /\ manifests' = manifests /\ seen' = seen /\ drifted' = drifted
          /\ gate' = gate
      BY <1>6 DEF Start, files
    <2>2. PICK c \in Calls : pc' = [pc EXCEPT ![w] = c.op]
      BY <1>6 DEF Start
    <2>3. c.op \notin {"mark running", "execute", "save run"}
      BY CallFacts DEF ByManifest
    <2>4. \A v \in Workers :
             pc'[v] \in {"mark running", "execute", "save run"} => pc'[v] = pc[v]
      BY <2>2, <2>3 DEF TypeInv, TypeOK
    <2>5. GatePins' = GatePins
      BY <2>1 DEF GatePins
    <2> QED  BY <2>1, <2>4, <2>5 DEF AsApproved, RunAsApproved, Pinning
  <1>7. ASSUME NEW w \in Workers, Work(w), ~drifted'
        PROVE  Pinning' /\ \A r \in Ids : runs'[r].status # "none" =>
                              runs'[r].pins = manifests'[runs'[r].manifest].pins
    <2>1. PICK p, sight : Moved(w, p, sight)
      BY <1>7, WorkMoves DEF Moves
    <2>2. \A v \in Workers \ {w} : pc'[v] = pc[v] /\ call'[v] = call[v] /\ seen'[v] = seen[v]
      BY <2>1, Stepped DEF Moved, TypeInv
    <2>3. /\ pc'[w] = "mark running" => Verify(w)
          /\ pc'[w] = "execute" => MarkRunning(w)
          /\ pc'[w] = "save run" => Execute(w)
      BY <2>1, Stepped DEF Moved, TypeInv
    <2>4. ~drifted /\ GatePins' = GatePins
      BY <1>7, <2>1 DEF Moved, GatePins
    <2>5. Pinning
      BY <2>4 DEF AsApproved
    <2>6. ASSUME NEW v \in Workers, pc'[v] \in {"mark running", "execute"}
          PROVE  manifests'[seen'[v].manifest].pins = GatePins'
      <3>1. CASE v # w
        <4>1. pc[v] \in {"mark running", "execute"} /\ seen'[v] = seen[v]
          BY <2>2, <2>6, <3>1
        <4>2. manifests[seen[v].manifest].pins = GatePins
          BY <2>5, <4>1 DEF Pinning
        <4>3. seen[v].manifest \in Ids /\ Written(seen[v].manifest)
          BY <1>2, <4>1
        <4> QED  BY <1>1, <2>4, <4>1, <4>2, <4>3
      <3>2. CASE v = w /\ pc'[w] = "mark running"
        BY <2>3, <2>4, <3>2, VerifyFacts
      <3>3. CASE v = w /\ pc'[w] = "execute"
        BY <1>1, <1>2, <2>3, <2>4, <2>5, <3>3, MarkFacts, ZenonT(30) DEF Pinning
      <3> QED  BY <2>6, <3>1, <3>2, <3>3
    <2>7. ASSUME NEW v \in Workers, pc'[v] = "save run"
          PROVE  manifests'[seen'[v].manifest].pins = seen'[v].pins
      <3>1. CASE v # w
        <4>1. pc[v] = "save run" /\ seen'[v] = seen[v]
          BY <2>2, <2>7, <3>1
        <4>2. manifests[seen[v].manifest].pins = seen[v].pins
          BY <2>5, <4>1 DEF Pinning
        <4>3. seen[v].manifest \in Ids /\ Written(seen[v].manifest)
          BY <1>2, <4>1
        <4> QED  BY <1>1, <4>1, <4>2, <4>3
      <3>2. CASE v = w
        BY <2>3, <2>5, <2>7, <3>2, ExecuteFacts DEF Pinning
      <3> QED  BY <3>1, <3>2
    <2>8. ASSUME NEW r \in Ids, runs'[r].status # "none"
          PROVE  runs'[r].pins = manifests'[runs'[r].manifest].pins
      <3>1. CASE /\ runs[r].status # "none"
                 /\ runs'[r].manifest = runs[r].manifest /\ runs'[r].pins = runs[r].pins
        <4>1. runs[r].pins = manifests[runs[r].manifest].pins
          BY <2>4, <3>1 DEF AsApproved, RunAsApproved
        <4>2. runs[r].manifest \in Ids /\ Written(runs[r].manifest)
          BY <3>1 DEF Grounded
        <4> QED  BY <1>1, <3>1, <4>1, <4>2
      <3>2. CASE /\ pc[w] = "save run"
                 /\ runs'[r].manifest = seen[w].manifest /\ runs'[r].pins = seen[w].pins
        BY <1>1, <1>2, <2>5, <3>2 DEF Pinning
      <3> QED  BY <1>7, <2>8, <3>1, <3>2, WorkRuns
    <2> QED  BY <2>6, <2>7, <2>8 DEF Pinning
  <1>8. ASSUME NEW w \in Workers, Work(w)
        PROVE  AsApproved'
    BY <1>7, <1>8 DEF AsApproved, RunAsApproved
  <1> QED  BY <1>3, <1>4, <1>5, <1>6, <1>8, NextCases
-----------------------------------------------------------------------------
(* The theorems                                                            *)

IInv == TypeInv /\ Fresh /\ Approvals /\ Grounded /\ AsApproved

(* The invariant the safety of the gated operations rests on holds at      *)
(* first: no request, no manifest, no run.                                 *)
THEOREM InvariantInit == Init => IInv
  <1> SUFFICES ASSUME Init PROVE IInv
    OBVIOUS
  <1>1. TypeInv /\ Fresh
    BY InitType, InitFresh
  <1>2. NoRun.status = "none"
    BY SMT DEF NoRun, Run
  <1>3. /\ \A w \in Workers : pc[w] = "idle"
        /\ \A r \in Ids : started[r] = None /\ runs[r].status = "none"
    BY <1>2 DEF Init
  <1>4. Approvals /\ Grounded /\ Pinning /\ RunAsApproved
    BY <1>3 DEF Approvals, ApprovedRuns, Grounded, Pinning, RunAsApproved
  <1> QED  BY <1>1, <1>4 DEF IInv, AsApproved

(* Every step keeps it: the two actions that write a manifest write one    *)
(* that does not exist, or approve one that does.                          *)
THEOREM InvariantStep == IInv /\ [Next]_vars => IInv'
  <1> SUFFICES ASSUME IInv, [Next]_vars PROVE IInv'
    OBVIOUS
  <1>1. TypeInv /\ Fresh /\ Approvals /\ Grounded /\ AsApproved
    BY DEF IInv
  <1>2. TypeInv'
    BY <1>1, TypeStep
  <1>3. Fresh' /\ Kept
    BY <1>1, <1>2, FreshStep
  <1>4. Approvals'
    BY <1>1, <1>3, ApprovalsStep
  <1>5. Grounded'
    BY <1>1, <1>2, <1>3, GroundedStep
  <1>6. AsApproved'
    BY <1>1, <1>2, <1>3, AsApprovedStep
  <1> QED  BY <1>2, <1>3, <1>4, <1>5, <1>6 DEF IInv

(* No tool runs without a person's approval: whatever requests overlap,    *)
(* wherever the server dies and however the gate changes, every run that   *)
(* was started goes by a manifest that was approved (_run_task and         *)
(* _approve_task of both waves).                                           *)
THEOREM RunsAreApproved == Spec => []ApprovedRuns
  <1>1. IInv => ApprovedRuns
    BY DEF IInv, Approvals
  <1> QED  BY <1>1, InvariantInit, InvariantStep, PTL DEF Spec

(* What ran is what was approved: unless the gate changed between a run's  *)
(* last check and its execution, its binary and rules are those its        *)
(* manifest pins (_verify_manifest_current before _run_task's tool call).  *)
THEOREM RunsAreAsApproved == Spec => []RunAsApproved
  <1>1. IInv => RunAsApproved
    BY DEF IInv, AsApproved
  <1> QED  BY <1>1, InvariantInit, InvariantStep, PTL DEF Spec
-----------------------------------------------------------------------------
(* Requests one by one                                                     *)

(* A request's step from one phase to another, or to its end.              *)
Goes(w, from, to) ==
    /\ pc[w] = from /\ pc'[w] \in {to, "idle"} /\ UNCHANGED counters
    /\ pc'[w] # "idle" => call'[w] = call[w]
    /\ \A v \in Workers \ {w} : pc'[v] = pc[v] /\ call'[v] = call[v] /\ seen'[v] = seen[v]

LEMMA CheckGoes ==
    ASSUME TypeOK, NEW w \in Workers, NEW phase, NEW ok, NEW p, NEW sight,
           Check(w, phase, ok, p, sight)
    PROVE  /\ Goes(w, phase, p) /\ UNCHANGED <<gate, files, started, drifted>>
           /\ pc'[w] # "idle" => ok /\ seen'[w] = sight
  BY Stepped DEF Check, Goes

LEMMA WriteGoes ==
    ASSUME TypeOK, NEW w \in Workers, NEW phase, NEW p, Writes(w, phase, p)
    PROVE  /\ Goes(w, phase, p) /\ pc'[w] = p
           /\ p # "idle" => seen'[w] = seen[w]
           /\ phase \notin Holding => LockFree
  BY Stepped DEF Writes, Goes

LEMMA ApproveGoes ==
    ASSUME TypeOK, NEW w \in Workers, Approve(w)
    PROVE  Goes(w, "approve", "approve manifest") /\ LockFree
  BY Stepped DEF Approve, Goes

LEMMA LogGoes ==
    ASSUME TypeOK, NEW w \in Workers, LogReview(w)
    PROVE  Goes(w, "log review", "idle") /\ pc'[w] = "idle"
  BY Stepped DEF LogReview, Goes

(* Each phase is entered from one other.                                   *)
Way(w) ==
    \/ Create(w) /\ Goes(w, "create", "insert")
    \/ Insert(w) /\ Goes(w, "insert", "idle")
    \/ Submit(w) /\ Goes(w, "submit", "idle")
    \/ Prepare(w) /\ Goes(w, "prepare", "describe")
    \/ Describe(w) /\ Goes(w, "describe", "write manifest")
    \/ WriteManifest(w) /\ Goes(w, "write manifest", "bind manifest") /\ LockFree
    \/ BindManifest(w) /\ Goes(w, "bind manifest", "idle")
    \/ Approve(w) /\ Goes(w, "approve", "approve manifest") /\ LockFree
    \/ ApproveManifest(w) /\ Goes(w, "approve manifest", "idle")
    \/ BeginRun(w) /\ Goes(w, "run", "verify")
    \/ Verify(w) /\ Goes(w, "verify", "mark running")
    \/ MarkRunning(w) /\ Goes(w, "mark running", "execute")
    \/ Execute(w) /\ Goes(w, "execute", "save run")
    \/ SaveRun(w) /\ Goes(w, "save run", "finish") /\ LockFree
    \/ Finish(w) /\ Goes(w, "finish", "log run")
    \/ LogRun(w) /\ Goes(w, "log run", "idle")
    \/ Raises(w) /\ \E p \in Trying : Goes(w, p, "fail")
    \/ Fail(w) /\ Goes(w, "fail", "idle")
    \/ Review(w) /\ Goes(w, "review", "save verdict")
    \/ SaveVerdict(w) /\ Goes(w, "save verdict", "close task") /\ LockFree
    \/ CloseTask(w) /\ (Goes(w, "close task", "checkpoint") \/ Goes(w, "close task", "log review"))
    \/ Checkpoint(w) /\ Goes(w, "checkpoint", "log review")
    \/ LogReview(w) /\ Goes(w, "log review", "idle")

LEMMA Ways ==
    ASSUME TypeOK, NEW w \in Workers, Work(w)
    PROVE  Way(w)
  <1>1. CASE Create(w) \/ Prepare(w) \/ Describe(w) \/ Review(w)
    BY <1>1, CheckGoes DEF Create, Prepare, Describe, Review, Way
  <1>2. CASE BeginRun(w) \/ Verify(w) \/ Execute(w)
    BY <1>2, CheckGoes DEF BeginRun, Verify, Execute, Way
  <1>9. CASE LogRun(w) \/ Raises(w)
    BY <1>9, CheckGoes DEF LogRun, Raises, Way
  <1>3. CASE Insert(w) \/ Submit(w)
    BY <1>3, WriteGoes DEF Insert, Submit, Way
  <1>8. CASE WriteManifest(w)
    <2>1. Goes(w, "write manifest", "bind manifest") /\ LockFree
      <3>1. Writes(w, "write manifest", "bind manifest") /\ "write manifest" \notin Holding
        BY <1>8 DEF WriteManifest, Holding
      <3> QED  BY <3>1, WriteGoes
    <2> QED  BY <1>8, <2>1 DEF Way
  <1>7. CASE BindManifest(w) \/ ApproveManifest(w)
    BY <1>7, WriteGoes DEF BindManifest, ApproveManifest, Way
  <1>4. CASE MarkRunning(w) \/ SaveRun(w) \/ Finish(w) \/ Fail(w)
    BY <1>4, WriteGoes DEF MarkRunning, SaveRun, Finish, Fail, Way, Holding
  <1>5. CASE SaveVerdict(w) \/ CloseTask(w) \/ Checkpoint(w)
    BY <1>5, WriteGoes DEF SaveVerdict, CloseTask, Checkpoint, AfterVerdict, Way, Holding
  <1>6. CASE Approve(w) \/ LogReview(w)
    BY <1>6, ApproveGoes, LogGoes DEF Way
  <1> QED  BY <1>1, <1>2, <1>3, <1>4, <1>5, <1>6, <1>7, <1>8, <1>9
           DEF Work, Manifesting, Executing, Reviewing

LEMMA WayGoes ==
    ASSUME NEW w \in Workers, Way(w)
    PROVE  /\ pc[w] # "idle" /\ UNCHANGED counters
           /\ pc'[w] \in Holding => pc[w] \in Holding \/ LockFree
           /\ pc'[w] = "bind manifest" => WriteManifest(w)
           /\ pc'[w] = "verify" => BeginRun(w)
           /\ pc'[w] = "mark running" => Verify(w)
           /\ pc'[w] # "idle" => call'[w] = call[w]
           /\ \A v \in Workers \ {w} : pc'[v] = pc[v] /\ call'[v] = call[v] /\ seen'[v] = seen[v]
  <1>1. /\ pc[w] # "idle" /\ UNCHANGED counters
        /\ pc'[w] # "idle" => call'[w] = call[w]
        /\ \A v \in Workers \ {w} : pc'[v] = pc[v] /\ call'[v] = call[v] /\ seen'[v] = seen[v]
    BY DEF Way, Goes, Trying
  <1>2. /\ pc'[w] \in Holding => pc[w] \in Holding \/ LockFree
        /\ pc'[w] = "bind manifest" => WriteManifest(w)
        /\ pc'[w] = "verify" => BeginRun(w)
        /\ pc'[w] = "mark running" => Verify(w)
    BY DEF Way, Goes, Holding
  <1> QED  BY <1>1, <1>2
-----------------------------------------------------------------------------
(* How many requests are under way                                         *)

Busy == {w \in Workers : pc[w] # "idle"}

BusyInv == overlaps \in Nat /\ IsFiniteSet(Busy) /\ Cardinality(Busy) <= 1 + overlaps

(* One request at a time is between two writes of one section of _LOCK.    *)
Exclusive == \A v, w \in Workers : pc[v] \in Holding /\ pc[w] \in Holding => v = w

LEMMA Fewer ==
    ASSUME NEW S, IsFiniteSet(S), NEW T \in SUBSET S
    PROVE  /\ IsFiniteSet(T) /\ Cardinality(T) \in Nat /\ Cardinality(S) \in Nat
           /\ Cardinality(T) <= Cardinality(S)
  BY FS_Subset, FS_CardinalityType

LEMMA OneMore ==
    ASSUME NEW S, IsFiniteSet(S), NEW x, NEW T \in SUBSET (S \cup {x})
    PROVE  /\ IsFiniteSet(T) /\ Cardinality(T) \in Nat /\ Cardinality(S) \in Nat
           /\ Cardinality(T) <= Cardinality(S) + 1
  <1>1. /\ IsFiniteSet(S \cup {x}) /\ Cardinality(S) \in Nat
        /\ Cardinality(S \cup {x}) \in {Cardinality(S), Cardinality(S) + 1}
    BY FS_AddElement, FS_CardinalityType
  <1>2. /\ IsFiniteSet(T) /\ Cardinality(T) \in Nat
        /\ Cardinality(T) <= Cardinality(S \cup {x})
    BY <1>1, Fewer
  <1> QED  BY <1>1, <1>2

LEMMA BusyStep ==
    ASSUME TypeOK, BusyInv, [Next]_vars
    PROVE  BusyInv'
  <1>1. CASE Busy' \subseteq Busy /\ overlaps' = overlaps
    BY <1>1, Fewer DEF BusyInv
  <1>2. CASE ChangeGate \/ UNCHANGED vars
    BY <1>1, <1>2 DEF ChangeGate, vars, counters, Busy
  <1>3. CASE Cut
    <2>1. overlaps' = overlaps /\ \A v \in Workers : pc'[v] # "idle" => pc'[v] = pc[v]
      BY <1>3, CutFacts
    <2> QED  BY <1>1, <2>1 DEF Busy
  <1>4. ASSUME NEW w \in Workers, Work(w)
        PROVE  BusyInv'
    <2>1. /\ pc[w] # "idle" /\ UNCHANGED counters
          /\ \A v \in Workers \ {w} : pc'[v] = pc[v]
      BY <1>4, Ways, WayGoes
    <2> QED  BY <1>1, <2>1 DEF Busy, counters
  <1>5. ASSUME NEW w \in Workers, Start(w)
        PROVE  BusyInv'
    <2>1. PICK c \in Calls :
             /\ pc' = [pc EXCEPT ![w] = c.op]
             /\ \/ overlaps' = overlaps /\ \A v \in Workers : pc[v] = "idle"
                \/ overlaps' = overlaps + 1
      BY <1>5, Started
    <2>2. \A v \in Workers \ {w} : pc'[v] = pc[v]
      BY <2>1 DEF TypeOK
    <2>3. Busy' \subseteq Busy \cup {w}
      BY <2>2 DEF Busy
    <2>4. /\ IsFiniteSet(Busy') /\ Cardinality(Busy') \in Nat /\ Cardinality(Busy) \in Nat
          /\ Cardinality(Busy') <= Cardinality(Busy) + 1
      BY <2>3, OneMore DEF BusyInv
    <2>5. CASE overlaps' = overlaps + 1
      BY <2>4, <2>5 DEF BusyInv
    <2>6. CASE overlaps' = overlaps /\ \A v \in Workers : pc[v] = "idle"
      <3>1. Busy = {} /\ Cardinality({}) = 0
        BY <2>6, FS_EmptySet DEF Busy
      <3> QED  BY <2>4, <2>6, <3>1 DEF BusyInv
    <2> QED  BY <2>1, <2>5, <2>6
  <1> QED  BY <1>2, <1>3, <1>4, <1>5, NextCases

LEMMA ExclusiveStep ==
    ASSUME TypeOK, Exclusive, [Next]_vars
    PROVE  Exclusive'
  <1>1. CASE ChangeGate \/ UNCHANGED vars
    BY <1>1 DEF ChangeGate, vars, Exclusive
  <1>2. CASE Cut
    <2>1. \A w \in Workers : pc'[w] # "idle" => pc'[w] = pc[w]
      BY <1>2, CutFacts
    <2> QED  BY <2>1 DEF Exclusive, Holding
  <1>3. ASSUME NEW w \in Workers, Work(w)
        PROVE  Exclusive'
    <2>1. /\ \A v \in Workers \ {w} : pc'[v] = pc[v]
          /\ pc'[w] \in Holding => pc[w] \in Holding \/ LockFree
      BY <1>3, Ways, WayGoes
    <2> QED  BY <2>1 DEF Exclusive, LockFree
  <1>4. ASSUME NEW w \in Workers, Start(w)
        PROVE  Exclusive'
    <2>1. PICK c \in Calls : pc' = [pc EXCEPT ![w] = c.op]
      BY <1>4, Started
    <2>2. c.op \in {"create", "submit", "prepare", "approve", "run", "review"}
      BY DEF Calls
    <2>3. c.op \notin Holding
      BY <2>2 DEF Holding
    <2>4. pc'[w] \notin Holding /\ \A v \in Workers \ {w} : pc'[v] = pc[v]
      BY <2>1, <2>3 DEF TypeOK
    <2> QED  BY <2>4 DEF Exclusive
  <1> QED  BY <1>1, <1>2, <1>3, <1>4, NextCases
-----------------------------------------------------------------------------
(* Whose a manifest is                                                     *)

Owned ==
    /\ \A t \in Tasks : tasks[t].manifest # None =>
          Written(tasks[t].manifest) /\ manifests[tasks[t].manifest].task = t
    /\ \A w \in Workers : pc[w] = "bind manifest" =>
          manifests[call[w].id].status = "PREPARED" /\ manifests[call[w].id].task = call[w].task
    /\ \A w \in Workers : pc[w] \in {"verify", "mark running"} =>
          Written(seen[w].manifest) /\ manifests[seen[w].manifest].task = call[w].task

(* A task whose manifest was run is not approved any more: it is           *)
(* approved again only with a manifest nobody has approved.                *)
Disarmed ==
    \A r \in Ids, t \in Tasks :
        started[r] # None /\ tasks[t].manifest = started[r] => tasks[t].status # "APPROVED"

LEMMA TasksKept ==
    ASSUME TypeInv, Fresh, NEW w \in Workers, Work(w), NEW m \in Ids, Written(m)
    PROVE  manifests'[m].task = manifests[m].task
  <1>1. CASE WriteManifest(w)
    <2>1. ~Written(call[w].id)
      BY <1>1, WriteFacts DEF Fresh, Unmade, Unwritten
    <2> QED  BY <1>1, <2>1, WriteFacts
  <1>2. CASE ApproveManifest(w)
    <2> DEFINE k == seen[w].manifest
    <2>1. manifests' = [manifests EXCEPT ![k] =
                           Manifest(manifests[k].task, "APPROVED", manifests[k].pins)]
      BY <1>2 DEF ApproveManifest
    <2>2. Manifest(manifests[k].task, "APPROVED", manifests[k].pins).task = manifests[k].task
      BY DEF Manifest
    <2> QED  BY <2>1, <2>2 DEF TypeInv, TypeOK
  <1> QED  BY <1>1, <1>2, Untouched

(* Of a task only the approval and the binding of a manifest leave         *)
(* something to run, or leave it so.                                       *)
LEMMA TaskWrites ==
    ASSUME TypeInv, NEW w \in Workers, Work(w), NEW t \in Tasks
    PROVE  \/ tasks'[t] = tasks[t]
           \/ /\ tasks'[t].status # "APPROVED"
              /\ tasks'[t].manifest \in {None, tasks[t].manifest}
           \/ /\ BindManifest(w) /\ t = call[w].task
              /\ tasks'[t].manifest = call[w].id /\ tasks'[t].status = tasks[t].status
           \/ /\ Approve(w) /\ t = call[w].task /\ tasks'[t].manifest = tasks[t].manifest
              /\ manifests[tasks[t].manifest].status = "PREPARED"
  <1>1. ASSUME NEW u, NEW x, SetTask(u, x)
        PROVE  tasks'[t] = tasks[t] \/ (t = u /\ tasks'[t] = x)
    BY <1>1 DEF SetTask, TypeInv, TypeOK
  <1>2. ASSUME NEW s \in Statuses
        PROVE  WithStatus(t, s).status = s /\ WithStatus(t, s).manifest = tasks[t].manifest
    BY <1>2, TaskFields DEF TypeInv
  <1>3. CASE Insert(w)
    <2> DEFINE x == Task("DRAFT", None, None, seen[w].pins.rules)
    <2>1. SetTask(call[w].task, x)
      BY <1>3 DEF Insert
    <2>2. x.status = "DRAFT" /\ x.manifest = None
      BY DEF Task
    <2> HIDE DEF x
    <2> QED  BY <1>1, <2>1, <2>2
  <1>4. CASE \E s \in Statuses \ {"APPROVED"} : \E u : SetTask(u, WithStatus(u, s))
    BY <1>1, <1>2, <1>4
  <1>5. CASE Submit(w) \/ Finish(w) \/ Fail(w)
    <2>1. "READY_FOR_REVIEW" \in Statuses /\ "HUMAN_RESULT_REVIEW" \in Statuses /\ "FAILED" \in Statuses
      BY DEF Statuses
    <2> QED  BY <1>4, <1>5, <2>1 DEF Submit, Finish, Fail
  <1>6. CASE CloseTask(w)
    <2>1. call[w].verdict \in Statuses \ {"APPROVED"}
      BY <1>6 DEF CloseTask, Writes, TypeInv, CallInv, OfRun, Verdicts, Statuses
    <2> QED  BY <1>4, <1>6, <2>1 DEF CloseTask
  <1>7. CASE MarkRunning(w)
    <2>1. SetTask(call[w].task, Running(w))
      BY <1>7 DEF MarkRunning
    <2>2. Running(w).status = "RUNNING" /\ Running(w).manifest = tasks[call[w].task].manifest
      BY DEF Running, Task
    <2> QED  BY <1>1, <2>1, <2>2
  <1>8. CASE BindManifest(w)
    <2> DEFINE u == call[w].task
               x == Task(tasks[u].status, call[w].id, tasks[u].run, tasks[u].rules)
    <2>1. SetTask(u, x)
      BY <1>8 DEF BindManifest
    <2>2. x.status = tasks[u].status /\ x.manifest = call[w].id
      BY DEF Task
    <2> HIDE DEF x
    <2> QED  BY <1>1, <1>8, <2>1, <2>2
  <1>9. CASE Approve(w)
    <2>1. \/ UNCHANGED tasks
          \/ /\ SetTask(call[w].task, WithStatus(call[w].task, "APPROVED"))
             /\ manifests[tasks[call[w].task].manifest].status = "PREPARED"
      BY <1>9 DEF Approve
    <2>2. "APPROVED" \in Statuses
      BY DEF Statuses
    <2> QED  BY <1>1, <1>2, <1>9, <2>1, <2>2
  <1>10. CASE Create(w) \/ Prepare(w) \/ Describe(w) \/ BeginRun(w) \/ Verify(w) \/ Execute(w)
              \/ LogRun(w) \/ Raises(w) \/ Review(w)
    BY <1>10 DEF Create, Prepare, Describe, BeginRun, Verify, Execute, LogRun, Raises, Review, Check,
       files
  <1>11. CASE WriteManifest(w) \/ ApproveManifest(w) \/ SaveRun(w) \/ SaveVerdict(w) \/ Checkpoint(w)
              \/ LogReview(w)
    BY <1>11 DEF WriteManifest, ApproveManifest, SaveRun, SaveVerdict, Checkpoint, LogReview
  <1> QED  BY <1>3, <1>5, <1>6, <1>7, <1>8, <1>9, <1>10, <1>11
           DEF Work, Manifesting, Executing, Reviewing

LEMMA BeginFacts ==
    ASSUME TypeInv, NEW w \in Workers, BeginRun(w), pc'[w] = "verify"
    PROVE  /\ call[w].task \in Tasks /\ tasks[call[w].task].status = "APPROVED"
           /\ seen'[w].manifest = tasks[call[w].task].manifest
           /\ tasks[call[w].task].manifest \in Ids
           /\ UNCHANGED <<files, started>>
  <1> DEFINE t == call[w].task
  <1>1. /\ pc[w] = "run" /\ tasks[t].status = "APPROVED" /\ UNCHANGED <<files, started>>
        /\ seen'[w] = Saw(tasks[t].manifest, NoPins)
    <2> DEFINE ok == tasks[t].status = "APPROVED"
               sight == Saw(tasks[t].manifest, NoPins)
    <2>1. Check(w, "run", ok, "verify", sight)
      BY DEF BeginRun
    <2> HIDE DEF t, ok, sight
    <2>2. /\ Goes(w, "run", "verify") /\ UNCHANGED <<files, started>>
          /\ ok /\ seen'[w] = sight
      BY <2>1, CheckGoes DEF TypeInv
    <2> QED  BY <2>2 DEF Goes, ok, sight
  <1>2. t \in Tasks
    BY <1>1 DEF TypeInv, CallInv, OfTask
  <1>3. tasks[t].manifest \in Ids
    BY <1>1, <1>2, TaskFields DEF TypeInv, HasManifest
  <1>4. Saw(tasks[t].manifest, NoPins).manifest = tasks[t].manifest
    BY DEF Saw
  <1> QED  BY <1>1, <1>2, <1>3, <1>4

LEMMA OwnedWork ==
    ASSUME TypeInv, Fresh, Kept, Exclusive, Owned, NEW w \in Workers, Work(w)
    PROVE  Owned'
  <1>1. /\ \A v \in Workers \ {w} : pc'[v] = pc[v] /\ call'[v] = call[v] /\ seen'[v] = seen[v]
        /\ pc'[w] # "idle" => call'[w] = call[w]
        /\ pc'[w] = "bind manifest" => WriteManifest(w)
        /\ pc'[w] = "verify" => BeginRun(w)
        /\ pc'[w] = "mark running" => Verify(w)
    BY Ways, WayGoes DEF TypeInv
  <1>2. ASSUME NEW m \in Ids, Written(m)
        PROVE  manifests'[m].status # "none" /\ manifests'[m].task = manifests[m].task
    BY <1>2, TasksKept DEF Kept
  <1>3. ASSUME NEW t \in Tasks, tasks[t].manifest # None
        PROVE  /\ tasks[t].manifest \in Ids
               /\ manifests'[tasks[t].manifest].status # "none"
               /\ manifests'[tasks[t].manifest].task = t
    <2>1. tasks[t].manifest \in Ids
      BY <1>3, TaskFields DEF TypeInv
    <2> QED  BY <1>2, <1>3, <2>1 DEF Owned
  <1>4. ASSUME NEW t \in Tasks, tasks'[t].manifest # None
        PROVE  manifests'[tasks'[t].manifest].status # "none" /\ manifests'[tasks'[t].manifest].task = t
    <2>1. CASE tasks'[t].manifest = tasks[t].manifest
      BY <1>3, <1>4, <2>1
    <2>2. CASE BindManifest(w) /\ t = call[w].task /\ tasks'[t].manifest = call[w].id
      <3>1. pc[w] = "bind manifest" /\ manifests' = manifests
        BY <2>2 DEF BindManifest, Writes
      <3> QED  BY <2>2, <3>1 DEF Owned
    <2> QED  BY <1>4, <2>1, <2>2, TaskWrites
  <1>5. ASSUME NEW v \in Workers, pc'[v] = "bind manifest"
        PROVE  /\ manifests'[call'[v].id].status = "PREPARED"
               /\ manifests'[call'[v].id].task = call'[v].task
    <2>1. CASE v = w
      <3>1. WriteManifest(w) /\ call'[w] = call[w]
        BY <1>1, <1>5, <2>1
      <3> DEFINE x == Manifest(call[w].task, "PREPARED", seen[w].pins)
      <3>2. manifests' = [manifests EXCEPT ![call[w].id] = x] /\ call[w].id \in Ids
        BY <3>1, WriteFacts DEF WriteManifest
      <3>3. x.status = "PREPARED" /\ x.task = call[w].task
        BY DEF Manifest
      <3> HIDE DEF x
      <3> QED  BY <2>1, <3>1, <3>2, <3>3 DEF TypeInv, TypeOK
    <2>2. CASE v # w
      <3>1. pc[v] = "bind manifest" /\ call'[v] = call[v]
        BY <1>1, <1>5, <2>2
      <3>2. pc[v] \in Holding
        BY <3>1 DEF Holding
      <3>3. ~WriteManifest(w)
        <4>1. "write manifest" \notin Holding
          BY DEF Holding
        <4>2. WriteManifest(w) => LockFree
          BY <4>1 DEF WriteManifest, Writes
        <4> QED  BY <3>2, <4>2 DEF LockFree
      <3>4. ~ApproveManifest(w)
        <4>1. ApproveManifest(w) => pc[w] \in Holding
          BY DEF ApproveManifest, Writes, Holding
        <4> QED  BY <2>2, <3>2, <4>1 DEF Exclusive
      <3>5. manifests' = manifests
        BY <3>3, <3>4, Untouched
      <3> QED  BY <3>1, <3>5 DEF Owned
    <2> QED  BY <2>1, <2>2
  <1>6. ASSUME NEW v \in Workers, pc'[v] \in {"verify", "mark running"}
        PROVE  /\ manifests'[seen'[v].manifest].status # "none"
               /\ manifests'[seen'[v].manifest].task = call'[v].task
    <2>1. ASSUME pc[v] \in {"verify", "mark running"}, seen'[v].manifest = seen[v].manifest,
                 call'[v] = call[v]
          PROVE  /\ manifests'[seen'[v].manifest].status # "none"
                 /\ manifests'[seen'[v].manifest].task = call'[v].task
      <3>1. seen[v].manifest \in Ids
        BY <2>1 DEF TypeInv, CallInv, ByManifest
      <3>2. Written(seen[v].manifest) /\ manifests[seen[v].manifest].task = call[v].task
        BY <2>1 DEF Owned
      <3>3. /\ manifests'[seen[v].manifest].status # "none"
            /\ manifests'[seen[v].manifest].task = manifests[seen[v].manifest].task
        BY <1>2, <3>1, <3>2
      <3> QED  BY <2>1, <3>2, <3>3
    <2>2. CASE v # w
      BY <1>1, <1>6, <2>1, <2>2
    <2>3. CASE v = w /\ pc'[w] = "mark running"
      <3>1. seen'[w].manifest = seen[w].manifest /\ pc[w] = "verify" /\ call'[w] = call[w]
        BY <1>1, <2>3, VerifyFacts DEF Verify, Check
      <3> QED  BY <2>1, <2>3, <3>1
    <2>4. CASE v = w /\ pc'[w] = "verify"
      <3>1. /\ call'[w] = call[w] /\ call[w].task \in Tasks
            /\ seen'[w].manifest = tasks[call[w].task].manifest
            /\ tasks[call[w].task].manifest \in Ids
        BY <1>1, <2>4, BeginFacts
      <3>2. tasks[call[w].task].manifest # None
        BY <3>1 DEF Ids, None
      <3> QED  BY <1>3, <2>4, <3>1, <3>2
    <2> QED  BY <1>6, <2>2, <2>3, <2>4
  <1> QED  BY <1>4, <1>5, <1>6 DEF Owned, Written

LEMMA DisarmedWork ==
    ASSUME TypeInv, TypeInv', Fresh, Kept, Exclusive, Owned, Approvals, Disarmed,
           NEW w \in Workers, Work(w)
    PROVE  Disarmed'
  <1> SUFFICES ASSUME NEW r \in Ids, NEW t \in Tasks, started'[r] # None,
                      tasks'[t].manifest = started'[r]
               PROVE  tasks'[t].status # "APPROVED"
    BY DEF Disarmed
  <1>1. ASSUME NEW m, m \in Ids, m # None, m = started[r]
        PROVE  manifests[m].status = "APPROVED"
    BY <1>1 DEF Approvals, ApprovedRuns
  <1>2. started'[r] \in Ids
    BY DEF TypeInv, TypeOK
  <1>3. CASE MarkRunning(w) /\ r = call[w].id
    <2> DEFINE m == seen[w].manifest
               u == call[w].task
    <2>1. /\ pc[w] = "mark running" /\ started'[r] = m
          /\ SetTask(u, Running(w))
      BY <1>3, MarkFacts DEF MarkRunning
    <2>2. manifests[m].task = u
      BY <2>1 DEF Owned
    <2>3. Running(w).status = "RUNNING" /\ Running(w).manifest = tasks[u].manifest
      BY DEF Running, Task
    <2>4. CASE t = u
      BY <2>1, <2>3, <2>4 DEF SetTask, TypeInv, TypeOK
    <2>5. CASE t # u
      <3>1. tasks[t].manifest = m /\ m # None
        BY <2>1, <2>5 DEF SetTask, TypeInv, TypeOK
      <3> QED  BY <2>2, <2>5, <3>1 DEF Owned
    <2> QED  BY <2>4, <2>5
  <1>4. CASE started'[r] = started[r]
    <2>1. CASE tasks'[t] = tasks[t]
      BY <1>4, <2>1 DEF Disarmed
    <2>2. CASE BindManifest(w) /\ tasks'[t].manifest = call[w].id
      <3>1. manifests[call[w].id].status = "PREPARED"
        BY <2>2 DEF BindManifest, Writes, Owned
      <3> QED  BY <1>1, <1>2, <1>4, <2>2, <3>1
    <2>3. CASE Approve(w) /\ tasks'[t].manifest = tasks[t].manifest
                 /\ manifests[tasks[t].manifest].status = "PREPARED"
      BY <1>1, <1>2, <1>4, <2>3
    <2> QED  BY <2>1, <2>2, <2>3, TaskWrites
  <1>5. MarkRunning(w) => \A s \in Ids : s # call[w].id => started'[s] = started[s]
    BY MarkFacts
  <1> QED  BY <1>3, <1>4, <1>5, Untouched

(* A request that has just come is in none of the phases that Owned and    *)
(* SpentInv are about.                                                     *)
LEMMA StartEntry ==
    ASSUME TypeOK, NEW w \in Workers, Start(w)
    PROVE  /\ UNCHANGED <<tasks, manifests, runs, checkpoints, started, seen>>
           /\ pc[w] = "idle" /\ pc'[w] \notin {"bind manifest", "verify", "mark running"}
           /\ \A v \in Workers \ {w} : pc'[v] = pc[v] /\ call'[v] = call[v]
  <1>1. PICK c \in Calls :
           /\ pc[w] = "idle" /\ call' = [call EXCEPT ![w] = c] /\ pc' = [pc EXCEPT ![w] = c.op]
           /\ UNCHANGED <<files, seen, started>>
    BY Started
  <1>2. c.op \notin {"bind manifest", "verify", "mark running"}
    BY CallFacts DEF ByManifest
  <1>3. pc'[w] = c.op /\ \A v \in Workers \ {w} : pc'[v] = pc[v] /\ call'[v] = call[v]
    BY <1>1 DEF TypeOK
  <1> QED  BY <1>1, <1>2, <1>3 DEF files

LEMMA OwnedStep ==
    ASSUME TypeInv, Fresh, Kept, Exclusive, Owned, [Next]_vars
    PROVE  Owned'
  <1>1. CASE ChangeGate \/ UNCHANGED vars
    BY <1>1 DEF ChangeGate, vars, files, Owned, Written
  <1>2. CASE Cut
    <2>1. /\ tasks' = tasks /\ manifests' = manifests
          /\ \A v \in Workers : pc'[v] # "idle" =>
                pc'[v] = pc[v] /\ call'[v] = call[v] /\ seen'[v] = seen[v]
      BY <1>2, CutFacts DEF files, TypeInv
    <2> QED  BY <2>1 DEF Owned, Written
  <1>3. ASSUME NEW w \in Workers, Start(w)
        PROVE  Owned'
    <2>1. /\ tasks' = tasks /\ manifests' = manifests /\ seen' = seen
          /\ \A v \in Workers : pc'[v] \in {"bind manifest", "verify", "mark running"} =>
                pc'[v] = pc[v] /\ call'[v] = call[v]
      BY <1>3, StartEntry DEF TypeInv
    <2> QED  BY <2>1, ZenonT(30) DEF Owned, Written
  <1> QED  BY <1>1, <1>2, <1>3, OwnedWork, NextCases

LEMMA DisarmedStep ==
    ASSUME TypeInv, TypeInv', Fresh, Kept, Exclusive, Owned, Approvals, Disarmed, [Next]_vars
    PROVE  Disarmed'
  <1>1. CASE ChangeGate \/ UNCHANGED vars
    BY <1>1 DEF ChangeGate, vars, files, Disarmed
  <1>2. CASE Cut
    BY <1>2, CutFacts DEF files, Disarmed, TypeInv
  <1>3. ASSUME NEW w \in Workers, Start(w)
        PROVE  Disarmed'
    BY <1>3, StartEntry DEF TypeInv, Disarmed
  <1> QED  BY <1>1, <1>2, <1>3, DisarmedWork, NextCases
-----------------------------------------------------------------------------
(* How often a manifest is run                                             *)

(* The runs that were started of a manifest, and the requests that may     *)
(* start one more.                                                         *)
Starts(m) == {r \in Ids : started[r] = m}

Ready(m) == {w \in Workers : pc[w] \in {"verify", "mark running"} /\ seen[w].manifest = m}

SpentInv == \A m \in Ids : Cardinality(Starts(m)) + Cardinality(Ready(m)) <= 1 + overlaps

LEMMA SpentSets ==
    ASSUME BusyInv, NEW m
    PROVE  /\ IsFiniteSet(Starts(m)) /\ Cardinality(Starts(m)) \in Nat
           /\ IsFiniteSet(Ready(m)) /\ Cardinality(Ready(m)) \in Nat
           /\ Ready(m) \subseteq Busy /\ Cardinality(Ready(m)) <= 1 + overlaps
  <1>1. IsFiniteSet(Ids)
    BY BoundsAssumption, FS_Interval DEF Ids
  <1>2. Starts(m) \in SUBSET Ids /\ Ready(m) \in SUBSET Busy
    BY DEF Starts, Ready, Busy
  <1>3. IsFiniteSet(Starts(m)) /\ Cardinality(Starts(m)) \in Nat
    BY <1>1, <1>2, Fewer
  <1>4. /\ IsFiniteSet(Ready(m)) /\ Cardinality(Ready(m)) \in Nat
        /\ Cardinality(Busy) \in Nat /\ Cardinality(Ready(m)) <= Cardinality(Busy)
    BY <1>2, Fewer DEF BusyInv
  <1>5. Cardinality(Ready(m)) <= 1 + overlaps
    BY <1>4 DEF BusyInv
  <1> QED  BY <1>2, <1>3, <1>4, <1>5

(* The count does not grow where neither set does.                         *)
LEMMA SpentKept ==
    ASSUME BusyInv, NEW m, Cardinality(Starts(m)) + Cardinality(Ready(m)) <= 1 + overlaps,
           overlaps' \in Nat, overlaps' >= overlaps,
           Starts(m)' \subseteq Starts(m), Ready(m)' \subseteq Ready(m)
    PROVE  Cardinality(Starts(m)') + Cardinality(Ready(m)') <= 1 + overlaps'
  <1>1. /\ IsFiniteSet(Starts(m)) /\ IsFiniteSet(Ready(m)) /\ overlaps \in Nat
    BY SpentSets DEF BusyInv
  <1>2. /\ Cardinality(Starts(m)') \in Nat /\ Cardinality(Starts(m)) \in Nat
        /\ Cardinality(Starts(m)') <= Cardinality(Starts(m))
    BY <1>1, Fewer
  <1>3. /\ Cardinality(Ready(m)') \in Nat /\ Cardinality(Ready(m)) \in Nat
        /\ Cardinality(Ready(m)') <= Cardinality(Ready(m))
    BY <1>1, Fewer
  <1> QED  BY <1>1, <1>2, <1>3

LEMMA SpentWork ==
    ASSUME TypeInv, BusyInv, BusyInv', Disarmed, SpentInv, NEW w \in Workers, Work(w), NEW m \in Ids
    PROVE  Cardinality(Starts(m)') + Cardinality(Ready(m)') <= 1 + overlaps'
  <1>1. /\ \A v \in Workers \ {w} : pc'[v] = pc[v] /\ seen'[v] = seen[v]
        /\ pc'[w] = "verify" => BeginRun(w)
        /\ pc'[w] = "mark running" => Verify(w)
        /\ overlaps' = overlaps /\ overlaps \in Nat
    BY Ways, WayGoes DEF TypeInv, counters, BusyInv
  <1>2. /\ IsFiniteSet(Starts(m)) /\ Cardinality(Starts(m)) \in Nat
        /\ IsFiniteSet(Ready(m)) /\ Cardinality(Ready(m)) \in Nat
        /\ Cardinality(Starts(m)) + Cardinality(Ready(m)) <= 1 + overlaps
    BY SpentSets DEF SpentInv
  <1>a. overlaps' = overlaps /\ overlaps \in Nat /\ overlaps' \in Nat /\ overlaps' >= overlaps
    <2>1. overlaps' = overlaps /\ overlaps \in Nat
      BY <1>1
    <2> QED  BY <2>1
  <1>3. CASE BeginRun(w) /\ pc'[w] = "verify"
    <2> DEFINE t == call[w].task
    <2>1. /\ t \in Tasks /\ tasks[t].status = "APPROVED" /\ seen'[w].manifest = tasks[t].manifest
          /\ started' = started
      BY <1>3, BeginFacts
    <2>2. CASE tasks[t].manifest = m
      <3>1. Starts(m)' = {}
        <4>1. ASSUME NEW r \in Ids, started[r] = m
              PROVE  FALSE
          <5>1. started[r] # None
            BY <4>1 DEF Ids, None
          <5> QED  BY <2>1, <2>2, <4>1, <5>1 DEF Disarmed
        <4> QED  BY <2>1, <4>1 DEF Starts
      <3>2. Ready(m)' \in SUBSET (Busy') /\ IsFiniteSet(Busy')
        BY DEF Ready, Busy, BusyInv
      <3>3. /\ Cardinality(Ready(m)') \in Nat /\ Cardinality(Busy') \in Nat
            /\ Cardinality(Ready(m)') <= Cardinality(Busy')
        BY <3>2, Fewer
      <3>4. Cardinality(Starts(m)') = 0
        BY <3>1, FS_EmptySet
      <3>5. Cardinality(Busy') <= 1 + overlaps'
        BY DEF BusyInv
      <3> QED  BY <1>a, <3>3, <3>4, <3>5
    <2>3. CASE tasks[t].manifest # m
      <3>1. Starts(m)' \subseteq Starts(m)
        BY <2>1 DEF Starts
      <3>2. Ready(m)' \subseteq Ready(m)
        BY <1>1, <2>1, <2>3 DEF Ready
      <3> QED  BY <1>a, <1>2, <3>1, <3>2, SpentKept
    <2> QED  BY <2>2, <2>3
  <1>4. CASE MarkRunning(w)
    <2>1. /\ pc[w] = "mark running" /\ started'[call[w].id] = seen[w].manifest
          /\ \A r \in Ids : r # call[w].id => started'[r] = started[r]
          /\ pc'[w] = "execute"
      BY <1>4, MarkFacts
    <2>2. CASE seen[w].manifest = m
      <3>1. /\ Starts(m)' \in SUBSET (Starts(m) \cup {call[w].id})
            /\ Ready(m)' \in SUBSET (Ready(m) \ {w}) /\ w \in Ready(m)
        BY <1>1, <2>1, <2>2 DEF Starts, Ready
      <3>2. /\ Cardinality(Starts(m)') \in Nat
            /\ Cardinality(Starts(m)') <= Cardinality(Starts(m)) + 1
        BY <1>2, <3>1, OneMore
      <3>3. /\ IsFiniteSet(Ready(m) \ {w})
            /\ Cardinality(Ready(m) \ {w}) = Cardinality(Ready(m)) - 1
        BY <1>2, <3>1, FS_RemoveElement
      <3>4. /\ Cardinality(Ready(m)') \in Nat
            /\ Cardinality(Ready(m)') <= Cardinality(Ready(m) \ {w})
        BY <3>1, <3>3, Fewer
      <3> QED  BY <1>a, <1>2, <3>2, <3>3, <3>4
    <2>3. CASE seen[w].manifest # m
      <3>1. Starts(m)' \subseteq Starts(m)
        BY <2>1, <2>3 DEF Starts
      <3>2. Ready(m)' \subseteq Ready(m)
        BY <1>1, <2>1 DEF Ready
      <3> QED  BY <1>a, <1>2, <3>1, <3>2, SpentKept
    <2> QED  BY <2>2, <2>3
  <1>5. CASE started' = started /\ pc'[w] # "verify"
    <2>1. Starts(m)' \subseteq Starts(m)
      BY <1>5 DEF Starts
    <2>2. pc'[w] = "mark running" => pc[w] = "verify" /\ seen'[w].manifest = seen[w].manifest
      BY <1>1, VerifyFacts DEF Verify, Check
    <2>3. Ready(m)' \subseteq Ready(m)
      BY <1>1, <1>5, <2>2 DEF Ready
    <2> QED  BY <1>a, <1>2, <2>1, <2>3, SpentKept
  <1> QED  BY <1>1, <1>3, <1>4, <1>5, Untouched

LEMMA SpentStep ==
    ASSUME TypeInv, BusyInv, BusyInv', Disarmed, SpentInv, [Next]_vars
    PROVE  SpentInv'
  <1> SUFFICES ASSUME NEW m \in Ids
               PROVE  Cardinality(Starts(m)') + Cardinality(Ready(m)') <= 1 + overlaps'
    BY DEF SpentInv
  <1>1. Cardinality(Starts(m)) + Cardinality(Ready(m)) <= 1 + overlaps /\ overlaps \in Nat
    BY DEF SpentInv, BusyInv
  <1>2. overlaps' \in Nat
    BY DEF BusyInv
  <1>3. CASE ChangeGate \/ UNCHANGED vars
    <2>1. UNCHANGED <<started, pc, seen, overlaps>>
      BY <1>3 DEF ChangeGate, vars, counters
    <2>2. Starts(m)' \subseteq Starts(m) /\ Ready(m)' \subseteq Ready(m)
      BY <2>1 DEF Starts, Ready
    <2> QED  BY <1>1, <1>2, <2>1, <2>2, SpentKept
  <1>4. CASE Cut
    <2>1. /\ started' = started /\ overlaps' = overlaps
          /\ \A v \in Workers : pc'[v] # "idle" => pc'[v] = pc[v] /\ seen'[v] = seen[v]
      BY <1>4, CutFacts DEF TypeInv
    <2>2. Starts(m)' \subseteq Starts(m) /\ Ready(m)' \subseteq Ready(m)
      BY <2>1 DEF Starts, Ready
    <2> QED  BY <1>1, <1>2, <2>1, <2>2, SpentKept
  <1>5. ASSUME NEW w \in Workers, Start(w)
        PROVE  Cardinality(Starts(m)') + Cardinality(Ready(m)') <= 1 + overlaps'
    <2>1. /\ UNCHANGED <<started, seen>> /\ pc'[w] \notin {"verify", "mark running"}
          /\ \A v \in Workers \ {w} : pc'[v] = pc[v]
      BY <1>5, StartEntry DEF TypeInv
    <2>2. Starts(m)' \subseteq Starts(m) /\ Ready(m)' \subseteq Ready(m)
      BY <2>1 DEF Starts, Ready
    <2>3. overlaps' = overlaps \/ overlaps' = overlaps + 1
      BY <1>5, Started DEF TypeInv
    <2> QED  BY <1>1, <1>2, <2>2, <2>3, SpentKept
  <1> QED  BY <1>3, <1>4, <1>5, SpentWork, NextCases
-----------------------------------------------------------------------------
(* What the theorem about spent approvals rests on, beyond IInv.           *)
Spending == BusyInv /\ Exclusive /\ Owned /\ Disarmed /\ SpentInv

LEMMA SpendingInit ==
    ASSUME Init
    PROVE  Spending
  <1>1. /\ \A w \in Workers : pc[w] = "idle"
        /\ \A r \in Ids : started[r] = None
        /\ overlaps = 0
    BY DEF Init
  <1>2. NoTask.manifest = None
    BY DEF NoTask, Task
  <1>3. \A t \in Tasks : tasks[t].manifest = None
    BY <1>2 DEF Init
  <1>4. Busy = {} /\ \A m \in Ids : Starts(m) = {} /\ Ready(m) = {}
    <2>1. Busy = {} /\ \A m : Ready(m) = {}
      BY <1>1 DEF Busy, Ready
    <2>2. \A m \in Ids : m # None
      BY DEF Ids, None
    <2>3. \A m \in Ids : Starts(m) = {}
      BY <1>1, <2>2 DEF Starts
    <2> QED  BY <2>1, <2>3
  <1>5. IsFiniteSet({}) /\ Cardinality({}) = 0
    BY FS_EmptySet
  <1>6. BusyInv /\ SpentInv
    BY <1>1, <1>4, <1>5 DEF BusyInv, SpentInv
  <1>7. Exclusive
    BY <1>1 DEF Exclusive, Holding
  <1>8. Owned /\ Disarmed
    BY <1>1, <1>3 DEF Owned, Disarmed
  <1> QED  BY <1>6, <1>7, <1>8 DEF Spending

LEMMA SpendingStep ==
    ASSUME IInv, Spending, [Next]_vars
    PROVE  Spending'
  <1>1. TypeInv /\ Fresh /\ Approvals /\ TypeInv' /\ Kept
    <2>1. TypeInv' /\ TypeInv /\ Fresh /\ Approvals
      BY InvariantStep DEF IInv
    <2> QED  BY <2>1, FreshStep
  <1>2. BusyInv' /\ Exclusive'
    BY <1>1, BusyStep, ExclusiveStep DEF Spending, TypeInv
  <1>3. Owned' /\ Disarmed'
    BY <1>1, OwnedStep, DisarmedStep DEF Spending
  <1>4. SpentInv'
    BY <1>1, <1>2, SpentStep DEF Spending
  <1> QED  BY <1>2, <1>3, <1>4 DEF Spending

(* An approval is spent by its run: as many runs of one manifest can start *)
(* as requests overlapped, and one; never a second while they come one at  *)
(* a time, wherever the server dies (_approve_task asks for a manifest     *)
(* nobody has approved, _run_task for an approved task, which it marks     *)
(* before it runs the tool).                                               *)
THEOREM ApprovalsAreSpent == Spec => []ApprovalSpent
  <1>1. IInv /\ Spending => ApprovalSpent
    <2> SUFFICES ASSUME Spending, NEW m \in Ids
                 PROVE  Cardinality(Starts(m)) <= 1 + overlaps
      BY DEF ApprovalSpent, Starts
    <2>1. /\ Cardinality(Starts(m)) \in Nat /\ Cardinality(Ready(m)) \in Nat /\ overlaps \in Nat
      BY SpentSets DEF Spending, BusyInv
    <2>2. Cardinality(Starts(m)) + Cardinality(Ready(m)) <= 1 + overlaps
      BY DEF Spending, SpentInv
    <2> QED  BY <2>1, <2>2
  <1>2. Init => IInv /\ Spending
    BY InvariantInit, SpendingInit
  <1>3. IInv /\ Spending /\ [Next]_vars => IInv' /\ Spending'
    BY InvariantStep, SpendingStep
  <1> QED  BY <1>1, <1>2, <1>3, PTL DEF Spec
-----------------------------------------------------------------------------
(* What the files say while one request is under way                       *)

Agrees(t) ==
    /\ tasks[t].status # "RUNNING"
    /\ tasks[t].status \in Verdicts \cup {"HUMAN_RESULT_REVIEW"} =>
          /\ tasks[t].run \in Ids
          /\ runs[tasks[t].run].status = tasks[t].status /\ runs[tasks[t].run].task = t
    /\ tasks[t].status = "FAILED" =>
          /\ tasks[t].run \in Ids
          /\ runs[tasks[t].run].task = t => runs[tasks[t].run].status \notin Verdicts

Awaited(r) ==
    runs[r].status = "HUMAN_RESULT_REVIEW" =>
        LET t == runs[r].task
        IN  /\ t \in Tasks /\ tasks[t].run = r
            /\ tasks[t].status \in {"HUMAN_RESULT_REVIEW", "FAILED"}

Accepted == {r \in Ids : runs[r].status = "ACCEPTED_RESULT"}

(* The files agree, but for tasks T, runs R and checkpoints D still to be  *)
(* made.                                                                   *)
AgreeBut(T, R, D) ==
    /\ \A u \in Tasks \ T : Agrees(u)
    /\ \A s \in Ids \ R : Awaited(s)
    /\ checkpoints \cup D = Accepted

Agree == AgreeBut({}, {}, {})

(* But for runs R, no result of task t waits for review.                   *)
Quiet(t, R) == \A s \in Ids \ R : runs[s].status = "HUMAN_RESULT_REVIEW" => runs[s].task # t

(* What a request under way has left them in.                              *)
Stands(w) ==
    LET t == call[w].task
        n == call[w].id
        r == call[w].run
    IN  /\ pc[w] \in {"create", "insert"} => tasks[t].status = "none"
        /\ pc[w] \in {"verify", "mark running"} => tasks[t].status = "APPROVED"
        /\ pc[w] \in {"run", "verify", "mark running", "execute", "save run"} =>
              runs[n].status = "none"
        /\ pc[w] \in {"execute", "save run", "finish", "log run", "fail"} => tasks[t].run = n
        /\ pc[w] \in {"execute", "save run"} =>
              tasks[t].status = "RUNNING" /\ AgreeBut({t}, {}, {})
        /\ pc[w] \in {"finish", "log run"} =>
              runs[n].status = "HUMAN_RESULT_REVIEW" /\ runs[n].task = t
        /\ pc[w] = "finish" => tasks[t].status = "RUNNING" /\ AgreeBut({t}, {n}, {})
        /\ pc[w] = "log run" => tasks[t].status = "HUMAN_RESULT_REVIEW"
        /\ pc[w] = "fail" =>
              /\ \/ runs[n].status = "none"
                 \/ runs[n].status = "HUMAN_RESULT_REVIEW" /\ runs[n].task = t
              /\ AgreeBut({t}, {n}, {})
        /\ pc[w] = "save verdict" => runs[r].status = "HUMAN_RESULT_REVIEW"
        /\ pc[w] = "close task" =>
              /\ runs[r].status = call[w].verdict /\ runs[r].task \in Tasks
              /\ tasks[runs[r].task].run = r
              /\ AgreeBut({runs[r].task}, {}, {s \in {r} : call[w].verdict = "ACCEPTED_RESULT"})
        /\ pc[w] = "checkpoint" => AgreeBut({}, {}, {r})
        /\ pc[w] \notin {"execute", "save run", "fail", "finish", "close task", "checkpoint"} =>
              Agree

Stood(w) == IF pc[w] = "idle" THEN Agree ELSE Stands(w)

(* As long as requests come one at a time and none is cut short.           *)
StandInv ==
    /\ crashes \in Nat
    /\ \A r \in Ids : r > requests => runs[r].status = "none"
    /\ overlaps = 0 /\ crashes = 0 =>
          /\ \A w \in Workers : pc[w] # "idle" => Stands(w)
          /\ (\A w \in Workers : pc[w] = "idle") => Agree

LEMMA Alone ==
    ASSUME BusyInv, overlaps = 0, NEW v \in Workers, NEW w \in Workers,
           pc[v] # "idle", pc[w] # "idle"
    PROVE  v = w
  <1>1. IsFiniteSet(Busy) /\ v \in Busy /\ w \in Busy
    BY DEF BusyInv, Busy
  <1>2. Cardinality(Busy) \in Nat /\ Cardinality(Busy) <= 1
    BY <1>1, FS_CardinalityType DEF BusyInv
  <1>3. IsFiniteSet(Busy \ {v}) /\ Cardinality(Busy \ {v}) = Cardinality(Busy) - 1
    BY <1>1, FS_RemoveElement
  <1>4. Cardinality(Busy \ {v}) = 0
    BY <1>2, <1>3, FS_CardinalityType
  <1>5. Busy \ {v} = {}
    BY <1>3, <1>4, FS_EmptySet
  <1> QED  BY <1>1, <1>5

(* A step that leaves the three files alone.                               *)
LEMMA AgreeSame ==
    ASSUME NEW T, NEW R, NEW D, AgreeBut(T, R, D), UNCHANGED <<tasks, runs, checkpoints>>
    PROVE  AgreeBut(T, R, D)'
  BY DEF AgreeBut, Agrees, Awaited, Accepted

(* A task no result of which waits for review is saved.                    *)
LEMMA AgreeTask ==
    ASSUME TypeOK, NEW t \in Tasks, NEW x, SetTask(t, x), UNCHANGED <<runs, checkpoints>>,
           NEW T, NEW R, NEW D, AgreeBut(T, R, D), Quiet(t, R)
    PROVE  AgreeBut(T \cup {t}, R, D)' /\ tasks'[t] = x
  <1>1. tasks'[t] = x /\ \A u \in Tasks : u # t => tasks'[u] = tasks[u]
    BY DEF TypeOK, SetTask
  <1>2. ASSUME NEW u \in Tasks \ (T \cup {t})
        PROVE  Agrees(u)'
    <2>1. Agrees(u) /\ tasks'[u] = tasks[u] /\ runs' = runs
      BY <1>1, <1>2 DEF AgreeBut
    <2> QED  BY <2>1 DEF Agrees
  <1>3. ASSUME NEW s \in Ids \ R
        PROVE  Awaited(s)'
    <2>1. Awaited(s) /\ runs' = runs
      BY <1>3 DEF AgreeBut
    <2> QED  BY <1>1, <1>3, <2>1 DEF Awaited, Quiet
  <1>4. (checkpoints \cup D = Accepted)'
    BY DEF AgreeBut, Accepted
  <1> QED  BY <1>1, <1>2, <1>3, <1>4 DEF AgreeBut

LEMMA NotAwaited ==
    ASSUME NEW t, NEW T, NEW R, NEW D, AgreeBut(T, R, D),
           tasks[t].status \notin {"HUMAN_RESULT_REVIEW", "FAILED"}
    PROVE  Quiet(t, R)
  BY DEF AgreeBut, Awaited, Quiet

(* A task that agrees again.                                               *)
LEMMA AgreeMore ==
    ASSUME NEW t, NEW R, NEW D, AgreeBut({t}, R, D)', Agrees(t)'
    PROVE  AgreeBut({}, R, D)'
  BY DEF AgreeBut

(* The steps that save none of the three files.                            *)
LEMMA StandChecks ==
    ASSUME TypeInv, NEW w \in Workers, Stands(w),
           Create(w) \/ Prepare(w) \/ Describe(w) \/ BeginRun(w) \/ Verify(w) \/ Review(w)
    PROVE  Stood(w)'
  <1>1. UNCHANGED <<tasks, runs, checkpoints>>
    BY DEF Create, Prepare, Describe, BeginRun, Verify, Review, Check, files
  <1>2. \/ Goes(w, "create", "insert")
        \/ Goes(w, "prepare", "describe") \/ Goes(w, "describe", "write manifest")
        \/ BeginRun(w) /\ Goes(w, "run", "verify")
        \/ Goes(w, "verify", "mark running")
        \/ Review(w) /\ Goes(w, "review", "save verdict")
    BY CheckGoes DEF Create, Prepare, Describe, BeginRun, Verify, Review, TypeInv
  <1>3. Agree'
    <2>1. Agree
      BY <1>2 DEF Goes, Stands
    <2> QED  BY <1>1, <2>1, AgreeSame DEF Agree
  <1>4. CASE pc'[w] = "idle"
    BY <1>3, <1>4 DEF Stood
  <1>5. CASE Goes(w, "create", "insert") /\ pc'[w] # "idle"
    BY <1>1, <1>3, <1>5 DEF Goes, Stood, Stands
  <1>6. CASE (Goes(w, "prepare", "describe") \/ Goes(w, "describe", "write manifest"))
             /\ pc'[w] # "idle"
    BY <1>3, <1>6 DEF Goes, Stood, Stands
  <1>7. CASE BeginRun(w) /\ Goes(w, "run", "verify") /\ pc'[w] # "idle"
    <2>1. tasks[call[w].task].status = "APPROVED"
      BY <1>7, BeginFacts DEF Goes
    <2> QED  BY <1>1, <1>3, <1>7, <2>1 DEF Goes, Stood, Stands
  <1>8. CASE Goes(w, "verify", "mark running") /\ pc'[w] # "idle"
    BY <1>1, <1>3, <1>8 DEF Goes, Stood, Stands
  <1>9. CASE Review(w) /\ Goes(w, "review", "save verdict") /\ pc'[w] # "idle"
    <2>1. runs[call[w].run].status = "HUMAN_RESULT_REVIEW"
      <3>1. Proceed(w, IF runs[call[w].run].status = "HUMAN_RESULT_REVIEW"
                       THEN "save verdict" ELSE "idle", NothingSeen)
        BY <1>9 DEF Review, Check
      <3> QED  BY <1>9, <3>1 DEF Proceed, TypeInv, TypeOK
    <2> QED  BY <1>1, <1>3, <1>9, <2>1 DEF Goes, Stood, Stands
  <1> QED  BY <1>2, <1>4, <1>5, <1>6, <1>7, <1>8, <1>9

LEMMA StandManifests ==
    ASSUME TypeInv, NEW w \in Workers, Stands(w),
           WriteManifest(w) \/ ApproveManifest(w) \/ LogReview(w)
    PROVE  Stood(w)'
  <1>1. UNCHANGED <<tasks, runs, checkpoints>>
    BY DEF WriteManifest, ApproveManifest, LogReview
  <1>2. /\ pc[w] \in {"write manifest", "approve manifest", "log review"}
        /\ pc'[w] \in {"idle", "bind manifest"}
    <2>1. CASE WriteManifest(w)
      BY <2>1, WriteFacts
    <2>2. CASE ApproveManifest(w)
      BY <2>2, WriteGoes DEF ApproveManifest, Goes, TypeInv
    <2>3. CASE LogReview(w)
      BY <2>3, LogGoes DEF Goes, TypeInv
    <2> QED  BY <2>1, <2>2, <2>3
  <1>3. Agree'
    <2>1. Agree
      BY <1>2 DEF Stands
    <2> QED  BY <1>1, <2>1, AgreeSame DEF Agree
  <1> QED  BY <1>2, <1>3 DEF Stood, Stands

LEMMA StandExecute ==
    ASSUME TypeInv, NEW w \in Workers, Stands(w), Execute(w)
    PROVE  Stood(w)'
  <1>1. UNCHANGED <<tasks, runs, checkpoints>> /\ pc[w] = "execute"
    BY DEF Execute, Check, files
  <1>2. pc'[w] = "save run" /\ call'[w] = call[w]
    BY Stepped DEF Execute, Check, TypeInv
  <1>3. AgreeBut({call[w].task}, {}, {})
    BY <1>1 DEF Stands
  <1>4. AgreeBut({call[w].task}, {}, {})'
    BY <1>1, <1>2, <1>3 DEF AgreeBut, Agrees, Awaited, Accepted
  <1> QED  BY <1>1, <1>2, <1>4 DEF Stood, Stands

LEMMA StandLogRun ==
    ASSUME TypeInv, NEW w \in Workers, Stands(w), LogRun(w)
    PROVE  Stood(w)'
  <1>1. UNCHANGED <<tasks, runs, checkpoints>> /\ pc[w] = "log run"
    BY DEF LogRun, Check, files
  <1>2. pc'[w] = "idle"
    BY Stepped DEF LogRun, Check, TypeInv
  <1>3. Agree
    BY <1>1 DEF Stands
  <1>4. Agree'
    BY <1>1, <1>3, AgreeSame DEF Agree
  <1> QED  BY <1>2, <1>4 DEF Stood

(* Whatever was saved when the tool, a save or the event raised.           *)
LEMMA StandRaises ==
    ASSUME TypeInv, NEW w \in Workers, Stands(w), Raises(w)
    PROVE  Stood(w)'
  <1>1. PICK t, n : t = call[w].task /\ n = call[w].id
    OBVIOUS
  <1>2. PICK p \in Trying : pc[w] = p /\ Check(w, p, TRUE, "fail", seen[w])
    BY DEF Raises, Check
  <1>3. UNCHANGED <<tasks, runs, checkpoints>>
    BY <1>2 DEF Check, files
  <1>4. pc'[w] = "fail" /\ call'[w] = call[w]
    BY <1>2, Stepped DEF Check, TypeInv
  <1>5. /\ tasks[t].run = n
        /\ \/ runs[n].status = "none"
           \/ runs[n].status = "HUMAN_RESULT_REVIEW" /\ runs[n].task = t
    BY <1>1, <1>2 DEF Stands, Trying
  <1>6. AgreeBut({t}, {n}, {})
    <2>1. AgreeBut({t}, {}, {}) \/ AgreeBut({t}, {n}, {}) \/ AgreeBut({}, {}, {})
      BY <1>1, <1>2 DEF Stands, Trying, Agree
    <2> QED  BY <2>1 DEF AgreeBut
  <1>7. AgreeBut({t}, {n}, {})'
    BY <1>3, <1>6, AgreeSame
  <1>8. /\ tasks'[t].run = n /\ t = call'[w].task /\ n = call'[w].id
        /\ \/ runs'[n].status = "none"
           \/ runs'[n].status = "HUMAN_RESULT_REVIEW" /\ runs'[n].task = t
    BY <1>1, <1>3, <1>4, <1>5
  <1> QED  BY <1>4, <1>7, <1>8 DEF Stood, Stands

(* The steps that save a task no result of which waits for review.         *)
LEMMA StandTask ==
    ASSUME TypeInv, NEW w \in Workers, NEW t \in Tasks, NEW x, SetTask(t, x),
           UNCHANGED <<runs, checkpoints>>, Agree,
           tasks[t].status \notin {"HUMAN_RESULT_REVIEW", "FAILED"}
    PROVE  /\ AgreeBut({t}, {}, {})' /\ tasks'[t] = x
           /\ x.status \notin Verdicts \cup {"HUMAN_RESULT_REVIEW", "FAILED", "RUNNING"} => Agree'
  <1>1. Quiet(t, {})
    BY NotAwaited DEF Agree
  <1>2. AgreeBut({t}, {}, {})' /\ tasks'[t] = x
    <2>1. AgreeBut({} \cup {t}, {}, {})' /\ tasks'[t] = x
      BY <1>1, AgreeTask DEF Agree, TypeInv
    <2>2. {} \cup {t} = {t}
      OBVIOUS
    <2> QED  BY <2>1, <2>2
  <1>3. ASSUME x.status \notin Verdicts \cup {"HUMAN_RESULT_REVIEW", "FAILED", "RUNNING"}
        PROVE  Agree'
    <2>1. Agrees(t)'
      BY <1>2, <1>3 DEF Agrees
    <2> QED  BY <1>2, <2>1, AgreeMore DEF Agree
  <1> QED  BY <1>2, <1>3

LEMMA StandInsert ==
    ASSUME TypeInv, NEW w \in Workers, Stands(w), Insert(w)
    PROVE  Stood(w)'
  <1> DEFINE t == call[w].task
             x == Task("DRAFT", None, None, seen[w].pins.rules)
  <1>1. Writes(w, "insert", "idle") /\ SetTask(t, x) /\ UNCHANGED <<runs, checkpoints>>
    BY DEF Insert
  <1>2. pc[w] = "insert" /\ pc'[w] = "idle"
    BY <1>1, WriteGoes DEF Goes, TypeInv
  <1>3. t \in Tasks /\ tasks[t].status = "none" /\ Agree
    BY <1>2 DEF TypeInv, CallInv, OfTask, Stands
  <1>4. x.status = "DRAFT"
    BY DEF Task
  <1> HIDE DEF t, x
  <1>5. Agree'
    BY <1>1, <1>3, <1>4, StandTask DEF Verdicts
  <1> QED  BY <1>2, <1>5 DEF Stood

LEMMA StandSubmit ==
    ASSUME TypeInv, NEW w \in Workers, Stands(w), Submit(w)
    PROVE  Stood(w)'
  <1> DEFINE t == call[w].task
             x == WithStatus(t, "READY_FOR_REVIEW")
  <1>1. /\ Writes(w, "submit", "idle") /\ UNCHANGED <<runs, checkpoints>>
        /\ \/ tasks[t].status \in {"DRAFT", "RETURNED_FOR_REVIEW"} /\ SetTask(t, x)
           \/ UNCHANGED tasks
    BY DEF Submit
  <1>2. pc[w] = "submit" /\ pc'[w] = "idle"
    BY <1>1, WriteGoes DEF Goes, TypeInv
  <1>3. t \in Tasks /\ Agree
    BY <1>2 DEF TypeInv, CallInv, OfTask, Stands
  <1>4. x.status = "READY_FOR_REVIEW"
    BY DEF WithStatus, Task
  <1> HIDE DEF t, x
  <1>5. CASE tasks[t].status \in {"DRAFT", "RETURNED_FOR_REVIEW"} /\ SetTask(t, x)
    <2>1. Agree'
      BY <1>1, <1>3, <1>4, <1>5, StandTask DEF Verdicts
    <2> QED  BY <1>2, <2>1 DEF Stood
  <1>6. CASE UNCHANGED tasks
    <2>1. Agree'
      BY <1>1, <1>3, <1>6, AgreeSame DEF Agree
    <2> QED  BY <1>2, <2>1 DEF Stood
  <1> QED  BY <1>1, <1>5, <1>6

LEMMA StandApprove ==
    ASSUME TypeInv, NEW w \in Workers, Stands(w), Approve(w)
    PROVE  Stood(w)'
  <1> DEFINE t == call[w].task
             x == WithStatus(t, "APPROVED")
  <1>1. /\ UNCHANGED <<runs, checkpoints>>
        /\ \/ tasks[t].status = "READY_FOR_REVIEW" /\ SetTask(t, x)
           \/ UNCHANGED tasks
    BY DEF Approve
  <1>2. pc[w] = "approve" /\ pc'[w] \in {"approve manifest", "idle"}
    BY ApproveGoes DEF Goes, TypeInv
  <1>3. t \in Tasks /\ Agree
    BY <1>2 DEF TypeInv, CallInv, OfTask, Stands
  <1>4. x.status = "APPROVED"
    BY DEF WithStatus, Task
  <1> HIDE DEF t, x
  <1>5. CASE tasks[t].status = "READY_FOR_REVIEW" /\ SetTask(t, x)
    <2>1. Agree'
      BY <1>1, <1>3, <1>4, <1>5, StandTask DEF Verdicts
    <2> QED  BY <1>2, <2>1 DEF Stood, Stands
  <1>6. CASE UNCHANGED tasks
    <2>1. Agree'
      BY <1>1, <1>3, <1>6, AgreeSame DEF Agree
    <2> QED  BY <1>2, <2>1 DEF Stood, Stands
  <1> QED  BY <1>1, <1>5, <1>6

(* A manifest is bound to a task that stays as it is.                      *)
LEMMA StandBind ==
    ASSUME TypeInv, NEW w \in Workers, Stands(w), BindManifest(w)
    PROVE  Stood(w)'
  <1> DEFINE t == call[w].task
             x == Task(tasks[t].status, call[w].id, tasks[t].run, tasks[t].rules)
  <1>1. /\ Writes(w, "bind manifest", "idle") /\ SetTask(t, x)
        /\ UNCHANGED <<runs, checkpoints>>
    BY DEF BindManifest
  <1>2. pc[w] = "bind manifest" /\ pc'[w] = "idle"
    BY <1>1, WriteGoes DEF Goes, TypeInv
  <1>3. t \in Tasks /\ Agree
    BY <1>2 DEF TypeInv, CallInv, OfTask, Stands
  <1>4. x.status = tasks[t].status /\ x.run = tasks[t].run
    BY DEF Task
  <1> HIDE DEF t, x
  <1>5. \A u \in Tasks : tasks'[u].status = tasks[u].status /\ tasks'[u].run = tasks[u].run
    BY <1>1, <1>3, <1>4 DEF SetTask, TypeInv, TypeOK
  <1>6. \A u \in Tasks : Agrees(u)'
    BY <1>1, <1>3, <1>5 DEF Agree, AgreeBut, Agrees
  <1>7. \A s \in Ids : Awaited(s)'
    BY <1>1, <1>3, <1>5 DEF Agree, AgreeBut, Awaited
  <1>8. Agree'
    BY <1>1, <1>3, <1>6, <1>7 DEF Agree, AgreeBut, Accepted
  <1> QED  BY <1>2, <1>8 DEF Stood

LEMMA StandMark ==
    ASSUME TypeInv, NEW w \in Workers, Stands(w), MarkRunning(w)
    PROVE  Stood(w)'
  <1>1. PICK t, n, x : /\ t = call[w].task /\ n = call[w].id /\ x = Running(w)
                       /\ SetTask(t, x) /\ UNCHANGED <<runs, checkpoints>>
    BY DEF MarkRunning
  <1>2. pc[w] = "mark running" /\ pc'[w] = "execute" /\ call'[w] = call[w]
    <2>1. Writes(w, "mark running", "execute")
      BY DEF MarkRunning
    <2> QED  BY <2>1, WriteGoes DEF Goes, TypeInv
  <1>3. t \in Tasks /\ tasks[t].status = "APPROVED" /\ runs[n].status = "none" /\ Agree
    BY <1>1, <1>2 DEF TypeInv, CallInv, OfTask, Stands
  <1>4. x.status = "RUNNING" /\ x.run = n
    BY <1>1 DEF Running, Task
  <1>5. AgreeBut({t}, {}, {})' /\ tasks'[t] = x
    BY <1>1, <1>3, StandTask
  <1>6. /\ tasks'[t].status = "RUNNING" /\ tasks'[t].run = n /\ runs'[n].status = "none"
        /\ t = call'[w].task /\ n = call'[w].id
    BY <1>1, <1>2, <1>3, <1>4, <1>5
  <1> QED  BY <1>2, <1>5, <1>6 DEF Stood, Stands

LEMMA StandFail ==
    ASSUME TypeInv, NEW w \in Workers, Stands(w), Fail(w)
    PROVE  Stood(w)'
  <1>1. PICK t, n, x : /\ t = call[w].task /\ n = call[w].id /\ x = WithStatus(t, "FAILED")
                       /\ SetTask(t, x) /\ UNCHANGED <<runs, checkpoints>>
    BY DEF Fail
  <1>2. pc[w] = "fail" /\ pc'[w] = "idle"
    <2>1. Writes(w, "fail", "idle")
      BY DEF Fail
    <2> QED  BY <2>1, WriteGoes DEF Goes, TypeInv
  <1>3. /\ t \in Tasks /\ n \in Ids /\ tasks[t].run = n /\ AgreeBut({t}, {n}, {})
        /\ \/ runs[n].status = "none"
           \/ runs[n].status = "HUMAN_RESULT_REVIEW" /\ runs[n].task = t
    BY <1>1, <1>2 DEF TypeInv, CallInv, OfTask, Stands
  <1>4. x.status = "FAILED" /\ x.run = n
    BY <1>1, <1>3 DEF WithStatus, Task
  <1>5. Quiet(t, {n})
    BY <1>3 DEF AgreeBut, Awaited, Quiet
  <1>6. AgreeBut({t} \cup {t}, {n}, {})' /\ tasks'[t] = x
    BY <1>1, <1>3, <1>5, AgreeTask DEF TypeInv
  <1>7. Agrees(t)'
    BY <1>1, <1>3, <1>4, <1>6 DEF Agrees, Verdicts
  <1>8. Awaited(n)'
    BY <1>1, <1>3, <1>4, <1>6 DEF Awaited
  <1>9. Agree'
    BY <1>6, <1>7, <1>8 DEF Agree, AgreeBut
  <1> QED  BY <1>2, <1>9 DEF Stood

(* The run the task was waiting for is saved already.                      *)
LEMMA StandFinish ==
    ASSUME TypeInv, NEW w \in Workers, Stands(w), Finish(w)
    PROVE  Stood(w)'
  <1>1. PICK t, n, x : /\ t = call[w].task /\ n = call[w].id
                       /\ x = WithStatus(t, "HUMAN_RESULT_REVIEW")
                       /\ SetTask(t, x) /\ UNCHANGED <<runs, checkpoints>>
    BY DEF Finish
  <1>2. pc[w] = "finish" /\ pc'[w] = "log run" /\ call'[w] = call[w]
    <2>1. Writes(w, "finish", "log run")
      BY DEF Finish
    <2> QED  BY <2>1, WriteGoes DEF Goes, TypeInv
  <1>3. /\ t \in Tasks /\ n \in Ids /\ tasks[t].status = "RUNNING" /\ tasks[t].run = n
        /\ runs[n].status = "HUMAN_RESULT_REVIEW" /\ runs[n].task = t
        /\ AgreeBut({t}, {n}, {})
    BY <1>1, <1>2 DEF TypeInv, CallInv, OfTask, Stands
  <1>4. x.status = "HUMAN_RESULT_REVIEW" /\ x.run = n
    BY <1>1, <1>3 DEF WithStatus, Task
  <1>5. Quiet(t, {n})
    BY <1>3, NotAwaited
  <1>6. AgreeBut({t} \cup {t}, {n}, {})' /\ tasks'[t] = x
    BY <1>1, <1>3, <1>5, AgreeTask DEF TypeInv
  <1>7. Agrees(t)'
    BY <1>1, <1>3, <1>4, <1>6 DEF Agrees, Verdicts
  <1>8. Awaited(n)'
    BY <1>1, <1>3, <1>4, <1>6 DEF Awaited
  <1>9. Agree'
    BY <1>6, <1>7, <1>8 DEF Agree, AgreeBut
  <1>10. /\ tasks'[t].status = "HUMAN_RESULT_REVIEW" /\ tasks'[t].run = n
         /\ runs'[n].status = "HUMAN_RESULT_REVIEW" /\ runs'[n].task = t
         /\ t = call'[w].task /\ n = call'[w].id
    BY <1>1, <1>2, <1>3, <1>4, <1>6
  <1> QED  BY <1>2, <1>9, <1>10 DEF Stood, Stands

LEMMA StandSaveRun ==
    ASSUME TypeInv, NEW w \in Workers, Stands(w), SaveRun(w)
    PROVE  Stood(w)'
  <1>1. PICK t, n, x : /\ t = call[w].task /\ n = call[w].id
                       /\ x = Run(t, seen[w].manifest, "HUMAN_RESULT_REVIEW", seen[w].pins)
                       /\ runs' = [runs EXCEPT ![n] = x] /\ UNCHANGED <<tasks, checkpoints>>
    BY DEF SaveRun
  <1>2. pc[w] = "save run" /\ pc'[w] = "finish" /\ call'[w] = call[w]
    <2>1. Writes(w, "save run", "finish")
      BY DEF SaveRun
    <2> QED  BY <2>1, WriteGoes DEF Goes, TypeInv
  <1>3. /\ t \in Tasks /\ n \in Ids /\ tasks[t].status = "RUNNING" /\ tasks[t].run = n
        /\ runs[n].status = "none" /\ AgreeBut({t}, {}, {})
    BY <1>1, <1>2 DEF TypeInv, CallInv, OfTask, Stands
  <1>4. x.status = "HUMAN_RESULT_REVIEW" /\ x.task = t
    BY <1>1 DEF Run
  <1>5. runs'[n] = x /\ \A s \in Ids : s # n => runs'[s] = runs[s]
    BY <1>1, <1>3 DEF TypeInv, TypeOK
  <1>6. ASSUME NEW u \in Tasks \ {t}
        PROVE  Agrees(u)'
    <2>1. Agrees(u) /\ tasks' = tasks
      BY <1>1, <1>3 DEF AgreeBut
    <2>2. "none" \notin Verdicts \cup {"HUMAN_RESULT_REVIEW"} /\ x.status \notin Verdicts
      BY <1>4 DEF Verdicts
    <2> QED  BY <1>3, <1>5, <2>1, <2>2 DEF Agrees
  <1>7. ASSUME NEW s \in Ids \ {n}
        PROVE  Awaited(s)'
    BY <1>1, <1>3, <1>5 DEF AgreeBut, Awaited
  <1>8. checkpoints' = Accepted'
    <2>1. checkpoints \cup {} = Accepted
      BY <1>3 DEF AgreeBut
    <2>2. Accepted' = Accepted
      BY <1>3, <1>4, <1>5 DEF Accepted
    <2> QED  BY <1>1, <2>1, <2>2
  <1>9. AgreeBut({t}, {n}, {})'
    BY <1>6, <1>7, <1>8 DEF AgreeBut
  <1>10. /\ tasks'[t].status = "RUNNING" /\ tasks'[t].run = n
         /\ runs'[n].status = "HUMAN_RESULT_REVIEW" /\ runs'[n].task = t
         /\ t = call'[w].task /\ n = call'[w].id
    BY <1>1, <1>2, <1>3, <1>4, <1>5
  <1> QED  BY <1>2, <1>9, <1>10 DEF Stood, Stands

(* The checkpoint a verdict makes due.                                     *)
LEMMA StandSaveVerdict ==
    ASSUME TypeInv, NEW w \in Workers, Stands(w), SaveVerdict(w)
    PROVE  Stood(w)'
  <1>1. PICK r, verdict, x :
           /\ r = call[w].run /\ verdict = call[w].verdict
           /\ x = Run(runs[r].task, runs[r].manifest, verdict, runs[r].pins)
           /\ runs' = [runs EXCEPT ![r] = x] /\ UNCHANGED <<tasks, checkpoints>>
    BY DEF SaveVerdict
  <1>2. pc[w] = "save verdict" /\ pc'[w] = "close task" /\ call'[w] = call[w]
    <2>1. Writes(w, "save verdict", "close task")
      BY DEF SaveVerdict
    <2> QED  BY <2>1, WriteGoes DEF Goes, TypeInv
  <1>3. /\ r \in Ids /\ verdict \in Verdicts /\ runs[r].status = "HUMAN_RESULT_REVIEW" /\ Agree
    BY <1>1, <1>2 DEF TypeInv, CallInv, OfRun, Stands
  <1>4. PICK t : t = runs[r].task
    OBVIOUS
  <1>5. /\ t \in Tasks /\ tasks[t].run = r
        /\ tasks[t].status \in {"HUMAN_RESULT_REVIEW", "FAILED"}
    BY <1>3, <1>4 DEF Agree, AgreeBut, Awaited
  <1>6. x.status = verdict /\ x.task = t /\ verdict # "HUMAN_RESULT_REVIEW"
    BY <1>1, <1>3, <1>4 DEF Run, Verdicts
  <1>7. runs'[r] = x /\ \A s \in Ids : s # r => runs'[s] = runs[s]
    BY <1>1, <1>3 DEF TypeInv, TypeOK
  <1>8. ASSUME NEW u \in Tasks \ {t}
        PROVE  Agrees(u)'
    <2>1. Agrees(u) /\ tasks' = tasks
      BY <1>1, <1>3 DEF Agree, AgreeBut
    <2>2. PICK z : z = tasks[u]
      OBVIOUS
    <2>3. CASE z.run = r
      <3>1. z.status # "RUNNING" /\ z.status \notin Verdicts \cup {"HUMAN_RESULT_REVIEW"}
        BY <1>3, <1>4, <2>1, <2>2, <2>3, <1>8 DEF Agrees, Verdicts
      <3> QED  BY <1>3, <1>4, <1>6, <1>7, <1>8, <2>1, <2>2, <2>3, <3>1 DEF Agrees
    <2>4. CASE z.run # r
      <3>1. /\ z.status # "RUNNING"
            /\ z.status \in Verdicts \cup {"HUMAN_RESULT_REVIEW", "FAILED"} =>
                  z.run \in Ids /\ runs'[z.run] = runs[z.run]
        BY <1>7, <2>1, <2>2, <2>4 DEF Agrees
      <3> QED  BY <2>1, <2>2, <3>1 DEF Agrees
    <2> QED  BY <2>3, <2>4
  <1>9. ASSUME NEW s \in Ids
        PROVE  Awaited(s)'
    <2>1. Awaited(s)
      BY <1>3 DEF Agree, AgreeBut
    <2> QED  BY <1>1, <1>6, <1>7, <2>1 DEF Awaited
  <1>10. PICK due : due = {s \in {r} : verdict = "ACCEPTED_RESULT"}
    OBVIOUS
  <1>11. checkpoints' \cup due = Accepted'
    <2>1. checkpoints = Accepted /\ r \notin Accepted
      BY <1>3 DEF Agree, AgreeBut, Accepted
    <2>2. Accepted' = Accepted \cup due
      BY <1>3, <1>6, <1>7, <1>10, <2>1 DEF Accepted
    <2> QED  BY <1>1, <2>1, <2>2
  <1>12. AgreeBut({t}, {}, due)'
    BY <1>8, <1>9, <1>11 DEF AgreeBut
  <1>13. /\ runs'[r].status = verdict /\ runs'[r].task = t /\ tasks'[t].run = r
         /\ r = call'[w].run /\ verdict = call'[w].verdict
    BY <1>1, <1>2, <1>5, <1>6, <1>7
  <1> QED  BY <1>2, <1>5, <1>10, <1>12, <1>13 DEF Stood, Stands

LEMMA StandCloseTask ==
    ASSUME TypeInv, NEW w \in Workers, Stands(w), CloseTask(w)
    PROVE  Stood(w)'
  <1>1. PICK r, verdict, t, x :
           /\ r = call[w].run /\ verdict = call[w].verdict /\ t = runs[r].task
           /\ x = WithStatus(t, verdict) /\ SetTask(t, x) /\ UNCHANGED <<runs, checkpoints>>
    BY DEF CloseTask
  <1>2. /\ pc[w] = "close task" /\ call'[w] = call[w]
        /\ pc'[w] = IF verdict = "ACCEPTED_RESULT" THEN "checkpoint" ELSE "log review"
    <2>1. AfterVerdict(verdict) \in {"checkpoint", "log review"}
      BY DEF AfterVerdict
    <2>2. Writes(w, "close task", AfterVerdict(verdict))
      BY <1>1 DEF CloseTask
    <2>3. Goes(w, "close task", AfterVerdict(verdict)) /\ pc'[w] = AfterVerdict(verdict)
      BY <2>2, WriteGoes DEF TypeInv
    <2>4. pc[w] = "close task" /\ call'[w] = call[w]
      BY <2>1, <2>3 DEF Goes
    <2> QED  BY <2>3, <2>4 DEF AfterVerdict
  <1>3. PICK due : due = {s \in {r} : verdict = "ACCEPTED_RESULT"}
    OBVIOUS
  <1>4. /\ r \in Ids /\ verdict \in Verdicts /\ t \in Tasks
        /\ runs[r].status = verdict /\ tasks[t].run = r /\ AgreeBut({t}, {}, due)
    BY <1>1, <1>2, <1>3 DEF TypeInv, CallInv, OfRun, Stands
  <1>5. x.status = verdict /\ x.run = r /\ verdict \notin {"RUNNING", "HUMAN_RESULT_REVIEW", "FAILED"}
    BY <1>1, <1>4 DEF WithStatus, Task, Verdicts
  <1>6. Quiet(t, {})
    BY <1>4, <1>5 DEF AgreeBut, Awaited, Quiet
  <1>7. AgreeBut({t} \cup {t}, {}, due)' /\ tasks'[t] = x
    BY <1>1, <1>4, <1>6, AgreeTask DEF TypeInv
  <1>8. Agrees(t)'
    BY <1>1, <1>4, <1>5, <1>7 DEF Agrees
  <1>9. AgreeBut({}, {}, due)'
    <2>1. {t} \cup {t} = {t}
      OBVIOUS
    <2> QED  BY <1>7, <1>8, <2>1, AgreeMore
  <1>10. CASE verdict = "ACCEPTED_RESULT"
    <2>1. due = {r} /\ r = call'[w].run
      BY <1>1, <1>2, <1>3, <1>10
    <2> QED  BY <1>2, <1>9, <1>10, <2>1 DEF Stood, Stands
  <1>11. CASE verdict # "ACCEPTED_RESULT"
    <2>1. due = {}
      BY <1>3, <1>11
    <2> QED  BY <1>2, <1>9, <1>11, <2>1 DEF Stood, Stands, Agree
  <1> QED  BY <1>10, <1>11

LEMMA StandCheckpoint ==
    ASSUME TypeInv, NEW w \in Workers, Stands(w), Checkpoint(w)
    PROVE  Stood(w)'
  <1>1. /\ checkpoints' = checkpoints \cup {call[w].run} /\ UNCHANGED <<tasks, runs>>
        /\ pc[w] = "checkpoint"
    BY DEF Checkpoint, Writes
  <1>2. pc'[w] = "log review"
    BY WriteGoes DEF Checkpoint, Goes, TypeInv
  <1>3. AgreeBut({}, {}, {call[w].run})
    BY <1>1 DEF Stands
  <1>4. Agree'
    BY <1>1, <1>3 DEF Agree, AgreeBut, Agrees, Awaited, Accepted
  <1> QED  BY <1>2, <1>4 DEF Stood, Stands

LEMMA StandWork ==
    ASSUME TypeInv, NEW w \in Workers, Stands(w), Work(w)
    PROVE  Stood(w)'
  BY StandChecks, StandManifests, StandExecute, StandLogRun, StandRaises, StandInsert, StandSubmit, StandApprove, StandBind,
     StandMark, StandFail, StandFinish, StandSaveRun, StandSaveVerdict, StandCloseTask,
     StandCheckpoint
     DEF Work, Manifesting, Executing, Reviewing

(* A request that comes alone finds the files in agreement.                *)
LEMMA StandStart ==
    ASSUME TypeInv, NEW w \in Workers, Start(w), Agree,
           \A r \in Ids : r > requests => runs[r].status = "none"
    PROVE  Stands(w)'
  <1>1. PICK c \in Calls :
           /\ c.id = requests + 1 /\ UNCHANGED files
           /\ c.op = "create" => tasks[c.task].status = "none"
           /\ call' = [call EXCEPT ![w] = c] /\ pc' = [pc EXCEPT ![w] = c.op]
    BY DEF Start
  <1>2. /\ pc'[w] = c.op /\ call'[w] = c
        /\ c.op \in {"create", "submit", "prepare", "approve", "run", "review"} /\ c.id \in Ids
    BY <1>1 DEF Calls, TypeInv, TypeOK
  <1>3. Agree' /\ UNCHANGED <<tasks, runs>>
    BY <1>1, AgreeSame DEF Agree, files
  <1>4. runs[c.id].status = "none"
    <2>1. requests + 1 > requests
      BY DEF TypeInv, TypeOK
    <2> QED  BY <1>1, <1>2, <2>1
  <1> QED  BY <1>1, <1>2, <1>3, <1>4 DEF Stands

LEMMA StandStep ==
    ASSUME TypeInv, BusyInv, Grounded, StandInv, [Next]_vars
    PROVE  StandInv'
  <1>1. /\ crashes \in Nat /\ overlaps \in Nat
        /\ \A r \in Ids : r > requests => runs[r].status = "none"
        /\ overlaps = 0 /\ crashes = 0 =>
              /\ \A w \in Workers : pc[w] # "idle" => Stands(w)
              /\ (\A w \in Workers : pc[w] = "idle") => Agree
    BY DEF StandInv, BusyInv
  <1>2. CASE ChangeGate \/ UNCHANGED vars
    <2>1. UNCHANGED <<tasks, runs, checkpoints, pc, call, requests, overlaps, crashes>>
      BY <1>2 DEF ChangeGate, vars, files, counters
    <2>2. \A T, R, D : AgreeBut(T, R, D)' <=> AgreeBut(T, R, D)
      BY <2>1 DEF AgreeBut, Agrees, Awaited, Accepted
    <2>3. Agree' <=> Agree
      BY <2>2 DEF Agree
    <2>4. ASSUME NEW w \in Workers, Stands(w)
          PROVE  Stands(w)'
      <3>1. PICK t, n, r, s : /\ t = call[w].task /\ n = call[w].id /\ r = call[w].run
                              /\ s = runs[r].task
        OBVIOUS
      <3>2. /\ t = call'[w].task /\ n = call'[w].id /\ r = call'[w].run /\ s = runs'[r].task
            /\ UNCHANGED <<tasks, runs, pc>> /\ call'[w] = call[w]
        BY <2>1, <3>1
      <3>3. PICK due : due = {x \in {r} : call[w].verdict = "ACCEPTED_RESULT"}
        OBVIOUS
      <3>4. /\ AgreeBut({t}, {}, {})' <=> AgreeBut({t}, {}, {})
            /\ AgreeBut({t}, {n}, {})' <=> AgreeBut({t}, {n}, {})
            /\ AgreeBut({s}, {}, due)' <=> AgreeBut({s}, {}, due)
            /\ AgreeBut({}, {}, {r})' <=> AgreeBut({}, {}, {r})
        BY <2>2
      <3> QED  BY <2>3, <2>4, <3>1, <3>2, <3>3, <3>4 DEF Stands
    <2> QED  BY <1>1, <2>1, <2>3, <2>4 DEF StandInv
  <1>3. CASE Cut
    <2>1. crashes' = crashes + 1 /\ runs' = runs /\ requests' = requests
      BY <1>3, CutFacts DEF files, TypeInv
    <2>2. crashes' \in Nat /\ crashes' # 0
      BY <1>1, <2>1
    <2> QED  BY <1>1, <2>1, <2>2 DEF StandInv
  <1>4. ASSUME NEW w \in Workers, Start(w)
        PROVE  StandInv'
    <2>1. /\ \/ overlaps' = overlaps /\ \A v \in Workers : pc[v] = "idle"
             \/ overlaps' = overlaps + 1
          /\ crashes' = crashes /\ runs' = runs /\ requests' = requests + 1
          /\ \A v \in Workers \ {w} : pc'[v] = pc[v]
          /\ pc'[w] # "idle"
      <3>1. PICK c \in Calls : pc' = [pc EXCEPT ![w] = c.op]
        BY <1>4, Started DEF TypeInv
      <3>2. pc'[w] = c.op /\ c.op # "idle" /\ \A v \in Workers \ {w} : pc'[v] = pc[v]
        BY <3>1, CallFacts DEF TypeInv, TypeOK
      <3> QED  BY <1>4, <3>2 DEF Start, files
    <2>2. \A r \in Ids : r > requests' => runs'[r].status = "none"
      <3>1. \A r \in Ids : r > requests + 1 => r > requests
        BY DEF Ids, TypeInv, TypeOK
      <3> QED  BY <1>1, <2>1, <3>1
    <2>3. ASSUME overlaps' = 0, crashes' = 0
          PROVE  \A v \in Workers : pc'[v] # "idle" => Stands(v)'
      <3>1. overlaps' # overlaps + 1
        BY <1>1, <2>3
      <3>2. Agree /\ \A v \in Workers : pc[v] = "idle"
        BY <1>1, <2>1, <2>3, <3>1
      <3>3. Stands(w)'
        BY <1>1, <1>4, <3>2, StandStart
      <3> QED  BY <2>1, <3>2, <3>3
    <2> QED  BY <1>1, <2>1, <2>2, <2>3 DEF StandInv
  <1>5. ASSUME NEW w \in Workers, Work(w)
        PROVE  StandInv'
    <2>1. /\ pc[w] # "idle" /\ UNCHANGED counters
          /\ \A v \in Workers \ {w} : pc'[v] = pc[v]
      BY <1>5, Ways, WayGoes DEF TypeInv
    <2>2. ASSUME NEW r \in Ids, r > requests
          PROVE  runs'[r].status = "none"
      <3>1. CASE SaveRun(w)
        <4>1. PICK x : runs' = [runs EXCEPT ![call[w].id] = x]
          BY <3>1 DEF SaveRun
        <4>2. call[w].id <= requests /\ call[w].id \in Ids
          BY <2>1 DEF TypeInv, CallInv
        <4>3. r # call[w].id
          BY <2>2, <4>2 DEF Ids, TypeInv, TypeOK
        <4> QED  BY <1>1, <2>2, <4>1, <4>3 DEF TypeInv, TypeOK
      <3>2. CASE SaveVerdict(w)
        <4>1. PICK x : runs' = [runs EXCEPT ![call[w].run] = x] /\ pc[w] = "save verdict"
          BY <3>2 DEF SaveVerdict, Writes
        <4>2. runs[call[w].run].status # "none"
          BY <4>1 DEF Grounded
        <4> QED  BY <1>1, <2>2, <4>1, <4>2 DEF TypeInv, TypeOK
      <3>3. CASE runs' = runs
        BY <1>1, <2>2, <3>3
      <3> QED  BY <1>5, <3>1, <3>2, <3>3, Untouched
    <2>3. ASSUME overlaps = 0, crashes = 0
          PROVE  Stood(w)' /\ \A v \in Workers \ {w} : pc'[v] = "idle"
      <3>1. \A v \in Workers \ {w} : pc[v] = "idle"
        BY <2>1, <2>3, Alone
      <3>2. Stands(w)
        BY <1>1, <2>1, <2>3
      <3> QED  BY <1>5, <2>1, <3>1, <3>2, StandWork
    <2>4. overlaps = 0 /\ crashes = 0 =>
             /\ \A v \in Workers : pc'[v] # "idle" => Stands(v)'
             /\ (\A v \in Workers : pc'[v] = "idle") => Agree'
      BY <2>3 DEF Stood
    <2>5. UNCHANGED <<requests, overlaps, crashes>>
      BY <2>1 DEF counters
    <2> QED  BY <1>1, <2>2, <2>4, <2>5 DEF StandInv
  <1> QED  BY <1>2, <1>3, <1>4, <1>5, NextCases

LEMMA StandInit ==
    ASSUME Init
    PROVE  StandInv
  <1>1. /\ \A w \in Workers : pc[w] = "idle"
        /\ crashes = 0 /\ checkpoints = {}
    BY DEF Init
  <1>2. /\ \A t \in Tasks : tasks[t].status = "none"
        /\ \A r \in Ids : runs[r].status = "none"
    BY DEF Init, NoTask, Task, NoRun, Run
  <1>3. Agree
    BY <1>1, <1>2 DEF Agree, AgreeBut, Agrees, Awaited, Accepted, Verdicts
  <1> QED  BY <1>1, <1>2, <1>3 DEF StandInv

(* Between requests that came one at a time, none of them cut short, a     *)
(* task is in the state of its last run, or failed without a verdict on    *)
(* it; no task is left running; a result that waits for review is the last *)
(* run of its task; and the checkpoints are those of the accepted results: *)
(* whatever raises inside the try of _run_task, before, between and after  *)
(* its two saves, leaves the four files in step.                           *)
THEOREM FilesAreInStep == Spec => []FilesAgree
  <1>1. StandInv => FilesAgree
    <2> SUFFICES ASSUME Agree
                 PROVE  /\ \A t \in Tasks :
                              LET r == tasks[t].run
                              IN  /\ tasks[t].status # "RUNNING"
                                  /\ tasks[t].status \in Verdicts \cup {"HUMAN_RESULT_REVIEW"} =>
                                        runs[r].status = tasks[t].status
                                  /\ tasks[t].status = "FAILED" /\ runs[r].task = t =>
                                        runs[r].status \notin Verdicts
                        /\ \A r \in Ids : runs[r].status = "HUMAN_RESULT_REVIEW" =>
                              LET t == tasks[runs[r].task]
                              IN  t.run = r /\ t.status \in {"HUMAN_RESULT_REVIEW", "FAILED"}
                        /\ checkpoints = {r \in Ids : runs[r].status = "ACCEPTED_RESULT"}
      BY DEF StandInv, FilesAgree
    <2>1. (\A t \in Tasks : Agrees(t)) /\ (\A r \in Ids : Awaited(r))
      BY DEF Agree, AgreeBut
    <2>2. checkpoints = Accepted
      BY DEF Agree, AgreeBut
    <2> QED  BY <2>1, <2>2 DEF Agrees, Awaited, Accepted
  <1>2. Init => IInv /\ BusyInv /\ StandInv
    BY InvariantInit, SpendingInit, StandInit DEF Spending
  <1>3. IInv /\ BusyInv /\ StandInv /\ [Next]_vars => IInv' /\ BusyInv' /\ StandInv'
    <2> SUFFICES ASSUME IInv, BusyInv, StandInv, [Next]_vars
                 PROVE  IInv' /\ BusyInv' /\ StandInv'
      OBVIOUS
    <2>1. TypeInv /\ TypeOK /\ Grounded
      BY DEF IInv, TypeInv
    <2> QED  BY <2>1, InvariantStep, BusyStep, StandStep
  <1> QED  BY <1>1, <1>2, <1>3, PTL DEF Spec
=============================================================================
