----------------------------- MODULE LocalState -----------------------------
(***************************************************************************)
(* operational_core_v1: the JSON files in which the console keeps its goal *)
(* and task board and its rules (project_state.json, standing_rules.json,  *)
(* events.jsonl; state_store.py), and its reviews, attempts, checkpoints   *)
(* and project identities (innovation_resilience.py).  Requests are served *)
(* by FastAPI's thread pool and overlap.  Each store holds its lock while  *)
(* it writes, but project_state.json is read in one critical section and   *)
(* written in another, and identities are compared before the lock.        *)
(***************************************************************************)
EXTENDS Naturals, FiniteSets, Sequences, SequencesExt

CONSTANTS Workers,      \* threads of the pool
          Slots,        \* the tasks a goal is broken into
          Rules,        \* standing rules
          Keys,         \* operation keys of attempts
          Projects,     \* project keys of identities
          Fingerprints, \* fingerprints of attempts
          Designs,      \* designs; two are similar when they are the same
          MaxFailures,  \* policy: max_consecutive_failures
          MaxReviews,   \* the reviews that are kept (100)
          MaxCheckpoints, \* the checkpoints that are kept (50)
          MaxIdentities, \* the identities that are kept (100)
          MaxRequests,  \* bound: requests sent
          MaxCrashes    \* bound: crashes of the server

ASSUME BoundsAssumption ==
    MaxFailures \in Nat \ {0} /\ MaxRequests \in Nat /\ MaxCrashes \in Nat
ASSUME LimitsAssumption ==
    MaxReviews \in Nat \ {0} /\ MaxCheckpoints \in Nat \ {0} /\ MaxIdentities \in Nat \ {0}
ASSUME SlotsAssumption == IsFiniteSet(Slots) /\ Slots # {}

VARIABLES
    state,       \* project_state.json
    rules,       \* standing_rules.json: [Rules -> enabled]
    events,      \* events.jsonl
    reviews,     \* innovation_reviews.json: the ids, the oldest first
    resilience,  \* resilience_state.json: attempts, checkpoints, last context check
    identities,  \* project_identities.json: the identities, the oldest first
    pc, call,    \* where a worker stands, and its request
    seen,        \* what a worker read: a project state, or the identities
    requests, crashes,
    history,     \* for the properties: the attempts registered for each key
    filed,       \* for the properties: every review and checkpoint ever filed
    stale        \* for the properties: files once written over a newer version,
                 \* and "log" once an event was lost

files == <<state, rules, events, reviews, resilience, identities>>
requestVars == <<call, seen, requests, crashes>>
ghosts == <<history, filed, stale>>
vars == <<files, pc, requestVars, ghosts>>

(* Every id the code draws is named after the request that draws it.       *)
Ids == 0..MaxRequests

None == 0

TaskStatus == {"none", "draft", "ready_for_review", "accepted_as_plan", "returned"}

Actions == {"ready_for_review", "accepted_as_plan", "returned_to_draft"}

(* Fault: a task takes the name of the action for its status.              *)
Unmapped(action) == action

(* mapping: the status an action leads to.                                 *)
Destination(action) == IF action = "returned_to_draft" THEN "returned" ELSE action

Similarity == {"not_configured", "DISTINCT_ENOUGH", "DIFFERENTIATION_REQUIRED"}

Outcomes == {"success", "failure", "cancelled", "prepared_only"}

AttemptStatus ==
    {"none", "RECORDED", "REPLAN_REQUIRED", "DUPLICATE_FAILURE_WARNING", "ESCALATION_REQUIRED"}

States ==
    [revision : Nat, goal : Ids, tasks : [Slots -> TaskStatus],
     review : [status : {"not_started", "draft", "in_progress", "ready_for_review",
                         "accepted_as_plan"},
               accepted : Nat],
     latest : Ids, identity : Similarity, checkpoint : Ids]

Attempts ==
    [total : Nat, consecutive : Nat, last : Fingerprints \cup {None}, status : AttemptStatus]

Identities == [project : Projects, design : Designs, status : Similarity]

(* list[-limit:]                                                           *)
Newest(list, limit) ==
    IF Len(list) <= limit THEN list ELSE SubSeq(list, Len(list) - limit + 1, Len(list))

(* _new_state                                                              *)
NewState ==
    [revision |-> 0, goal |-> None, tasks |-> [k \in Slots |-> "none"],
     review |-> [status |-> "not_started", accepted |-> 0],
     latest |-> None, identity |-> "not_configured", checkpoint |-> None]

(* The requests a client may send as the n-th.  A task is named by the     *)
(* goal it belongs to; a client knows those of the board.                  *)
Calls(n) ==
    [op : {"goal", "review", "checkpoint", "context"}, id : {n}]
    \cup [op : {"task"}, id : {n}, goal : {state.goal} \ {None}, slot : Slots,
          action : Actions]
    \cup [op : {"attempt"}, id : {n}, key : Keys, outcome : Outcomes,
          fingerprint : Fingerprints]
    \cup [op : {"identity"}, id : {n}, project : Projects, design : Designs,
          status : {"not_configured"}]
    \cup [op : {"rule"}, id : {n}, rule : Rules, enabled : BOOLEAN]

NoCall == [op |-> "none", id |-> None]

(* project_state.json after a request's change                             *)

(* prepare_goal: a new goal and its drafts.  The checkpoint it notes, like *)
(* that of a transition, is in this file only and stands for none.         *)
Prepared(s, c) ==
    [revision |-> s.revision + 1, goal |-> c.id, tasks |-> [k \in Slots |-> "draft"],
     review |-> [status |-> "draft", accepted |-> 0],
     latest |-> s.latest, identity |-> s.identity, checkpoint |-> None]

At(tasks, status) == Cardinality({k \in Slots : tasks[k] = status})

(* The review that the statuses of the tasks amount to.                    *)
ReviewOf(tasks) ==
    LET accepted == At(tasks, "accepted_as_plan")
    IN  [accepted |-> accepted,
         status |-> IF accepted > 0 /\ accepted = Cardinality(Slots) THEN "accepted_as_plan"
                    ELSE IF At(tasks, "ready_for_review") > 0 THEN "ready_for_review"
                    ELSE "in_progress"]

(* Fault: the tasks are counted before the task at hand moves.             *)
CountedBefore(s, c) ==
    [revision |-> s.revision + 1, goal |-> s.goal,
     tasks |-> [s.tasks EXCEPT ![c.slot] = Destination(c.action)], review |-> ReviewOf(s.tasks),
     latest |-> s.latest, identity |-> s.identity, checkpoint |-> None]

(* transition_task                                                         *)
Transitioned(s, c) ==
    LET tasks == [s.tasks EXCEPT ![c.slot] = Destination(c.action)]
    IN  [revision |-> s.revision + 1, goal |-> s.goal, tasks |-> tasks,
         review |-> ReviewOf(tasks),
         latest |-> s.latest, identity |-> s.identity, checkpoint |-> None]

(* update_innovation_status, for the one field its caller passes.          *)
Pointed(s, c) ==
    [revision |-> s.revision + 1, goal |-> s.goal, tasks |-> s.tasks, review |-> s.review,
     latest |-> IF c.op = "review" THEN c.id ELSE s.latest,
     identity |-> IF c.op = "identity" THEN c.status ELSE s.identity,
     checkpoint |-> IF c.op = "checkpoint" THEN c.id ELSE s.checkpoint]

Changed(s, c) ==
    CASE c.op = "goal" -> Prepared(s, c)
      [] c.op = "task" -> Transitioned(s, c)
      [] c.op \in {"review", "checkpoint", "identity"} -> Pointed(s, c)

(* Some other project has an identity of this design.                      *)
Resembles(project, design) ==
    \E other \in Range(identities) : other.project # project /\ other.design = design

(* Fault: a project that was compared once keeps its status.               *)
ComparedOnce(project, design) ==
    IF \E own \in Range(identities) : own.project = project
    THEN (CHOOSE own \in Range(identities) : own.project = project).status
    ELSE IF Resembles(project, design) THEN "DIFFERENTIATION_REQUIRED" ELSE "DISTINCT_ENOUGH"

(* similarity_check: against every other project's identity.               *)
SimilarityOf(project, design) ==
    IF Resembles(project, design) THEN "DIFFERENTIATION_REQUIRED" ELSE "DISTINCT_ENOUGH"

(* A project's identity takes the place of its earlier one.                *)
Upserted(list, identity) ==
    IF \E i \in DOMAIN list : list[i].project = identity.project
    THEN [i \in DOMAIN list |->
             IF list[i].project = identity.project THEN identity ELSE list[i]]
    ELSE Newest(Append(list, identity), MaxIdentities)

Consecutive(a, outcome) ==
    IF outcome = "failure" THEN a.consecutive + 1
    ELSE IF outcome = "success" THEN 0 ELSE a.consecutive

(* Fault: a repeated failure is warned of before it is escalated.          *)
WarnedFirst(a, c) ==
    LET consecutive == Consecutive(a, c.outcome)
    IN  [total |-> a.total + 1, consecutive |-> consecutive, last |-> c.fingerprint,
         status |-> IF c.outcome # "failure" THEN "RECORDED"
                    ELSE IF a.last = c.fingerprint THEN "DUPLICATE_FAILURE_WARNING"
                    ELSE IF consecutive >= MaxFailures THEN "ESCALATION_REQUIRED"
                    ELSE "REPLAN_REQUIRED"]

(* register_attempt: only a success ends a run of failures, and any        *)
(* outcome leaves its fingerprint.                                         *)
Registered(a, c) ==
    LET consecutive == Consecutive(a, c.outcome)
    IN  [total |-> a.total + 1, consecutive |-> consecutive, last |-> c.fingerprint,
         status |-> IF c.outcome # "failure" THEN "RECORDED"
                    ELSE IF consecutive >= MaxFailures THEN "ESCALATION_REQUIRED"
                    ELSE IF a.last = c.fingerprint THEN "DUPLICATE_FAILURE_WARNING"
                    ELSE "REPLAN_REQUIRED"]

Init ==
    /\ state = NewState
    /\ rules = [r \in Rules |-> TRUE]
    /\ events = <<>>
    /\ reviews = <<>>
    /\ resilience = [attempts |-> [k \in Keys |-> [total |-> 0, consecutive |-> 0, last |-> None,
                                                    status |-> "none"]],
                     checkpoints |-> <<>>, context |-> None]
    /\ identities = <<>>
    /\ pc = [w \in Workers |-> "idle"]
    /\ call = [w \in Workers |-> NoCall]
    /\ seen = [w \in Workers |-> NewState]
    /\ requests = 0
    /\ crashes = 0
    /\ history = [k \in Keys |-> <<>>]
    /\ filed = [reviews |-> <<>>, checkpoints |-> <<>>]
    /\ stale = {}

(* Workers that have replaced project_state.json or standing_rules.json    *)
(* and not yet appended the event.                                         *)
Unannounced == {w \in Workers : pc[w] = "announcing"}

(* Fault: the replacement and the event take the lock one after the other. *)
NeverLocked == FALSE

(* The store's lock is held over both; its other holders are one step.     *)
Locked == Unannounced # {}

Goto(w, place) == pc' = [pc EXCEPT ![w] = place]

(* A client sends a request and a thread of the pool takes it up.          *)
Begin(w) ==
    /\ pc[w] = "idle"
    /\ requests < MaxRequests
    /\ requests' = requests + 1
    /\ \E c \in Calls(requests + 1) :
          /\ call' = [call EXCEPT ![w] = c]
          /\ Goto(w, CASE c.op \in {"goal", "task"} -> "loading"
                       [] c.op = "identity" -> "comparing"
                       [] OTHER -> "filing")
    /\ UNCHANGED <<files, seen, crashes, ghosts>>

(* load_state.  A task that is not on the board answers 404.               *)
Load(w) ==
    /\ pc[w] = "loading"
    /\ ~Locked
    /\ IF call[w].op = "task" /\ call[w].goal # state.goal
       THEN Goto(w, "idle") /\ UNCHANGED seen
       ELSE Goto(w, "saving") /\ seen' = [seen EXCEPT ![w] = state]
    /\ UNCHANGED <<files, call, requests, crashes, ghosts>>

(* save_state, up to its event.                                            *)
Save(w) ==
    /\ pc[w] = "saving"
    /\ ~Locked
    /\ state' = Changed(seen[w], call[w])
    /\ stale' = IF state # seen[w] THEN stale \cup {"state"} ELSE stale
    /\ Goto(w, "announcing")
    /\ UNCHANGED <<rules, events, reviews, resilience, identities, requestVars,
                   history, filed>>

(* upsert_rule, up to its event.                                           *)
UpsertRule(w) ==
    /\ pc[w] = "filing" /\ call[w].op = "rule"
    /\ ~Locked
    /\ rules' = [rules EXCEPT ![call[w].rule] = call[w].enabled]
    /\ Goto(w, "announcing")
    /\ UNCHANGED <<state, events, reviews, resilience, identities, requestVars, ghosts>>

(* save_state, upsert_rule: the event is appended, the lock released.      *)
Announce(w) ==
    /\ pc[w] = "announcing"
    /\ events' = Append(events, call[w])
    /\ Goto(w, IF call[w].op \in {"goal", "task", "rule"} THEN "idle" ELSE "reporting")
    /\ UNCHANGED <<state, rules, reviews, resilience, identities, requestVars, ghosts>>

(* prepare_review                                                          *)
AddReview(w) ==
    /\ pc[w] = "filing" /\ call[w].op = "review"
    /\ reviews' = Newest(Append(reviews, call[w].id), MaxReviews)
    /\ filed' = [filed EXCEPT !.reviews = Append(@, call[w].id)]
    /\ Goto(w, "loading")
    /\ UNCHANGED <<state, rules, events, resilience, identities, requestVars, history, stale>>

(* create_checkpoint; the metadata it records is left out.                 *)
AddCheckpoint(w) ==
    /\ pc[w] = "filing" /\ call[w].op = "checkpoint"
    /\ resilience' =
          [resilience EXCEPT !.checkpoints = Newest(Append(@, call[w].id), MaxCheckpoints)]
    /\ filed' = [filed EXCEPT !.checkpoints = Append(@, call[w].id)]
    /\ Goto(w, "loading")
    /\ UNCHANGED <<state, rules, events, reviews, identities, requestVars, history, stale>>

(* register_attempt                                                        *)
RegisterAttempt(w) ==
    /\ pc[w] = "filing" /\ call[w].op = "attempt"
    /\ LET c == call[w]
       IN  /\ resilience' = [resilience EXCEPT !.attempts[c.key] = Registered(@, c)]
           /\ history' = [history EXCEPT ![c.key] = Append(@, c)]
    /\ Goto(w, "reporting")
    /\ UNCHANGED <<state, rules, events, reviews, identities, requestVars, filed, stale>>

(* Fault: the file is written anew.                                        *)
CheckContextAnew(w) ==
    /\ pc[w] = "filing" /\ call[w].op = "context"
    /\ resilience' = [resilience EXCEPT !.context = call[w].id, !.checkpoints = <<>>]
    /\ Goto(w, "reporting")
    /\ UNCHANGED <<state, rules, events, reviews, identities, requestVars, ghosts>>

(* context_check; what it decides from the goal, and its warnings, change  *)
(* nothing else.                                                           *)
CheckContext(w) ==
    /\ pc[w] = "filing" /\ call[w].op = "context"
    /\ resilience' = [resilience EXCEPT !.context = call[w].id]
    /\ Goto(w, "reporting")
    /\ UNCHANGED <<state, rules, events, reviews, identities, requestVars, ghosts>>

(* upsert_identity, its call of similarity_check: no lock is held.         *)
Compare(w) ==
    /\ pc[w] = "comparing"
    /\ seen' = [seen EXCEPT ![w] = identities]
    /\ call' = [call EXCEPT ![w].status = SimilarityOf(call[w].project, call[w].design)]
    /\ Goto(w, "storing")
    /\ UNCHANGED <<files, requests, crashes, ghosts>>

(* upsert_identity, under its lock.                                        *)
StoreIdentity(w) ==
    /\ pc[w] = "storing"
    /\ LET c == call[w]
       IN  identities' = Upserted(identities, [project |-> c.project, design |-> c.design,
                                               status |-> c.status])
    /\ stale' = IF identities # seen[w] THEN stale \cup {"identities"} ELSE stale
    /\ Goto(w, "loading")
    /\ UNCHANGED <<state, rules, events, reviews, resilience, requestVars, history, filed>>

(* append_event, the last step of every handler of                         *)
(* InnovationResilienceManager.                                            *)
Report(w) ==
    /\ pc[w] = "reporting"
    /\ ~Locked
    /\ events' = Append(events, [op |-> "report", of |-> call[w]])
    /\ Goto(w, "idle")
    /\ UNCHANGED <<state, rules, reviews, resilience, identities, requestVars, ghosts>>

(* The server stops and is started again; initialize finds every file.     *)
Crash ==
    /\ crashes < MaxCrashes
    /\ crashes' = crashes + 1
    /\ pc' = [w \in Workers |-> "idle"]
    /\ stale' = IF Unannounced # {} THEN stale \cup {"log"} ELSE stale
    /\ UNCHANGED <<files, call, seen, requests, history, filed>>

Next ==
    \/ \E w \in Workers :
          \/ Begin(w) \/ Load(w) \/ Save(w) \/ UpsertRule(w) \/ Announce(w)
          \/ AddReview(w) \/ AddCheckpoint(w) \/ RegisterAttempt(w) \/ CheckContext(w)
          \/ Compare(w) \/ StoreIdentity(w) \/ Report(w)
    \/ Crash

Spec == Init /\ [][Next]_vars

-----------------------------------------------------------------------------
(* Every file, and what a worker read, has its schema; a saving worker     *)
(* holds a project state and a storing one the identities.                 *)
TypeOK ==
    /\ state \in States
    /\ rules \in [Rules -> BOOLEAN]
    /\ reviews \in Seq(Ids) /\ Len(reviews) <= MaxReviews
    /\ resilience.attempts \in [Keys -> Attempts]
    /\ resilience.checkpoints \in Seq(Ids) /\ Len(resilience.checkpoints) <= MaxCheckpoints
    /\ resilience.context \in Ids
    /\ identities \in Seq(Identities) /\ Len(identities) <= MaxIdentities
    /\ pc \in [Workers -> {"idle", "loading", "saving", "announcing", "filing", "comparing",
                           "storing", "reporting"}]
    /\ \A w \in Workers : /\ pc[w] = "saving" => seen[w] \in States
                          /\ pc[w] = "storing" => seen[w] \in Seq(Identities)
    /\ requests \in 0..MaxRequests /\ crashes \in 0..MaxCrashes
    /\ stale \subseteq {"state", "identities", "log"}

(* Whatever updates overlap and are lost, the review on the board is the   *)
(* one its own tasks amount to (transition_task): it is accepted as a plan *)
(* exactly when every task is, never by a count of another goal's tasks.   *)
BoardConsistent ==
    /\ state.review.accepted = At(state.tasks, "accepted_as_plan")
    /\ state.review.status = "accepted_as_plan"
          <=> \A k \in Slots : state.tasks[k] = "accepted_as_plan"
    /\ state.review.status = "ready_for_review"
          <=> \E k \in Slots : state.tasks[k] = "ready_for_review"
    /\ state.review.status = "not_started" <=> state.goal = None

(* What an event tells of project_state.json and standing_rules.json.      *)
Replayed(f, e) ==
    CASE e.op = "rule" ->
            [state |-> f.state, rules |-> [f.rules EXCEPT ![e.rule] = e.enabled]]
      [] e.op = "report" -> f
      [] OTHER -> [state |-> Changed(f.state, e), rules |-> f.rules]

Replay(log) ==
    FoldLeft(Replayed, [state |-> NewState, rules |-> [r \in Rules |-> TRUE]], log)

(* events.jsonl replayed, and the update whose event is about to be        *)
(* appended.                                                               *)
Tellings ==
    IF Unannounced = {} THEN {Replay(events)}
    ELSE {Replayed(Replay(events), call[w]) : w \in Unannounced}

(* As long as no update was made on a state that had been replaced and no  *)
(* crash came between a file and its event, the log replayed gives the     *)
(* project state and the rules: events are appended in the order of the    *)
(* writes they tell of, also when requests overlap (save_state,            *)
(* upsert_rule).                                                           *)
LogTellsState ==
    \A told \in Tellings :
        /\ stale \subseteq {"identities"} => state = told.state
        /\ "log" \notin stale => rules = told.rules

(* The attempts of h that failed after the last success.                   *)
FailuresSinceSuccess(h) ==
    {i \in DOMAIN h : /\ h[i].outcome = "failure"
                      /\ \A j \in i..Len(h) : h[j].outcome # "success"}

(* Overlapping registrations are all counted, and an operation that has    *)
(* failed MaxFailures times since its last success is escalated to a       *)
(* person, whatever cancelled attempts came in between and however alike   *)
(* the failures are (register_attempt).                                    *)
AttemptsGuarded ==
    \A k \in Keys :
        LET a == resilience.attempts[k]
            h == history[k]
        IN  /\ a.total = Len(h)
            /\ a.consecutive = Cardinality(FailuresSinceSuccess(h))
            /\ a.status = "ESCALATION_REQUIRED" <=>
                  /\ Len(h) \in FailuresSinceSuccess(h)
                  /\ a.consecutive >= MaxFailures

(* An id that was filed is kept unless limit others were filed after it.   *)
Resolves(id, all, kept, limit) ==
    \E i \in DOMAIN all : all[i] = id /\ (i + limit > Len(all) => id \in Range(kept))

(* An id that project_state.json or the log names was written to the file  *)
(* that keeps it, and is still there unless as many newer ones as the file *)
(* holds came after it, across lost updates, crashes and a state saved     *)
(* back over a newer one (prepare_review, create_checkpoint).              *)
PointersResolve ==
    LET Review(id) == Resolves(id, filed.reviews, reviews, MaxReviews)
        Checkpoint(id) ==
            Resolves(id, filed.checkpoints, resilience.checkpoints, MaxCheckpoints)
    IN  /\ state.latest # None => Review(state.latest)
        /\ state.checkpoint # None => Checkpoint(state.checkpoint)
        /\ \A i \in DOMAIN events :
              LET c == IF events[i].op = "report" THEN events[i].of ELSE events[i]
              IN  /\ c.op = "review" => Review(c.id)
                  /\ c.op = "checkpoint" => Checkpoint(c.id)

(* As long as no identity was stored after a comparison with identities    *)
(* that had been replaced, at least one of two kept projects of one design *)
(* is marked for differentiation, also after either was changed            *)
(* (upsert_identity).                                                      *)
SimilarIsFlagged ==
    "identities" \notin stale =>
        \A p, q \in Range(identities) :
            (p.project # q.project /\ p.design = q.design)
                => "DIFFERENTIATION_REQUIRED" \in {p.status, q.status}
=============================================================================
