--------------------------- MODULE LocalStateProofs ---------------------------
(***************************************************************************)
(* Safety of the console's local files for any workers, tasks, rules,      *)
(* keys, projects, requests and crashes.                                   *)
(***************************************************************************)
EXTENDS LocalState, FiniteSetTheorems, WellFoundedInduction, TLAPS

(* The requests there are, as a worker may hold them.                      *)
Drawn == 1..MaxRequests

GoalCalls == [op : {"goal"}, id : Drawn]
FileCalls == [op : {"review", "checkpoint"}, id : Drawn]
ContextCalls == [op : {"context"}, id : Drawn]
TaskCalls ==
    [op : {"task"}, id : Drawn, goal : Ids \ {None}, slot : Slots, action : Actions]
AttemptCalls ==
    [op : {"attempt"}, id : Drawn, key : Keys, outcome : Outcomes, fingerprint : Fingerprints]
IdentityCalls ==
    [op : {"identity"}, id : Drawn, project : Projects, design : Designs, status : Similarity]
RuleCalls == [op : {"rule"}, id : Drawn, rule : Rules, enabled : BOOLEAN]

(* Those that change project_state.json, and all.                          *)
StateCalls == GoalCalls \cup TaskCalls \cup FileCalls \cup IdentityCalls
AllCalls == StateCalls \cup ContextCalls \cup AttemptCalls \cup RuleCalls

Reports == [op : {"report"}, of : AllCalls]

Places ==
    {"idle", "loading", "saving", "announcing", "filing", "comparing", "storing", "reporting"}

(* The requests a worker may have where it stands.                         *)
CallInv ==
    \A w \in Workers :
        /\ call[w] \in AllCalls \cup {NoCall}
        /\ pc[w] \in {"loading", "saving"} => call[w] \in StateCalls
        /\ pc[w] = "announcing" => call[w] \in StateCalls \cup RuleCalls
        /\ pc[w] = "filing" =>
              call[w] \in FileCalls \cup ContextCalls \cup AttemptCalls \cup RuleCalls
        /\ pc[w] \in {"comparing", "storing"} => call[w] \in IdentityCalls
        /\ pc[w] = "reporting" =>
              call[w] \in FileCalls \cup ContextCalls \cup AttemptCalls \cup IdentityCalls

(* The schemas, with those of what workers hold.                           *)
TypeInv ==
    /\ TypeOK
    /\ resilience \in [attempts : [Keys -> Attempts], checkpoints : Seq(Ids), context : Ids]
    /\ seen \in [Workers -> States \cup Seq(Identities)]
    /\ call \in [Workers -> AllCalls \cup {NoCall}]
    /\ CallInv
    /\ events \in Seq(AllCalls \cup Reports)
    /\ history \in [Keys -> Seq(AttemptCalls)]
    /\ filed \in [reviews : Seq(Ids), checkpoints : Seq(Ids)]

(* What BoardConsistent says of any project state.                         *)
Board(s) ==
    /\ s.review.accepted = At(s.tasks, "accepted_as_plan")
    /\ s.review.status = "accepted_as_plan" <=> \A k \in Slots : s.tasks[k] = "accepted_as_plan"
    /\ s.review.status = "ready_for_review" <=> \E k \in Slots : s.tasks[k] = "ready_for_review"
    /\ s.review.status = "not_started" <=> s.goal = None

(* The board is consistent, and so is every state about to be saved, which *)
(* a task is only changed in when there is a board.                        *)
BoardInv ==
    /\ Board(state)
    /\ \A w \in Workers :
          pc[w] = "saving" => /\ Board(seen[w])
                              /\ call[w].op = "task" => seen[w].goal # None

Told(e) == IF e.op = "report" THEN e.of ELSE e

(* What a request or a project state names was once written to its file.   *)
Filed(c) ==
    /\ c.op = "review" => c.id \in Range(filed.reviews)
    /\ c.op = "checkpoint" => c.id \in Range(filed.checkpoints)

Names(s) ==
    /\ s.latest # None => s.latest \in Range(filed.reviews)
    /\ s.checkpoint # None => s.checkpoint \in Range(filed.checkpoints)

(* A file holds the end of all that was written to it, and limit of them   *)
(* unless it holds all.                                                    *)
EndOf(list, all, limit) ==
    /\ Len(list) <= Len(all) /\ Len(list) \in {Len(all), limit}
    /\ \A i \in DOMAIN list : list[i] = all[Len(all) - Len(list) + i]

PointerInv ==
    /\ EndOf(reviews, filed.reviews, MaxReviews)
    /\ EndOf(resilience.checkpoints, filed.checkpoints, MaxCheckpoints)
    /\ Names(state)
    /\ \A i \in DOMAIN events : Filed(Told(events[i]))
    /\ \A w \in Workers :
          /\ pc[w] \in {"loading", "saving", "announcing", "reporting"} => Filed(call[w])
          /\ pc[w] = "saving" => Names(seen[w])

(* A status about to be stored is that of the identities it was made from. *)
Compared(c, s) ==
    c.status = IF \E other \in Range(s) :
                     other.project # c.project /\ other.design = c.design
               THEN "DIFFERENTIATION_REQUIRED" ELSE "DISTINCT_ENOUGH"

SimilarInv ==
    /\ SimilarIsFlagged
    /\ \A w \in Workers : pc[w] = "storing" => Compared(call[w], seen[w])

IInv == TypeInv /\ BoardInv /\ PointerInv /\ SimilarInv
-----------------------------------------------------------------------------
(* Requests and project states                                             *)

LEMMA CallFields ==
    /\ \A c \in AllCalls : c.id \in Drawn /\ c.id \in Ids /\ c.id # None /\ c.op # "report"
    /\ \A c \in StateCalls :
          c.op \in {"goal", "task", "review", "checkpoint", "identity"}
    /\ \A c \in GoalCalls : c.op = "goal"
    /\ \A c \in TaskCalls : c.op = "task"
    /\ \A c \in FileCalls : c.op \in {"review", "checkpoint"}
    /\ \A c \in ContextCalls : c.op = "context"
    /\ \A c \in AttemptCalls : c.op = "attempt"
    /\ \A c \in IdentityCalls : c.op = "identity"
    /\ \A c \in RuleCalls : c.op = "rule"
  BY DEF AllCalls, StateCalls, GoalCalls, TaskCalls, FileCalls, ContextCalls, AttemptCalls,
         IdentityCalls, RuleCalls, Drawn, Ids, None

LEMMA CountFacts ==
    ASSUME NEW tasks \in [Slots -> TaskStatus], NEW status
    PROVE  /\ At(tasks, status) \in Nat
           /\ At(tasks, status) > 0 <=> \E k \in Slots : tasks[k] = status
           /\ At(tasks, status) = Cardinality(Slots) <=> \A k \in Slots : tasks[k] = status
  <1> DEFINE S == {k \in Slots : tasks[k] = status}
  <1>1. IsFiniteSet(S) /\ S \subseteq Slots
    BY SlotsAssumption, FS_Subset
  <1>2. Cardinality(S) \in Nat /\ (Cardinality(S) = 0 <=> S = {})
    BY <1>1, FS_CardinalityType, FS_EmptySet
  <1>3. Cardinality(S) = Cardinality(Slots) <=> S = Slots
    BY <1>1, SlotsAssumption, FS_Subset
  <1>4. At(tasks, status) = Cardinality(S)
    BY DEF At
  <1> QED  BY <1>2, <1>3, <1>4

LEMMA NewBoard == NewState \in States /\ Board(NewState)
  <1> DEFINE tasks == [k \in Slots |-> "none"]
  <1>1. tasks \in [Slots -> TaskStatus]
    BY DEF TaskStatus
  <1>2. At(tasks, "accepted_as_plan") = 0
    BY <1>1, CountFacts
  <1>3. NewState \in States
    BY <1>1, BoundsAssumption DEF NewState, States, Ids, None, Similarity
  <1>4. Board(NewState)
    BY <1>2, SlotsAssumption DEF Board, NewState, None
  <1> QED  BY <1>3, <1>4

LEMMA PreparedBoard ==
    ASSUME NEW s \in States, NEW c \in GoalCalls
    PROVE  Prepared(s, c) \in States /\ Board(Prepared(s, c))
  <1> DEFINE tasks == [k \in Slots |-> "draft"]
  <1>1. tasks \in [Slots -> TaskStatus]
    BY DEF TaskStatus
  <1>2. At(tasks, "accepted_as_plan") = 0
    BY <1>1, CountFacts
  <1>3. c.id \in Ids /\ c.id # None
    BY CallFields DEF AllCalls, StateCalls
  <1>4. Prepared(s, c) \in States
    BY <1>1, <1>3, BoundsAssumption DEF Prepared, States, Ids, None
  <1>5. Board(Prepared(s, c))
    BY <1>2, <1>3, SlotsAssumption DEF Board, Prepared
  <1> QED  BY <1>4, <1>5

LEMMA TransitionedBoard ==
    ASSUME NEW s \in States, NEW c \in TaskCalls, s.goal # None
    PROVE  Transitioned(s, c) \in States /\ Board(Transitioned(s, c))
  <1> DEFINE tasks == [s.tasks EXCEPT ![c.slot] = Destination(c.action)]
  <1>1. c.slot \in Slots /\ c.action \in Actions
    BY DEF TaskCalls
  <1>2. Destination(c.action) \in TaskStatus
    BY <1>1 DEF Destination, Actions, TaskStatus
  <1>3. tasks \in [Slots -> TaskStatus]
    BY <1>2 DEF States
  <1> HIDE DEF tasks
  <1>4. /\ At(tasks, "accepted_as_plan") \in Nat /\ Cardinality(Slots) # 0
        /\ At(tasks, "accepted_as_plan") = Cardinality(Slots)
             <=> \A k \in Slots : tasks[k] = "accepted_as_plan"
        /\ At(tasks, "ready_for_review") > 0
             <=> \E k \in Slots : tasks[k] = "ready_for_review"
    BY <1>3, CountFacts, SlotsAssumption, FS_EmptySet
  <1>5. Cardinality(Slots) \in Nat
    BY SlotsAssumption, FS_CardinalityType
  <1>6. /\ ReviewOf(tasks).accepted = At(tasks, "accepted_as_plan")
        /\ ReviewOf(tasks).status \in {"in_progress", "ready_for_review", "accepted_as_plan"}
        /\ ReviewOf(tasks).status = "accepted_as_plan"
             <=> \A k \in Slots : tasks[k] = "accepted_as_plan"
        /\ ReviewOf(tasks).status = "ready_for_review"
             <=> \E k \in Slots : tasks[k] = "ready_for_review"
    BY <1>4, <1>5, SlotsAssumption DEF ReviewOf
  <1>7. ReviewOf(tasks) \in [status : {"not_started", "draft", "in_progress",
                                      "ready_for_review", "accepted_as_plan"},
                            accepted : Nat]
    BY <1>4, <1>6 DEF ReviewOf
  <1>8. Transitioned(s, c) =
           [revision |-> s.revision + 1, goal |-> s.goal, tasks |-> tasks,
            review |-> ReviewOf(tasks),
            latest |-> s.latest, identity |-> s.identity, checkpoint |-> None]
    BY DEF Transitioned, tasks
  <1>9. Transitioned(s, c) \in States
    BY <1>3, <1>7, <1>8, BoundsAssumption DEF States, Ids, None
  <1>10. Board(Transitioned(s, c))
    BY <1>6, <1>8 DEF Board
  <1> QED  BY <1>9, <1>10

LEMMA PointedBoard ==
    ASSUME NEW s \in States, Board(s), NEW c \in FileCalls \cup IdentityCalls
    PROVE  Pointed(s, c) \in States /\ Board(Pointed(s, c))
  <1>1. c.id \in Ids /\ (c.op = "identity" => c.status \in Similarity)
    BY CallFields DEF AllCalls, StateCalls, IdentityCalls
  <1>2. Pointed(s, c) \in States
    BY <1>1 DEF Pointed, States
  <1>3. Board(Pointed(s, c))
    BY DEF Board, Pointed
  <1> QED  BY <1>2, <1>3

(* Whatever a request makes of a consistent state is consistent.           *)
LEMMA ChangedBoard ==
    ASSUME NEW s \in States, Board(s), NEW c \in StateCalls, c.op = "task" => s.goal # None
    PROVE  Changed(s, c) \in States /\ Board(Changed(s, c))
  <1>1. CASE c \in GoalCalls
    BY <1>1, CallFields, PreparedBoard DEF Changed
  <1>2. CASE c \in TaskCalls
    BY <1>2, CallFields, TransitionedBoard DEF Changed
  <1>3. CASE c \in FileCalls \cup IdentityCalls
    BY <1>3, CallFields, PointedBoard DEF Changed
  <1> QED  BY <1>1, <1>2, <1>3 DEF StateCalls

LEMMA ChangedNames ==
    ASSUME NEW s \in States, Names(s), NEW c \in StateCalls, Filed(c)
    PROVE  Names(Changed(s, c))
  <1>1. CASE c \in GoalCalls
    BY <1>1, CallFields DEF Changed, Prepared, Names
  <1>2. CASE c \in TaskCalls
    BY <1>2, CallFields DEF Changed, Transitioned, Names
  <1>3. CASE c \in FileCalls \cup IdentityCalls
    BY <1>3, CallFields DEF Changed, Pointed, Names, Filed
  <1> QED  BY <1>1, <1>2, <1>3 DEF StateCalls
-----------------------------------------------------------------------------
(* Lists                                                                   *)

LEMMA Appended ==
    ASSUME NEW S, NEW s \in Seq(S), NEW e \in S
    PROVE  /\ Append(s, e) \in Seq(S) /\ Len(Append(s, e)) = Len(s) + 1 /\ Len(s) \in Nat
           /\ DOMAIN Append(s, e) = DOMAIN s \cup {Len(s) + 1}
           /\ DOMAIN s = 1..Len(s)
           /\ \A i \in DOMAIN s : Append(s, e)[i] = s[i]
           /\ Append(s, e)[Len(s) + 1] = e
  OBVIOUS

(* The newest of a list are its end.                                       *)
LEMMA NewestFacts ==
    ASSUME NEW S, NEW list \in Seq(S), NEW limit \in Nat \ {0}
    PROVE  /\ Newest(list, limit) \in Seq(S)
           /\ Len(Newest(list, limit)) = IF Len(list) <= limit THEN Len(list) ELSE limit
           /\ EndOf(Newest(list, limit), list, limit)
  <1>1. CASE Len(list) <= limit
    BY <1>1 DEF Newest, EndOf
  <1>2. CASE Len(list) > limit
    <2> DEFINE first == Len(list) - limit + 1
    <2>1. first \in 1..Len(list) /\ Newest(list, limit) = SubSeq(list, first, Len(list))
      BY <1>2 DEF Newest
    <2>2. SubSeq(list, first, Len(list)) = [i \in 1..limit |-> list[first + i - 1]]
      BY <1>2
    <2>3. \A i \in 1..limit : first + i - 1 \in 1..Len(list) /\ first + i - 1 = Len(list) - limit + i
      BY <1>2
    <2>4. \A i \in 1..limit : list[first + i - 1] \in S
      BY <2>3
    <2> DEFINE new == [i \in 1..limit |-> list[first + i - 1]]
    <2>5. new \in Seq(S) /\ Len(new) = limit /\ DOMAIN new = 1..limit
      BY <2>4
    <2>6. \A i \in 1..limit : new[i] = list[Len(list) - limit + i]
      BY <2>3
    <2> HIDE DEF new
    <2>7. EndOf(new, list, limit)
      BY <1>2, <2>5, <2>6 DEF EndOf
    <2>8. Newest(list, limit) = new
      BY <2>1, <2>2 DEF new
    <2> QED  BY <1>2, <2>5, <2>7, <2>8
  <1> QED  BY <1>1, <1>2

(* list with one more.                                                     *)
Longer(longer, list, e) ==
    /\ Len(longer) = Len(list) + 1
    /\ \A i \in 1..Len(list) : longer[i] = list[i]
    /\ longer[Len(list) + 1] = e

LEMMA LongerAppended ==
    ASSUME NEW S, NEW s \in Seq(S), NEW e \in S
    PROVE  Append(s, e) \in Seq(S) /\ Longer(Append(s, e), s, e)
  BY Appended DEF Longer

(* A list that is the end of another stays so when both get one more.      *)
LEMMA EndLonger ==
    ASSUME NEW S, NEW list \in Seq(S), NEW all \in Seq(S), NEW limit, EndOf(list, all, limit),
           NEW longer \in Seq(S), NEW more \in Seq(S), NEW e,
           Longer(longer, list, e), Longer(more, all, e),
           NEW i \in 1..Len(longer)
    PROVE  longer[i] = more[Len(more) - Len(longer) + i]
  <1>1. Len(list) \in Nat /\ Len(all) \in Nat /\ DOMAIN list = 1..Len(list)
    OBVIOUS
  <1>2. CASE i = Len(list) + 1
    <2>1. Len(more) - Len(longer) + i = Len(all) + 1
      BY <1>1, <1>2 DEF Longer
    <2> QED  BY <1>2, <2>1 DEF Longer
  <1>3. CASE i \in 1..Len(list)
    <2> DEFINE k == Len(all) - Len(list) + i
    <2>1. k \in 1..Len(all)
      BY <1>1, <1>3 DEF EndOf
    <2>2. Len(more) - Len(longer) + i = k
      BY <1>1, <1>3 DEF Longer
    <2>3. list[i] = all[k]
      BY <1>1, <1>3 DEF EndOf
    <2>4. longer[i] = list[i] /\ more[k] = all[k]
      BY <1>3, <2>1 DEF Longer
    <2> QED  BY <2>2, <2>3, <2>4
  <1> QED  BY <1>1, <1>2, <1>3 DEF Longer

LEMMA EndKept ==
    ASSUME NEW S, NEW list \in Seq(S), NEW all \in Seq(S), NEW limit \in Nat \ {0},
           EndOf(list, all, limit), Len(list) <= limit,
           NEW longer \in Seq(S), NEW more \in Seq(S), NEW e,
           Longer(longer, list, e), Longer(more, all, e),
           NEW new \in Seq(S), EndOf(new, longer, limit),
           Len(new) = IF Len(longer) <= limit THEN Len(longer) ELSE limit
    PROVE  Len(new) <= limit /\ EndOf(new, more, limit)
  <1>1. /\ Len(list) \in Nat /\ Len(all) \in Nat /\ Len(longer) \in Nat /\ Len(more) \in Nat
        /\ Len(new) \in Nat /\ DOMAIN new = 1..Len(new)
    OBVIOUS
  <1>2. /\ Len(longer) = Len(list) + 1 /\ Len(more) = Len(all) + 1
        /\ Len(list) <= Len(all) /\ Len(list) \in {Len(all), limit}
        /\ Len(new) <= Len(longer)
    BY DEF Longer, EndOf
  <1>3. Len(new) <= limit /\ Len(new) <= Len(more) /\ Len(new) \in {Len(more), limit}
    BY <1>1, <1>2
  <1>4. ASSUME NEW i \in DOMAIN new
        PROVE  new[i] = more[Len(more) - Len(new) + i]
    <2> DEFINE k == Len(longer) - Len(new) + i
    <2>0. i \in Int /\ 1 <= i /\ i <= Len(new)
      BY <1>1
    <2>1. k \in 1..Len(longer)
      <3>1. Len(longer) \in Nat /\ Len(new) \in Nat /\ Len(new) <= Len(longer)
        BY <1>1, <1>2
      <3> QED  BY <2>0, <3>1
    <2>2. Len(more) - Len(longer) + k = Len(more) - Len(new) + i
      BY <1>1
    <2>3. new[i] = longer[k]
      BY DEF EndOf
    <2> HIDE DEF k
    <2>4. longer[k] = more[Len(more) - Len(longer) + k]
      BY <2>1, EndLonger
    <2> QED  BY <2>2, <2>3, <2>4
  <1> QED  BY <1>3, <1>4 DEF EndOf

LEMMA EndAppended ==
    ASSUME NEW S, NEW list \in Seq(S), NEW all \in Seq(S), NEW limit \in Nat \ {0},
           EndOf(list, all, limit), Len(list) <= limit, NEW e \in S
    PROVE  /\ Newest(Append(list, e), limit) \in Seq(S)
           /\ Len(Newest(Append(list, e), limit)) <= limit
           /\ EndOf(Newest(Append(list, e), limit), Append(all, e), limit)
  <1>1. PICK longer \in Seq(S) : longer = Append(list, e) /\ Longer(longer, list, e)
    BY LongerAppended
  <1>2. PICK more \in Seq(S) : more = Append(all, e) /\ Longer(more, all, e)
    BY LongerAppended
  <1>3. PICK new \in Seq(S) :
           /\ new = Newest(longer, limit) /\ EndOf(new, longer, limit)
           /\ Len(new) = IF Len(longer) <= limit THEN Len(longer) ELSE limit
    BY NewestFacts
  <1>4. Len(new) <= limit /\ EndOf(new, more, limit)
    BY <1>1, <1>2, <1>3, EndKept
  <1> QED  BY <1>1, <1>2, <1>3, <1>4

(* What was filed is kept unless limit others were filed after it.         *)
LEMMA EndResolves ==
    ASSUME NEW S, NEW list \in Seq(S), NEW all \in Seq(S), NEW limit \in Nat \ {0},
           EndOf(list, all, limit), NEW id \in Range(all)
    PROVE  Resolves(id, all, list, limit)
  <1>1. PICK i \in DOMAIN all : all[i] = id
    BY DEF Range
  <1>2. ASSUME i + limit > Len(all) PROVE id \in Range(list)
    <2> DEFINE k == i - (Len(all) - Len(list))
    <2>1. k \in DOMAIN list /\ Len(all) - Len(list) + k = i
      BY <1>2 DEF EndOf
    <2>2. list[k] = id
      BY <1>1, <2>1 DEF EndOf
    <2> QED  BY <2>1, <2>2 DEF Range
  <1> QED  BY <1>1, <1>2 DEF Resolves

LEMMA RangeAppended ==
    ASSUME NEW S, NEW s \in Seq(S), NEW e \in S
    PROVE  Range(Append(s, e)) = Range(s) \cup {e}
  <1>1. ASSUME NEW x \in Range(Append(s, e)) PROVE x \in Range(s) \cup {e}
    BY Appended DEF Range
  <1>2. ASSUME NEW x \in Range(s) PROVE x \in Range(Append(s, e))
    BY Appended DEF Range
  <1>3. e \in Range(Append(s, e))
    BY Appended DEF Range
  <1> QED  BY <1>1, <1>2, <1>3

(* Storing an identity brings in no other.                                 *)
LEMMA UpsertedFacts ==
    ASSUME NEW list \in Seq(Identities), Len(list) <= MaxIdentities, NEW x \in Identities
    PROVE  /\ Upserted(list, x) \in Seq(Identities)
           /\ Len(Upserted(list, x)) <= MaxIdentities
           /\ Range(Upserted(list, x)) \subseteq Range(list) \cup {x}
  <1>1. CASE \E i \in DOMAIN list : list[i].project = x.project
    <2> DEFINE new == [i \in DOMAIN list |-> IF list[i].project = x.project THEN x ELSE list[i]]
    <2>1. Upserted(list, x) = new
      BY <1>1 DEF Upserted
    <2>2. \A i \in 1..Len(list) : new[i] \in Identities /\ new[i] \in {x, list[i]}
      OBVIOUS
    <2>3. new \in Seq(Identities) /\ Len(new) = Len(list) /\ DOMAIN new = DOMAIN list
      BY <2>2
    <2>4. Range(new) \subseteq Range(list) \cup {x}
      BY <2>2, <2>3 DEF Range
    <2> QED  BY <2>1, <2>3, <2>4
  <1>2. CASE ~\E i \in DOMAIN list : list[i].project = x.project
    <2> DEFINE longer == Append(list, x)
    <2>1. longer \in Seq(Identities) /\ Range(longer) = Range(list) \cup {x}
      BY RangeAppended
    <2> DEFINE new == Newest(longer, MaxIdentities)
    <2>2. Upserted(list, x) = new
      BY <1>2 DEF Upserted
    <2> HIDE DEF longer
    <2>3. /\ new \in Seq(Identities) /\ Len(new) <= MaxIdentities
          /\ EndOf(new, longer, MaxIdentities)
      BY <2>1, NewestFacts, LimitsAssumption
    <2>4. \A i \in DOMAIN new : \E k \in DOMAIN longer : new[i] = longer[k]
      <3> SUFFICES ASSUME NEW i \in DOMAIN new
                   PROVE  \E k \in DOMAIN longer : new[i] = longer[k]
        OBVIOUS
      <3> HIDE DEF new
      <3>1. Len(longer) - Len(new) + i \in DOMAIN longer
        BY <2>1, <2>3 DEF EndOf
      <3> QED  BY <2>3, <3>1 DEF EndOf
    <2>5. Range(new) \subseteq Range(longer)
      BY <2>4 DEF Range
    <2> QED  BY <2>1, <2>2, <2>3, <2>5
  <1> QED  BY <1>1, <1>2
-----------------------------------------------------------------------------
(* Types                                                                   *)

LEMMA TypeInit == Init => TypeInv
  <1> SUFFICES ASSUME Init PROVE TypeInv
    OBVIOUS
  <1>1. state \in States /\ 0 \in Ids /\ MaxRequests \in Nat /\ MaxCrashes \in Nat
    BY NewBoard, BoundsAssumption DEF Init, Ids
  <1>2. resilience \in [attempts : [Keys -> Attempts], checkpoints : Seq(Ids), context : Ids]
    BY <1>1 DEF Init, Attempts, AttemptStatus, None
  <1>3. /\ identities \in Seq(Identities) /\ Len(identities) <= MaxIdentities
        /\ reviews \in Seq(Ids) /\ Len(reviews) <= MaxReviews
        /\ Len(resilience.checkpoints) <= MaxCheckpoints
        /\ filed \in [reviews : Seq(Ids), checkpoints : Seq(Ids)]
    BY LimitsAssumption DEF Init
  <1>4. /\ rules \in [Rules -> BOOLEAN]
        /\ pc \in [Workers -> {"idle", "loading", "saving", "announcing", "filing", "comparing",
                               "storing", "reporting"}]
        /\ \A w \in Workers : pc[w] = "idle"
        /\ requests \in 0..MaxRequests /\ crashes \in 0..MaxCrashes
        /\ stale \subseteq {"state", "identities", "log"}
    BY <1>1 DEF Init
  <1>5. TypeOK
    BY <1>1, <1>2, <1>3, <1>4 DEF TypeOK
  <1>6. /\ seen \in [Workers -> States \cup Seq(Identities)]
        /\ call \in [Workers -> AllCalls \cup {NoCall}]
        /\ events \in Seq(AllCalls \cup Reports)
        /\ history \in [Keys -> Seq(AttemptCalls)]
    BY NewBoard DEF Init
  <1>7. CallInv
    BY <1>4, <1>6 DEF CallInv
  <1> QED  BY <1>2, <1>3, <1>5, <1>6, <1>7 DEF TypeInv

(* A worker goes to another place with the request it has.                 *)
LEMMA CallKept ==
    ASSUME TypeInv, NEW w \in Workers, UNCHANGED call, NEW place, Goto(w, place),
           /\ place \in {"loading", "saving"} => call[w] \in StateCalls
           /\ place = "announcing" => call[w] \in StateCalls \cup RuleCalls
           /\ place \in {"comparing", "storing"} => call[w] \in IdentityCalls
           /\ place = "reporting" =>
                 call[w] \in FileCalls \cup ContextCalls \cup AttemptCalls \cup IdentityCalls,
           place \in {"idle", "loading", "saving", "announcing", "comparing", "storing",
                      "reporting"}
    PROVE  /\ CallInv'
           /\ pc' \in [Workers -> {"idle", "loading", "saving", "announcing", "filing",
                                   "comparing", "storing", "reporting"}]
           /\ pc'[w] = place /\ \A v \in Workers \ {w} : pc'[v] = pc[v]
  <1>1. /\ pc'[w] = place /\ \A v \in Workers \ {w} : pc'[v] = pc[v]
        /\ pc' \in [Workers -> {"idle", "loading", "saving", "announcing", "filing",
                                "comparing", "storing", "reporting"}]
    BY DEF TypeInv, TypeOK, Goto
  <1>2. CallInv
    BY DEF TypeInv
  <1>3. ASSUME NEW v \in Workers
        PROVE  /\ call[v] \in AllCalls \cup {NoCall}
               /\ pc'[v] \in {"loading", "saving"} => call[v] \in StateCalls
               /\ pc'[v] = "announcing" => call[v] \in StateCalls \cup RuleCalls
               /\ pc'[v] = "filing" =>
                     call[v] \in FileCalls \cup ContextCalls \cup AttemptCalls \cup RuleCalls
               /\ pc'[v] \in {"comparing", "storing"} => call[v] \in IdentityCalls
               /\ pc'[v] = "reporting" =>
                     call[v] \in FileCalls \cup ContextCalls \cup AttemptCalls \cup IdentityCalls
    <2>1. CASE v = w
      BY <1>1, <1>2, <2>1 DEF CallInv
    <2>2. CASE v # w
      BY <1>1, <1>2, <2>2 DEF CallInv
    <2> QED  BY <2>1, <2>2
  <1>4. CallInv'
    BY <1>3 DEF CallInv
  <1> QED  BY <1>1, <1>4

LEMMA BeginType ==
    ASSUME IInv, NEW w \in Workers, Begin(w)
    PROVE  /\ TypeInv'
           /\ pc[w] = "idle" /\ pc'[w] \in {"loading", "comparing", "filing"}
           /\ \A v \in Workers \ {w} : pc'[v] = pc[v] /\ call'[v] = call[v]
           /\ pc'[w] = "loading" => call'[w] \in GoalCalls \cup TaskCalls
  <1> DEFINE first(c) == CASE c.op \in {"goal", "task"} -> "loading"
                           [] c.op = "identity" -> "comparing"
                           [] OTHER -> "filing"
  <1>1. PICK c \in Calls(requests + 1) :
           call' = [call EXCEPT ![w] = c] /\ Goto(w, first(c))
    BY DEF Begin
  <1>2. requests + 1 \in Drawn /\ requests' \in 0..MaxRequests
    BY BoundsAssumption DEF Begin, IInv, TypeInv, TypeOK, Drawn
  <1>3. state.goal \in Ids
    BY DEF IInv, TypeInv, TypeOK, States
  <1>4. \/ c \in GoalCalls \cup TaskCalls /\ first(c) = "loading"
        \/ c \in IdentityCalls /\ first(c) = "comparing"
        \/ c \in FileCalls \cup ContextCalls \cup AttemptCalls \cup RuleCalls
              /\ first(c) = "filing"
    <2>1. CASE c \in [op : {"goal", "review", "checkpoint", "context"}, id : {requests + 1}]
      BY <1>2, <2>1 DEF GoalCalls, FileCalls, ContextCalls
    <2>2. CASE c \in [op : {"task"}, id : {requests + 1}, goal : {state.goal} \ {None},
                      slot : Slots, action : Actions]
      BY <1>2, <1>3, <2>2 DEF TaskCalls
    <2>3. CASE c \in [op : {"attempt"}, id : {requests + 1}, key : Keys, outcome : Outcomes,
                      fingerprint : Fingerprints]
      BY <1>2, <2>3 DEF AttemptCalls
    <2>4. CASE c \in [op : {"identity"}, id : {requests + 1}, project : Projects,
                      design : Designs, status : {"not_configured"}]
      BY <1>2, <2>4 DEF IdentityCalls, Similarity
    <2>5. CASE c \in [op : {"rule"}, id : {requests + 1}, rule : Rules, enabled : BOOLEAN]
      BY <1>2, <2>5 DEF RuleCalls
    <2> QED  BY <2>1, <2>2, <2>3, <2>4, <2>5 DEF Calls
  <1>5. c \in AllCalls /\ (first(c) = "loading" => c \in StateCalls)
    BY <1>4 DEF AllCalls, StateCalls
  <1> HIDE DEF first
  <1>6. /\ pc'[w] = first(c) /\ \A v \in Workers \ {w} : pc'[v] = pc[v]
        /\ pc' \in [Workers -> {"idle", "loading", "saving", "announcing", "filing",
                                "comparing", "storing", "reporting"}]
    BY <1>1, <1>4 DEF IInv, TypeInv, TypeOK, Goto
  <1>7. /\ call'[w] = c /\ \A v \in Workers \ {w} : call'[v] = call[v]
        /\ call' \in [Workers -> AllCalls \cup {NoCall}]
    BY <1>1, <1>5 DEF IInv, TypeInv
  <1>8. CallInv'
    <2> SUFFICES ASSUME NEW v \in Workers
        PROVE  /\ call'[v] \in AllCalls \cup {NoCall}
               /\ pc'[v] \in {"loading", "saving"} => call'[v] \in StateCalls
               /\ pc'[v] = "announcing" => call'[v] \in StateCalls \cup RuleCalls
               /\ pc'[v] = "filing" =>
                     call'[v] \in FileCalls \cup ContextCalls \cup AttemptCalls \cup RuleCalls
               /\ pc'[v] \in {"comparing", "storing"} => call'[v] \in IdentityCalls
               /\ pc'[v] = "reporting" =>
                     call'[v] \in FileCalls \cup ContextCalls \cup AttemptCalls \cup IdentityCalls
      BY DEF CallInv
    <2>1. CASE v = w
      BY <1>4, <1>5, <1>6, <1>7, <2>1
    <2>2. CASE v # w
      BY <1>6, <1>7, <2>2 DEF IInv, TypeInv, CallInv
    <2> QED  BY <2>1, <2>2
  <1>9. UNCHANGED <<files, seen, crashes, ghosts>> /\ pc[w] = "idle"
    BY DEF Begin
  <1>10. TypeOK'
    BY <1>2, <1>4, <1>6, <1>9 DEF IInv, TypeInv, TypeOK, files, ghosts
  <1>11. TypeInv'
    BY <1>7, <1>8, <1>9, <1>10 DEF IInv, TypeInv, files, ghosts
  <1> QED  BY <1>4, <1>6, <1>7, <1>9, <1>11

LEMMA LoadType ==
    ASSUME IInv, NEW w \in Workers, Load(w)
    PROVE  /\ TypeInv' /\ pc[w] = "loading" /\ pc'[w] \in {"idle", "saving"}
           /\ \A v \in Workers \ {w} : pc'[v] = pc[v] /\ seen'[v] = seen[v]
           /\ pc'[w] = "saving" =>
                 /\ seen'[w] = state
                 /\ call[w].op = "task" => state.goal # None
  <1>1. /\ pc[w] = "loading" /\ TypeInv
        /\ UNCHANGED <<files, call, requests, crashes, ghosts>>
        /\ \/ Goto(w, "idle") /\ UNCHANGED seen
           \/ /\ Goto(w, "saving") /\ seen' = [seen EXCEPT ![w] = state]
              /\ call[w].op = "task" => call[w].goal = state.goal
    BY DEF Load, IInv
  <1>2. call[w] \in StateCalls
    BY <1>1 DEF TypeInv, CallInv
  <1>3. call[w].op = "task" => call[w].goal # None
    <2>1. call[w].op = "task" => call[w] \in TaskCalls
      BY <1>2, CallFields DEF StateCalls
    <2> QED  BY <2>1 DEF TaskCalls
  <1>4. /\ CallInv'
        /\ pc' \in [Workers -> {"idle", "loading", "saving", "announcing", "filing",
                                "comparing", "storing", "reporting"}]
        /\ pc'[w] \in {"idle", "saving"} /\ \A v \in Workers \ {w} : pc'[v] = pc[v]
    BY <1>1, <1>2, CallKept
  <1>5. state \in States /\ seen \in [Workers -> States \cup Seq(Identities)]
    BY <1>1 DEF TypeInv, TypeOK
  <1>6. /\ seen' \in [Workers -> States \cup Seq(Identities)]
        /\ \A v \in Workers \ {w} : seen'[v] = seen[v]
        /\ pc'[w] = "saving" => seen'[w] = state
    <2>1. CASE Goto(w, "idle") /\ UNCHANGED seen
      BY <1>1, <1>5, <2>1 DEF Goto, TypeInv, TypeOK
    <2>2. CASE seen' = [seen EXCEPT ![w] = state]
      BY <1>5, <2>2
    <2> QED  BY <1>1, <2>1, <2>2
  <1>7. TypeOK'
    BY <1>1, <1>4, <1>5, <1>6 DEF TypeInv, TypeOK, files, ghosts
  <1>8. TypeInv'
    BY <1>1, <1>4, <1>6, <1>7 DEF TypeInv, files, ghosts
  <1>9. pc'[w] = "saving" => (call[w].op = "task" => state.goal # None)
    BY <1>1, <1>3 DEF Goto, TypeInv, TypeOK
  <1> QED  BY <1>1, <1>4, <1>6, <1>8, <1>9

LEMMA SaveType ==
    ASSUME IInv, NEW w \in Workers, Save(w)
    PROVE  /\ TypeInv' /\ Board(state') /\ Names(state')
           /\ pc[w] = "saving" /\ pc'[w] = "announcing"
           /\ \A v \in Workers \ {w} : pc'[v] = pc[v]
  <1>1. /\ pc[w] = "saving" /\ TypeInv /\ Goto(w, "announcing")
        /\ state' = Changed(seen[w], call[w])
        /\ stale' \in {stale, stale \cup {"state"}}
        /\ UNCHANGED <<rules, events, reviews, resilience, identities, requestVars, history,
                       filed>>
    BY DEF Save, IInv
  <1>2. call[w] \in StateCalls /\ seen[w] \in States
    BY <1>1 DEF TypeInv, TypeOK, CallInv
  <1>3. /\ Board(seen[w]) /\ (call[w].op = "task" => seen[w].goal # None)
        /\ Names(seen[w]) /\ Filed(call[w])
    BY <1>1 DEF IInv, BoardInv, PointerInv
  <1>4. state' \in States /\ Board(state') /\ Names(state')
    BY <1>1, <1>2, <1>3, ChangedBoard, ChangedNames
  <1>5. /\ CallInv'
        /\ pc' \in [Workers -> {"idle", "loading", "saving", "announcing", "filing",
                                "comparing", "storing", "reporting"}]
        /\ pc'[w] = "announcing" /\ \A v \in Workers \ {w} : pc'[v] = pc[v]
    BY <1>1, <1>2, CallKept DEF requestVars
  <1>6. TypeOK'
    BY <1>1, <1>4, <1>5 DEF TypeInv, TypeOK, requestVars
  <1>7. TypeInv'
    BY <1>1, <1>5, <1>6 DEF TypeInv, requestVars
  <1> QED  BY <1>1, <1>4, <1>5, <1>7

LEMMA UpsertRuleType ==
    ASSUME IInv, NEW w \in Workers, UpsertRule(w)
    PROVE  /\ TypeInv' /\ pc'[w] = "announcing" /\ call[w].op = "rule"
           /\ \A v \in Workers \ {w} : pc'[v] = pc[v]
  <1>1. /\ pc[w] = "filing" /\ call[w].op = "rule" /\ TypeInv /\ Goto(w, "announcing")
        /\ rules' = [rules EXCEPT ![call[w].rule] = call[w].enabled]
        /\ UNCHANGED <<state, events, reviews, resilience, identities, requestVars, ghosts>>
    BY DEF UpsertRule, IInv
  <1>2. call[w] \in RuleCalls
    BY <1>1, CallFields DEF TypeInv, CallInv
  <1>3. rules' \in [Rules -> BOOLEAN]
    BY <1>1, <1>2 DEF TypeInv, TypeOK, RuleCalls
  <1>4. /\ CallInv'
        /\ pc' \in [Workers -> {"idle", "loading", "saving", "announcing", "filing",
                                "comparing", "storing", "reporting"}]
        /\ pc'[w] = "announcing" /\ \A v \in Workers \ {w} : pc'[v] = pc[v]
    BY <1>1, <1>2, CallKept DEF requestVars
  <1>5. TypeOK'
    BY <1>1, <1>3, <1>4 DEF TypeInv, TypeOK, requestVars, ghosts
  <1>6. TypeInv'
    BY <1>1, <1>4, <1>5 DEF TypeInv, requestVars, ghosts
  <1> QED  BY <1>1, <1>4, <1>6

LEMMA AnnounceType ==
    ASSUME IInv, NEW w \in Workers, Announce(w)
    PROVE  /\ TypeInv' /\ pc[w] = "announcing" /\ pc'[w] \in {"idle", "reporting"}
           /\ \A v \in Workers \ {w} : pc'[v] = pc[v]
           /\ events \in Seq(AllCalls \cup Reports) /\ call[w] \in AllCalls
  <1>1. /\ pc[w] = "announcing" /\ TypeInv /\ events' = Append(events, call[w])
        /\ \/ Goto(w, "idle")
           \/ call[w].op \notin {"goal", "task", "rule"} /\ Goto(w, "reporting")
        /\ UNCHANGED <<state, rules, reviews, resilience, identities, requestVars, ghosts>>
    BY DEF Announce, IInv
  <1>2. /\ call[w] \in StateCalls \cup RuleCalls /\ call[w] \in AllCalls
        /\ events \in Seq(AllCalls \cup Reports)
    BY <1>1 DEF TypeInv, CallInv, AllCalls
  <1>3. events' \in Seq(AllCalls \cup Reports)
    BY <1>1, <1>2
  <1>4. call[w].op \notin {"goal", "task", "rule"} => call[w] \in FileCalls \cup IdentityCalls
    BY <1>2, CallFields DEF StateCalls
  <1>5. /\ CallInv'
        /\ pc' \in [Workers -> {"idle", "loading", "saving", "announcing", "filing",
                                "comparing", "storing", "reporting"}]
        /\ pc'[w] \in {"idle", "reporting"} /\ \A v \in Workers \ {w} : pc'[v] = pc[v]
    BY <1>1, <1>4, CallKept DEF requestVars
  <1>6. TypeOK'
    BY <1>1, <1>5 DEF TypeInv, TypeOK, requestVars, ghosts
  <1>7. TypeInv'
    BY <1>1, <1>3, <1>5, <1>6 DEF TypeInv, requestVars, ghosts
  <1> QED  BY <1>1, <1>2, <1>5, <1>7

(* The file of reviews, and that of checkpoints, take one more id.         *)
LEMMA AddReviewType ==
    ASSUME IInv, NEW w \in Workers, AddReview(w)
    PROVE  /\ TypeInv' /\ pc'[w] = "loading" /\ \A v \in Workers \ {w} : pc'[v] = pc[v]
           /\ EndOf(reviews', filed'.reviews, MaxReviews)
           /\ filed'.checkpoints = filed.checkpoints
           /\ Range(filed'.reviews) = Range(filed.reviews) \cup {call[w].id}
  <1>1. /\ pc[w] = "filing" /\ call[w].op = "review" /\ TypeInv /\ Goto(w, "loading")
        /\ reviews' = Newest(Append(reviews, call[w].id), MaxReviews)
        /\ filed' = [filed EXCEPT !.reviews = Append(@, call[w].id)]
        /\ UNCHANGED <<state, rules, events, resilience, identities, requestVars, history,
                       stale>>
    BY DEF AddReview, IInv
  <1>2. call[w] \in FileCalls /\ call[w].id \in Ids /\ call[w] \in StateCalls
    BY <1>1, CallFields DEF TypeInv, CallInv, AllCalls, StateCalls
  <1>3. /\ CallInv'
        /\ pc' \in [Workers -> {"idle", "loading", "saving", "announcing", "filing",
                                "comparing", "storing", "reporting"}]
        /\ pc'[w] = "loading" /\ \A v \in Workers \ {w} : pc'[v] = pc[v]
    BY <1>1, <1>2, CallKept DEF requestVars
  <1>4. /\ reviews \in Seq(Ids) /\ Len(reviews) <= MaxReviews
        /\ filed \in [reviews : Seq(Ids), checkpoints : Seq(Ids)]
        /\ EndOf(reviews, filed.reviews, MaxReviews)
    BY <1>1 DEF TypeInv, TypeOK, IInv, PointerInv
  <1>5. filed' = [reviews |-> Append(filed.reviews, call[w].id),
                  checkpoints |-> filed.checkpoints]
    BY <1>1, <1>4
  <1>6. /\ reviews' \in Seq(Ids) /\ Len(reviews') <= MaxReviews
        /\ EndOf(reviews', filed'.reviews, MaxReviews)
    BY <1>1, <1>2, <1>4, <1>5, EndAppended, LimitsAssumption
  <1>7. /\ filed' \in [reviews : Seq(Ids), checkpoints : Seq(Ids)]
        /\ filed'.checkpoints = filed.checkpoints
        /\ Range(filed'.reviews) = Range(filed.reviews) \cup {call[w].id}
    BY <1>2, <1>4, <1>5, RangeAppended
  <1>8. TypeOK'
    BY <1>1, <1>3, <1>6 DEF TypeInv, TypeOK, requestVars
  <1>9. TypeInv'
    BY <1>1, <1>3, <1>7, <1>8 DEF TypeInv, requestVars
  <1> QED  BY <1>3, <1>6, <1>7, <1>9

LEMMA AddCheckpointType ==
    ASSUME IInv, NEW w \in Workers, AddCheckpoint(w)
    PROVE  /\ TypeInv' /\ pc'[w] = "loading" /\ \A v \in Workers \ {w} : pc'[v] = pc[v]
           /\ resilience'.attempts = resilience.attempts
           /\ EndOf(resilience'.checkpoints, filed'.checkpoints, MaxCheckpoints)
           /\ filed'.reviews = filed.reviews
           /\ Range(filed'.checkpoints) = Range(filed.checkpoints) \cup {call[w].id}
  <1> DEFINE new == Newest(Append(resilience.checkpoints, call[w].id), MaxCheckpoints)
  <1>1. /\ pc[w] = "filing" /\ call[w].op = "checkpoint" /\ TypeInv /\ Goto(w, "loading")
        /\ resilience' =
              [resilience EXCEPT !.checkpoints = Newest(Append(@, call[w].id), MaxCheckpoints)]
        /\ filed' = [filed EXCEPT !.checkpoints = Append(@, call[w].id)]
        /\ UNCHANGED <<state, rules, events, reviews, identities, requestVars, history, stale>>
    BY DEF AddCheckpoint, IInv
  <1>2. call[w] \in FileCalls /\ call[w].id \in Ids /\ call[w] \in StateCalls
    BY <1>1, CallFields DEF TypeInv, CallInv, AllCalls, StateCalls
  <1>3. resilience' = [attempts |-> resilience.attempts, checkpoints |-> new,
                       context |-> resilience.context]
    BY <1>1 DEF TypeInv
  <1>4. /\ resilience \in [attempts : [Keys -> Attempts], checkpoints : Seq(Ids), context : Ids]
        /\ Len(resilience.checkpoints) <= MaxCheckpoints
        /\ filed \in [reviews : Seq(Ids), checkpoints : Seq(Ids)]
        /\ EndOf(resilience.checkpoints, filed.checkpoints, MaxCheckpoints)
    BY <1>1 DEF TypeInv, TypeOK, IInv, PointerInv
  <1>5. filed' = [reviews |-> filed.reviews,
                  checkpoints |-> Append(filed.checkpoints, call[w].id)]
    BY <1>1, <1>4
  <1>6. /\ new \in Seq(Ids) /\ Len(new) <= MaxCheckpoints
        /\ EndOf(new, filed'.checkpoints, MaxCheckpoints)
    BY <1>2, <1>4, <1>5, EndAppended, LimitsAssumption
  <1> HIDE DEF new
  <1>7. /\ filed' \in [reviews : Seq(Ids), checkpoints : Seq(Ids)]
        /\ filed'.reviews = filed.reviews
        /\ Range(filed'.checkpoints) = Range(filed.checkpoints) \cup {call[w].id}
    BY <1>2, <1>4, <1>5, RangeAppended
  <1>8. resilience' \in [attempts : [Keys -> Attempts], checkpoints : Seq(Ids), context : Ids]
    BY <1>3, <1>4, <1>6
  <1>9. /\ CallInv'
        /\ pc' \in [Workers -> {"idle", "loading", "saving", "announcing", "filing",
                                "comparing", "storing", "reporting"}]
        /\ pc'[w] = "loading" /\ \A v \in Workers \ {w} : pc'[v] = pc[v]
    BY <1>1, <1>2, CallKept DEF requestVars
  <1>10. TypeOK'
    BY <1>1, <1>3, <1>6, <1>8, <1>9 DEF TypeInv, TypeOK, requestVars
  <1>11. TypeInv'
    BY <1>1, <1>7, <1>8, <1>9, <1>10 DEF TypeInv, requestVars
  <1> QED  BY <1>3, <1>6, <1>7, <1>9, <1>11

LEMMA CheckContextType ==
    ASSUME IInv, NEW w \in Workers, CheckContext(w)
    PROVE  /\ TypeInv' /\ pc'[w] = "reporting" /\ \A v \in Workers \ {w} : pc'[v] = pc[v]
           /\ resilience'.attempts = resilience.attempts
           /\ resilience'.checkpoints = resilience.checkpoints
  <1>1. /\ pc[w] = "filing" /\ call[w].op = "context" /\ TypeInv /\ Goto(w, "reporting")
        /\ resilience' = [resilience EXCEPT !.context = call[w].id]
        /\ UNCHANGED <<state, rules, events, reviews, identities, requestVars, ghosts>>
    BY DEF CheckContext, IInv
  <1>2. call[w] \in ContextCalls /\ call[w].id \in Ids
    BY <1>1, CallFields DEF TypeInv, CallInv, AllCalls
  <1>3. resilience' = [attempts |-> resilience.attempts, checkpoints |-> resilience.checkpoints,
                       context |-> call[w].id]
    BY <1>1 DEF TypeInv
  <1>4. resilience' \in [attempts : [Keys -> Attempts], checkpoints : Seq(Ids), context : Ids]
    BY <1>1, <1>2, <1>3 DEF TypeInv
  <1>5. /\ CallInv'
        /\ pc' \in [Workers -> {"idle", "loading", "saving", "announcing", "filing",
                                "comparing", "storing", "reporting"}]
        /\ pc'[w] = "reporting" /\ \A v \in Workers \ {w} : pc'[v] = pc[v]
    BY <1>1, <1>2, CallKept DEF requestVars
  <1>6. TypeOK'
    BY <1>1, <1>4, <1>5 DEF TypeInv, TypeOK, requestVars, ghosts
  <1>7. TypeInv'
    BY <1>1, <1>4, <1>5, <1>6 DEF TypeInv, requestVars, ghosts
  <1> QED  BY <1>3, <1>5, <1>7

LEMMA RegisterAttemptType ==
    ASSUME IInv, NEW w \in Workers, RegisterAttempt(w)
    PROVE  /\ TypeInv' /\ pc'[w] = "reporting" /\ \A v \in Workers \ {w} : pc'[v] = pc[v]
           /\ call[w] \in AttemptCalls
           /\ resilience'.checkpoints = resilience.checkpoints
           /\ resilience'.attempts = [resilience.attempts EXCEPT
                  ![call[w].key] = Registered(resilience.attempts[call[w].key], call[w])]
           /\ history' = [history EXCEPT ![call[w].key] = Append(history[call[w].key], call[w])]
  <1> DEFINE c == call[w]
  <1> DEFINE attempts == [resilience.attempts EXCEPT
                             ![c.key] = Registered(resilience.attempts[c.key], c)]
  <1>1. /\ pc[w] = "filing" /\ c.op = "attempt" /\ TypeInv /\ Goto(w, "reporting")
        /\ resilience' = [resilience EXCEPT !.attempts[c.key] = Registered(@, c)]
        /\ history' = [history EXCEPT ![c.key] = Append(history[c.key], c)]
        /\ UNCHANGED <<state, rules, events, reviews, identities, requestVars, filed, stale>>
    BY DEF RegisterAttempt, IInv
  <1>2. c \in AttemptCalls
    BY <1>1, CallFields DEF TypeInv, CallInv
  <1>3. c.key \in Keys /\ c.outcome \in Outcomes /\ c.fingerprint \in Fingerprints
    BY <1>2 DEF AttemptCalls
  <1>4. resilience.attempts \in [Keys -> Attempts]
    BY <1>1 DEF TypeInv
  <1>5. Registered(resilience.attempts[c.key], c) \in Attempts
    <2> DEFINE a == resilience.attempts[c.key]
    <2>1. a \in Attempts
      BY <1>3, <1>4
    <2>2. a.total + 1 \in Nat /\ Consecutive(a, c.outcome) \in Nat
      BY <2>1 DEF Attempts, Consecutive
    <2> QED  BY <1>3, <2>2 DEF Registered, Attempts, AttemptStatus
  <1>6. attempts \in [Keys -> Attempts]
    BY <1>4, <1>5
  <1>7. resilience' = [attempts |-> attempts, checkpoints |-> resilience.checkpoints,
                       context |-> resilience.context]
    BY <1>1 DEF TypeInv
  <1>8. resilience' \in [attempts : [Keys -> Attempts], checkpoints : Seq(Ids), context : Ids]
    BY <1>1, <1>6, <1>7 DEF TypeInv
  <1>9. history' \in [Keys -> Seq(AttemptCalls)]
    BY <1>1, <1>2, <1>3 DEF TypeInv
  <1>10. /\ CallInv'
         /\ pc' \in [Workers -> {"idle", "loading", "saving", "announcing", "filing",
                                 "comparing", "storing", "reporting"}]
         /\ pc'[w] = "reporting" /\ \A v \in Workers \ {w} : pc'[v] = pc[v]
    BY <1>1, <1>2, CallKept DEF requestVars
  <1>11. TypeOK'
    BY <1>1, <1>8, <1>10 DEF TypeInv, TypeOK, requestVars
  <1>12. TypeInv'
    BY <1>1, <1>8, <1>9, <1>10, <1>11 DEF TypeInv, requestVars
  <1> QED  BY <1>1, <1>2, <1>7, <1>10, <1>12

LEMMA CompareType ==
    ASSUME IInv, NEW w \in Workers, Compare(w)
    PROVE  /\ TypeInv' /\ pc[w] = "comparing" /\ pc'[w] = "storing"
           /\ \A v \in Workers \ {w} :
                 pc'[v] = pc[v] /\ call'[v] = call[v] /\ seen'[v] = seen[v]
           /\ seen'[w] = identities /\ Compared(call'[w], identities)
  <1> DEFINE status == SimilarityOf(call[w].project, call[w].design)
  <1>1. /\ pc[w] = "comparing" /\ TypeInv /\ Goto(w, "storing")
        /\ seen' = [seen EXCEPT ![w] = identities]
        /\ call' = [call EXCEPT ![w].status = status]
        /\ UNCHANGED <<files, requests, crashes, ghosts>>
    BY DEF Compare, IInv
  <1>2. call[w] \in IdentityCalls /\ status \in Similarity
    BY <1>1 DEF TypeInv, CallInv, SimilarityOf, Similarity
  <1> HIDE DEF status
  <1>3. call'[w] = [op |-> call[w].op, id |-> call[w].id, project |-> call[w].project,
                    design |-> call[w].design, status |-> status]
    BY <1>1, <1>2 DEF TypeInv, IdentityCalls
  <1>4. call'[w] \in IdentityCalls
    BY <1>2, <1>3 DEF IdentityCalls
  <1>5. /\ call' \in [Workers -> AllCalls \cup {NoCall}]
        /\ \A v \in Workers \ {w} : call'[v] = call[v]
    BY <1>1, <1>4 DEF TypeInv, AllCalls, StateCalls
  <1>6. /\ pc'[w] = "storing" /\ \A v \in Workers \ {w} : pc'[v] = pc[v]
        /\ pc' \in [Workers -> {"idle", "loading", "saving", "announcing", "filing",
                                "comparing", "storing", "reporting"}]
    BY <1>1 DEF TypeInv, TypeOK, Goto
  <1>7. /\ seen' \in [Workers -> States \cup Seq(Identities)]
        /\ seen'[w] = identities /\ \A v \in Workers \ {w} : seen'[v] = seen[v]
        /\ identities \in Seq(Identities)
    BY <1>1 DEF TypeInv, TypeOK
  <1>8. CallInv'
    <2> SUFFICES ASSUME NEW v \in Workers
        PROVE  /\ call'[v] \in AllCalls \cup {NoCall}
               /\ pc'[v] \in {"loading", "saving"} => call'[v] \in StateCalls
               /\ pc'[v] = "announcing" => call'[v] \in StateCalls \cup RuleCalls
               /\ pc'[v] = "filing" =>
                     call'[v] \in FileCalls \cup ContextCalls \cup AttemptCalls \cup RuleCalls
               /\ pc'[v] \in {"comparing", "storing"} => call'[v] \in IdentityCalls
               /\ pc'[v] = "reporting" =>
                     call'[v] \in FileCalls \cup ContextCalls \cup AttemptCalls \cup IdentityCalls
      BY DEF CallInv
    <2>1. CASE v = w
      BY <1>4, <1>5, <1>6, <2>1
    <2>2. CASE v # w
      BY <1>1, <1>5, <1>6, <2>2 DEF TypeInv, CallInv
    <2> QED  BY <2>1, <2>2
  <1>9. TypeOK'
    BY <1>1, <1>6, <1>7 DEF TypeInv, TypeOK, files, ghosts
  <1>10. TypeInv'
    BY <1>1, <1>5, <1>7, <1>8, <1>9 DEF TypeInv, files, ghosts
  <1>11. Compared(call'[w], identities)
    BY <1>3 DEF Compared, SimilarityOf, Resembles, status
  <1> QED  BY <1>1, <1>5, <1>6, <1>7, <1>10, <1>11

LEMMA StoreIdentityType ==
    ASSUME IInv, NEW w \in Workers, StoreIdentity(w)
    PROVE  /\ TypeInv' /\ pc[w] = "storing" /\ pc'[w] = "loading"
           /\ \A v \in Workers \ {w} : pc'[v] = pc[v]
           /\ call[w] \in IdentityCalls
           /\ Range(identities') \subseteq Range(identities) \cup
                 {[project |-> call[w].project, design |-> call[w].design,
                   status |-> call[w].status]}
  <1> DEFINE new == [project |-> call[w].project, design |-> call[w].design,
                     status |-> call[w].status]
  <1>1. /\ pc[w] = "storing" /\ TypeInv /\ Goto(w, "loading")
        /\ identities' = Upserted(identities, new)
        /\ stale' \in {stale, stale \cup {"identities"}}
        /\ UNCHANGED <<state, rules, events, reviews, resilience, requestVars, history, filed>>
    BY DEF StoreIdentity, IInv
  <1>2. call[w] \in IdentityCalls /\ call[w] \in StateCalls
    BY <1>1 DEF TypeInv, CallInv, StateCalls
  <1>3. /\ identities' \in Seq(Identities) /\ Len(identities') <= MaxIdentities
        /\ Range(identities') \subseteq Range(identities) \cup {new}
    <2>1. new \in Identities
      BY <1>2 DEF IdentityCalls, Identities
    <2> HIDE DEF new
    <2>2. identities \in Seq(Identities) /\ Len(identities) <= MaxIdentities
      BY <1>1 DEF TypeInv, TypeOK
    <2> QED  BY <1>1, <2>1, <2>2, UpsertedFacts
  <1>4. /\ CallInv'
        /\ pc' \in [Workers -> {"idle", "loading", "saving", "announcing", "filing",
                                "comparing", "storing", "reporting"}]
        /\ pc'[w] = "loading" /\ \A v \in Workers \ {w} : pc'[v] = pc[v]
    BY <1>1, <1>2, CallKept DEF requestVars
  <1>5. TypeOK'
    BY <1>1, <1>3, <1>4 DEF TypeInv, TypeOK, requestVars
  <1>6. TypeInv'
    BY <1>1, <1>4, <1>5 DEF TypeInv, requestVars
  <1> QED  BY <1>1, <1>2, <1>3, <1>4, <1>6

LEMMA ReportType ==
    ASSUME IInv, NEW w \in Workers, Report(w)
    PROVE  /\ TypeInv' /\ pc[w] = "reporting" /\ pc'[w] = "idle"
           /\ \A v \in Workers \ {w} : pc'[v] = pc[v]
           /\ events \in Seq(AllCalls \cup Reports) /\ call[w] \in AllCalls
  <1>1. /\ pc[w] = "reporting" /\ TypeInv /\ Goto(w, "idle")
        /\ events' = Append(events, [op |-> "report", of |-> call[w]])
        /\ UNCHANGED <<state, rules, reviews, resilience, identities, requestVars, ghosts>>
    BY DEF Report, IInv
  <1>2. call[w] \in AllCalls /\ events \in Seq(AllCalls \cup Reports)
    BY <1>1 DEF TypeInv, CallInv, AllCalls, StateCalls
  <1>3. [op |-> "report", of |-> call[w]] \in AllCalls \cup Reports
    BY <1>2 DEF Reports
  <1>4. events' \in Seq(AllCalls \cup Reports)
    BY <1>1, <1>2, <1>3
  <1>5. /\ CallInv'
        /\ pc' \in [Workers -> {"idle", "loading", "saving", "announcing", "filing",
                                "comparing", "storing", "reporting"}]
        /\ pc'[w] = "idle" /\ \A v \in Workers \ {w} : pc'[v] = pc[v]
    BY <1>1, CallKept DEF requestVars
  <1>6. TypeOK'
    BY <1>1, <1>5 DEF TypeInv, TypeOK, requestVars, ghosts
  <1>7. TypeInv'
    BY <1>1, <1>4, <1>5, <1>6 DEF TypeInv, requestVars, ghosts
  <1> QED  BY <1>1, <1>2, <1>5, <1>7

LEMMA CrashType ==
    ASSUME IInv, Crash
    PROVE  TypeInv' /\ \A w \in Workers : pc'[w] = "idle"
  <1>1. /\ pc' = [w \in Workers |-> "idle"] /\ TypeInv /\ crashes < MaxCrashes
        /\ crashes' = crashes + 1 /\ stale' \in {stale, stale \cup {"log"}}
        /\ UNCHANGED <<files, call, seen, requests, history, filed>>
    BY DEF Crash, IInv
  <1>2. crashes' \in 0..MaxCrashes
    BY <1>1, BoundsAssumption DEF TypeInv, TypeOK
  <1>3. TypeOK'
    BY <1>1, <1>2 DEF TypeInv, TypeOK, files
  <1>4. CallInv'
    BY <1>1 DEF TypeInv, CallInv
  <1>5. TypeInv'
    BY <1>1, <1>3, <1>4 DEF TypeInv, files
  <1> QED  BY <1>1, <1>5

LEMMA StepType ==
    ASSUME IInv, [Next]_vars
    PROVE  TypeInv'
  <1>1. CASE Next
    BY <1>1, BeginType, LoadType, SaveType, UpsertRuleType, AnnounceType, AddReviewType,
       AddCheckpointType, RegisterAttemptType, CheckContextType, CompareType, StoreIdentityType,
       ReportType, CrashType DEF Next
  <1>2. CASE UNCHANGED vars
    BY <1>2 DEF vars, files, requestVars, ghosts, IInv, TypeInv, TypeOK, CallInv
  <1> QED  BY <1>1, <1>2
-----------------------------------------------------------------------------
(* The board                                                               *)

(* No worker begins to save, or it saves what is on the board.             *)
LEMMA BoardKept ==
    ASSUME IInv, Board(state'),
           \A w \in Workers :
               pc'[w] = "saving" =>
                  \/ pc[w] = "saving" /\ seen'[w] = seen[w] /\ call'[w] = call[w]
                  \/ seen'[w] = state /\ (call'[w].op = "task" => state.goal # None)
    PROVE  BoardInv'
  BY DEF IInv, BoardInv

LEMMA BoardStep ==
    ASSUME IInv, [Next]_vars
    PROVE  BoardInv'
  <1>0. Board(state)
    BY DEF IInv, BoardInv
  <1>1. ASSUME NEW w \in Workers, Begin(w) PROVE BoardInv'
    BY <1>0, <1>1, BeginType, BoardKept DEF Begin, files
  <1>2. ASSUME NEW w \in Workers, Load(w) PROVE BoardInv'
    BY <1>0, <1>2, LoadType, BoardKept DEF Load, files
  <1>3. ASSUME NEW w \in Workers, Save(w) PROVE BoardInv'
    BY <1>3, SaveType, BoardKept DEF Save, requestVars
  <1>4. ASSUME NEW w \in Workers, UpsertRule(w) PROVE BoardInv'
    BY <1>0, <1>4, UpsertRuleType, BoardKept DEF UpsertRule, requestVars
  <1>5. ASSUME NEW w \in Workers, Announce(w) PROVE BoardInv'
    BY <1>0, <1>5, AnnounceType, BoardKept DEF Announce, requestVars
  <1>6. ASSUME NEW w \in Workers, AddReview(w) PROVE BoardInv'
    BY <1>0, <1>6, AddReviewType, BoardKept DEF AddReview, requestVars
  <1>7. ASSUME NEW w \in Workers, AddCheckpoint(w) PROVE BoardInv'
    BY <1>0, <1>7, AddCheckpointType, BoardKept DEF AddCheckpoint, requestVars
  <1>8. ASSUME NEW w \in Workers, RegisterAttempt(w) PROVE BoardInv'
    BY <1>0, <1>8, RegisterAttemptType, BoardKept DEF RegisterAttempt, requestVars
  <1>9. ASSUME NEW w \in Workers, CheckContext(w) PROVE BoardInv'
    BY <1>0, <1>9, CheckContextType, BoardKept DEF CheckContext, requestVars
  <1>10. ASSUME NEW w \in Workers, Compare(w) PROVE BoardInv'
    BY <1>0, <1>10, CompareType, BoardKept DEF Compare, files
  <1>11. ASSUME NEW w \in Workers, StoreIdentity(w) PROVE BoardInv'
    BY <1>0, <1>11, StoreIdentityType, BoardKept DEF StoreIdentity, requestVars
  <1>12. ASSUME NEW w \in Workers, Report(w) PROVE BoardInv'
    BY <1>0, <1>12, ReportType, BoardKept DEF Report, requestVars
  <1>13. CASE Crash
    BY <1>0, <1>13, CrashType, BoardKept DEF Crash, files
  <1>14. CASE UNCHANGED vars
    BY <1>0, <1>14, BoardKept DEF vars, files, requestVars
  <1> QED  BY <1>1, <1>2, <1>3, <1>4, <1>5, <1>6, <1>7, <1>8, <1>9, <1>10, <1>11, <1>12,
              <1>13, <1>14 DEF Next
-----------------------------------------------------------------------------
(* Ids                                                                     *)

(* The files stay the ends of what was filed, of which there is ever more, *)
(* and what names an id named it before or names one that is filed.        *)
LEMMA PointerKept ==
    ASSUME IInv,
           EndOf(reviews', filed'.reviews, MaxReviews),
           EndOf(resilience'.checkpoints, filed'.checkpoints, MaxCheckpoints),
           Range(filed.reviews) \subseteq Range(filed'.reviews),
           Range(filed.checkpoints) \subseteq Range(filed'.checkpoints),
           state' = state \/ (Names(state') /\ filed' = filed),
           \/ events' = events
           \/ \E e \in AllCalls \cup Reports :
                 events' = Append(events, e) /\ Filed(Told(e)) /\ filed' = filed,
           \A w \in Workers :
               /\ pc'[w] \in {"loading", "saving", "announcing", "reporting"} =>
                     \/ /\ call'[w].op = "review" => call'[w].id \in Range(filed'.reviews)
                        /\ call'[w].op = "checkpoint" =>
                              call'[w].id \in Range(filed'.checkpoints)
                     \/ /\ pc[w] \in {"loading", "saving", "announcing", "reporting"}
                        /\ call'[w] = call[w]
               /\ pc'[w] = "saving" =>
                     (pc[w] = "saving" /\ seen'[w] = seen[w]) \/ seen'[w] = state
    PROVE  PointerInv'
  <1>0. Names(state) /\ \A i \in DOMAIN events : Filed(Told(events[i]))
    BY DEF IInv, PointerInv
  <1>1. ASSUME NEW i \in DOMAIN events'
        PROVE  /\ Told(events'[i]).op = "review" =>
                     Told(events'[i]).id \in Range(filed'.reviews)
               /\ Told(events'[i]).op = "checkpoint" =>
                     Told(events'[i]).id \in Range(filed'.checkpoints)
    <2>1. CASE i \in DOMAIN events /\ events'[i] = events[i]
      BY <1>0, <2>1 DEF Filed
    <2>2. CASE filed' = filed /\ Filed(Told(events'[i]))
      BY <2>2 DEF Filed
    <2>3. events \in Seq(AllCalls \cup Reports)
      BY DEF IInv, TypeInv
    <2> QED  BY <2>1, <2>2, <2>3, Appended
  <1>2. Names(state)'
    BY <1>0 DEF Names
  <1>3. ASSUME NEW w \in Workers,
               pc'[w] \in {"loading", "saving", "announcing", "reporting"}
        PROVE  Filed(call[w])'
    BY <1>3 DEF IInv, PointerInv, Filed
  <1>4. ASSUME NEW w \in Workers, pc'[w] = "saving" PROVE Names(seen[w])'
    BY <1>0, <1>4 DEF IInv, PointerInv, Names
  <1>5. (\A i \in DOMAIN events : Filed(Told(events[i])))'
    BY <1>1 DEF Filed, Told
  <1> QED  BY <1>2, <1>3, <1>4, <1>5 DEF PointerInv

(* A step that files nothing leaves the ends.                              *)
LEMMA EndsKept ==
    ASSUME IInv, reviews' = reviews, resilience'.checkpoints = resilience.checkpoints,
           filed' = filed
    PROVE  /\ EndOf(reviews', filed'.reviews, MaxReviews)
           /\ EndOf(resilience'.checkpoints, filed'.checkpoints, MaxCheckpoints)
           /\ Range(filed.reviews) \subseteq Range(filed'.reviews)
           /\ Range(filed.checkpoints) \subseteq Range(filed'.checkpoints)
  BY DEF IInv, PointerInv

LEMMA PointerStep ==
    ASSUME IInv, [Next]_vars
    PROVE  PointerInv'
  <1>1. ASSUME NEW w \in Workers, Begin(w) PROVE PointerInv'
    <2>1. pc'[w] = "loading" => call'[w].op \notin {"review", "checkpoint"}
      BY <1>1, BeginType, CallFields
    <2> QED  BY <1>1, <2>1, BeginType, EndsKept, PointerKept DEF Begin, files, ghosts
  <1>2. ASSUME NEW w \in Workers, Load(w) PROVE PointerInv'
    BY <1>2, LoadType, EndsKept, PointerKept DEF Load, files, ghosts
  <1>3. ASSUME NEW w \in Workers, Save(w) PROVE PointerInv'
    BY <1>3, SaveType, EndsKept, PointerKept DEF Save, requestVars
  <1>4. ASSUME NEW w \in Workers, UpsertRule(w) PROVE PointerInv'
    BY <1>4, UpsertRuleType, EndsKept, PointerKept DEF UpsertRule, requestVars, ghosts
  <1>5. ASSUME NEW w \in Workers, Announce(w) PROVE PointerInv'
    <2>1. /\ events' = Append(events, call[w]) /\ call[w] \in AllCalls \cup Reports
          /\ UNCHANGED <<state, reviews, resilience, seen, call, filed>>
      BY <1>5, AnnounceType DEF Announce, requestVars, ghosts
    <2>2. Filed(Told(call[w]))
      BY <1>5, AnnounceType, CallFields DEF IInv, PointerInv, Told
    <2> QED  BY <1>5, <2>1, <2>2, AnnounceType, EndsKept, PointerKept
  <1>6. ASSUME NEW w \in Workers, AddReview(w) PROVE PointerInv'
    <2>1. /\ UNCHANGED <<state, events, resilience, seen, call>> /\ call[w].op = "review"
          /\ \A v \in Workers \ {w} : pc'[v] = pc[v]
          /\ pc'[w] = "loading"
          /\ EndOf(reviews', filed'.reviews, MaxReviews)
          /\ filed'.checkpoints = filed.checkpoints
          /\ Range(filed'.reviews) = Range(filed.reviews) \cup {call[w].id}
      BY <1>6, AddReviewType DEF AddReview, requestVars
    <2>2. EndOf(resilience'.checkpoints, filed'.checkpoints, MaxCheckpoints)
      BY <2>1 DEF IInv, PointerInv
    <2> QED  BY <2>1, <2>2, PointerKept
  <1>7. ASSUME NEW w \in Workers, AddCheckpoint(w) PROVE PointerInv'
    <2>1. /\ UNCHANGED <<state, events, reviews, seen, call>> /\ call[w].op = "checkpoint"
          /\ \A v \in Workers \ {w} : pc'[v] = pc[v]
          /\ pc'[w] = "loading"
          /\ EndOf(resilience'.checkpoints, filed'.checkpoints, MaxCheckpoints)
          /\ filed'.reviews = filed.reviews
          /\ Range(filed'.checkpoints) = Range(filed.checkpoints) \cup {call[w].id}
      BY <1>7, AddCheckpointType DEF AddCheckpoint, requestVars
    <2>2. EndOf(reviews', filed'.reviews, MaxReviews)
      BY <2>1 DEF IInv, PointerInv
    <2> QED  BY <2>1, <2>2, PointerKept
  <1>8. ASSUME NEW w \in Workers, RegisterAttempt(w) PROVE PointerInv'
    <2>1. /\ UNCHANGED <<state, events, reviews, seen, call, filed>> /\ call[w].op = "attempt"
          /\ \A v \in Workers \ {w} : pc'[v] = pc[v]
          /\ pc'[w] = "reporting"
          /\ resilience'.checkpoints = resilience.checkpoints
      BY <1>8, RegisterAttemptType DEF RegisterAttempt, requestVars
    <2> QED  BY <2>1, EndsKept, PointerKept
  <1>9. ASSUME NEW w \in Workers, CheckContext(w) PROVE PointerInv'
    <2>1. /\ UNCHANGED <<state, events, reviews, seen, call, filed>> /\ call[w].op = "context"
          /\ \A v \in Workers \ {w} : pc'[v] = pc[v]
          /\ pc'[w] = "reporting"
          /\ resilience'.checkpoints = resilience.checkpoints
      BY <1>9, CheckContextType DEF CheckContext, requestVars, ghosts
    <2> QED  BY <2>1, EndsKept, PointerKept
  <1>10. ASSUME NEW w \in Workers, Compare(w) PROVE PointerInv'
    BY <1>10, CompareType, EndsKept, PointerKept DEF Compare, files, ghosts
  <1>11. ASSUME NEW w \in Workers, StoreIdentity(w) PROVE PointerInv'
    <2>1. call[w].op = "identity"
      BY <1>11, StoreIdentityType, CallFields
    <2> QED  BY <1>11, <2>1, StoreIdentityType, EndsKept, PointerKept
             DEF StoreIdentity, requestVars
  <1>12. ASSUME NEW w \in Workers, Report(w) PROVE PointerInv'
    <2> DEFINE e == [op |-> "report", of |-> call[w]]
    <2>1. /\ events' = Append(events, e) /\ e \in AllCalls \cup Reports
          /\ UNCHANGED <<state, reviews, resilience, seen, call, filed>>
      BY <1>12, ReportType DEF Report, requestVars, Reports, ghosts
    <2>2. Filed(call[w])
      BY <1>12 DEF Report, IInv, PointerInv
    <2>3. Told(e) = call[w]
      BY DEF Told
    <2> QED  BY <1>12, <2>1, <2>2, <2>3, ReportType, EndsKept, PointerKept
  <1>13. CASE Crash
    BY <1>13, CrashType, EndsKept, PointerKept DEF Crash, files
  <1>14. CASE UNCHANGED vars
    BY <1>14, EndsKept, PointerKept DEF vars, files, requestVars, ghosts
  <1> QED  BY <1>1, <1>2, <1>3, <1>4, <1>5, <1>6, <1>7, <1>8, <1>9, <1>10, <1>11, <1>12,
              <1>13, <1>14 DEF Next

(* What is named was filed, and the files are the ends of what was filed.  *)
LEMMA NamedResolves == IInv => PointersResolve
  <1> SUFFICES ASSUME IInv PROVE PointersResolve
    OBVIOUS
  <1>1. /\ reviews \in Seq(Ids) /\ resilience.checkpoints \in Seq(Ids)
        /\ filed.reviews \in Seq(Ids) /\ filed.checkpoints \in Seq(Ids)
    BY DEF IInv, TypeInv, TypeOK
  <1>2. PointerInv
    BY DEF IInv
  <1>3. \A id \in Range(filed.reviews) : Resolves(id, filed.reviews, reviews, MaxReviews)
    BY <1>1, <1>2, EndResolves, LimitsAssumption DEF PointerInv
  <1>4. \A id \in Range(filed.checkpoints) :
           Resolves(id, filed.checkpoints, resilience.checkpoints, MaxCheckpoints)
    BY <1>1, <1>2, EndResolves, LimitsAssumption DEF PointerInv
  <1>5. \A i \in DOMAIN events : Filed(Told(events[i]))
    BY <1>2 DEF PointerInv
  <1>6. Names(state)
    BY <1>2 DEF PointerInv
  <1> QED  BY <1>3, <1>4, <1>5, <1>6 DEF PointersResolve, Names, Filed, Told
-----------------------------------------------------------------------------
(* Identities                                                              *)

(* Nobody stores an identity, and nobody goes to store one.                *)
LEMMA SimilarKept ==
    ASSUME IInv, identities' = identities, stale \subseteq stale',
           \A w \in Workers :
               pc'[w] = "storing" =>
                   \/ pc[w] = "storing" /\ seen'[w] = seen[w] /\ call'[w] = call[w]
                   \/ Compared(call'[w], seen'[w])
    PROVE  SimilarInv'
  BY DEF IInv, SimilarInv, SimilarIsFlagged

LEMMA StoredSimilar ==
    ASSUME IInv, NEW w \in Workers, StoreIdentity(w)
    PROVE  SimilarInv'
  <1> DEFINE c == call[w]
  <1> DEFINE new == [project |-> c.project, design |-> c.design, status |-> c.status]
  <1>1. /\ stale' = IF identities # seen[w] THEN stale \cup {"identities"} ELSE stale
        /\ UNCHANGED <<seen, call>> /\ pc[w] = "storing"
    BY DEF StoreIdentity, requestVars
  <1>2. /\ pc'[w] = "loading" /\ \A v \in Workers \ {w} : pc'[v] = pc[v]
        /\ Range(identities') \subseteq Range(identities) \cup {new}
    BY StoreIdentityType
  <1>3. ASSUME "identities" \notin stale', NEW p \in Range(identities'),
               NEW q \in Range(identities'), p.project # q.project, p.design = q.design
        PROVE  "DIFFERENTIATION_REQUIRED" \in {p.status, q.status}
    <2>1. identities = seen[w] /\ "identities" \notin stale
      BY <1>1, <1>3
    <2>2. Compared(c, identities)
      BY <1>1, <2>1 DEF IInv, SimilarInv
    <2>3. CASE p \in Range(identities) /\ q \in Range(identities)
      BY <1>3, <2>1, <2>3 DEF IInv, SimilarInv, SimilarIsFlagged
    <2>4. CASE p \in Range(identities) /\ q = new
      BY <1>3, <2>2, <2>4 DEF Compared
    <2>5. CASE q \in Range(identities) /\ p = new
      BY <1>3, <2>2, <2>5 DEF Compared
    <2> QED  BY <1>2, <1>3, <2>3, <2>4, <2>5
  <1>4. SimilarIsFlagged'
    BY <1>3 DEF SimilarIsFlagged
  <1> QED  BY <1>1, <1>2, <1>4 DEF IInv, SimilarInv

LEMMA SimilarStep ==
    ASSUME IInv, [Next]_vars
    PROVE  SimilarInv'
  <1>1. ASSUME NEW w \in Workers, Begin(w) PROVE SimilarInv'
    BY <1>1, BeginType, SimilarKept DEF Begin, files, ghosts
  <1>2. ASSUME NEW w \in Workers, Load(w) PROVE SimilarInv'
    BY <1>2, LoadType, SimilarKept DEF Load, files, ghosts
  <1>3. ASSUME NEW w \in Workers, Save(w) PROVE SimilarInv'
    BY <1>3, SaveType, SimilarKept DEF Save, requestVars
  <1>4. ASSUME NEW w \in Workers, UpsertRule(w) PROVE SimilarInv'
    BY <1>4, UpsertRuleType, SimilarKept DEF UpsertRule, requestVars, ghosts
  <1>5. ASSUME NEW w \in Workers, Announce(w) PROVE SimilarInv'
    BY <1>5, AnnounceType, SimilarKept DEF Announce, requestVars, ghosts
  <1>6. ASSUME NEW w \in Workers, AddReview(w) PROVE SimilarInv'
    BY <1>6, AddReviewType, SimilarKept DEF AddReview, requestVars, ghosts
  <1>7. ASSUME NEW w \in Workers, AddCheckpoint(w) PROVE SimilarInv'
    BY <1>7, AddCheckpointType, SimilarKept DEF AddCheckpoint, requestVars, ghosts
  <1>8. ASSUME NEW w \in Workers, RegisterAttempt(w) PROVE SimilarInv'
    BY <1>8, RegisterAttemptType, SimilarKept DEF RegisterAttempt, requestVars
  <1>9. ASSUME NEW w \in Workers, CheckContext(w) PROVE SimilarInv'
    BY <1>9, CheckContextType, SimilarKept DEF CheckContext, requestVars, ghosts
  <1>10. ASSUME NEW w \in Workers, Compare(w) PROVE SimilarInv'
    BY <1>10, CompareType, SimilarKept DEF Compare, files, ghosts
  <1>11. ASSUME NEW w \in Workers, StoreIdentity(w) PROVE SimilarInv'
    BY <1>11, StoredSimilar
  <1>12. ASSUME NEW w \in Workers, Report(w) PROVE SimilarInv'
    BY <1>12, ReportType, SimilarKept DEF Report, requestVars, ghosts
  <1>13. CASE Crash
    BY <1>13, CrashType, SimilarKept DEF Crash, files
  <1>14. CASE UNCHANGED vars
    BY <1>14, SimilarKept DEF vars, files, requestVars, ghosts
  <1> QED  BY <1>1, <1>2, <1>3, <1>4, <1>5, <1>6, <1>7, <1>8, <1>9, <1>10, <1>11, <1>12,
              <1>13, <1>14 DEF Next
-----------------------------------------------------------------------------
LEMMA SafeInit == Init => IInv
  <1> SUFFICES ASSUME Init PROVE IInv
    OBVIOUS
  <1>1. \A w \in Workers : pc[w] = "idle"
    BY DEF Init
  <1>2. BoardInv
    BY <1>1, NewBoard DEF Init, BoardInv
  <1>3. /\ EndOf(reviews, filed.reviews, MaxReviews)
        /\ EndOf(resilience.checkpoints, filed.checkpoints, MaxCheckpoints)
    BY LimitsAssumption DEF Init, EndOf
  <1>4. PointerInv
    BY <1>1, <1>3 DEF Init, PointerInv, Names, NewState
  <1>5. SimilarInv
    BY <1>1 DEF Init, SimilarInv, SimilarIsFlagged, Range
  <1> QED  BY <1>2, <1>4, <1>5, TypeInit DEF IInv

LEMMA SafeStep == IInv /\ [Next]_vars => IInv'
  BY StepType, BoardStep, PointerStep, SimilarStep DEF IInv

LEMMA Safe == Spec => []IInv
  BY SafeInit, SafeStep, PTL DEF Spec

(* Every local file has its schema, and what a worker is about to write    *)
(* fits the file it writes.                                                *)
THEOREM TypeCorrect == Spec => []TypeOK
  <1>1. IInv => TypeOK
    BY DEF IInv, TypeInv
  <1> QED  BY <1>1, Safe, PTL

(* The review on the board counts the board's own tasks, whatever updates  *)
(* overlapped and were lost.                                               *)
THEOREM BoardCounts == Spec => []BoardConsistent
  <1>1. IInv => BoardConsistent
    BY DEF IInv, BoardInv, Board, BoardConsistent
  <1> QED  BY <1>1, Safe, PTL

(* Nothing names a review or a checkpoint that was not filed, or that is   *)
(* gone from its file although fewer newer ones came than the file holds.  *)
THEOREM NamesResolve == Spec => []PointersResolve
  BY NamedResolves, Safe, PTL

(* Of two projects of one design one is marked, unless an identity was     *)
(* stored after a comparison with identities that had been replaced.       *)
THEOREM SimilarMarked == Spec => []SimilarIsFlagged
  <1>1. IInv => SimilarIsFlagged
    BY DEF IInv, SimilarInv
  <1> QED  BY <1>1, Safe, PTL
-----------------------------------------------------------------------------
(* Attempts                                                                *)

(* How one more attempt changes the failures since the last success.       *)
LEMMA FailuresAppended ==
    ASSUME NEW h \in Seq(AttemptCalls), NEW c \in AttemptCalls
    PROVE  /\ FailuresSinceSuccess(h) \subseteq 1..Len(h)
           /\ c.outcome = "success" => FailuresSinceSuccess(Append(h, c)) = {}
           /\ c.outcome = "failure" =>
                 FailuresSinceSuccess(Append(h, c)) = FailuresSinceSuccess(h) \cup {Len(h) + 1}
           /\ c.outcome \notin {"success", "failure"} =>
                 FailuresSinceSuccess(Append(h, c)) = FailuresSinceSuccess(h)
  <1> DEFINE g == Append(h, c)
  <1> DEFINE n == Len(h)
  <1>1. /\ Len(g) = n + 1 /\ n \in Nat /\ DOMAIN g = 1..(n + 1) /\ DOMAIN h = 1..n
        /\ \A i \in 1..n : g[i] = h[i]
        /\ g[n + 1] = c
    BY Appended
  <1> HIDE DEF g, n
  <1>2. ASSUME NEW i \in 1..n
        PROVE  /\ i \in 1..(n + 1) /\ i # n + 1
               /\ \A j \in i..n : j \in 1..n
               /\ \A j : j \in i..(n + 1) <=> j \in i..n \/ j = n + 1
    BY <1>1
  <1>3. ASSUME NEW i \in 1..n
        PROVE  i \in FailuresSinceSuccess(g) <=>
                  i \in FailuresSinceSuccess(h) /\ c.outcome # "success"
    BY <1>1, <1>2, <1>3 DEF FailuresSinceSuccess, n
  <1>4. n + 1 \in FailuresSinceSuccess(g) <=> c.outcome = "failure"
    BY <1>1 DEF FailuresSinceSuccess
  <1>5. /\ FailuresSinceSuccess(g) \subseteq 1..(n + 1)
        /\ FailuresSinceSuccess(h) \subseteq 1..n
    BY <1>1 DEF FailuresSinceSuccess
  <1>6. \A i \in 1..(n + 1) : i \in 1..n \/ i = n + 1
    BY <1>1
  <1>7. c.outcome = "success" => FailuresSinceSuccess(g) = {}
    BY <1>3, <1>4, <1>5, <1>6
  <1>8. c.outcome = "failure" =>
           FailuresSinceSuccess(g) = FailuresSinceSuccess(h) \cup {n + 1}
    BY <1>3, <1>4, <1>5, <1>6
  <1>9. c.outcome \notin {"success", "failure"} =>
           FailuresSinceSuccess(g) = FailuresSinceSuccess(h)
    BY <1>2, <1>3, <1>4, <1>5, <1>6
  <1> QED  BY <1>5, <1>7, <1>8, <1>9 DEF g, n

(* What AttemptsGuarded says of one operation.                             *)
Guarded(a, h) ==
    /\ a.total = Len(h)
    /\ a.consecutive = Cardinality(FailuresSinceSuccess(h))
    /\ a.status = "ESCALATION_REQUIRED" <=>
          Len(h) \in FailuresSinceSuccess(h) /\ a.consecutive >= MaxFailures

LEMMA RegisteredGuarded ==
    ASSUME NEW a \in Attempts, NEW h \in Seq(AttemptCalls), Guarded(a, h), NEW c \in AttemptCalls
    PROVE  Guarded(Registered(a, c), Append(h, c))
  <1> DEFINE F == FailuresSinceSuccess(h)
  <1> DEFINE G == FailuresSinceSuccess(Append(h, c))
  <1>1. /\ F \subseteq 1..Len(h) /\ Len(h) \in Nat
        /\ c.outcome = "success" => G = {}
        /\ c.outcome = "failure" => G = F \cup {Len(h) + 1}
        /\ c.outcome \notin {"success", "failure"} => G = F
        /\ Len(Append(h, c)) = Len(h) + 1
    BY FailuresAppended, Appended
  <1>2. IsFiniteSet(F) /\ Len(h) + 1 \notin F
    <2>1. Len(h) \in Int /\ 1 \in Int /\ Len(h) + 1 \notin 1..Len(h)
      BY <1>1
    <2>2. IsFiniteSet(1..Len(h))
      BY <2>1, FS_Interval
    <2> HIDE DEF F
    <2> QED  BY <1>1, <2>1, <2>2, FS_Subset
  <1>3. /\ Cardinality(F) \in Nat /\ Cardinality({}) = 0
        /\ Cardinality(F \cup {Len(h) + 1}) = Cardinality(F) + 1
    BY <1>2, FS_CardinalityType, FS_EmptySet, FS_AddElement
  <1> HIDE DEF F, G
  <1>4. a.consecutive = Cardinality(F) /\ a.total = Len(h)
    BY DEF Guarded, F
  <1>5. Consecutive(a, c.outcome) = Cardinality(G)
    BY <1>1, <1>3, <1>4 DEF Consecutive
  <1>6. Len(h) + 1 \in G <=> c.outcome = "failure"
    BY <1>1, <1>2
  <1>7. Registered(a, c).status = "ESCALATION_REQUIRED" <=>
           c.outcome = "failure" /\ Consecutive(a, c.outcome) >= MaxFailures
    BY DEF Registered
  <1>8. /\ Registered(a, c).total = Len(h) + 1
        /\ Registered(a, c).consecutive = Consecutive(a, c.outcome)
    BY <1>4 DEF Registered
  <1> QED  BY <1>1, <1>5, <1>6, <1>7, <1>8 DEF Guarded, G

LEMMA AttemptsInit == Init => AttemptsGuarded
  <1> SUFFICES ASSUME Init, NEW k \in Keys PROVE Guarded(resilience.attempts[k], history[k])
    BY DEF AttemptsGuarded, Guarded
  <1>1. /\ resilience.attempts[k] =
              [total |-> 0, consecutive |-> 0, last |-> None, status |-> "none"]
        /\ history[k] = <<>>
    BY DEF Init
  <1>2. FailuresSinceSuccess(<<>>) = {} /\ Cardinality({}) = 0 /\ Len(<<>>) = 0
    BY FS_EmptySet DEF FailuresSinceSuccess
  <1>3. Len(<<>>) \notin FailuresSinceSuccess(<<>>)
    BY <1>2
  <1> DEFINE a == resilience.attempts[k]
  <1>4. a.total = 0 /\ a.consecutive = 0 /\ a.status # "ESCALATION_REQUIRED"
    BY <1>1
  <1> HIDE DEF a
  <1>5. Guarded(a, <<>>)
    BY <1>2, <1>3, <1>4 DEF Guarded
  <1> QED  BY <1>1, <1>5 DEF a

LEMMA AttemptsStep == IInv /\ AttemptsGuarded /\ [Next]_vars => AttemptsGuarded'
  <1> SUFFICES ASSUME IInv, AttemptsGuarded, [Next]_vars PROVE AttemptsGuarded'
    OBVIOUS
  <1>1. CASE \E w \in Workers : RegisterAttempt(w)
    <2>1. PICK w \in Workers : RegisterAttempt(w)
      BY <1>1
    <2>2. /\ call[w] \in AttemptCalls
          /\ resilience'.attempts = [resilience.attempts EXCEPT
                 ![call[w].key] = Registered(resilience.attempts[call[w].key], call[w])]
          /\ history' = [history EXCEPT ![call[w].key] = Append(history[call[w].key], call[w])]
      BY <2>1, RegisterAttemptType
    <2>3. /\ resilience.attempts \in [Keys -> Attempts]
          /\ history \in [Keys -> Seq(AttemptCalls)] /\ call[w].key \in Keys
      BY <2>2 DEF IInv, TypeInv, AttemptCalls
    <2>4. ASSUME NEW k \in Keys PROVE Guarded(resilience.attempts[k], history[k])
      BY DEF AttemptsGuarded, Guarded
    <2>5. ASSUME NEW k \in Keys PROVE Guarded(resilience'.attempts[k], history'[k])
      BY <2>2, <2>3, <2>4, RegisteredGuarded
    <2> QED  BY <2>5 DEF AttemptsGuarded, Guarded
  <1>2. CASE resilience'.attempts = resilience.attempts /\ history' = history
    BY <1>2 DEF AttemptsGuarded
  <1>3. CASE \E w \in Workers : AddCheckpoint(w) \/ CheckContext(w)
    BY <1>3, <1>2, AddCheckpointType, CheckContextType
       DEF AddCheckpoint, CheckContext, ghosts
  <1>4. CASE UNCHANGED <<resilience, history>>
    BY <1>4, <1>2
  <1> QED  BY <1>1, <1>3, <1>4
           DEF Next, Begin, Load, Save, UpsertRule, Announce, AddReview, Compare,
               StoreIdentity, Report, Crash, vars, files, ghosts

(* Overlapping registrations are all counted, and what keeps failing is    *)
(* escalated.                                                              *)
THEOREM FailuresEscalate == Spec => []AttemptsGuarded
  BY Safe, AttemptsInit, AttemptsStep, PTL DEF Spec
-----------------------------------------------------------------------------
(* The log                                                                 *)
(*                                                                         *)
(* The fold that Replay is takes the last event of the log first.  That it *)
(* replays an event appended after all the others follows from looking at  *)
(* a smallest set of events for which it would not.                        *)

(* A set of numbers has a least one.                                       *)
LEMMA LeastNumber ==
    ASSUME NEW N \in SUBSET Nat, N # {}
    PROVE  \E n \in N : \A m \in N : n <= m
  <1>1. PICK n \in N : \A m \in N : ~ (<<m, n>> \in OpToRel(<, Nat))
    BY WFMin, NatLessThanWellFounded
  <1>2. \A m \in N : ~(m < n)
    BY <1>1 DEF OpToRel
  <1> QED  BY <1>2, SMT

(* So a set of finite sets has a smallest one.                             *)
LEMMA SmallestSet ==
    ASSUME NEW S, IsFiniteSet(S), NEW Bad \in SUBSET (SUBSET S), Bad # {}
    PROVE  \E B \in Bad : \A T \in Bad : T \subseteq B => T = B
  <1> DEFINE N == {Cardinality(T) : T \in Bad}
  <1>1. \A T \in Bad : IsFiniteSet(T) /\ Cardinality(T) \in Nat
    BY FS_Subset, FS_CardinalityType
  <1>2. N \in SUBSET Nat /\ N # {}
    BY <1>1
  <1>3. PICK n \in N : \A m \in N : n <= m
    BY <1>2, LeastNumber
  <1>4. PICK B \in Bad : Cardinality(B) = n
    BY <1>3
  <1>5. ASSUME NEW T \in Bad, T \subseteq B
        PROVE  T = B
    <2>1. Cardinality(T) <= Cardinality(B) /\ (Cardinality(B) = Cardinality(T) => B = T)
      BY <1>1, <1>5, FS_Subset
    <2>2. n <= Cardinality(T)
      BY <1>3
    <2> QED  BY <1>1, <1>4, <2>1, <2>2, SMT
  <1> QED  BY <1>5

(* The event the fold takes, and the recursion it computes by.             *)
Latest(S) == CHOOSE i \in S : \A j \in S : i >= j

Before(S) == S \ {Latest(S)}

Fresh == [state |-> NewState, rules |-> [r \in Rules |-> TRUE]]

Replays(log, g, S) ==
    g = [s \in SUBSET S |-> IF s = {} THEN Fresh ELSE Replayed(g[Before(s)], log[Latest(s)])]

LEMMA ReplayByRecursion ==
    ASSUME NEW log
    PROVE  Replay(log) = (CHOOSE g : Replays(log, g, DOMAIN log))[DOMAIN log]
  BY DEF Replay, FoldLeft, MapThenFoldSet, Max, Replays, Fresh, Before, Latest

LEMMA LatestOf ==
    ASSUME NEW n \in Nat, NEW S \in SUBSET (1..n), S # {}
    PROVE  /\ Latest(S) \in S /\ \A j \in S : Latest(S) >= j
           /\ Before(S) \in SUBSET S /\ Before(S) # S
  <1> DEFINE N == {b \in Nat : \A j \in S : b >= j}
  <1>1. N \in SUBSET Nat /\ n \in N
    OBVIOUS
  <1>2. PICK b \in N : \A m \in N : b <= m
    <2> HIDE DEF N
    <2> QED  BY <1>1, LeastNumber
  <1>3. b \in S
    <2> SUFFICES ASSUME b \notin S PROVE FALSE
      OBVIOUS
    <2>1. PICK k \in S : k \in 1..n
      OBVIOUS
    <2>2. b \in Nat /\ b >= k /\ \A j \in S : j \in Nat /\ b >= j /\ b # j
      BY <1>2
    <2>3. b - 1 \in Nat /\ \A j \in S : b - 1 >= j
      BY <2>1, <2>2, SMT
    <2>4. b <= b - 1
      BY <1>2, <2>3
    <2> QED  BY <2>2, <2>4, SMT
  <1>4. \E i \in S : \A j \in S : i >= j
    BY <1>2, <1>3
  <1>5. Latest(S) \in S /\ \A j \in S : Latest(S) >= j
    BY <1>4, Zenon DEF Latest
  <1> QED  BY <1>5 DEF Before

(* What the fold needs of a set of events.                                 *)
Ordered(S) == IsFiniteSet(S) /\ \A T \in SUBSET S : T # {} => Latest(T) \in T

LEMMA OrderedAll ==
    ASSUME NEW n \in Nat
    PROVE  Ordered(1..n)
  <1>1. IsFiniteSet(1..n)
    BY FS_Interval
  <1> QED  BY <1>1, LatestOf DEF Ordered

LEMMA OrderedSubset ==
    ASSUME NEW S, Ordered(S), NEW T \in SUBSET S
    PROVE  /\ Ordered(T) /\ IsFiniteSet(T)
           /\ T # {} => Latest(T) \in T /\ Before(T) \in SUBSET T /\ Before(T) # T
  <1>1. IsFiniteSet(T)
    BY FS_Subset DEF Ordered
  <1> QED  BY <1>1 DEF Ordered, Before

LEMMA LatestOfAll ==
    ASSUME NEW n \in Nat
    PROVE  Latest(1..(n + 1)) = n + 1 /\ Before(1..(n + 1)) = 1..n
  <1>1. n + 1 \in Nat /\ 1..(n + 1) # {} /\ n + 1 \in 1..(n + 1)
    OBVIOUS
  <1>2. Latest(1..(n + 1)) \in 1..(n + 1) /\ Latest(1..(n + 1)) >= n + 1
    BY <1>1, LatestOf
  <1>3. Latest(1..(n + 1)) = n + 1
    BY <1>2, SMT
  <1>4. (1..(n + 1)) \ {n + 1} = 1..n
    BY SMT
  <1> QED  BY <1>3, <1>4 DEF Before

LEMMA ReplaysValue ==
    ASSUME NEW log, NEW g, NEW S, Replays(log, g, S), NEW s \in SUBSET S
    PROVE  /\ s = {} => g[s] = Fresh
           /\ s # {} => g[s] = Replayed(g[Before(s)], log[Latest(s)])
  BY DEF Replays

(* Two replays agree on what their logs share.                             *)
LEMMA ReplaysAgree ==
    ASSUME NEW log, NEW other, NEW g, NEW h, NEW S, NEW T, Ordered(T),
           Replays(log, g, S), Replays(other, h, T), T \subseteq S,
           \A i \in T : log[i] = other[i]
    PROVE  \A s \in SUBSET T : g[s] = h[s]
  <1> DEFINE Bad == {s \in SUBSET T : g[s] # h[s]}
  <1> SUFFICES ASSUME Bad # {} PROVE FALSE
    OBVIOUS
  <1>1. PICK B \in Bad : \A s \in Bad : s \subseteq B => s = B
    <2>1. Bad \in SUBSET (SUBSET T)
      OBVIOUS
    <2>2. IsFiniteSet(T)
      BY DEF Ordered
    <2> HIDE DEF Bad
    <2> QED  BY <2>1, <2>2, SmallestSet
  <1>2. B \in SUBSET T /\ B \in SUBSET S
    BY <1>1
  <1>3. CASE B = {}
    BY <1>1, <1>2, <1>3, ReplaysValue
  <1>4. CASE B # {}
    <2>1. Latest(B) \in B /\ Before(B) \in SUBSET B /\ Before(B) # B
      BY <1>2, <1>4, OrderedSubset
    <2>2. Before(B) \notin Bad
      BY <1>1, <2>1
    <2>3. g[Before(B)] = h[Before(B)] /\ log[Latest(B)] = other[Latest(B)]
      BY <1>2, <2>1, <2>2
    <2>4. /\ g[B] = Replayed(g[Before(B)], log[Latest(B)])
          /\ h[B] = Replayed(h[Before(B)], other[Latest(B)])
      BY <1>2, <1>4, ReplaysValue
    <2> QED  BY <1>1, <2>3, <2>4
  <1> QED  BY <1>3, <1>4

(* Every log has one.                                                      *)
LEMMA ReplaysExist ==
    ASSUME NEW log, NEW S, Ordered(S)
    PROVE  \E g : Replays(log, g, S)
  <1> DEFINE Bad == {T \in SUBSET S : ~\E g : Replays(log, g, T)}
  <1> SUFFICES ASSUME Bad # {} PROVE FALSE
    OBVIOUS
  <1>1. PICK B \in Bad : \A T \in Bad : T \subseteq B => T = B
    <2>1. Bad \in SUBSET (SUBSET S)
      OBVIOUS
    <2>2. IsFiniteSet(S)
      BY DEF Ordered
    <2> HIDE DEF Bad
    <2> QED  BY <2>1, <2>2, SmallestSet
  <1> DEFINE G(T) == CHOOSE g : Replays(log, g, T)
             value == [s \in SUBSET B |-> IF s = {} THEN Fresh
                           ELSE Replayed(G(Before(s))[Before(s)], log[Latest(s)])]
  <1>0. B \in SUBSET S
    BY <1>1
  <1>2. \A T \in SUBSET B : T # B => Replays(log, G(T), T)
    <2> SUFFICES ASSUME NEW T \in SUBSET B, T # B
                 PROVE  Replays(log, G(T), T)
      OBVIOUS
    <2>1. T \in SUBSET S /\ T \notin Bad
      BY <1>1
    <2> QED  BY <2>1
  <1> HIDE DEF G
  <1>3. ASSUME NEW s \in SUBSET B, s # {}
        PROVE  Before(s) \in SUBSET B /\ Before(s) # B /\ Before(s) \in SUBSET s
    <2>1. s \in SUBSET S
      BY <1>0
    <2>2. Before(s) \in SUBSET s /\ Before(s) # s
      BY <1>3, <2>1, OrderedSubset
    <2> QED  BY <2>2
  <1>4. ASSUME NEW T \in SUBSET B, T # B
        PROVE  value[T] = G(T)[T]
    <2>1. Replays(log, G(T), T)
      BY <1>2, <1>4
    <2>2. CASE T = {}
      BY <2>1, <2>2, ReplaysValue
    <2>3. CASE T # {}
      <3>1. PICK U : U = Before(T)
        OBVIOUS
      <3>2. U \in SUBSET B /\ U # B /\ U \in SUBSET T /\ U \in SUBSET S
        BY <1>0, <1>3, <2>3, <3>1
      <3>3. Replays(log, G(U), U)
        BY <1>2, <3>2
      <3>4. G(T)[U] = G(U)[U]
        <4>1. Ordered(U)
          BY <3>2, OrderedSubset
        <4> QED  BY <2>1, <3>2, <3>3, <4>1, ReplaysAgree
      <3>5. G(T)[T] = Replayed(G(T)[U], log[Latest(T)])
        BY <2>1, <2>3, <3>1, ReplaysValue
      <3>6. value[T] = Replayed(G(U)[U], log[Latest(T)])
        BY <2>3, <3>1
      <3> QED  BY <3>4, <3>5, <3>6
    <2> QED  BY <2>2, <2>3
  <1>5. value = [s \in SUBSET B |-> IF s = {} THEN Fresh
                     ELSE Replayed(value[Before(s)], log[Latest(s)])]
    <2>1. \A s \in SUBSET B : s # {} => value[Before(s)] = G(Before(s))[Before(s)]
      BY <1>3, <1>4
    <2> QED  BY <2>1
  <1>6. Replays(log, value, B)
    BY <1>5 DEF Replays
  <1> HIDE DEF value
  <1> QED  BY <1>1, <1>6

(* Nothing is told by an empty log, and by one event more what it tells.   *)
LEMMA ReplayAppended ==
    /\ Replay(<<>>) = Fresh
    /\ \A S : \A log \in Seq(S), e \in S :
          Replay(Append(log, e)) = Replayed(Replay(log), e)
  <1>1. ASSUME NEW n \in Nat, NEW log, DOMAIN log = 1..n
        PROVE  \E g : Replays(log, g, 1..n) /\ Replay(log) = g[1..n]
    <2>1. \E g : Replays(log, g, 1..n)
      BY OrderedAll, ReplaysExist
    <2>2. PICK g : g = (CHOOSE k : Replays(log, k, 1..n))
      OBVIOUS
    <2>3. Replays(log, g, 1..n)
      BY <2>1, <2>2
    <2>4. Replay(log) = g[1..n]
      BY <1>1, <2>2, ReplayByRecursion
    <2> QED  BY <2>3, <2>4
  <1>2. Replay(<<>>) = Fresh
    <2>1. 0 \in Nat /\ DOMAIN <<>> = 1..0 /\ 1..0 = {}
      OBVIOUS
    <2>2. PICK g : Replays(<<>>, g, 1..0) /\ Replay(<<>>) = g[1..0]
      BY <1>1, <2>1
    <2> QED  BY <2>1, <2>2, ReplaysValue
  <1>3. ASSUME NEW S, NEW log \in Seq(S), NEW e \in S
        PROVE  Replay(Append(log, e)) = Replayed(Replay(log), e)
    <2>1. PICK n, more : n = Len(log) /\ more = Append(log, e)
      OBVIOUS
    <2>2. /\ n \in Nat /\ n + 1 \in Nat /\ DOMAIN log = 1..n /\ DOMAIN more = 1..(n + 1)
          /\ more[n + 1] = e /\ \A i \in 1..n : more[i] = log[i]
      <3>1. n \in Nat /\ DOMAIN log = 1..n
        BY <2>1
      <3>2. more[n + 1] = e /\ \A i \in 1..n : more[i] = log[i]
        BY <2>1, <3>1, Appended
      <3>3. DOMAIN more = 1..(n + 1)
        BY <2>1
      <3> QED  BY <3>1, <3>2, <3>3
    <2>3. PICK g : Replays(log, g, 1..n) /\ Replay(log) = g[1..n]
      BY <1>1, <2>2
    <2>4. PICK h : Replays(more, h, 1..(n + 1)) /\ Replay(more) = h[1..(n + 1)]
      BY <1>1, <2>2
    <2>5. PICK S1, S2 : S1 = 1..n /\ S2 = 1..(n + 1)
      OBVIOUS
    <2>6. /\ S1 \in SUBSET S2 /\ S2 # {} /\ Latest(S2) = n + 1 /\ Before(S2) = S1
          /\ Ordered(S1)
      <3>1. 1..n \in SUBSET (1..(n + 1)) /\ n + 1 \in 1..(n + 1)
        BY <2>2, SMT
      <3> QED  BY <2>2, <2>5, <3>1, LatestOfAll, OrderedAll
    <2>7. /\ Replays(log, g, S1) /\ Replay(log) = g[S1]
          /\ Replays(more, h, S2) /\ Replay(more) = h[S2]
          /\ \A i \in S1 : more[i] = log[i]
      BY <2>2, <2>3, <2>4, <2>5
    <2>8. h[S1] = g[S1]
      BY <2>6, <2>7, ReplaysAgree
    <2>9. h[S2] = Replayed(h[S1], e)
      BY <2>2, <2>6, <2>7, ReplaysValue
    <2> QED  BY <2>1, <2>7, <2>8, <2>9
  <1> QED  BY <1>2, <1>3
-----------------------------------------------------------------------------
(* What the log replayed owes to the files.                                *)
Tells(f) ==
    /\ stale \subseteq {"identities"} => state = f.state
    /\ "log" \notin stale => rules = f.rules

(* One worker at most has an event to append: what the log tells with it,  *)
(* or without it if there is none, is what is in the files.                *)
LogInv ==
    /\ Unannounced = {} => Tells(Replay(events))
    /\ \A w \in Unannounced :
          Unannounced = {w} /\ Tells(Replayed(Replay(events), call[w]))

LEMMA LogInit == Init => LogInv
  <1> SUFFICES ASSUME Init PROVE LogInv
    OBVIOUS
  <1>1. Unannounced = {}
    BY DEF Init, Unannounced
  <1>2. Replay(events) = Fresh
    BY ReplayAppended DEF Init
  <1>3. Tells(Fresh)
    BY DEF Init, Tells, Fresh
  <1> QED  BY <1>1, <1>2, <1>3 DEF LogInv

(* Nobody writes a file the log tells of, or its event.                    *)
LEMMA LogKept ==
    ASSUME LogInv, state' = state, rules' = rules, events' = events, stale \subseteq stale',
           \A w \in Workers : /\ pc'[w] = "announcing" <=> pc[w] = "announcing"
                              /\ pc[w] = "announcing" => call'[w] = call[w]
    PROVE  LogInv'
  <1>1. Unannounced' = Unannounced
    BY DEF Unannounced
  <1>2. \A f : Tells(f) => Tells(f)'
    BY DEF Tells
  <1>3. \A w \in Unannounced : call'[w] = call[w]
    BY DEF Unannounced
  <1>4. ASSUME Unannounced' = {}
        PROVE  Tells(Replay(events))'
    BY <1>1, <1>2, <1>4 DEF LogInv
  <1>5. ASSUME NEW w \in Unannounced'
        PROVE  Unannounced' = {w} /\ Tells(Replayed(Replay(events), call[w]))'
    BY <1>1, <1>2, <1>3, <1>5 DEF LogInv
  <1> QED  BY <1>4, <1>5 DEF LogInv

(* A worker that replaces a file under the lock is the one with an event.  *)
LEMMA LogWritten ==
    ASSUME Unannounced = {}, NEW w \in Workers, pc'[w] = "announcing",
           \A v \in Workers \ {w} : pc'[v] = pc[v],
           events' = events, call' = call,
           Tells(Replayed(Replay(events), call[w]))'
    PROVE  LogInv'
  <1>1. Unannounced' = {w}
    BY DEF Unannounced
  <1> QED  BY <1>1 DEF LogInv

LEMMA LogSave ==
    ASSUME IInv, LogInv, NEW w \in Workers, Save(w)
    PROVE  LogInv'
  <1>1. PICK f, c : f = Replay(events) /\ c = call[w]
    OBVIOUS
  <1>2. /\ Unannounced = {} /\ Tells(f)
        /\ state' = Changed(seen[w], c) /\ rules' = rules /\ events' = events /\ call' = call
        /\ stale' = IF state # seen[w] THEN stale \cup {"state"} ELSE stale
    BY <1>1 DEF LogInv, Save, Locked, requestVars
  <1>3. /\ pc[w] = "saving" /\ pc'[w] = "announcing"
        /\ \A v \in Workers \ {w} : pc'[v] = pc[v]
    BY SaveType
  <1>4. c.op # "rule" /\ c.op # "report"
    <2>1. c \in StateCalls
      BY <1>1, <1>3 DEF IInv, TypeInv, CallInv
    <2> QED  BY <2>1, CallFields
  <1>5. Replayed(f, c) = [state |-> Changed(f.state, c), rules |-> f.rules]
    BY <1>4 DEF Replayed
  <1>6. PICK g : g = Replayed(f, c)
    OBVIOUS
  <1>7. g.state = Changed(f.state, c) /\ g.rules = f.rules
    BY <1>5, <1>6
  <1>8. ASSUME stale' \subseteq {"identities"}
        PROVE  state' = g.state
    <2>1. seen[w] = state /\ stale' = stale
      BY <1>2, <1>8
    <2> QED  BY <1>2, <1>7, <1>8, <2>1 DEF Tells
  <1>9. ASSUME "log" \notin stale'
        PROVE  rules' = g.rules
    BY <1>2, <1>7, <1>9 DEF Tells
  <1>10. Tells(Replayed(Replay(events), call[w]))'
    BY <1>1, <1>2, <1>6, <1>8, <1>9 DEF Tells
  <1> QED  BY <1>2, <1>3, <1>10, LogWritten

LEMMA LogUpsertRule ==
    ASSUME IInv, LogInv, NEW w \in Workers, UpsertRule(w)
    PROVE  LogInv'
  <1>1. PICK f, c : f = Replay(events) /\ c = call[w]
    OBVIOUS
  <1>2. /\ Unannounced = {} /\ Tells(f)
        /\ rules' = [rules EXCEPT ![c.rule] = c.enabled] /\ state' = state
        /\ events' = events /\ call' = call /\ stale' = stale
    BY <1>1 DEF LogInv, UpsertRule, Locked, requestVars, ghosts
  <1>3. /\ pc'[w] = "announcing" /\ c.op = "rule"
        /\ \A v \in Workers \ {w} : pc'[v] = pc[v]
    BY <1>1, UpsertRuleType
  <1>4. PICK g : g = Replayed(f, c)
    OBVIOUS
  <1>5. g.state = f.state /\ g.rules = [f.rules EXCEPT ![c.rule] = c.enabled]
    BY <1>3, <1>4 DEF Replayed
  <1>6. Tells(Replayed(Replay(events), call[w]))'
    BY <1>1, <1>2, <1>4, <1>5 DEF Tells
  <1> QED  BY <1>2, <1>3, <1>6, LogWritten

(* An event that is appended is replayed last.                             *)
LEMMA LogAnnounce ==
    ASSUME IInv, LogInv, NEW w \in Workers, Announce(w)
    PROVE  LogInv'
  <1>1. /\ pc[w] = "announcing" /\ pc'[w] # "announcing"
        /\ \A v \in Workers \ {w} : pc'[v] = pc[v]
        /\ events \in Seq(AllCalls \cup Reports) /\ call[w] \in AllCalls
    BY AnnounceType
  <1>2. /\ events' = Append(events, call[w])
        /\ state' = state /\ rules' = rules /\ stale' = stale
    BY DEF Announce, ghosts
  <1>3. Unannounced = {w} /\ Tells(Replayed(Replay(events), call[w]))
    BY <1>1 DEF LogInv, Unannounced
  <1>4. Unannounced' = {}
    BY <1>1, <1>3 DEF Unannounced
  <1>5. Replay(events') = Replayed(Replay(events), call[w])
    BY <1>1, <1>2, ReplayAppended
  <1>6. Tells(Replay(events))'
    BY <1>2, <1>3, <1>5 DEF Tells
  <1> QED  BY <1>4, <1>6 DEF LogInv

LEMMA LogReport ==
    ASSUME IInv, LogInv, NEW w \in Workers, Report(w)
    PROVE  LogInv'
  <1>1. PICK e : e = [op |-> "report", of |-> call[w]]
    OBVIOUS
  <1>2. /\ pc'[w] = "idle" /\ \A v \in Workers \ {w} : pc'[v] = pc[v]
        /\ events \in Seq(AllCalls \cup Reports) /\ call[w] \in AllCalls
    BY ReportType
  <1>3. /\ Unannounced = {} /\ events' = Append(events, e)
        /\ state' = state /\ rules' = rules /\ stale' = stale
    BY <1>1 DEF Report, Locked, ghosts
  <1>4. e \in AllCalls \cup Reports /\ e.op = "report"
    BY <1>1, <1>2 DEF Reports
  <1>5. Replay(events') = Replay(events)
    <2>1. Replay(events') = Replayed(Replay(events), e)
      BY <1>2, <1>3, <1>4, ReplayAppended
    <2> QED  BY <1>4, <2>1 DEF Replayed
  <1>6. Tells(Replay(events))
    BY <1>3 DEF LogInv
  <1>7. Tells(Replay(events))'
    BY <1>3, <1>5, <1>6 DEF Tells
  <1>8. Unannounced' = {}
    BY <1>2, <1>3 DEF Unannounced
  <1> QED  BY <1>7, <1>8 DEF LogInv

(* A crash between a file and its event is the one that is noted.          *)
LEMMA LogCrash ==
    ASSUME IInv, LogInv, Crash
    PROVE  LogInv'
  <1>1. /\ state' = state /\ rules' = rules /\ events' = events
        /\ stale' = IF Unannounced # {} THEN stale \cup {"log"} ELSE stale
    BY DEF Crash, files
  <1>2. Unannounced' = {}
    BY CrashType DEF Unannounced
  <1>3. CASE Unannounced = {}
    <2>1. Tells(Replay(events))'
      BY <1>1, <1>3 DEF LogInv, Tells
    <2> QED  BY <1>2, <2>1 DEF LogInv
  <1>4. CASE Unannounced # {}
    <2>1. "log" \in stale'
      BY <1>1, <1>4
    <2>2. Tells(Replay(events))'
      BY <2>1 DEF Tells
    <2> QED  BY <1>2, <2>2 DEF LogInv
  <1> QED  BY <1>3, <1>4

LEMMA LogNext == IInv /\ LogInv /\ [Next]_vars => LogInv'
  <1> SUFFICES ASSUME IInv, LogInv, [Next]_vars PROVE LogInv'
    OBVIOUS
  <1>1. ASSUME NEW w \in Workers, Begin(w) PROVE LogInv'
    BY <1>1, BeginType, LogKept DEF Begin, files, ghosts
  <1>2. ASSUME NEW w \in Workers, Load(w) PROVE LogInv'
    BY <1>2, LoadType, LogKept DEF Load, files, ghosts
  <1>3. ASSUME NEW w \in Workers, AddReview(w) PROVE LogInv'
    BY <1>3, AddReviewType, LogKept DEF AddReview, requestVars, ghosts
  <1>4. ASSUME NEW w \in Workers, AddCheckpoint(w) PROVE LogInv'
    BY <1>4, AddCheckpointType, LogKept DEF AddCheckpoint, requestVars, ghosts
  <1>5. ASSUME NEW w \in Workers, RegisterAttempt(w) PROVE LogInv'
    BY <1>5, RegisterAttemptType, LogKept DEF RegisterAttempt, requestVars
  <1>6. ASSUME NEW w \in Workers, CheckContext(w) PROVE LogInv'
    BY <1>6, CheckContextType, LogKept DEF CheckContext, requestVars, ghosts
  <1>7. ASSUME NEW w \in Workers, Compare(w) PROVE LogInv'
    BY <1>7, CompareType, LogKept DEF Compare, files, ghosts
  <1>8. ASSUME NEW w \in Workers, StoreIdentity(w) PROVE LogInv'
    BY <1>8, StoreIdentityType, LogKept DEF StoreIdentity, requestVars
  <1>9. CASE UNCHANGED vars
    BY <1>9, LogKept DEF vars, files, requestVars, ghosts
  <1> QED  BY <1>1, <1>2, <1>3, <1>4, <1>5, <1>6, <1>7, <1>8, <1>9, LogSave, LogUpsertRule,
              LogAnnounce, LogReport, LogCrash DEF Next

(* The log replayed gives the project state and the rules, unless an       *)
(* update was made on a state that had been replaced or a crash came       *)
(* between a file and its event.  (save_state, upsert_rule)                *)
THEOREM LogReplays == Spec => []LogTellsState
  <1>1. LogInv => LogTellsState
    BY DEF LogInv, LogTellsState, Tellings, Tells
  <1> QED  BY <1>1, Safe, LogInit, LogNext, PTL DEF Spec
=============================================================================
