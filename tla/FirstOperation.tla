--------------------------- MODULE FirstOperation ---------------------------
(***************************************************************************)
(* The first read-only operation                                           *)
(* (first_human_authorized_read_only_operation_v1.py): under its lock it   *)
(* looks for a finished operation of the same key, asks the quality gate,  *)
(* and reads the source between two digests.  It has no workspace: the     *)
(* report is the candidate.                                                *)
(***************************************************************************)
EXTENDS Naturals, Sequences

CONSTANTS Workers, Keys, Versions, Built, MaxRequests, MaxOverlaps, MaxEdits,
          MaxCrashes

VARIABLES path, source, dashboard, lock, workspace, export, records, runs, latest,
          latestRun, reviews, pc, call, draft, answers, requests, overlaps, edits,
          crashes

Generation == INSTANCE CandidateGeneration

(* execute                                                                 *)
OperationPath ==
    <<"acquire", "gate", "digest", "index", "compare", "commit", "point", "log">>

Init == Generation!Init(OperationPath)

(* The planner is asked when the lock is held already.                     *)
SelectTool(w) == Generation!QualityGate(w)

(* build: the source is read file by file.                                 *)
Index(w) ==
    /\ Generation!Reads(w, "index",
           Generation!Draft(draft[w].before, 0, Generation!Now, TRUE))
    /\ UNCHANGED <<workspace, export, records, runs, latest, latestRun, reviews>>

Execute(w) ==
    \/ Generation!Acquire(w) \/ SelectTool(w)
    \/ Generation!Digest(w) \/ Index(w) \/ Generation!Compare(w)
    \/ Generation!Commit(w) \/ Generation!Point(w) \/ Generation!Log(w)

Request(w) ==
    \E c \in {d \in Generation!Calls : d.op = "generate"} : Generation!Accept(w, c)

Next == Generation!Environment \/ \E w \in Workers : Request(w) \/ Execute(w)
=============================================================================
