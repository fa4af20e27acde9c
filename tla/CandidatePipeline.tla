-------------------------- MODULE CandidatePipeline --------------------------
(***************************************************************************)
(* The template pipeline                                                   *)
(* (controlled_software_development_pipeline_v1.py): a generation that     *)
(* asks no model and keeps no run records, and the review of a candidate.  *)
(***************************************************************************)
EXTENDS Naturals, Sequences

CONSTANTS Workers, Keys, Versions, Built, MaxRequests, MaxOverlaps, MaxEdits,
          MaxCrashes

VARIABLES path, source, dashboard, lock, workspace, export, records, runs, latest,
          latestRun, reviews, pc, call, draft, answers, requests, overlaps, edits,
          crashes

Generation == INSTANCE CandidateGeneration

(* generate                                                                *)
PipelinePath ==
    <<"gate", "acquire", "digest", "copy", "patch", "test", "compare", "export", "commit",
      "point", "log">>

Init == Generation!Init(PipelinePath)

Generate(w) == Generation!Making(w)

(* review                                                                  *)
Review(w) == Generation!Reviewing(w)

Request(w) ==
    \E c \in {d \in Generation!Calls : d.op \in {"generate", "review"}} : Generation!Accept(w, c)

Next ==
    \/ Generation!Environment
    \/ \E w \in Workers : Request(w) \/ Generate(w) \/ Review(w)
=============================================================================
