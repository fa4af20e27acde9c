---------------------------- MODULE MCGeneration ----------------------------
(* The services that generate, on small instances: the provider with the   *)
(* live probe among its clients, the pipeline, and the first operation.    *)
(* Their files and locks are disjoint, and a behaviour is one of them.     *)
EXTENDS LiveProbe

Pipeline == INSTANCE CandidatePipeline

First == INSTANCE FirstOperation

CONSTANTS MaxPlain,   \* bound: requests sent to a service that no probe uses
          MaxTroubles \* bound: edits, crashes and overlaps together

(* A service that no probe uses                                            *)
NoProbe ==
    /\ step = "done" /\ exchange = 0 /\ original = None
    /\ changed = FALSE /\ restored = None /\ result = "NO PROBE" /\ preimage = None
    /\ sent = {} /\ others = FALSE

(* The tree has a frontend/dist at first.                                  *)
MCInit ==
    /\ \/ LiveInit(ProviderPath)
       \/ Init(ProviderPath) /\ NoProbe
       \/ Pipeline!Init /\ NoProbe
       \/ First!Init /\ NoProbe
    /\ source[1] \in Built

Foremost == CHOOSE w \in Workers : TRUE

(* Where no probe is the keys are alike, idle workers are, and so are the  *)
(* moments between two reads of the source: the first request is about one *)
(* of the keys, a request that finds everybody idle goes to one of the     *)
(* workers, and the tree is edited while a request is in flight.           *)
Reduced ==
    /\ (\A w \in Workers : pc[w] = "idle") => \A w \in Workers \ {Foremost} : pc'[w] = "idle"
    /\ requests = 0 =>
          \A w \in Workers : call'[w] # NoCall /\ call'[w][2].op \in {"generate", "review"} =>
              call'[w][2].key = ProbeKey
    /\ source' # source => \E w \in Workers : pc[w] # "idle"
    /\ \A w \in Workers : call'[w] # NoCall /\ call'[w][2].op = "save settings" =>
          call'[w][2].settings # "other"

Plain(next) ==
    /\ result = "NO PROBE" /\ next /\ Reduced
    /\ requests' <= MaxPlain /\ edits' + crashes' + overlaps' <= MaxTroubles
    /\ UNCHANGED probe

(* Beside the probe, other people change the settings and nothing else,    *)
(* and neither the source nor the server fails it.                         *)
BesideProbe ==
    /\ UNCHANGED <<edits, crashes>>
    /\ \A w \in Workers : call'[w] # NoCall /\ call'[w][2].op # "save settings" =>
          call'[w][1] \in sent'

MCNext ==
    \/ result # "NO PROBE" /\ LiveNext /\ BesideProbe
    \/ path = ProviderPath /\ Plain(Next)
    \/ path = Pipeline!PipelinePath /\ Plain(Pipeline!Next)
    \/ path = First!OperationPath /\ Plain(First!Next)

(* A thread of the pool goes on with its request.                          *)
Fairness ==
    \A w \in Workers : WF_vars(Making(w) \/ Providing(w) \/ Reviewing(w) \/ First!Index(w))

MCSpec == MCInit /\ [][MCNext]_<<vars, probe>> /\ Fairness
=============================================================================
