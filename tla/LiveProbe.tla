------------------------------ MODULE LiveProbe ------------------------------
(***************************************************************************)
(* The live probe (scripts/run_governed_live_probe_v1.py), a client of the *)
(* coding-model provider: it notes the settings, switches the provider to  *)
(* its target, probes it, asks for one candidate, reads back what was      *)
(* recorded, and puts the settings back.  Every exchange has a timeout;    *)
(* the server goes on with a request whose client has given up.  Other     *)
(* people use the provider meanwhile.                                      *)
(***************************************************************************)
EXTENDS CandidateGeneration

CONSTANT ProbeKey  \* the one candidate key of the probe

ASSUME ProbeKeyAssumption == ProbeKey \in Keys

VARIABLES
    step,       \* where the probe stands
    exchange,   \* the number of the request it waits for, 0 when it does not
    original,   \* the settings it noted, and the latest candidate
    changed,    \* settings_changed
    restored,   \* provider_settings_restored
    result,     \* the result of the evidence
    preimage,   \* the source it noted
    sent,       \* for the properties: the numbers of its requests
    others      \* for the properties: somebody else's settings were written
                \* since it noted them

probe == <<step, exchange, original, changed, restored, result, preimage, sent, others>>

Steps ==
    {"start", "read", "decide", "enable", "probe", "generate", "read back", "finally",
     "restore", "verify", "close", "done"}

LiveInit(phases) ==
    /\ Init(phases)
    /\ step = "start" /\ exchange = 0 /\ original = None
    /\ changed = FALSE /\ restored = None /\ result = "IN_PROGRESS" /\ preimage = None
    /\ sent = {} /\ others = FALSE

(* The probe goes on to step s.                                            *)
Goes(s, r) ==
    /\ step' = s /\ result' = r /\ exchange' = 0
    /\ UNCHANGED <<vars, original, preimage, sent, others>>

Keeps == UNCHANGED <<changed, restored>>

(* Fault: a change that was asked for is taken for made, and undone.       *)
AskedIsChanged == changed \/ step = "enable"

(* Only an answered change counts.                                         *)
SettingsChanged == changed

(* An exception anywhere in the try block                                  *)
FailsClosed ==
    /\ Goes("finally", "FAIL_CLOSED")
    /\ changed' = SettingsChanged
    /\ UNCHANGED restored

(* Requests to the server are sent one at a time.                          *)
Send(s, c) ==
    /\ step = s /\ exchange = 0
    /\ \E w \in Workers : Accept(w, c)
    /\ exchange' = requests + 1 /\ sent' = sent \cup {requests + 1}
    /\ UNCHANGED <<step, original, changed, restored, result, preimage, others>>

Answered(s, answer) ==
    step = s /\ exchange # 0 /\ answers[exchange] \in answer

(* source_snapshot, before anything is asked                               *)
CapturePreimage ==
    /\ step = "start"
    /\ step' = "read" /\ preimage' = source[Now]
    /\ UNCHANGED <<vars, exchange, original, changed, restored, result, sent, others>>

(* The API and the settings are read, or something in them is not as it    *)
(* must be.                                                                *)
ReadOriginal ==
    /\ step = "read"
    /\ \/ /\ step' = "decide" /\ original' = Effective
          /\ UNCHANGED <<vars, exchange, changed, restored, result, preimage, sent, others>>
       \/ FailsClosed

(* operational_settings_match: the keys that count, where the settings     *)
(* name them directly, are equal.                                          *)
Matches(settings, wanted) == settings = wanted

(* Without --execute-live this is the end; else settings that match the    *)
(* target already are left alone.                                          *)
Decide ==
    /\ step = "decide"
    /\ \/ Goes("close", "PASS_PREFLIGHT_READY_FOR_LIVE") /\ Keeps
       \/ Matches(original, "target") /\ Goes("probe", result) /\ Keeps
       \/ ~Matches(original, "target") /\ Goes("enable", result) /\ Keeps

(* A request that was refused or not answered in time raises; one that was *)
(* never sent, since no worker would take it, does too.                    *)
GiveUp ==
    /\ step \in {"enable", "probe", "generate"}
    /\ exchange # 0 => answers[exchange] \in {None, "refused"}
    /\ FailsClosed

Enable ==
    \/ Send("enable", [op |-> "save settings", settings |-> "target"])
    \/ /\ Answered("enable", {"saved"})
       /\ changed' = TRUE
       /\ Goes("probe", result)
       /\ UNCHANGED restored

ProbeProvider ==
    \/ Send("probe", [op |-> "probe"])
    \/ Answered("probe", {"probed"}) /\ Goes("generate", result) /\ Keeps

Generate ==
    \/ Send("generate", [op |-> "generate", key |-> ProbeKey])
    \/ /\ Answered("generate", {"generated", "reused"})
       /\ Goes("read back", result) /\ Keeps

(* The records are read back and searched for gates that passed, among     *)
(* keys such as "safety_gate" and "tests".  The provider records an object *)
(* under each of these, and only a text or a truth value counts as passed: *)
(* no candidate of the provider satisfies them all.                        *)
ReadBack == step = "read back" /\ FailsClosed

(* The finally block: nothing is restored unless a change was answered.    *)
Finally ==
    /\ step = "finally"
    /\ \/ changed /\ Goes("restore", result) /\ Keeps
       \/ ~changed /\ Goes("close", result) /\ Keeps

RestoreBody == [op |-> "save settings", settings |-> original]

RestoreFails ==
    /\ restored' = "FAIL"
    /\ Goes("close", "FAIL_CLOSED_RESTORE_FAILED")
    /\ UNCHANGED changed

Restore ==
    \/ Send("restore", RestoreBody)
    \/ Answered("restore", {"saved"}) /\ Goes("verify", result) /\ Keeps
    \/ /\ step = "restore"
       /\ exchange # 0 => answers[exchange] \in {None, "refused"}
       /\ RestoreFails

Verify ==
    /\ step = "verify"
    /\ \/ /\ Matches(Effective, original)
          /\ restored' = "PASS_VERIFIED"
          /\ Goes("close", result)
          /\ UNCHANGED changed
       \/ RestoreFails

(* What is said of settings that were not changed, and the source once     *)
(* more.                                                                   *)
Close ==
    /\ step = "close"
    /\ restored' = IF result # "PASS_PREFLIGHT_READY_FOR_LIVE" /\ ~changed
                   THEN "NOT_REQUIRED_ORIGINAL_ALREADY_MATCHED" ELSE restored
    /\ Goes("done", IF source[Now] # preimage THEN "FAIL_CLOSED_SOURCE_MUTATION_DETECTED" ELSE result)
    /\ UNCHANGED changed

Probing ==
    \/ CapturePreimage \/ ReadOriginal \/ Decide \/ GiveUp \/ Enable \/ ProbeProvider
    \/ Generate \/ ReadBack \/ Finally \/ Restore \/ Verify \/ Close

(* What the server does, for the probe and for other people.               *)
Serving ==
    /\ Next
    /\ others' = \/ others
                 \/ /\ step \notin {"start", "read"}
                    /\ \E w \in Workers : /\ pc[w] = "write settings" /\ pc'[w] = "log"
                                         /\ Number(w) \notin sent
    /\ UNCHANGED <<step, exchange, original, changed, restored, result, preimage, sent>>

LiveNext == Probing \/ Serving

(***************************************************************************)
(* Properties                                                              *)
(***************************************************************************)

(* The settings are put back for good: once the probe has verified it, the *)
(* settings in effect are those it noted, however late the server finishes *)
(* what the probe gave up on, unless another person saved settings since.  *)
SettingsPutBack ==
    step \in {"close", "done"} /\ restored = "PASS_VERIFIED" /\ ~others => Effective = original

(* What the evidence says of settings it did not restore: the original     *)
(* ones matched already.                                                   *)
NotRequiredIsTrue ==
    restored = "NOT_REQUIRED_ORIGINAL_ALREADY_MATCHED" /\ original # None /\ ~others =>
        Effective = original
=============================================================================
