---------------------------- MODULE OperatorLookup ----------------------------
(***************************************************************************)
(* One question to the mobile operator and what the engine makes of the    *)
(* answer: engine/operator_adapter.py (typed results, safe_call),          *)
(* engine/operator_mock.py and engine/operator_camara.py (the adapters),   *)
(* engine/operator.py (what a caller is told) and                          *)
(* compliance.operator_consent_state.                                      *)
(*                                                                         *)
(* The distance between the reported area and the claimed place is only    *)
(* close or apart (mismatch_km or more); age and the latency an answer     *)
(* reports only matter against their limits.                               *)
(***************************************************************************)
EXTENDS Naturals

Statuses == {"available", "assumed_colocated", "unavailable", "timeout", "rate_limited",
             "malformed", "stale", "partial", "source_disagreement", "consent_denied",
             "not_configured"}
ConsentStates == {"granted", "withdrawn", "denied", "not_required", "unknown"}
PermitsLookup(consent) == consent \in {"granted", "not_required"}

\* compliance.operator_consent_state: what the attempt states comes before what
\* the profile states, and a record that states nothing permits nothing.
ResolveConsent(required, ofAttempt, ofProfile) ==
    IF ~required THEN "not_required"
    ELSE IF ofAttempt # "unknown" THEN ofAttempt ELSE ofProfile

\* SimLocationData and SimSwapData in one shape; NoData is None.
Distances == {"close", "apart", "unknown"}
Data == [origin : {"operator_feed", "device_assumption"}, distance : Distances,
         swapped : BOOLEAN]
NoData == [origin |-> "none", distance |-> "unknown", swapped |-> FALSE]

OperatorResult == [status : Statuses, consent : ConsentStates, fresh : BOOLEAN,
                   late : BOOLEAN, data : Data \cup {NoData}]
\* What may come back from an adapter nobody checked: an exception, something
\* that is no OperatorResult, or one with any contents.
Raised == [status |-> "raised"]
Nonsense == [status |-> "nonsense"]
Answers == OperatorResult \cup {Raised, Nonsense}
\* `late` is what the answer says of itself; whether the call overran the budget is
\* another matter.
Returns == [answer : Answers, slow : BOOLEAN]

\* Faulty variant: a stale reading is evidence as well.
Usable_Stale(result) ==
    /\ result.status = "available"
    /\ PermitsLookup(result.consent)
    /\ result.data # NoData

\* OperatorResult.usable
Usable(result) ==
    /\ result.status = "available"
    /\ result.fresh
    /\ PermitsLookup(result.consent)
    /\ result.data # NoData

Degraded(status, consent) ==
    [status |-> status, consent |-> consent, fresh |-> FALSE, late |-> FALSE, data |-> NoData]

\* safe_call: the latency it compares is the one the result reports; its own clock
\* only fills in the results it makes up itself.
SafeCall(answer, consent) ==
    IF answer = Raised THEN Degraded("unavailable", consent)
    ELSE IF answer = Nonsense THEN Degraded("malformed", consent)
    ELSE IF Usable(answer) /\ answer.late THEN Degraded("timeout", answer.consent)
    ELSE answer

-----------------------------------------------------------------------------
(* The adapters.  Consent and faults come before the quota, the network    *)
(* after it.                                                               *)

Faults == {"none", "unavailable", "timeout", "stale", "partial", "disagreement",
           "rate_limited", "malformed", "consent_withdrawn"}

FaultStatus(fault) ==
    CASE fault = "disagreement" -> "source_disagreement"
      [] fault \in {"unavailable", "timeout", "partial", "rate_limited", "malformed"} -> fault

\* MockOperatorAdapter answers these before it looks at the quota.
MockRefuses(consent, fault) == ~PermitsLookup(consent) \/ fault \notin {"none", "stale"}

MockRefusal(consent, fault) ==
    CASE ~PermitsLookup(consent) -> Degraded("consent_denied", consent)
      [] PermitsLookup(consent) /\ fault = "consent_withdrawn" ->
            Degraded("consent_denied", "withdrawn")
      [] PermitsLookup(consent) /\ fault # "consent_withdrawn" ->
            [Degraded(FaultStatus(fault), consent) EXCEPT !.late = (fault = "timeout")]

Fresh(status, consent, data) ==
    [status |-> status, consent |-> consent, fresh |-> TRUE, late |-> FALSE, data |-> data]

\* sim_location once the quota has let it through.  Without a fix of its own the
\* network echoes the claimed place, and says that it did.
MockLocation(fix, claimed, consent, fault) ==
    IF fix = "none"
    THEN IF claimed
         THEN Fresh("assumed_colocated", consent,
                    [origin |-> "device_assumption", distance |-> "close", swapped |-> FALSE])
         ELSE Degraded("unavailable", consent)
    ELSE IF fault = "stale"
         THEN Degraded("stale", consent)
         ELSE Fresh("available", consent,
                    [origin |-> "operator_feed", distance |-> IF claimed THEN fix ELSE "unknown",
                     swapped |-> FALSE])

\* sim_swap_check once the quota has let it through.
MockSwap(activated, consent, fault) ==
    IF activated = "none" THEN Degraded("partial", consent)
    ELSE IF fault = "stale" THEN Degraded("stale", consent)
    ELSE Fresh("available", consent,
               [origin |-> "operator_feed", distance |-> "unknown",
                swapped |-> activated = "recently"])

\* CamaraOperatorAdapter is a placeholder.
CamaraAnswer(consent) == Degraded("not_configured", consent)

-----------------------------------------------------------------------------
(* What the callers are told *)

\* location_mismatch computes its flag for a measured operator reading only.
Evident(result) ==
    /\ Usable(result)
    /\ result.data.origin = "operator_feed"
    /\ result.data.distance # "unknown"
Mismatch(result) == Evident(result) /\ result.data.distance = "apart"

\* Faulty variant: an area whose distance is not known is looked up as well.
Breaks_NoDistance(result, claimed) ==
    Usable(result) /\ result.data.origin = "operator_feed" /\ ~claimed

\* It looks the claimed place up by its coordinates: without them it raises,
\* outside safe_call.
Breaks(result, claimed) == Evident(result) /\ ~claimed

\* get_sim_location reports the area there is, and whether it may count.
SimLocation(result) ==
    IF result.data = NoData THEN "unknown"
    ELSE IF Usable(result) THEN "area" ELSE "doubtful area"

\* sim_swap_check never answers "no swap" for a look-up that failed.
SimSwap(result) ==
    IF ~Usable(result) THEN "unknown" ELSE IF result.data.swapped THEN "swapped" ELSE "kept"
=============================================================================
