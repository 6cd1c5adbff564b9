------------------------------ MODULE LoginRisk ------------------------------
(***************************************************************************)
(* How one sign-in attempt is scored: engine/signals.py (red flags),       *)
(* engine/risk_engine.py (SIM age and place), engine/telecom_features.py   *)
(* (what the two trained models are shown) and engine/detector.py (fusion  *)
(* and thresholds).                                                        *)
(*                                                                         *)
(* Scores are whole tenths of a point, 0..1000, as the code rounds them.   *)
(* A distance is one of the places the tests distinguish: inside a safe    *)
(* zone, at the middle of the sigmoid, far away, or not known.  The        *)
(* trained models are external: ModelScore gives their answer.             *)
(***************************************************************************)
EXTENDS Integers, FiniteSets, FiniteSetsExt

CONSTANT ModelScore(_, _)   \* the tenths a model gives for the telecom features

Models == {"ml_score", "anomaly_score"}
Places == {"safe", "near", "far", "missing"}
NoHour == 24            \* the attempt carries no usable timestamp

\* What one attempt brings, and what the profile says of the subscriber.
Attempt == [device : {"registered", "unregistered", "missing"},
            imsi : BOOLEAN, iccid : BOOLEAN, ip : BOOLEAN,
            travel : {"unknown", "plausible", "impossible"}, place : Places,
            hour : 0..NoHour, logins : Nat, failed : Nat]
Evidence == [enrolled : BOOLEAN, swaps : Nat, simAge : Nat]

-----------------------------------------------------------------------------
(* signals.evaluate *)

Signals == {"imei_change", "new_device", "imsi_change", "iccid_change", "multiple_sim_swaps",
            "ip_change", "impossible_travel", "odd_hour", "rapid_logins",
            "failed_login_burst", "sim_location_mismatch"}

Points(s) ==
    CASE s = "impossible_travel" -> 70     [] s = "sim_location_mismatch" -> 65
      [] s = "imei_change" -> 60           [] s = "imsi_change" -> 55
      [] s = "iccid_change" -> 45          [] s = "multiple_sim_swaps" -> 40
      [] s = "new_device" -> 35            [] s = "failed_login_burst" -> 30
      [] s = "rapid_logins" -> 25          [] s = "ip_change" -> 20
      [] s = "odd_hour" -> 15

\* A device on the list is no change; only an unlisted one on top of a list is.
Fires(s, a, e, mismatch) ==
    \/ s = "new_device" /\ a.device = "unregistered"
    \/ s = "imei_change" /\ a.device = "unregistered" /\ e.enrolled
    \/ s = "imsi_change" /\ a.imsi
    \/ s = "iccid_change" /\ a.iccid
    \/ s = "multiple_sim_swaps" /\ e.swaps >= 2
    \/ s = "ip_change" /\ a.ip
    \/ s = "impossible_travel" /\ a.place # "missing" /\ a.travel = "impossible"
    \/ s = "odd_hour" /\ a.hour \in 0..5
    \/ s = "rapid_logins" /\ a.logins >= 5
    \/ s = "failed_login_burst" /\ a.failed >= 3
    \/ s = "sim_location_mismatch" /\ mismatch

Flags(a, e, mismatch) == {s \in Signals : Fires(s, a, e, mismatch)}

Cap(points) == IF points > 100 THEN 100 ELSE points
BehaviouralScore(a, e, mismatch) ==
    10 * Cap(MapThenSumSet(Points, Flags(a, e, mismatch)))

-----------------------------------------------------------------------------
(* risk_engine.rule_score *)

SimIntegrity(age) ==
    CASE age <= 3 -> 100
      [] age > 3 /\ age <= 7 -> 80
      [] age > 7 /\ age <= 30 -> 50
      [] age > 30 /\ age <= 180 -> 20
      [] age > 180 -> 5

\* A sign-in from nowhere in particular is scored like one from far away.
PlaceScore(place) ==
    CASE place = "safe" -> 0 [] place = "near" -> 50 [] place \in {"far", "missing"} -> 100

\* Weights 0.70 and 0.30 of two scores out of 100, in tenths.
RuleScore(a, e) == 7 * SimIntegrity(e.simAge) + 3 * PlaceScore(a.place)

-----------------------------------------------------------------------------
\* telecom_features.build: the operator's reading of the SIM's place is not
\* among the features, so the models never see it.
TelecomFeatures(a, e) ==
    [device_change |-> a.device = "unregistered" /\ e.enrolled,
     imsi_change |-> a.imsi, iccid_change |-> a.iccid, ip_change |-> a.ip,
     geo_similarity |-> a.place, sim_age |-> e.simAge, sim_changes |-> e.swaps]

-----------------------------------------------------------------------------
(* detector.score_login *)

Weight(c) ==
    CASE c = "rule_score" -> 4 [] c = "behavioral_score" -> 3
      [] c = "ml_score" -> 2   [] c = "anomaly_score" -> 1

Components(models) == {"rule_score", "behavioral_score"} \cup models

ComponentScore(c, a, e, mismatch) ==
    CASE c = "rule_score" -> RuleScore(a, e)
      [] c = "behavioral_score" -> BehaviouralScore(a, e, mismatch)
      [] c \in Models -> ModelScore(c, TelecomFeatures(a, e))

\* round(n / d, 1) on tenths.  An exact half, which floating point sends either
\* way, goes up.
Nearest(n, d) == (2 * n + d) \div (2 * d)

\* The weighted mean of the components there are: the weight of a model that is
\* not loaded is left out of the denominator as well.
Fused(a, e, mismatch, models) ==
    Nearest(MapThenSumSet(LAMBDA c : Weight(c) * ComponentScore(c, a, e, mismatch),
                          Components(models)),
            MapThenSumSet(Weight, Components(models)))

Decisions == {"ALLOW", "MONITOR", "VERIFY", "BLOCK"}

Decide(score) ==
    CASE score <= 140 -> "ALLOW"
      [] score > 140 /\ score <= 260 -> "MONITOR"
      [] score > 260 /\ score <= 800 -> "VERIFY"
      [] score > 800 -> "BLOCK"

\* score_login's answer for an attempt, given whether the operator's reading
\* contradicts the claimed place and which models are loaded.
ScoreLogin(a, e, mismatch, models) == Decide(Fused(a, e, mismatch, models))
=============================================================================
