---------------------------- MODULE MCSignInChecks ----------------------------
(***************************************************************************)
(* A small instance of SignInChecks for TLC: subscribers with and without  *)
(* consent and a network fix, attempts on either side of a threshold, and  *)
(* an adapter that answers anything.                                       *)
(***************************************************************************)
EXTENDS SignInChecks, TLC

\* Out of country on an old SIM; the same without consent on record; and a
\* subscriber the network knows nothing of.
MCProfile ==
    [s \in Subjects |->
        CASE s = "roaming" -> [enrolled |-> TRUE, swaps |-> 0, simAge |-> 400, fix |-> "apart",
                               activated |-> "long ago", consent |-> "granted"]
          [] s = "silent" -> [enrolled |-> TRUE, swaps |-> 2, simAge |-> 400, fix |-> "apart",
                              activated |-> "recently", consent |-> "unknown"]
          [] s = "unseen" -> [enrolled |-> FALSE, swaps |-> 0, simAge |-> 2, fix |-> "none",
                              activated |-> "none", consent |-> "granted"]]

Usual == [device |-> "registered", imsi |-> FALSE, iccid |-> FALSE, ip |-> FALSE,
          travel |-> "unknown", place |-> "safe", hour |-> 12, logins |-> 1, failed |-> 0]
Unplaced == [Usual EXCEPT !.place = "missing", !.device = "unregistered"]
MCAttempts == {Usual, Unplaced}

Call(k, s, a) == [kind |-> k, subject |-> s, attempt |-> a]
MCJobs == {Call("sign_in", "roaming", Usual), Call("score", "roaming", Unplaced),
           Call("sim_swap", "roaming", Usual), Call("sim_location", "silent", Usual)}

\* The forest reacts to identity changes, the isolation forest to the place.
MCModelScore(m, features) ==
    IF m = "ml_score" THEN IF features.device_change THEN 800 ELSE 50
    ELSE IF features.geo_similarity = "missing" THEN 600 ELSE 300

Reading == [status |-> "available", consent |-> "granted", fresh |-> TRUE, late |-> FALSE,
            data |-> [origin |-> "operator_feed", distance |-> "apart", swapped |-> TRUE]]
AnswerKinds ==
    {Raised, Nonsense, Reading, [Reading EXCEPT !.status = "stale"],
     [Reading EXCEPT !.fresh = FALSE], [Reading EXCEPT !.late = TRUE],
     [Reading EXCEPT !.consent = "withdrawn"], [Reading EXCEPT !.data = NoData],
     [Reading EXCEPT !.data.origin = "device_assumption"]}

\* The good one takes too long, and does not say so.
MCForeign == {[answer |-> a, slow |-> a = Reading] : a \in AnswerKinds}
=============================================================================
