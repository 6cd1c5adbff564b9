----------------------------- MODULE SignInChecks -----------------------------
(***************************************************************************)
(* Request threads that question the operator: the check before a one-time *)
(* code is issued (routes/auth_routes.py, _pre_otp_risk_check), the demo   *)
(* endpoint that scores an attempt and the two operator endpoints of       *)
(* app.py.  They share the adapter object operator_adapter caches, its     *)
(* quota, the access log and the models that are loaded on first use.      *)
(*                                                                         *)
(* An adapter is named by the request that built it.  A check before a     *)
(* code looks the SIM up twice: for its score, and again for the sign-in   *)
(* area it stores.  Opening a case is in module CaseAppeals, what follows  *)
(* the decision in module SignIn.                                          *)
(***************************************************************************)
EXTENDS LoginRisk, OperatorLookup, Threads

CONSTANTS
    Subjects,           \* subscriber profiles
    Profile,            \* what each profile says: Evidence, consent, network
    Attempts,           \* the attempts that are made
    Jobs,               \* the calls that are made
    Injected,           \* the faults that are set on the mock
    Trusted,            \* models whose artefact matches the manifest
    Foreign,            \* what an adapter that is not one of the two here returns
    Limit,              \* config operator.rate_limit_per_minute
    Window,             \* the 60 seconds of the quota, in ticks
    MaxClock            \* bound: the clock stops here

ASSUME QuotaAssumption == Limit \in Nat /\ Window \in Nat /\ MaxClock \in Nat
ASSUME ForeignAssumption == Foreign \subseteq Returns /\ Injected \subseteq Faults
ASSUME ProfileAssumption ==
    \A s \in Subjects : /\ Profile[s].consent \in ConsentStates
                         /\ Profile[s].fix \in Distances \cup {"none"}

Installed == "installed"        \* an adapter put in place by set_adapter
None == "none"
ASSUME NameAssumption == {Installed, None} \cap Requests = {}

VARIABLES
    kind,           \* the configured adapter: mock, camara, or another one
    fault,          \* the fault set on the mock
    clock,          \* time.monotonic(), in ticks
    cached,         \* operator_adapter._adapter
    window,         \* the deques of _calls: admissions not yet dropped
    tried, ready,   \* _loaded and _model of ml_model and anomaly
    accesses,       \* operator_access records of the audit log
    areas,          \* rows of login_locations
    job, phase, adapter, result, mismatch, model, used, decision, told, \* per request
    worth,          \* history: what the answers, as they came, are good for
    overran,        \* history: look-ups that took longer than the budget
    admitted,       \* history: every look-up the quota let through
    lost,           \* history: look-ups whose record could not be written
    early,          \* history: a model was looked at while it was being loaded
    abandoned       \* history: models whose first load raised

setting == <<kind, fault>>
shared == <<cached, window, tried, ready, accesses, areas>>
locals == <<job, phase, adapter, result, mismatch, model, used, decision, told>>
history == <<worth, overran, admitted, lost, early, abandoned>>
vars == <<setting, clock, shared, pc, locals, history>>

Kinds == {"sign_in", "score", "sim_location", "sim_swap"}
Scored == {"sign_in", "score"}
Job == [kind : Kinds, subject : Subjects, attempt : Attempts]
ASSUME JobAssumption == Jobs \subseteq Job /\ Trusted \subseteq Models
\* The scores the models give are numbers, so that every attempt has a decision.
ASSUME ScoreAssumption ==
    \A j \in Job : \A mm \in BOOLEAN : \A models \in SUBSET Models :
        ScoreLogin(j.attempt, Profile[j.subject], mm, models) \in Decisions
Phases == {"score", "area"}
Admission == [object : Requests \cup {Installed, None}, subject : Subjects,
              by : Requests, phase : Phases, at : 0..MaxClock]
Access == [by : Requests, phase : Phases, usable : BOOLEAN]

Waiting == {"fetching", "building", "asking", "recording", "looking", "loading", "finishing",
            "deciding"}
Worths == {"nothing", "reading", "evidence"}
Tellings == {"area", "doubtful area", "unknown", "swapped", "kept"}
Stages == Waiting \cup {"idle", "done", "broken", "dead"}

\* Nothing was asked yet.
NoJob == [kind |-> "none"]
NoResult == Degraded("not_configured", "unknown")

TypeOK ==
    /\ kind \in {"mock", "camara", "other"} /\ fault \in Faults
    /\ clock \in 0..MaxClock
    /\ cached \in Requests \cup {Installed, None}
    /\ window \subseteq admitted /\ admitted \subseteq Admission
    /\ ready \subseteq tried /\ tried \subseteq Models
    /\ accesses \subseteq Access /\ lost \subseteq Requests \X Phases
    /\ overran \subseteq Requests \X Phases
    /\ areas \subseteq [by : Requests, mismatch : BOOLEAN]
    /\ pc \in [Requests -> Stages]
    /\ job \in [Requests -> Job \cup {NoJob}]
    /\ \A r \in Requests : /\ pc[r] # "idle" => job[r] \in Job
                           /\ pc[r] = "finishing" => model[r] \in tried
    /\ phase \in [Requests -> Phases]
    /\ adapter \in [Requests -> Requests \cup {Installed, None}]
    /\ result \in [Requests -> OperatorResult]
    /\ told \in [Requests -> Tellings \cup {None}]
    /\ worth \in [Requests \X Phases -> Worths]
    /\ mismatch \in [Requests -> BOOLEAN]
    /\ model \in [Requests -> Models]
    /\ used \in [Requests -> SUBSET Models]
    /\ early \subseteq Requests \X Models /\ abandoned \subseteq Models
    /\ decision \in [Requests -> Decisions \cup {None}]

Init ==
    /\ kind \in {"mock", "camara", "other"}
    /\ fault \in (IF kind = "mock" THEN Injected ELSE {"none"})
    /\ clock = 0
    /\ cached = IF kind = "other" THEN Installed ELSE None
    /\ window = {} /\ tried = {} /\ ready = {} /\ accesses = {} /\ areas = {}
    /\ pc = [r \in Requests |-> "idle"]
    /\ job = [r \in Requests |-> NoJob]
    /\ phase = [r \in Requests |-> "score"]
    /\ adapter = [r \in Requests |-> None]
    /\ result = [r \in Requests |-> NoResult]
    /\ mismatch = [r \in Requests |-> FALSE]
    /\ model = [r \in Requests |-> "ml_score"]
    /\ used = [r \in Requests |-> {}]
    /\ decision = [r \in Requests |-> None]
    /\ told = [r \in Requests |-> None]
    /\ worth = [x \in Requests \X Phases |-> "nothing"]
    /\ overran = {} /\ admitted = {} /\ lost = {} /\ early = {} /\ abandoned = {}

Claimed(r) == job[r].attempt.place # "missing"
Consent(r) == ResolveConsent(TRUE, "unknown", Profile[job[r].subject].consent)

-----------------------------------------------------------------------------
\* A route is called with a subscriber's profile: the password step has passed,
\* or the caller owns the profile.
Begin(r, j) ==
    /\ pc[r] = "idle"
    /\ job' = [job EXCEPT ![r] = j]
    /\ GoTo(r, "fetching")
    /\ UNCHANGED <<setting, clock, shared, history, phase, adapter, result, mismatch, model,
                   used, decision, told>>

\* get_adapter: the cached object, or else build one.  Two first look-ups may
\* both find none; each caller gets whatever is cached when it returns.
FetchAdapter(r) ==
    /\ pc[r] = "fetching"
    /\ adapter' = [adapter EXCEPT ![r] = cached]
    /\ GoTo(r, IF cached = None THEN "building" ELSE "asking")
    /\ UNCHANGED <<setting, clock, shared, history, job, phase, result, mismatch, model, used,
                   decision, told>>

BuildAdapter(r) ==
    /\ pc[r] = "building"
    /\ cached' = r
    /\ GoTo(r, "fetching")
    /\ UNCHANGED <<setting, clock, window, tried, ready, accesses, areas, locals, history>>
-----------------------------------------------------------------------------
(* The quota of the mock: _rate_limited, under its lock *)

Expired(x) == clock - x.at > Window
Deque(r) == {x \in window : x.object = adapter[r] /\ x.subject = job[r].subject}
Counted(r) == {x \in Deque(r) : ~Expired(x)}
RateLimited(r) == Limit > 0 /\ Cardinality(Counted(r)) >= Limit

\* Old calls leave the deque whether or not the new one is let through.
TakeQuota(r) ==
    LET kept == window \ {x \in Deque(r) : Expired(x)}
        call == [object |-> adapter[r], subject |-> job[r].subject, by |-> r,
                 phase |-> phase[r], at |-> clock]
    IN  IF Limit = 0 THEN UNCHANGED <<window, admitted>>
        ELSE IF RateLimited(r) THEN window' = kept /\ UNCHANGED admitted
        ELSE window' = kept \cup {call} /\ admitted' = admitted \cup {call}

-----------------------------------------------------------------------------
(* Asking: the adapter's operation inside safe_call *)

\* Said of what the adapter itself returned: an answer that is recent, permitted
\* and, by its own account, in time is a reading; one the operator measured,
\* elsewhere, is evidence.
Worth(answer) ==
    IF ~(/\ answer \in OperatorResult /\ answer.data # NoData
         /\ answer.status = "available" /\ answer.fresh /\ ~answer.late
         /\ PermitsLookup(answer.consent))
    THEN "nothing"
    ELSE IF answer.data.origin = "operator_feed" /\ answer.data.distance = "apart"
         THEN "evidence" ELSE "reading"

Hear(r, answer, slow) ==
    /\ worth' = [worth EXCEPT ![<<r, phase[r]>>] = Worth(answer)]
    /\ overran' = IF slow THEN overran \cup {<<r, phase[r]>>} ELSE overran
    /\ adapter' = [adapter EXCEPT ![r] = None]
    /\ result' = [result EXCEPT ![r] = SafeCall(answer, Consent(r))]
    /\ GoTo(r, "recording")
    /\ UNCHANGED <<setting, clock, cached, tried, ready, accesses, areas, job, phase,
                   mismatch, model, used, decision, told, lost, early, abandoned>>

MockAnswer(r) ==
    IF RateLimited(r) THEN Degraded("rate_limited", Consent(r))
    ELSE IF job[r].kind = "sim_swap"
    THEN MockSwap(Profile[job[r].subject].activated, Consent(r), fault)
    ELSE MockLocation(Profile[job[r].subject].fix, Claimed(r), Consent(r), fault)

\* The two adapters answer from memory; the mock's time-out is only reported.
AskMock(r) ==
    /\ pc[r] = "asking" /\ kind = "mock"
    /\ IF MockRefuses(Consent(r), fault)
       THEN Hear(r, MockRefusal(Consent(r), fault), FALSE) /\ UNCHANGED <<window, admitted>>
       ELSE Hear(r, MockAnswer(r), FALSE) /\ TakeQuota(r)

AskCamara(r) ==
    /\ pc[r] = "asking" /\ kind = "camara"
    /\ Hear(r, CamaraAnswer(Consent(r)), FALSE)
    /\ UNCHANGED <<window, admitted>>

AskForeign(r, back) ==
    /\ pc[r] = "asking" /\ kind = "other"
    /\ Hear(r, back.answer, back.slow)
    /\ UNCHANGED <<window, admitted>>
-----------------------------------------------------------------------------
(* Recording the access, then using the answer: operator._call *)

\* Faulty variant: only look-ups that returned something are recorded.
WriteAccess_Answered(r) ==
    /\ accesses' = IF Usable(result[r])
                   THEN accesses \cup {[by |-> r, phase |-> phase[r], usable |-> TRUE]}
                   ELSE accesses
    /\ UNCHANGED lost

\* Every access is recorded, the ones that returned nothing too.
WriteAccess(r) ==
    /\ accesses' = accesses \cup {[by |-> r, phase |-> phase[r], usable |-> Usable(result[r])]}
    /\ UNCHANGED lost

\* A record that cannot be written must not break the sign-in.
LoseAccess(r) ==
    /\ lost' = lost \cup {<<r, phase[r]>>}
    /\ UNCHANGED accesses

\* signals.evaluate gets the flag; or the stored sign-in area does.
UseForScore(r) ==
    /\ job[r].kind \in Scored /\ phase[r] = "score"
    /\ IF Breaks(result[r], Claimed(r))
       THEN GoTo(r, "broken") /\ UNCHANGED mismatch
       ELSE /\ mismatch' = [mismatch EXCEPT ![r] = Mismatch(result[r])]
            /\ GoTo(r, "looking")
    /\ UNCHANGED <<areas, told>>

UseForArea(r) ==
    /\ phase[r] = "area"
    /\ areas' = areas \cup {[by |-> r, mismatch |-> Mismatch(result[r])]}
    /\ GoTo(r, "done")
    /\ UNCHANGED <<mismatch, told>>

\* The two operator endpoints answer with what they were told.
Reply(r) ==
    /\ job[r].kind \notin Scored
    /\ told' = [told EXCEPT ![r] = IF job[r].kind = "sim_swap" THEN SimSwap(result[r])
                                   ELSE SimLocation(result[r])]
    /\ GoTo(r, "done")
    /\ UNCHANGED <<mismatch, areas>>

Record(r) ==
    /\ pc[r] = "recording"
    /\ WriteAccess(r) \/ LoseAccess(r)
    /\ UseForScore(r) \/ UseForArea(r) \/ Reply(r)
    /\ result' = [result EXCEPT ![r] = NoResult]
    /\ UNCHANGED <<setting, clock, cached, window, tried, ready, job, phase, adapter,
                   model, used, decision, worth, overran, admitted, early, abandoned>>
-----------------------------------------------------------------------------
(* ml_model and anomaly: load on first use, without a lock *)

BeingLoaded(m) == \E q \in Requests : pc[q] = "finishing" /\ model[q] = m

\* is_available: a model that was tried is either there or not.
LookAtModel(r) ==
    /\ pc[r] = "looking"
    /\ IF model[r] \notin tried
       THEN GoTo(r, "loading") /\ UNCHANGED <<model, used, early>>
       ELSE /\ used' = [used EXCEPT ![r] = @ \cup ({model[r]} \cap ready)]
            /\ early' = IF model[r] \notin ready /\ BeingLoaded(model[r])
                        THEN early \cup {<<r, model[r]>>} ELSE early
            /\ IF model[r] = "ml_score"
               THEN model' = [model EXCEPT ![r] = "anomaly_score"] /\ UNCHANGED pc
               ELSE UNCHANGED model /\ GoTo(r, "deciding")
    /\ UNCHANGED <<setting, clock, shared, job, phase, adapter, result, mismatch, decision,
                   told, worth, overran, admitted, lost, abandoned>>

\* _load marks the model as tried before it reads the file.
MarkTried(r) ==
    /\ pc[r] = "loading"
    /\ tried' = tried \cup {model[r]}
    /\ GoTo(r, "finishing")
    /\ UNCHANGED <<setting, clock, cached, window, ready, accesses, areas, locals, history>>

\* Faulty variant: the model that is loaded last replaces the others.
FinishLoad_Alone(r) ==
    /\ pc[r] = "finishing"
    /\ ready' = {model[r]} \cap Trusted
    /\ GoTo(r, "looking")
    /\ UNCHANGED <<setting, clock, cached, window, tried, accesses, areas, locals, history>>

\* safe_load returns the model if its hash is the one in the manifest.
FinishLoad(r) ==
    /\ pc[r] = "finishing"
    /\ ready' = ready \cup ({model[r]} \cap Trusted)
    /\ GoTo(r, "looking")
    /\ UNCHANGED <<setting, clock, cached, window, tried, accesses, areas, locals, history>>

\* Reading the artefact fails outside the part of safe_load that is guarded: the
\* call ends in an error, and the model stays marked as tried.
LoadRaises(r) ==
    /\ pc[r] = "finishing"
    /\ abandoned' = abandoned \cup {model[r]}
    /\ GoTo(r, "dead")
    /\ UNCHANGED <<setting, clock, shared, locals, worth, overran, admitted, lost, early>>

\* The fused score falls on one side of the thresholds; a check before a code
\* then looks the SIM up again for the area it stores.
ReachDecision(r) ==
    /\ pc[r] = "deciding"
    /\ decision' = [decision EXCEPT ![r] = ScoreLogin(job[r].attempt, Profile[job[r].subject],
                                                      mismatch[r], used[r])]
    /\ IF job[r].kind = "sign_in" /\ Claimed(r)
       THEN phase' = [phase EXCEPT ![r] = "area"] /\ GoTo(r, "fetching")
       ELSE UNCHANGED phase /\ GoTo(r, "done")
    /\ UNCHANGED <<setting, clock, shared, job, adapter, result, mismatch, model, used, told, history>>
-----------------------------------------------------------------------------
\* Only the mock reads the clock.
Tick ==
    /\ kind = "mock" /\ clock < MaxClock
    /\ clock' = clock + 1
    /\ UNCHANGED <<setting, shared, pc, locals, history>>

Work(r) ==
    \/ FetchAdapter(r) \/ BuildAdapter(r)
    \/ AskMock(r) \/ AskCamara(r) \/ \E back \in Foreign : AskForeign(r, back)
    \/ Record(r)
    \/ LookAtModel(r) \/ MarkTried(r) \/ FinishLoad(r) \/ LoadRaises(r)
    \/ ReachDecision(r)

Next ==
    \/ \E r \in Requests : (\E j \in Jobs : Begin(r, j)) \/ Work(r)
    \/ Tick

\* A thread that is not stopped runs on: no step waits for another thread.
Fairness == \A r \in Requests : WF_vars(Work(r))

Spec == Init /\ [][Next]_vars
FairSpec == Spec /\ Fairness

-----------------------------------------------------------------------------
(* Properties *)

\* An operator that is down, unsure, not allowed or, as it says itself, late never
\* adds to a score or to a stored sign-in area, whatever else its adapter returns:
\* unless it was evidence that came back, the decision is the one the attempt gets
\* with no operator at all.  Nor is it quoted as having said where a SIM is, or
\* whether it was swapped (operator_adapter.py:283-323, operator.py:112-192).
DegradedLookupsAreSilent ==
    \A r \in Requests :
        /\ decision[r] # None /\ worth[<<r, "score">>] # "evidence" =>
             decision[r] = ScoreLogin(job[r].attempt, Profile[job[r].subject], FALSE, used[r])
        /\ [by |-> r, mismatch |-> TRUE] \in areas => worth[<<r, "area">>] = "evidence"
        /\ told[r] \in {"area", "swapped", "kept"} => worth[<<r, "score">>] # "nothing"

\* The look-up of that phase is over, and was not cut short.
LookedUp(r, ph) ==
    \/ ph = "score" /\ \/ phase[r] = "area"
                       \/ pc[r] \in {"looking", "loading", "finishing", "deciding", "done", "broken"}
    \/ ph = "area" /\ phase[r] = "area" /\ pc[r] = "done"
ActedOn(r, ph) ==
    IF ph = "score" THEN mismatch[r] ELSE [by |-> r, mismatch |-> TRUE] \in areas

\* However a look-up ends, it is in the access log before anything is done with
\* it, and as a usable one if it was acted on, unless the log could not be
\* written (operator.py:53-63).
EveryLookupIsAudited ==
    \A r \in Requests : \A ph \in Phases :
        LookedUp(r, ph) =>
            \/ <<r, ph>> \in lost
            \/ \E x \in accesses : x.by = r /\ x.phase = ph /\ (ActedOn(r, ph) => x.usable)

\* In any 60 seconds one adapter lets at most Limit look-ups of a subject
\* through, whichever threads make them (operator_mock.py:98-112).
QuotaHolds ==
    Limit > 0 =>
        \A x \in admitted :
            Cardinality({y \in admitted : /\ y.object = x.object /\ y.subject = x.subject
                                          /\ y.at \in x.at..(x.at + Window)}) <= Limit

\* A check goes without a trusted model only because it looked while another
\* thread was loading it, or because a load raised (ml_model.py:21-35).
RulesOnlyHasAReason ==
    \A r \in Requests : \A m \in Trusted :
        decision[r] # None /\ m \notin used[r] =>
            <<r, m>> \in early \/ m \in abandoned

\* With the adapters of this repository, whatever state the operator is in,
\* every check that was begun and is not stopped reaches its decision: none is
\* left waiting, and none ends in an error (operator_adapter.py:283-323).
EveryCheckIsDecided ==
    kind # "other" =>
        <>[](\A r \in Requests :
                pc[r] # "idle" /\ job[r].kind \in Scored
                    => decision[r] # None \/ pc[r] = "dead")
-----------------------------------------------------------------------------
(* What a comment claims *)

\* operator_mock.py:160-161 "`safe_call` also downgrades on its own measurement":
\* a look-up that took longer than the budget counts for nothing, whatever latency
\* its adapter reports.
SlowAnswersAreSilent ==
    \A r \in Requests :
        /\ decision[r] # None /\ <<r, "score">> \in overran =>
             decision[r] = ScoreLogin(job[r].attempt, Profile[job[r].subject], FALSE, used[r])
        /\ [by |-> r, mismatch |-> TRUE] \in areas => <<r, "area">> \notin overran
        /\ told[r] \in {"area", "swapped", "kept"} => <<r, "score">> \notin overran
=============================================================================
