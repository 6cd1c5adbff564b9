-------------------------- MODULE SignInChecksProofs --------------------------
(***************************************************************************)
(* Proofs about SignInChecks, for any number of requests, any profiles and *)
(* attempts, any quota and whatever an adapter answers.                    *)
(***************************************************************************)
EXTENDS SignInChecks, FiniteSetTheorems, TLAPS

-----------------------------------------------------------------------------
(* What safe_call and the adapters return *)


\* The consent of a subscriber is one of the five states.
LEMMA ConsentType == ASSUME TypeOK, NEW r \in Requests, pc[r] # "idle"
                     PROVE  Consent(r) \in ConsentStates
BY ProfileAssumption DEF TypeOK, Consent, ResolveConsent, Job

\* A degraded result is a result like any other, and never usable.
LEMMA DegradedType == ASSUME NEW status \in Statuses, NEW consent \in ConsentStates
                      PROVE  /\ Degraded(status, consent) \in OperatorResult
                             /\ ~Usable(Degraded(status, consent))
BY DEF Degraded, OperatorResult, Usable

\* safe_call turns every answer into a result, and passes on only what the
\* adapter itself vouched for, in time.
LEMMA SafeCallShows ==
    ASSUME NEW answer \in Answers, NEW consent \in ConsentStates
    PROVE  LET x == SafeCall(answer, consent)
           IN  /\ x \in OperatorResult
               /\ Usable(x) => Worth(answer) # "nothing"
               /\ Mismatch(x) => Worth(answer) = "evidence"
<1>1. CASE answer \in OperatorResult
  <2>1. answer # Raised /\ answer # Nonsense
    BY <1>1 DEF OperatorResult, Raised, Nonsense, Statuses
  <2>2. CASE Usable(answer) /\ answer.late
    <3>1. SafeCall(answer, consent) = Degraded("timeout", answer.consent)
      BY <1>1, <2>1, <2>2 DEF SafeCall
    <3>2. answer.consent \in ConsentStates /\ "timeout" \in Statuses
      BY <1>1 DEF OperatorResult, Statuses
    <3> QED BY <3>1, <3>2, DegradedType DEF Mismatch, Evident
  <2>3. CASE ~(Usable(answer) /\ answer.late)
    <3>1. SafeCall(answer, consent) = answer
      BY <1>1, <2>1, <2>3 DEF SafeCall
    <3> QED BY <1>1, <2>3, <3>1 DEF Usable, Worth, Mismatch, Evident
  <2> QED BY <2>2, <2>3
<1>2. CASE answer = Raised
  BY <1>2, DegradedType DEF SafeCall, Mismatch, Evident, Statuses
<1>3. CASE answer = Nonsense /\ answer # Raised
  <2>1. SafeCall(answer, consent) = Degraded("malformed", consent)
    BY <1>3 DEF SafeCall, OperatorResult, Nonsense, Raised, Statuses
  <2> QED BY <2>1, DegradedType DEF Mismatch, Evident, Statuses
<1> QED BY <1>1, <1>2, <1>3 DEF Answers

\* Every adapter answers with a result, or it is a foreign one.
LEMMA MockRefusalType == ASSUME NEW consent \in ConsentStates, NEW f \in Faults, MockRefuses(consent, f)
                         PROVE  MockRefusal(consent, f) \in OperatorResult
<1>1. CASE ~PermitsLookup(consent)
  BY <1>1, DegradedType DEF MockRefusal, Statuses
<1>2. CASE PermitsLookup(consent) /\ f = "consent_withdrawn"
  BY <1>2, DegradedType DEF MockRefusal, Statuses, ConsentStates
<1>3. CASE PermitsLookup(consent) /\ f # "consent_withdrawn"
  <2>1. FaultStatus(f) \in Statuses
    BY <1>3 DEF FaultStatus, Statuses, Faults, MockRefuses
  <2> DEFINE d == Degraded(FaultStatus(f), consent)
  <2>2. MockRefusal(consent, f) = [d EXCEPT !.late = (f = "timeout")]
    BY <1>3 DEF MockRefusal
  <2>3. d \in OperatorResult
    BY <2>1, DegradedType
  <2> HIDE DEF d
  <2> QED BY <2>2, <2>3 DEF OperatorResult
<1> QED BY <1>1, <1>2, <1>3

LEMMA FreshType == ASSUME NEW status \in Statuses, NEW consent \in ConsentStates, NEW data \in Data
                   PROVE  Fresh(status, consent, data) \in OperatorResult
BY DEF Fresh, OperatorResult

LEMMA MockAnswerType == ASSUME TypeOK, NEW r \in Requests, pc[r] # "idle"
                        PROVE  MockAnswer(r) \in OperatorResult
<1> DEFINE consent == Consent(r)
<1>1. consent \in ConsentStates
  BY ConsentType
<1>2. "rate_limited" \in Statuses /\ "partial" \in Statuses /\ "stale" \in Statuses
      /\ "unavailable" \in Statuses /\ "available" \in Statuses /\ "assumed_colocated" \in Statuses
  BY DEF Statuses
<1>3. ASSUME NEW origin \in {"operator_feed", "device_assumption"}, NEW distance \in Distances,
             NEW swapped \in BOOLEAN
      PROVE  [origin |-> origin, distance |-> distance, swapped |-> swapped] \in Data
  BY <1>3 DEF Data
<1>4. Profile[job[r].subject].fix \in Distances \cup {"none"}
  BY ProfileAssumption DEF TypeOK, Job
<1> HIDE DEF consent
<1>5. MockSwap(Profile[job[r].subject].activated, consent, fault) \in OperatorResult
  BY <1>1, <1>2, <1>3, DegradedType, FreshType DEF MockSwap, Distances
<1>6. MockLocation(Profile[job[r].subject].fix, Claimed(r), consent, fault) \in OperatorResult
  <2>1. CASE Profile[job[r].subject].fix = "none"
    BY <2>1, <1>1, <1>2, <1>3, DegradedType, FreshType DEF MockLocation, Distances
  <2>2. CASE Profile[job[r].subject].fix # "none" /\ fault = "stale"
    BY <2>2, <1>1, <1>2, DegradedType DEF MockLocation
  <2>3. CASE Profile[job[r].subject].fix # "none" /\ fault # "stale"
    <3> DEFINE distance == IF Claimed(r) THEN Profile[job[r].subject].fix ELSE "unknown"
    <3>1. distance \in Distances
      BY <2>3, <1>4 DEF Distances
    <3>2. [origin |-> "operator_feed", distance |-> distance, swapped |-> FALSE] \in Data
      BY <3>1, <1>3
    <3> QED BY <2>3, <3>2, <1>1, <1>2, FreshType DEF MockLocation
  <2> QED BY <2>1, <2>2, <2>3
<1>7. Degraded("rate_limited", consent) \in OperatorResult
  BY <1>1, <1>2, DegradedType
<1> QED BY <1>5, <1>6, <1>7 DEF MockAnswer, consent

\* Whatever adapter is asked, safe_call is handed an answer.
LEMMA AskShows ==
    ASSUME TypeOK, NEW r \in Requests,
           AskMock(r) \/ AskCamara(r) \/ \E back \in Foreign : AskForeign(r, back)
    PROVE  /\ pc[r] = "asking"
           /\ \E answer \in Answers : \E slow \in BOOLEAN : Hear(r, answer, slow)
           /\ TakeQuota(r) \/ UNCHANGED <<window, admitted>>
<1>1. CASE AskMock(r)
  <2>1. pc[r] # "idle" /\ fault \in Faults
    BY <1>1 DEF AskMock, TypeOK
  <2>2. CASE MockRefuses(Consent(r), fault)
    <3>1. MockRefusal(Consent(r), fault) \in Answers
      BY <2>1, <2>2, ConsentType, MockRefusalType DEF Answers
    <3> QED BY <1>1, <2>2, <3>1 DEF AskMock
  <2>3. CASE ~MockRefuses(Consent(r), fault)
    <3>1. MockAnswer(r) \in Answers
      BY <2>1, MockAnswerType DEF Answers
    <3> QED BY <1>1, <2>3, <3>1 DEF AskMock
  <2> QED BY <2>2, <2>3
<1>2. CASE AskCamara(r)
  <2>1. CamaraAnswer(Consent(r)) \in Answers
    <3>1. Consent(r) \in ConsentStates /\ "not_configured" \in Statuses
      BY <1>2, ConsentType DEF AskCamara, Statuses
    <3> QED BY <3>1, DegradedType DEF CamaraAnswer, Answers
  <2> QED BY <1>2, <2>1 DEF AskCamara
<1>3. CASE \E back \in Foreign : AskForeign(r, back)
  <2>1. PICK back \in Returns : AskForeign(r, back)
    BY <1>3, ForeignAssumption
  <2>2. back.answer \in Answers /\ back.slow \in BOOLEAN
    BY DEF Returns
  <2> QED BY <2>1, <2>2 DEF AskForeign
<1> QED BY <1>1, <1>2, <1>3

\* Every step is one action of one request, or the clock.
LEMMA StepCases ==
    ASSUME Next
    PROVE  \/ Tick
           \/ \E r \in Requests : (\E j \in Jobs : Begin(r, j)) \/ Work(r)
BY DEF Next

-----------------------------------------------------------------------------
(* Types *)

LEMMA TypeInit == ASSUME Init PROVE TypeOK
<1>1. fault \in Faults
  BY ForeignAssumption DEF Init, Faults
<1>2. NoResult \in OperatorResult
  BY DegradedType DEF NoResult, Statuses, ConsentStates
<1> QED BY <1>1, <1>2, QuotaAssumption DEF Init, TypeOK, Stages, Waiting, Phases, Models, Worths

LEMMA TypeStep == ASSUME TypeOK, [Next]_vars PROVE TypeOK'
<1> USE DEF Stages, Waiting, Phases, Models
<1>1. CASE UNCHANGED vars
  BY <1>1 DEF TypeOK, vars, setting, shared, locals, history
<1>2. CASE Tick
  BY <1>2, QuotaAssumption DEF TypeOK, Tick, setting, shared, locals, history
<1>3. ASSUME NEW r \in Requests, NEW j \in Jobs, Begin(r, j) PROVE TypeOK'
  BY <1>3, JobAssumption DEF TypeOK, Begin, GoTo, setting, shared, history
<1>4. ASSUME NEW r \in Requests, Work(r) PROVE TypeOK'
  <2>1. CASE FetchAdapter(r)
    BY <2>1 DEF TypeOK, FetchAdapter, GoTo, setting, shared, history
  <2>2. CASE BuildAdapter(r)
    BY <2>2 DEF TypeOK, BuildAdapter, GoTo, setting, locals, history
  <2>3. CASE AskMock(r) \/ AskCamara(r) \/ \E back \in Foreign : AskForeign(r, back)
    <3>0. pc[r] = "asking"
      BY <2>3, AskShows
    <3>1. PICK answer \in Answers, slow \in BOOLEAN : Hear(r, answer, slow)
      BY <2>3, AskShows
    <3>2. Consent(r) \in ConsentStates
      BY <2>3, AskShows, ConsentType
    <3>3. SafeCall(answer, Consent(r)) \in OperatorResult
      BY <3>2, SafeCallShows
    <3>4. Worth(answer) \in Worths
      BY DEF Worth, Worths
    <3>5. window' \subseteq admitted' /\ admitted' \subseteq Admission
      <4>1. CASE TakeQuota(r)
        <5> DEFINE call == [object |-> adapter[r], subject |-> job[r].subject, by |-> r,
                            phase |-> phase[r], at |-> clock]
        <5>1. job[r] \in Job
          BY <2>3, AskShows DEF TypeOK
        <5>2. call \in Admission
          BY <5>1 DEF TypeOK, Admission, Job
        <5> HIDE DEF call
        <5>3. /\ window' = window \/ window' \subseteq window \cup {call}
              /\ admitted' = admitted \/ admitted' = admitted \cup {call}
              /\ window' \subseteq window \/ admitted' = admitted \cup {call}
          BY <4>1 DEF TakeQuota, call
        <5> QED BY <5>2, <5>3 DEF TypeOK
      <4>2. CASE UNCHANGED <<window, admitted>>
        BY <4>2 DEF TypeOK
      <4> QED BY <4>1, <4>2, <2>3, AskShows
    <3>6. /\ worth' \in [Requests \X Phases -> Worths]
          /\ result' \in [Requests -> OperatorResult]
      BY <3>1, <3>3, <3>4 DEF TypeOK, Hear
    <3>7. /\ adapter' \in [Requests -> Requests \cup {Installed, None}]
          /\ pc' \in [Requests -> Stages]
          /\ \A q \in Requests : /\ pc'[q] # "idle" => job'[q] \in Job
                                 /\ pc'[q] = "finishing" => model'[q] \in tried'
      BY <3>0, <3>1 DEF TypeOK, Hear, GoTo
    <3>8. UNCHANGED <<kind, fault, clock, cached, tried, ready, accesses, areas, job, phase,
                      mismatch, model, used, decision, told, lost, early, abandoned>>
      BY <3>1 DEF Hear, setting
    <3>9. overran' \subseteq Requests \X Phases
      BY <3>1 DEF Hear, TypeOK
    <3> QED BY <3>5, <3>6, <3>7, <3>8, <3>9 DEF TypeOK
  <2>4. CASE Record(r)
    <3>1. /\ Mismatch(result[r]) \in BOOLEAN /\ Usable(result[r]) \in BOOLEAN
          /\ SimLocation(result[r]) \in Tellings /\ SimSwap(result[r]) \in Tellings
          /\ NoResult \in OperatorResult
      BY DegradedType DEF Mismatch, Evident, Usable, SimLocation, SimSwap, Tellings, NoResult,
                          Statuses, ConsentStates
    <3>2. accesses' \subseteq Access /\ lost' \subseteq Requests \X Phases
      BY <2>4, <3>1 DEF TypeOK, Record, WriteAccess, LoseAccess, Access
    <3>3. CASE UseForScore(r)
      BY <2>4, <3>1, <3>2, <3>3 DEF TypeOK, Record, UseForScore, GoTo, setting
    <3>4. CASE UseForArea(r)
      BY <2>4, <3>1, <3>2, <3>4 DEF TypeOK, Record, UseForArea, GoTo, setting
    <3>5. CASE Reply(r)
      BY <2>4, <3>1, <3>2, <3>5 DEF TypeOK, Record, Reply, GoTo, setting
    <3> QED BY <2>4, <3>3, <3>4, <3>5 DEF Record
  <2>5. CASE LookAtModel(r)
    BY <2>5 DEF TypeOK, LookAtModel, GoTo, setting, shared
  <2>6. CASE MarkTried(r)
    BY <2>6 DEF TypeOK, MarkTried, GoTo, setting, locals, history
  <2>7. CASE FinishLoad(r)
    <3>a. /\ ready \subseteq tried /\ tried \subseteq Models /\ model[r] \in tried
          /\ ready' = ready \cup ({model[r]} \cap Trusted) /\ tried' = tried
      BY <2>7 DEF TypeOK, FinishLoad
    <3>1. ready' \subseteq tried' /\ tried' \subseteq Models
      BY <3>a
    <3>2. /\ pc' \in [Requests -> Stages]
          /\ \A q \in Requests : /\ pc'[q] # "idle" => job'[q] \in Job
                                 /\ pc'[q] = "finishing" => model'[q] \in tried'
      BY <2>7 DEF TypeOK, FinishLoad, GoTo, locals
    <3> QED BY <2>7, <3>1, <3>2 DEF TypeOK, FinishLoad, setting, locals, history
  <2>8. CASE LoadRaises(r)
    BY <2>8 DEF TypeOK, LoadRaises, GoTo, setting, shared, locals
  <2>9. CASE ReachDecision(r)
    <3>1. ScoreLogin(job[r].attempt, Profile[job[r].subject], mismatch[r], used[r]) \in Decisions
      BY <2>9, ScoreAssumption DEF TypeOK, ReachDecision
    <3> QED BY <2>9, <3>1 DEF TypeOK, ReachDecision, GoTo, setting, shared, history
  <2> QED BY <1>4, <2>1, <2>2, <2>3, <2>4, <2>5, <2>6, <2>7, <2>8, <2>9 DEF Work
<1> QED BY <1>1, <1>2, <1>3, <1>4 DEF Next

\* TypeOK holds in every reachable state.
THEOREM TypeCorrect == Spec => []TypeOK
<1>1. Init => TypeOK
  BY TypeInit
<1>2. TypeOK /\ [Next]_vars => TypeOK'
  BY TypeStep
<1> QED BY <1>1, <1>2, PTL DEF Spec

-----------------------------------------------------------------------------
(* One request *)

\* A step of one request leaves what belongs to the others alone; records are
\* only added.
LEMMA OthersKeep ==
    ASSUME TypeOK, NEW r \in Requests, (\E j \in Jobs : Begin(r, j)) \/ Work(r),
           NEW q \in Requests, q # r
    PROVE  /\ pc'[q] = pc[q] /\ job'[q] = job[q] /\ phase'[q] = phase[q]
           /\ result'[q] = result[q] /\ mismatch'[q] = mismatch[q] /\ used'[q] = used[q]
           /\ decision'[q] = decision[q] /\ told'[q] = told[q] /\ model'[q] = model[q]
           /\ \A ph \in Phases : worth'[<<q, ph>>] = worth[<<q, ph>>]
           /\ \A b \in BOOLEAN : [by |-> q, mismatch |-> b] \in areas'
                                    <=> [by |-> q, mismatch |-> b] \in areas
<1>1. CASE \E j \in Jobs : Begin(r, j)
  BY <1>1 DEF TypeOK, Begin, GoTo, shared, history
<1>2. CASE FetchAdapter(r)
  BY <1>2 DEF TypeOK, FetchAdapter, GoTo, shared, history
<1>3. CASE BuildAdapter(r)
  BY <1>3 DEF TypeOK, BuildAdapter, GoTo, locals, history
<1>4. CASE AskMock(r) \/ AskCamara(r) \/ \E back \in Foreign : AskForeign(r, back)
  <2>1. PICK answer \in Answers, slow \in BOOLEAN : Hear(r, answer, slow)
    BY <1>4, AskShows
  <2>2. \A ph \in Phases : worth'[<<q, ph>>] = worth[<<q, ph>>]
    BY <2>1 DEF TypeOK, Hear
  <2> QED BY <2>1, <2>2 DEF TypeOK, Hear, GoTo
<1>5. CASE Record(r)
  <2>1. UNCHANGED <<job, phase, model, used, decision, worth>>
    BY <1>5 DEF Record
  <2>2. /\ pc'[q] = pc[q] /\ mismatch'[q] = mismatch[q] /\ told'[q] = told[q]
        /\ result'[q] = result[q]
    BY <1>5 DEF TypeOK, Record, UseForScore, UseForArea, Reply, GoTo
  <2>3. areas' = areas \/ areas' = areas \cup {[by |-> r, mismatch |-> Mismatch(result[r])]}
    BY <1>5 DEF Record, UseForScore, UseForArea, Reply
  <2> QED BY <2>1, <2>2, <2>3
<1>6. CASE LookAtModel(r)
  BY <1>6 DEF TypeOK, LookAtModel, GoTo, shared
<1>7. CASE MarkTried(r)
  BY <1>7 DEF TypeOK, MarkTried, GoTo, locals, history
<1>8. CASE FinishLoad(r)
  BY <1>8 DEF TypeOK, FinishLoad, GoTo, locals, history
<1>9. CASE LoadRaises(r)
  BY <1>9 DEF TypeOK, LoadRaises, GoTo, shared, locals
<1>10. CASE ReachDecision(r)
  BY <1>10 DEF TypeOK, ReachDecision, GoTo, shared, history
<1> QED BY <1>1, <1>2, <1>3, <1>4, <1>5, <1>6, <1>7, <1>8, <1>9, <1>10 DEF Work

\* Where a request is, and what it may hold there.
Before == {"idle", "fetching", "building", "asking", "recording"}
Scoring == {"looking", "loading", "finishing", "deciding"}

PlaceOf(r) ==
    /\ phase[r] = "area" => pc[r] \in (Before \ {"idle"}) \cup {"done"} /\ job[r].kind \in Scored
    /\ pc[r] \in Scoring \/ (phase[r] = "score" /\ pc[r] \in Before) => decision[r] = None
    /\ mismatch[r] => phase[r] = "area" \/ pc[r] \notin Before
    /\ told[r] # None => phase[r] = "score" /\ pc[r] = "done"
    /\ \A b \in BOOLEAN :
         [by |-> r, mismatch |-> b] \in areas => phase[r] = "area" /\ pc[r] = "done"

\* What a request holds is worth what it is used for.
WorthOf(r) ==
    /\ pc[r] = "recording" =>
         /\ Usable(result[r]) => worth[<<r, phase[r]>>] # "nothing"
         /\ Mismatch(result[r]) => worth[<<r, phase[r]>>] = "evidence"
    /\ mismatch[r] => worth[<<r, "score">>] = "evidence"
    /\ [by |-> r, mismatch |-> TRUE] \in areas => worth[<<r, "area">>] = "evidence"
    /\ told[r] \in {"area", "swapped", "kept"} => worth[<<r, "score">>] # "nothing"
    /\ decision[r] # None =>
         decision[r] = ScoreLogin(job[r].attempt, Profile[job[r].subject], mismatch[r], used[r])

OwnInv == \A r \in Requests : PlaceOf(r) /\ WorthOf(r)

LEMMA OwnInit == ASSUME Init PROVE OwnInv
BY DEF Init, OwnInv, PlaceOf, WorthOf, Before, Scoring, None

LEMMA OwnStep == ASSUME TypeOK, OwnInv, [Next]_vars PROVE OwnInv'
<1>1. CASE UNCHANGED vars \/ Tick
  <2>1. UNCHANGED <<areas, pc, job, phase, result, mismatch, used, decision, told, worth>>
    BY <1>1 DEF Tick, vars, setting, shared, locals, history
  <2>2. ASSUME NEW r \in Requests PROVE PlaceOf(r)' /\ WorthOf(r)'
    <3>1. PlaceOf(r)'
      BY <2>1 DEF OwnInv, PlaceOf
    <3>2. WorthOf(r)'
      BY <2>1 DEF OwnInv, WorthOf
    <3> QED BY <3>1, <3>2
  <2> QED BY <2>2 DEF OwnInv
<1>2. ASSUME NEW r \in Requests, (\E j \in Jobs : Begin(r, j)) \/ Work(r) PROVE OwnInv'
  <2>1. ASSUME NEW q \in Requests, q # r PROVE PlaceOf(q)' /\ WorthOf(q)'
    <3>1. PlaceOf(q) /\ WorthOf(q) /\ phase[q] \in Phases
      BY DEF OwnInv, TypeOK
    <3>2. PlaceOf(q)'
      BY <1>2, <2>1, <3>1, OthersKeep DEF PlaceOf
    <3>3. WorthOf(q)'
      <4>1. /\ pc'[q] = pc[q] /\ job'[q] = job[q] /\ phase'[q] = phase[q]
            /\ result'[q] = result[q] /\ mismatch'[q] = mismatch[q] /\ used'[q] = used[q]
            /\ decision'[q] = decision[q] /\ told'[q] = told[q]
            /\ worth'[<<q, phase[q]>>] = worth[<<q, phase[q]>>]
            /\ worth'[<<q, "score">>] = worth[<<q, "score">>]
            /\ worth'[<<q, "area">>] = worth[<<q, "area">>]
            /\ [by |-> q, mismatch |-> TRUE] \in areas'
                  <=> [by |-> q, mismatch |-> TRUE] \in areas
        BY <1>2, <2>1, <3>1, OthersKeep DEF Phases
      <4> QED BY <3>1, <4>1 DEF WorthOf
    <3> QED BY <3>2, <3>3
  <2>2. PlaceOf(r)' /\ WorthOf(r)'
    <3> USE DEF Before, Scoring
    <3>1. PlaceOf(r) /\ WorthOf(r)
      BY DEF OwnInv
    <3>2. CASE \E j \in Jobs : Begin(r, j)
      <4>1. /\ pc[r] = "idle" /\ pc'[r] = "fetching"
            /\ UNCHANGED <<areas, phase, result, mismatch, used, decision, told, worth>>
        BY <3>2 DEF TypeOK, Begin, GoTo, shared, history
      <4>2. phase[r] = "score" /\ decision[r] = None /\ told[r] = None
        BY <3>1, <4>1 DEF TypeOK, PlaceOf, Phases
      <4>3. PlaceOf(r)'
        BY <3>1, <4>1, <4>2 DEF PlaceOf
      <4>4. WorthOf(r)'
        BY <3>1, <4>1, <4>2 DEF WorthOf
      <4> QED BY <4>3, <4>4
    <3>3. CASE FetchAdapter(r)
      BY <3>1, <3>3 DEF TypeOK, FetchAdapter, GoTo, shared, history, PlaceOf, WorthOf
    <3>4. CASE BuildAdapter(r)
      BY <3>1, <3>4 DEF TypeOK, BuildAdapter, GoTo, locals, history, PlaceOf, WorthOf
    <3>5. CASE AskMock(r) \/ AskCamara(r) \/ \E back \in Foreign : AskForeign(r, back)
      <4>1. PICK answer \in Answers, slow \in BOOLEAN : Hear(r, answer, slow)
        BY <3>5, AskShows
      <4>2. pc[r] = "asking"
        BY <3>5, AskShows
      <4>3. /\ UNCHANGED <<areas, job, phase, mismatch, used, decision, told>>
            /\ pc'[r] = "recording" /\ result'[r] = SafeCall(answer, Consent(r))
            /\ worth' = [worth EXCEPT ![<<r, phase[r]>>] = Worth(answer)]
        BY <4>1 DEF TypeOK, Hear, GoTo
      <4>4. PlaceOf(r)'
        BY <3>1, <4>2, <4>3 DEF TypeOK, PlaceOf, Phases
      <4>5. /\ worth'[<<r, phase[r]>>] = Worth(answer)
            /\ phase[r] = "area" => worth'[<<r, "score">>] = worth[<<r, "score">>]
        BY <4>3 DEF TypeOK, Phases
      <4>6. /\ Usable(result'[r]) => worth'[<<r, phase[r]>>] # "nothing"
            /\ Mismatch(result'[r]) => worth'[<<r, phase[r]>>] = "evidence"
        BY <4>2, <4>3, <4>5, ConsentType, SafeCallShows
      <4>7. phase[r] = "score" => decision[r] = None /\ ~mismatch[r]
        BY <3>1, <4>2 DEF PlaceOf
      <4>8. told[r] = None /\ [by |-> r, mismatch |-> TRUE] \notin areas
        BY <3>1, <4>2 DEF PlaceOf
      <4>9. WorthOf(r)'
        BY <3>1, <4>3, <4>5, <4>6, <4>7, <4>8 DEF TypeOK, WorthOf, Phases, None
      <4> QED BY <4>4, <4>9
    <3>6. CASE Record(r)
      <4>1. /\ pc[r] = "recording" /\ UNCHANGED <<job, phase, used, decision, worth>>
            /\ phase[r] \in Phases
        BY <3>6 DEF Record, TypeOK
      <4>2. CASE UseForScore(r)
        <5>1. /\ phase[r] = "score" /\ UNCHANGED <<areas, told>>
              /\ \/ pc'[r] = "broken" /\ mismatch' = mismatch
                 \/ pc'[r] = "looking" /\ mismatch'[r] = Mismatch(result[r])
          BY <3>6, <4>2 DEF TypeOK, Record, UseForScore, GoTo
        <5>2. decision[r] = None
          BY <3>1, <4>1, <5>1 DEF PlaceOf
        <5> QED BY <3>1, <4>1, <5>1, <5>2 DEF PlaceOf, WorthOf
      <4>3. CASE UseForArea(r)
        <5>1. /\ phase[r] = "area" /\ UNCHANGED <<mismatch, told>> /\ pc'[r] = "done"
              /\ areas' = areas \cup {[by |-> r, mismatch |-> Mismatch(result[r])]}
          BY <3>6, <4>3 DEF TypeOK, Record, UseForArea, GoTo
        <5>2. told[r] = None
          BY <3>1, <4>1 DEF PlaceOf
        <5> QED BY <3>1, <4>1, <5>1, <5>2 DEF PlaceOf, WorthOf
      <4>4. CASE Reply(r)
        <5>1. /\ job[r].kind \notin Scored /\ UNCHANGED <<mismatch, areas>> /\ pc'[r] = "done"
              /\ told'[r] \in {"area", "swapped", "kept"} => Usable(result[r])
          BY <3>6, <4>4 DEF TypeOK, Record, Reply, GoTo, SimSwap, SimLocation
        <5>2. phase[r] = "score"
          BY <3>1, <4>1, <5>1 DEF PlaceOf, Phases
        <5>3. decision[r] = None
          BY <3>1, <4>1, <5>2 DEF PlaceOf
        <5> QED BY <3>1, <4>1, <5>1, <5>2, <5>3 DEF PlaceOf, WorthOf
      <4> QED BY <3>6, <4>2, <4>3, <4>4 DEF Record
    <3>7. CASE LookAtModel(r)
      BY <3>1, <3>7 DEF TypeOK, LookAtModel, GoTo, shared, PlaceOf, WorthOf
    <3>8. CASE MarkTried(r)
      BY <3>1, <3>8 DEF TypeOK, MarkTried, GoTo, locals, history, PlaceOf, WorthOf
    <3>9. CASE FinishLoad(r)
      BY <3>1, <3>9 DEF TypeOK, FinishLoad, GoTo, locals, history, PlaceOf, WorthOf
    <3>10. CASE LoadRaises(r)
      BY <3>1, <3>10 DEF TypeOK, LoadRaises, GoTo, shared, locals, PlaceOf, WorthOf
    <3>11. CASE ReachDecision(r)
      <4>1. /\ pc[r] = "deciding" /\ phase[r] = "score"
            /\ UNCHANGED <<areas, job, result, mismatch, used, told, worth>>
            /\ decision'[r] = ScoreLogin(job[r].attempt, Profile[job[r].subject],
                                         mismatch[r], used[r])
        BY <3>1, <3>11 DEF TypeOK, ReachDecision, shared, history, PlaceOf, Phases
      <4>2. \/ pc'[r] = "done" /\ phase'[r] = "score"
            \/ pc'[r] = "fetching" /\ phase'[r] = "area" /\ job[r].kind = "sign_in"
        BY <3>11, <4>1 DEF TypeOK, ReachDecision, GoTo
      <4>3. PlaceOf(r)'
        BY <3>1, <4>1, <4>2 DEF PlaceOf, Scored
      <4>4. WorthOf(r)'
        BY <3>1, <4>1, <4>2 DEF WorthOf
      <4> QED BY <4>3, <4>4
    <3> QED BY <1>2, <3>2, <3>3, <3>4, <3>5, <3>6, <3>7, <3>8, <3>9, <3>10, <3>11 DEF Work
  <2> QED BY <2>1, <2>2 DEF OwnInv
<1> QED BY <1>1, <1>2 DEF Next

LEMMA OwnInvHolds == Spec => [](TypeOK /\ OwnInv)
<1>1. Init => TypeOK /\ OwnInv
  BY TypeInit, OwnInit
<1>2. TypeOK /\ OwnInv /\ [Next]_vars => (TypeOK /\ OwnInv)'
  BY TypeStep, OwnStep
<1> QED BY <1>1, <1>2, PTL DEF Spec

\* A look-up that brought no evidence changes no decision and no stored area,
\* whatever adapter is installed and whatever it answers.
THEOREM DegradedLookupsAreSilentHolds == Spec => []DegradedLookupsAreSilent
<1>1. TypeOK /\ OwnInv => DegradedLookupsAreSilent
  <2> SUFFICES ASSUME TypeOK, OwnInv, NEW r \in Requests
               PROVE  /\ decision[r] # None /\ worth[<<r, "score">>] # "evidence" =>
                            decision[r] = ScoreLogin(job[r].attempt, Profile[job[r].subject],
                                                     FALSE, used[r])
                      /\ [by |-> r, mismatch |-> TRUE] \in areas =>
                            worth[<<r, "area">>] = "evidence"
                      /\ told[r] \in {"area", "swapped", "kept"} =>
                            worth[<<r, "score">>] # "nothing"
    BY DEF DegradedLookupsAreSilent
  <2>1. WorthOf(r) /\ mismatch[r] \in BOOLEAN
    BY DEF OwnInv, TypeOK
  <2>2. worth[<<r, "score">>] # "evidence" => mismatch[r] = FALSE
    BY <2>1 DEF WorthOf
  <2> QED BY <2>1, <2>2 DEF WorthOf
<1> QED BY <1>1, OwnInvHolds, PTL

-----------------------------------------------------------------------------
(* The access log *)

Recorded(r, ph) ==
    \/ <<r, ph>> \in lost
    \/ \E x \in accesses : x.by = r /\ x.phase = ph /\ (ActedOn(r, ph) => x.usable)

\* Records are only added.
LEMMA RecordsStay ==
    ASSUME TypeOK, NEW r \in Requests, (\E j \in Jobs : Begin(r, j)) \/ Work(r)
    PROVE  accesses \subseteq accesses' /\ lost \subseteq lost'
<1>1. CASE AskMock(r) \/ AskCamara(r) \/ \E back \in Foreign : AskForeign(r, back)
  BY <1>1, AskShows DEF Hear
<1>2. CASE Record(r)
  BY <1>2 DEF Record, WriteAccess, LoseAccess
<1>3. CASE ~(AskMock(r) \/ AskCamara(r) \/ \E back \in Foreign : AskForeign(r, back)) /\ ~Record(r)
  BY <1>3 DEF Work, Begin, FetchAdapter, BuildAdapter, LookAtModel, MarkTried, FinishLoad,
              LoadRaises, ReachDecision, shared, locals, history
<1> QED BY <1>1, <1>2, <1>3

\* The step that uses an answer records the look-up, as usable if it acts on it.
LEMMA RecordShows ==
    ASSUME TypeOK, OwnInv, NEW r \in Requests, Record(r), NEW ph \in Phases, ph = phase[r]
    PROVE  Recorded(r, ph)'
<1>1. /\ pc[r] = "recording" /\ phase' = phase /\ phase[r] \in Phases
      /\ mismatch[r] \in BOOLEAN
  BY DEF Record, TypeOK
<1>2. PlaceOf(r)
  BY DEF OwnInv
<1>3. phase[r] = "score" /\ mismatch'[r] => Usable(result[r])
  <2>1. phase[r] = "score" => ~mismatch[r]
    BY <1>1, <1>2 DEF PlaceOf, Before
  <2> QED BY <2>1 DEF TypeOK, Record, UseForScore, UseForArea, Reply, Mismatch, Evident
<1>4. phase[r] = "area" /\ [by |-> r, mismatch |-> TRUE] \in areas' => Usable(result[r])
  <2>1. [by |-> r, mismatch |-> TRUE] \notin areas
    BY <1>1, <1>2 DEF PlaceOf
  <2>2. areas' = areas \/ areas' = areas \cup {[by |-> r, mismatch |-> Mismatch(result[r])]}
    BY DEF Record, UseForScore, UseForArea, Reply
  <2>3. [by |-> r, mismatch |-> TRUE] = [by |-> r, mismatch |-> Mismatch(result[r])]
           => Mismatch(result[r])
    OBVIOUS
  <2> QED BY <2>1, <2>2, <2>3 DEF Mismatch, Evident
<1>5. ActedOn(r, ph)' => Usable(result[r])
  BY <1>1, <1>3, <1>4 DEF ActedOn, Phases
<1>6. CASE WriteAccess(r)
  <2> DEFINE x == [by |-> r, phase |-> phase[r], usable |-> Usable(result[r])]
  <2>1. x \in accesses' /\ x.by = r /\ x.phase = phase[r] /\ (x.usable <=> Usable(result[r]))
    BY <1>6 DEF WriteAccess
  <2> QED BY <1>5, <2>1 DEF Recorded
<1>7. CASE LoseAccess(r)
  BY <1>1, <1>7 DEF LoseAccess, Recorded
<1> QED BY <1>6, <1>7 DEF Record

AuditInv == \A r \in Requests : \A ph \in Phases : LookedUp(r, ph) => Recorded(r, ph)

LEMMA AuditStep == ASSUME TypeOK, OwnInv, AuditInv, [Next]_vars PROVE AuditInv'
<1>1. CASE UNCHANGED vars \/ Tick
  <2>1. UNCHANGED <<accesses, lost, areas, pc, phase, mismatch>>
    BY <1>1 DEF Tick, vars, setting, shared, locals, history
  <2>2. ASSUME NEW r \in Requests, NEW ph \in Phases, LookedUp(r, ph)' PROVE Recorded(r, ph)'
    <3>1. LookedUp(r, ph)
      BY <2>1, <2>2 DEF LookedUp
    <3>2. Recorded(r, ph) /\ (ActedOn(r, ph)' <=> ActedOn(r, ph))
      BY <2>1, <3>1 DEF AuditInv, ActedOn
    <3> QED BY <2>1, <3>2 DEF Recorded
  <2> QED BY <2>2 DEF AuditInv
<1>2. ASSUME NEW r \in Requests, (\E j \in Jobs : Begin(r, j)) \/ Work(r) PROVE AuditInv'
  <2>1. accesses \subseteq accesses' /\ lost \subseteq lost'
    BY <1>2, RecordsStay
  <2>2. ASSUME NEW q \in Requests, q # r, NEW ph \in Phases, LookedUp(q, ph)'
        PROVE  Recorded(q, ph)'
    <3>1. /\ pc'[q] = pc[q] /\ phase'[q] = phase[q] /\ mismatch'[q] = mismatch[q]
          /\ [by |-> q, mismatch |-> TRUE] \in areas'
                <=> [by |-> q, mismatch |-> TRUE] \in areas
      BY <1>2, <2>2, OthersKeep
    <3>2. LookedUp(q, ph)
      BY <2>2, <3>1 DEF LookedUp
    <3>3. Recorded(q, ph)
      BY <3>2 DEF AuditInv
    <3> QED BY <2>1, <3>1, <3>3 DEF Recorded, ActedOn
  <2>3. ASSUME NEW ph \in Phases, LookedUp(r, ph)' PROVE Recorded(r, ph)'
    <3>1. PlaceOf(r) /\ phase[r] \in Phases
      BY DEF OwnInv, TypeOK
    <3>2. CASE Record(r)
      <4>1. CASE ph = phase[r]
        BY <3>2, <4>1, RecordShows
      <4>2. CASE ph # phase[r]
        <5>1. pc[r] = "recording" /\ phase' = phase
          BY <3>2 DEF Record
        <5>2. ph = "score" /\ phase[r] = "area"
          BY <2>3, <3>1, <4>2, <5>1 DEF LookedUp, Phases
        <5>3. LookedUp(r, ph) /\ mismatch'[r] = mismatch[r]
          BY <3>2, <5>2 DEF LookedUp, Record, UseForScore, UseForArea, Reply, PlaceOf, OwnInv
        <5>4. Recorded(r, ph) /\ (ActedOn(r, ph)' <=> ActedOn(r, ph))
          BY <5>2, <5>3 DEF AuditInv, ActedOn
        <5> QED BY <2>1, <5>4 DEF Recorded
      <4> QED BY <4>1, <4>2
    <3>3. CASE ~Record(r)
      <4>1. mismatch' = mismatch /\ areas' = areas
        <5>1. CASE AskMock(r) \/ AskCamara(r) \/ \E back \in Foreign : AskForeign(r, back)
          BY <5>1, AskShows DEF Hear
        <5>2. CASE ~(AskMock(r) \/ AskCamara(r) \/ \E back \in Foreign : AskForeign(r, back))
          BY <1>2, <3>3, <5>2
             DEF Work, Begin, FetchAdapter, BuildAdapter, LookAtModel, MarkTried, FinishLoad,
                 LoadRaises, ReachDecision, shared, locals, history
        <5> QED BY <5>1, <5>2
      <4>2. LookedUp(r, ph)
        <5>1. CASE AskMock(r) \/ AskCamara(r) \/ \E back \in Foreign : AskForeign(r, back)
          <6>0. pc[r] = "asking" /\ GoTo(r, "recording") /\ phase' = phase
            BY <5>1, AskShows DEF Hear
          <6>1. pc[r] = "asking" /\ pc'[r] = "recording" /\ phase' = phase
            BY <6>0 DEF GoTo, TypeOK
          <6> QED BY <2>3, <6>1 DEF LookedUp
        <5>2. CASE ReachDecision(r)
          <6>1. pc[r] = "deciding" /\ phase[r] = "score"
            BY <3>1, <5>2 DEF ReachDecision, PlaceOf, Phases, Before, Scoring
          <6>2. \/ phase' = phase /\ GoTo(r, "done")
                \/ phase' = [phase EXCEPT ![r] = "area"] /\ GoTo(r, "fetching")
            BY <5>2 DEF ReachDecision
          <6>3. \/ phase' = phase
                \/ phase'[r] = "area" /\ pc'[r] = "fetching"
            BY <6>2 DEF TypeOK, GoTo
          <6> QED BY <2>3, <3>1, <6>1, <6>3 DEF LookedUp, Phases
        <5>3. CASE ~(AskMock(r) \/ AskCamara(r) \/ \E back \in Foreign : AskForeign(r, back))
                   /\ ~ReachDecision(r)
          BY <1>2, <2>3, <3>3, <5>3
             DEF TypeOK, Work, Begin, FetchAdapter, BuildAdapter, LookAtModel, MarkTried,
                 FinishLoad, LoadRaises, GoTo, locals, LookedUp
        <5> QED BY <5>1, <5>2, <5>3
      <4>3. Recorded(r, ph)
        BY <4>2 DEF AuditInv
      <4> QED BY <2>1, <4>1, <4>3 DEF Recorded, ActedOn
    <3> QED BY <3>2, <3>3
  <2> QED BY <2>2, <2>3 DEF AuditInv
<1> QED BY <1>1, <1>2 DEF Next

\* A look-up is recorded before anything is done with it, and as usable if it is
\* acted on, whatever came back.
THEOREM EveryLookupIsAuditedHolds == Spec => []EveryLookupIsAudited
<1>1. Init => AuditInv
  BY DEF Init, AuditInv, LookedUp, Phases
<1>2. TypeOK /\ OwnInv /\ AuditInv /\ [Next]_vars => AuditInv'
  BY AuditStep
<1>3. AuditInv => EveryLookupIsAudited
  BY DEF AuditInv, EveryLookupIsAudited, Recorded
<1> QED BY <1>1, <1>2, <1>3, OwnInvHolds, PTL DEF Spec

-----------------------------------------------------------------------------
(* The quota *)

InSpan(x) == {y \in admitted : /\ y.object = x.object /\ y.subject = x.subject
                               /\ y.at \in x.at..(x.at + Window)}

QuotaInv ==
    /\ IsFiniteSet(admitted)
    /\ \A y \in admitted : y.at <= clock /\ (clock - y.at <= Window => y \in window)
    /\ Limit > 0 => \A x \in admitted : Cardinality(InSpan(x)) <= Limit

\* One more admission where fewer than Limit still count keeps every span within
\* the limit: a span the new call falls into holds only calls that still count.
LEMMA AdmitKeepsSpans ==
    ASSUME TypeOK, QuotaInv, NEW r \in Requests, job[r] \in Job, Limit > 0, ~RateLimited(r),
           NEW call, call = [object |-> adapter[r], subject |-> job[r].subject, by |-> r,
                             phase |-> phase[r], at |-> clock],
           admitted' = admitted \cup {call}, NEW x \in admitted'
    PROVE  Cardinality(InSpan(x)') <= Limit
<1>1. /\ IsFiniteSet(admitted) /\ window \subseteq admitted /\ admitted \subseteq Admission
      /\ clock \in Nat /\ Window \in Nat /\ Limit \in Nat /\ call \in Admission
  BY QuotaAssumption DEF QuotaInv, TypeOK, Admission, Job
<1>2. Counted(r) \subseteq admitted /\ IsFiniteSet(Counted(r)) /\ Cardinality(Counted(r)) < Limit
  <2>1. Counted(r) \subseteq admitted
    BY <1>1 DEF Counted, Deque
  <2>2. IsFiniteSet(Counted(r))
    BY <1>1, <2>1, FS_Subset
  <2>3. Cardinality(Counted(r)) \in Nat
    BY <2>2, FS_CardinalityType
  <2> QED BY <1>1, <2>1, <2>2, <2>3 DEF RateLimited
<1>3. IsFiniteSet(Counted(r) \cup {call}) /\ Cardinality(Counted(r) \cup {call}) <= Limit
  <2>1. Cardinality(Counted(r)) \in Nat
    BY <1>2, FS_CardinalityType
  <2>2. /\ IsFiniteSet(Counted(r) \cup {call})
        /\ \/ Cardinality(Counted(r) \cup {call}) = Cardinality(Counted(r))
           \/ Cardinality(Counted(r) \cup {call}) = Cardinality(Counted(r)) + 1
    BY <1>2, FS_AddElement
  <2> QED BY <1>1, <1>2, <2>1, <2>2
<1>4. CASE call \in InSpan(x)'
  <2>1. InSpan(x)' \subseteq Counted(r) \cup {call}
    <3> SUFFICES ASSUME NEW y \in InSpan(x)', y # call PROVE y \in Counted(r)
      OBVIOUS
    <3>1. x \in Admission /\ y \in admitted /\ y \in Admission
      BY <1>1 DEF InSpan
    <3>2. /\ y.object = adapter[r] /\ y.subject = job[r].subject
          /\ x.at <= y.at /\ clock <= x.at + Window /\ y.at \in Nat /\ x.at \in Nat
      BY <1>1, <1>4, <3>1 DEF InSpan, Admission
    <3>3. clock - y.at <= Window
      BY <1>1, <3>2
    <3>4. y \in window
      BY <3>1, <3>3 DEF QuotaInv
    <3> QED BY <1>1, <3>2, <3>3, <3>4 DEF Counted, Deque, Expired
  <2>2. Cardinality(InSpan(x)') <= Cardinality(Counted(r) \cup {call})
    BY <1>3, <2>1, FS_Subset
  <2>3. IsFiniteSet(InSpan(x)')
    BY <1>3, <2>1, FS_Subset
  <2>4. Cardinality(InSpan(x)') \in Nat /\ Cardinality(Counted(r) \cup {call}) \in Nat
    BY <1>3, <2>3, FS_CardinalityType
  <2> QED BY <1>1, <1>3, <2>2, <2>4
<1>5. CASE call \notin InSpan(x)'
  <2>1. x \in admitted
    <3>1. call \in InSpan(call)'
      BY <1>1 DEF InSpan, Admission
    <3> QED BY <1>5, <3>1
  <2>2. InSpan(x)' = InSpan(x)
    BY <1>5 DEF InSpan
  <2> QED BY <2>1, <2>2 DEF QuotaInv
<1> QED BY <1>4, <1>5

LEMMA QuotaStep == ASSUME TypeOK, QuotaInv, [Next]_vars PROVE QuotaInv'
<1>1. CASE UNCHANGED <<clock, window, admitted>>
  BY <1>1 DEF QuotaInv, InSpan
<1>2. CASE Tick
  <2>1. window' = window /\ admitted' = admitted /\ clock' = clock + 1
    BY <1>2 DEF Tick, shared, history
  <2>2. clock \in Nat /\ Window \in Nat /\ \A y \in admitted : y.at \in Nat
    BY QuotaAssumption DEF TypeOK, Admission
  <2> QED BY <2>1, <2>2 DEF QuotaInv, InSpan
<1>3. ASSUME NEW r \in Requests, TakeQuota(r), clock' = clock, job[r] \in Job PROVE QuotaInv'
  <2> DEFINE call == [object |-> adapter[r], subject |-> job[r].subject, by |-> r,
                      phase |-> phase[r], at |-> clock]
             kept == window \ {x \in Deque(r) : Expired(x)}
  <2>1. clock \in Nat /\ Window \in Nat /\ Limit \in Nat /\ \A y \in admitted : y.at \in Nat
    BY QuotaAssumption DEF TypeOK, Admission
  <2>2. \A y \in admitted : clock - y.at <= Window => y \in kept
    BY <2>1 DEF QuotaInv, Expired
  <2>3. CASE Limit = 0
    BY <1>3, <2>3 DEF TakeQuota, QuotaInv, InSpan
  <2>4. CASE Limit > 0 /\ RateLimited(r)
    <3>1. window' = kept /\ admitted' = admitted
      BY <1>3, <2>4 DEF TakeQuota
    <3>2. \A x : InSpan(x)' = InSpan(x)
      BY <3>1 DEF InSpan
    <3> QED BY <1>3, <2>2, <3>1, <3>2 DEF QuotaInv
  <2>5. CASE Limit > 0 /\ ~RateLimited(r)
    <3>1. window' = kept \cup {call} /\ admitted' = admitted \cup {call}
      BY <1>3, <2>5 DEF TakeQuota
    <3>2. \A x \in admitted' : Cardinality(InSpan(x)') <= Limit
      BY <1>3, <2>5, <3>1, AdmitKeepsSpans
    <3>3. IsFiniteSet(admitted')
      BY <3>1, FS_AddElement DEF QuotaInv
    <3>4. call.at = clock
      OBVIOUS
    <3> HIDE DEF call, kept
    <3> QED BY <1>3, <2>1, <2>2, <3>1, <3>2, <3>3, <3>4 DEF QuotaInv
  <2> QED BY <2>1, <2>3, <2>4, <2>5
<1>4. ASSUME NEW r \in Requests, (\E j \in Jobs : Begin(r, j)) \/ Work(r) PROVE QuotaInv'
  <2>1. CASE AskMock(r) \/ AskCamara(r) \/ \E back \in Foreign : AskForeign(r, back)
    <3>1. clock' = clock /\ job[r] \in Job
      BY <2>1, AskShows DEF Hear, TypeOK
    <3> QED BY <2>1, <3>1, <1>1, <1>3, AskShows
  <2>2. CASE ~(AskMock(r) \/ AskCamara(r) \/ \E back \in Foreign : AskForeign(r, back))
    <3>1. UNCHANGED <<clock, window, admitted>>
      BY <1>4, <2>2 DEF Work, Begin, FetchAdapter, BuildAdapter, Record, LookAtModel, MarkTried,
                        FinishLoad, LoadRaises, ReachDecision, shared, history
    <3> QED BY <3>1, <1>1
  <2> QED BY <2>1, <2>2
<1>5. CASE UNCHANGED vars
  BY <1>5, <1>1 DEF vars, shared, history
<1> QED BY <1>2, <1>4, <1>5 DEF Next

\* However the threads interleave, and whoever asks, the quota of one adapter
\* object is kept in every span of a window's length.
THEOREM QuotaHoldsAlways == Spec => []QuotaHolds
<1>1. Init => QuotaInv
  BY FS_EmptySet DEF Init, QuotaInv
<1>2. TypeOK /\ QuotaInv /\ [Next]_vars => QuotaInv'
  BY QuotaStep
<1>3. QuotaInv => QuotaHolds
  BY DEF QuotaInv, QuotaHolds, InSpan
<1> QED BY <1>1, <1>2, <1>3, TypeCorrect, PTL DEF Spec

-----------------------------------------------------------------------------
(* The models *)

\* What makes up for a model that was not used, and which models a request has
\* already asked for.
Excused(r, m) == m \in used[r] \/ <<r, m>> \in early \/ m \in abandoned
Decided(r) == pc[r] = "deciding" \/ decision[r] # None
Consulted(r, m) == IF m = "ml_score" THEN model[r] = "anomaly_score" ELSE Decided(r)

ModelInv ==
    /\ \A m \in Trusted : m \in tried \ ready => BeingLoaded(m) \/ m \in abandoned
    /\ \A r \in Requests : \A m \in Trusted : Consulted(r, m) => Excused(r, m)
    /\ \A r \in Requests : Decided(r) => model[r] = "anomaly_score"

\* A step of a request that loads nothing and is not loading leaves the first
\* part of ModelInv alone.
LEMMA LoadingStays ==
    ASSUME TypeOK, ModelInv, UNCHANGED <<tried, ready, abandoned>>,
           \A q \in Requests : pc[q] = "finishing" => pc'[q] = "finishing" /\ model'[q] = model[q]
    PROVE  \A m \in Trusted : m \in tried' \ ready' => BeingLoaded(m)' \/ m \in abandoned'
BY DEF ModelInv, BeingLoaded

LEMMA ModelStep == ASSUME TypeOK, OwnInv, ModelInv, [Next]_vars PROVE ModelInv'
<1>1. CASE UNCHANGED vars \/ Tick
  <2>1. UNCHANGED <<tried, ready, pc, model, used, decision, early, abandoned>>
    BY <1>1 DEF Tick, vars, shared, locals, history
  <2> QED BY <2>1 DEF ModelInv, BeingLoaded, Consulted, Excused, Decided
<1>2. ASSUME NEW r \in Requests, (\E j \in Jobs : Begin(r, j)) \/ Work(r) PROVE ModelInv'
  <2>1. /\ early \subseteq early' /\ abandoned \subseteq abandoned'
        /\ tried \subseteq tried' /\ ready \subseteq ready'
        /\ used[r] \subseteq used'[r]
    <3>1. CASE AskMock(r) \/ AskCamara(r) \/ \E back \in Foreign : AskForeign(r, back)
      BY <3>1, AskShows DEF Hear
    <3>2. CASE ~(AskMock(r) \/ AskCamara(r) \/ \E back \in Foreign : AskForeign(r, back))
      BY <1>2, <3>2 DEF TypeOK, Work, Begin, FetchAdapter, BuildAdapter, Record, LookAtModel,
                        MarkTried, FinishLoad, LoadRaises, ReachDecision, shared, locals, history
    <3> QED BY <3>1, <3>2
  <2>2. ASSUME NEW q \in Requests, q # r
        PROVE  /\ pc'[q] = pc[q] /\ model'[q] = model[q] /\ used'[q] = used[q]
               /\ Decided(q)' <=> Decided(q)
               /\ \A m \in Trusted : Consulted(q, m)' => Excused(q, m)'
    <3>1. /\ pc'[q] = pc[q] /\ model'[q] = model[q] /\ used'[q] = used[q]
          /\ decision'[q] = decision[q]
      BY <1>2, <2>2, OthersKeep
    <3>2. Decided(q)' <=> Decided(q)
      BY <3>1 DEF Decided
    <3>3. ASSUME NEW m \in Trusted, Consulted(q, m)' PROVE Excused(q, m)'
      <4>1. Consulted(q, m)
        BY <3>1, <3>2, <3>3 DEF Consulted
      <4>2. Excused(q, m)
        BY <4>1 DEF ModelInv
      <4> QED BY <2>1, <3>1, <4>2 DEF Excused
    <3> QED BY <3>1, <3>2, <3>3
  <2>3. /\ \A m \in Trusted : m \in tried' \ ready' => BeingLoaded(m)' \/ m \in abandoned'
        /\ \A m \in Trusted : Consulted(r, m)' => Excused(r, m)'
        /\ Decided(r)' => model'[r] = "anomaly_score"
    <3>1. CASE LookAtModel(r)
      <4>1. /\ pc[r] = "looking" /\ UNCHANGED <<tried, ready, abandoned, decision>>
            /\ model[r] \in Models /\ ~Decided(r)
        BY <3>1 DEF LookAtModel, shared, TypeOK, OwnInv, PlaceOf, Scoring, Decided
      <4>2. \A q \in Requests : pc[q] = "finishing" => pc'[q] = "finishing" /\ model'[q] = model[q]
        BY <2>2, <4>1
      <4>3. CASE model[r] \notin tried
        <5>1. UNCHANGED <<model, used, early>> /\ ~Decided(r)'
          BY <3>1, <4>1, <4>3 DEF TypeOK, LookAtModel, GoTo, Decided
        <5> QED BY <4>1, <4>2, <5>1, LoadingStays DEF ModelInv, Consulted, Excused
      <4>4. CASE model[r] \in tried
        <5>1. ASSUME NEW m \in Trusted, m = model[r] PROVE Excused(r, m)'
          <6>1. CASE m \in ready
            BY <3>1, <4>1, <4>4, <5>1, <6>1 DEF TypeOK, LookAtModel, Excused
          <6>2. CASE m \notin ready /\ BeingLoaded(m)
            <7>1. early' = early \cup {<<r, m>>}
              BY <3>1, <4>4, <5>1, <6>2 DEF LookAtModel
            <7> QED BY <7>1 DEF Excused
          <6>3. CASE m \notin ready /\ ~BeingLoaded(m)
            BY <4>1, <4>4, <5>1, <6>3 DEF ModelInv, Excused
          <6> QED BY <6>1, <6>2, <6>3
        <5>2. CASE model[r] = "ml_score"
          <6>1. model'[r] = "anomaly_score" /\ ~Decided(r)'
            BY <3>1, <4>1, <4>4, <5>2 DEF TypeOK, LookAtModel, Decided
          <6>2. \A m \in Trusted : Consulted(r, m)' => Excused(r, m)'
            BY <5>1, <5>2, <6>1, JobAssumption DEF Consulted, Models
          <6> QED BY <4>1, <4>2, <6>1, <6>2, LoadingStays
        <5>3. CASE model[r] = "anomaly_score"
          <6>1. model'[r] = "anomaly_score"
            BY <3>1, <4>1, <4>4, <5>3 DEF TypeOK, LookAtModel
          <6>2. ASSUME NEW m \in Trusted PROVE Excused(r, m)'
            <7>1. CASE m = "ml_score"
              <8>1. Excused(r, m)
                BY <5>3, <7>1 DEF ModelInv, Consulted
              <8> QED BY <2>1, <8>1 DEF Excused
            <7>2. CASE m = "anomaly_score"
              BY <5>1, <5>3, <7>2
            <7> QED BY <7>1, <7>2, JobAssumption DEF Models
          <6> QED BY <4>1, <4>2, <6>1, <6>2, LoadingStays
        <5> QED BY <4>1, <5>2, <5>3 DEF Models
      <4> QED BY <4>3, <4>4
    <3>2. CASE MarkTried(r)
      <4>1. /\ pc'[r] = "finishing" /\ pc[r] = "loading" /\ tried' = tried \cup {model[r]}
            /\ UNCHANGED <<ready, abandoned, model, used, early, decision>>
        BY <3>2 DEF TypeOK, MarkTried, GoTo, locals, history
      <4>2. BeingLoaded(model[r])'
        BY <4>1 DEF BeingLoaded
      <4>3. \A m \in Models : BeingLoaded(m) => BeingLoaded(m)'
        BY <2>2, <4>1 DEF BeingLoaded
      <4>4. Decided(r)' <=> Decided(r)
        BY <4>1 DEF Decided
      <4> QED BY <4>1, <4>2, <4>3, <4>4, JobAssumption DEF ModelInv, Consulted, Excused
    <3>3. CASE FinishLoad(r)
      <4>1. /\ pc'[r] = "looking" /\ pc[r] = "finishing" /\ ready' = ready \cup ({model[r]} \cap Trusted)
            /\ UNCHANGED <<tried, abandoned, model, used, early, decision>>
        BY <3>3 DEF TypeOK, FinishLoad, GoTo, locals, history
      <4>2. \A m \in Models : m # model[r] /\ BeingLoaded(m) => BeingLoaded(m)'
        BY <2>2, <4>1 DEF BeingLoaded
      <4>3. Decided(r)' <=> Decided(r)
        BY <4>1 DEF Decided
      <4> QED BY <4>1, <4>2, <4>3, JobAssumption DEF ModelInv, Consulted, Excused
    <3>4. CASE LoadRaises(r)
      <4>1. /\ pc'[r] = "dead" /\ pc[r] = "finishing" /\ abandoned' = abandoned \cup {model[r]}
            /\ UNCHANGED <<tried, ready, model, used, early, decision>>
        BY <3>4 DEF TypeOK, LoadRaises, GoTo, shared, locals
      <4>2. \A m \in Models : m # model[r] /\ BeingLoaded(m) => BeingLoaded(m)'
        BY <2>2, <4>1 DEF BeingLoaded
      <4>3. Decided(r)' <=> Decided(r)
        BY <4>1 DEF Decided
      <4> QED BY <4>1, <4>2, <4>3, JobAssumption DEF ModelInv, Consulted, Excused
    <3>5. CASE ReachDecision(r)
      <4>1. /\ pc[r] = "deciding" /\ UNCHANGED <<tried, ready, abandoned, model, used, early>>
        BY <3>5 DEF ReachDecision, shared, history
      <4>2. \A q \in Requests : pc[q] = "finishing" => pc'[q] = "finishing" /\ model'[q] = model[q]
        BY <2>2, <4>1
      <4>3. model[r] = "anomaly_score" /\ Decided(r)
        BY <4>1 DEF ModelInv, Decided
      <4>4. \A m \in Trusted : Excused(r, m)
        BY <4>3 DEF ModelInv, Consulted
      <4> QED BY <4>1, <4>2, <4>3, <4>4, LoadingStays DEF Excused
    <3>6. CASE ~(LookAtModel(r) \/ MarkTried(r) \/ FinishLoad(r) \/ LoadRaises(r)
                  \/ ReachDecision(r))
      <4>1. /\ pc[r] \notin {"finishing", "deciding"} /\ pc'[r] # "deciding"
            /\ UNCHANGED <<tried, ready, abandoned, model, used, early, decision>>
        <5>1. CASE AskMock(r) \/ AskCamara(r) \/ \E back \in Foreign : AskForeign(r, back)
          BY <5>1, AskShows DEF Hear, GoTo, TypeOK
        <5>2. CASE Record(r)
          BY <5>2 DEF TypeOK, Record, UseForScore, UseForArea, Reply, GoTo
        <5>3. CASE ~(AskMock(r) \/ AskCamara(r) \/ \E back \in Foreign : AskForeign(r, back))
                   /\ ~Record(r)
          BY <1>2, <3>6, <5>3 DEF TypeOK, Work, Begin, FetchAdapter, BuildAdapter, GoTo, shared,
                                  locals, history
        <5> QED BY <5>1, <5>2, <5>3
      <4>2. \A q \in Requests : pc[q] = "finishing" => pc'[q] = "finishing" /\ model'[q] = model[q]
        BY <2>2, <4>1
      <4>3. Decided(r)' <=> Decided(r)
        BY <4>1 DEF Decided
      <4> QED BY <4>1, <4>2, <4>3, LoadingStays DEF ModelInv, Consulted, Excused
    <3> QED BY <3>1, <3>2, <3>3, <3>4, <3>5, <3>6
  <2>4. ASSUME NEW q \in Requests
        PROVE  /\ \A m \in Trusted : Consulted(q, m)' => Excused(q, m)'
               /\ Decided(q)' => model'[q] = "anomaly_score"
    <3>1. CASE q = r
      BY <2>3, <3>1
    <3>2. CASE q # r
      <4>1. Decided(q) => model[q] = "anomaly_score"
        BY DEF ModelInv
      <4> QED BY <2>2, <3>2, <4>1
    <3> QED BY <3>1, <3>2
  <2> QED BY <2>3, <2>4 DEF ModelInv
<1> QED BY <1>1, <1>2 DEF Next

\* For any number of threads: a decision is taken without a trusted model only
\* by one that looked while another was loading it, or after a load that raised.
THEOREM RulesOnlyHasAReasonHolds == Spec => []RulesOnlyHasAReason
<1>1. Init => ModelInv
  BY DEF Init, ModelInv, Consulted, Decided, BeingLoaded
<1>2. TypeOK /\ OwnInv /\ ModelInv /\ [Next]_vars => ModelInv'
  BY ModelStep
<1>3. ModelInv => RulesOnlyHasAReason
  BY DEF ModelInv, RulesOnlyHasAReason, Consulted, Excused, Decided
<1> QED BY <1>1, <1>2, <1>3, OwnInvHolds, PTL DEF Spec
=============================================================================
