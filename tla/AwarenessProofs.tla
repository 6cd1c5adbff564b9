--------------------------- MODULE AwarenessProofs ---------------------------
(***************************************************************************)
(* Theorems about Awareness, and the study in front of it, for any number  *)
(* of request threads, any submissions, claims, points, badges, caps,      *)
(* limits and windows, whatever requests overlap and die.                  *)
(***************************************************************************)
EXTENDS Awareness, FiniteSetTheorems, TLAPS

-----------------------------------------------------------------------------
(* Points and badges *)

Job == {NoJob, Upkeep} \cup Submissions \cup Exports \cup Claims \cup Reviews \cup Decisions

AwardTypes ==
    /\ clock \in Nat
    /\ pc \in [Requests -> Stages]
    /\ job \in [Requests -> Job]
    /\ points \in Nat /\ earned \in Nat
    /\ seen \in [Requests -> [points : Nat, badges : SUBSET Badges]]
    /\ badges \subseteq Badges
    /\ \A y \in log : y.at \in Nat
    /\ alerts \subseteq Alert /\ sims \subseteq Swap
    /\ \A x \in paid : x.by \in Requests /\ x.at \in Nat
    /\ \A r \in Requests : pc[r] \in AwardStages => job[r].event \in Events
    /\ \A r \in Requests : pc[r] = "ruling" => job[r] \in Decisions

\* A total, and the badges it goes with, are covered by what was earned.
Covered(total, have) ==
    /\ total <= earned
    /\ \A b \in have : Threshold[b] <= earned
    /\ \A b \in Badges : Threshold[b] <= total => b \in have

\* What a request read of the account is covered as well: nothing is taken back.
AllCovered ==
    /\ Covered(points, badges)
    /\ \A r \in Requests : Covered(seen[r].points, seen[r].badges)

\* An award that was credited is logged next, and its row is no older.
Accounted(x) ==
    /\ pc[x.by] \in {"logging", "done", "dead"}
    /\ pc[x.by] = "logging" => x.event = job[x.by].event
    /\ x.at <= clock
    /\ \/ \E y \in log : y.by = x.by /\ y.event = x.event /\ y.at >= x.at
       \/ x.at < clock - AuditDays
       \/ pc[x.by] \in {"logging", "dead"}

AwardInv == AwardTypes /\ AllCovered /\ \A x \in paid : Accounted(x)

\* Most steps move one request that is not about to log an award, or let it die,
\* and leave the account alone.
Quiet(r) ==
    /\ UNCHANGED <<clock, points, badges, log, seen, paid, earned>>
    /\ pc' \in [Requests -> Stages] /\ job' \in [Requests -> Job]
    /\ \A q \in Requests \ {r} : pc'[q] = pc[q] /\ job'[q] = job[q]
    /\ alerts' \subseteq Alert /\ sims' \subseteq Swap
    /\ pc'[r] \in AwardStages => job'[r].event \in Events
    /\ pc'[r] = "ruling" => job'[r] \in Decisions
    /\ pc[r] \notin {"logging", "done", "dead"} \/ pc'[r] = "dead"

LEMMA QuietStep ==
    ASSUME AwardInv, NEW r \in Requests, Quiet(r)
    PROVE  AwardInv'
  <1>1. AwardTypes'
    BY DEF AwardInv, AwardTypes, Quiet
  <1>2. AllCovered'
    BY DEF AwardInv, AllCovered, Covered, Quiet
  <1>3. ASSUME NEW x \in paid'
        PROVE  Accounted(x)'
    <2>1. x \in paid /\ Accounted(x) /\ x.by \in Requests
      BY <1>3 DEF AwardInv, AwardTypes, Quiet
    <2>2. CASE x.by = r
      BY <2>1, <2>2 DEF Accounted, AwardInv, AwardTypes, Quiet
    <2>3. CASE x.by # r
      BY <2>1, <2>3 DEF Accounted, AwardInv, AwardTypes, Quiet
    <2> QED
      BY <2>2, <2>3
  <1> QED
    BY <1>1, <1>2, <1>3 DEF AwardInv

\* The steps of the study move one request that collects nothing.
LEMMA StudyQuiet ==
    ASSUME AwardInv, StudyNext, UNCHANGED accountVars
    PROVE  AwardInv'
  <1> USE DEF accountVars
  <1>0. AwardTypes
    BY DEF AwardInv
  <1>1. ASSUME NEW r \in Requests, NEW s \in Submissions, Submit(r, s)
        PROVE  Quiet(r)
    BY <1>1, <1>0 DEF Submit, GoTo, AwardTypes, Quiet, Job, Stages, AwardStages
  <1>2. ASSUME NEW r \in Requests, NEW e \in Exports, Export(r, e)
        PROVE  Quiet(r)
    BY <1>2, <1>0 DEF Export, GoTo, AwardTypes, Quiet, Job, Stages, AwardStages
  <1>3. ASSUME NEW r \in Requests, StudyWork(r)
        PROVE  Quiet(r)
    <2>1. CASE Prune(r)
      BY <2>1, <1>0 DEF Prune, GoTo, AwardTypes, Quiet, Stages, AwardStages
    <2>2. CASE PopLeft(r)
      BY <2>2, <1>0 DEF PopLeft, GoTo, AwardTypes, Quiet, Stages, AwardStages
    <2>3. CASE Count(r)
      BY <2>3, <1>0 DEF Count, GoTo, AwardTypes, Quiet, Stages, AwardStages
    <2>4. CASE AppendHit(r)
      BY <2>4, <1>0 DEF AppendHit, GoTo, AwardTypes, Quiet, Stages, AwardStages
    <2>5. CASE Judge(r)
      BY <2>5, <1>0 DEF Judge, GoTo, AwardTypes, Quiet, Stages, AwardStages
    <2>6. CASE OpenRecord(r)
      BY <2>6, <1>0 DEF OpenRecord, GoTo, AwardTypes, Quiet, Stages, AwardStages
    <2>7. CASE FillRecord(r)
      BY <2>7, <1>0 DEF FillRecord, GoTo, AwardTypes, Quiet, Stages, AwardStages
    <2>8. CASE OpenComment(r)
      BY <2>8, <1>0 DEF OpenComment, GoTo, AwardTypes, Quiet, Stages, AwardStages
    <2>9. CASE FillComment(r)
      BY <2>9, <1>0 DEF FillComment, GoTo, AwardTypes, Quiet, Stages, AwardStages
    <2>10. CASE List(r)
      BY <2>10, <1>0 DEF List, GoTo, AwardTypes, Quiet, Stages, AwardStages
    <2>11. CASE ReadNext(r)
      <3>1. PICK s \in {"done", "reading", "failed"} : pc' = [pc EXCEPT ![r] = s]
        BY <2>11, <1>0 DEF ReadNext, GoTo, AwardTypes
      <3> QED
        BY <3>1, <2>11, <1>0 DEF ReadNext, AwardTypes, Quiet, Stages, AwardStages
    <2>12. CASE Sweep(r)
      <3>1. PICK s \in {"sweeping", "purging alerts", "failed"} : pc' = [pc EXCEPT ![r] = s]
        BY <2>12, <1>0 DEF Sweep, GoTo, AwardTypes
      <3> QED
        BY <3>1, <2>12, <1>0 DEF Sweep, AwardTypes, Quiet, Stages, AwardStages
    <2> QED
      BY <1>3, <2>1, <2>2, <2>3, <2>4, <2>5, <2>6, <2>7, <2>8, <2>9, <2>10, <2>11, <2>12
      DEF StudyWork
  <1>4. ASSUME NEW r \in Requests, EnforceRetention(r)
        PROVE  Quiet(r)
    BY <1>4, <1>0 DEF EnforceRetention, GoTo, AwardTypes, Quiet, Job, Stages, AwardStages
  <1> QED
    BY <1>1, <1>2, <1>3, <1>4, QuietStep DEF StudyNext

\* What a request that is not about the study begins with.
LEMMA OtherJobs ==
    ASSUME AwardTypes, NEW r \in Requests, Ask(r) \/ Review(r) \/ Rule(r)
    PROVE  \E j \in Claims \cup Reviews \cup Decisions : Start(r, j)
  <1>1. CASE Ask(r)
    BY <1>1 DEF Ask
  <1>2. CASE Review(r)
    BY <1>2 DEF Review, Reviews, AwardTypes, Alert
  <1>3. CASE Rule(r)
    BY <1>3 DEF Rule, Decisions, AwardTypes, Alert
  <1> QED
    BY <1>1, <1>2, <1>3

\* A request begins: its first stage collects points only if its event is worth some.
LEMMA StartQuiet ==
    ASSUME AwardInv, NEW r \in Requests, NEW j \in Claims \cup Reviews \cup Decisions, Start(r, j)
    PROVE  Quiet(r)
  <1>0. AwardTypes
    BY DEF AwardInv
  <1>1. /\ FirstStage(j.kind) \in Stages
        /\ FirstStage(j.kind) \in AwardStages => j.event \in Events
        /\ FirstStage(j.kind) = "ruling" => j \in Decisions
    <2>1. CASE j \in Claims \cup Reviews
      BY <2>1, AwarenessAssumption
      DEF FirstStage, Stages, AwardStages, Rewards, Checklists, Capped, Swaps, Dashboards, Reviews,
          Events
    <2>2. CASE j \in Decisions
      <3>1. j.kind = "status"
        BY <2>2 DEF Decisions
      <3> QED
        BY <2>2, <3>1 DEF FirstStage, Stages, AwardStages
    <2> QED
      BY <2>1, <2>2
  <1> QED
    BY <1>1, <1>0 DEF Start, GoTo, AwardTypes, Quiet, Job, Stages, AwardStages

\* The steps on alerts and dashboards, those that only look, and a death.
LEMMA WorkQuiet ==
    ASSUME AwardInv, NEW r \in Requests,
           \/ LookUpItem(r) \/ UnderTheCap(r) \/ CheckAward(r)
           \/ Reply(r) \/ RecordSwap(r) \/ RaiseAlert(r) \/ FindAlert(r) \/ Acknowledge(r)
           \/ ChangeStatus(r) \/ PurgeAlerts(r) \/ PurgeTrend(r)
           \/ CountAlerts(r) \/ CountSwaps(r) \/ CompareTrend(r) \/ InsertTrend(r)
           \/ Die(r)
    PROVE  Quiet(r)
  <1> USE DEF accountVars
  <1>0. AwardTypes
    BY DEF AwardInv
  <1>1. CASE LookUpItem(r)
    BY <1>1, <1>0 DEF LookUpItem, GoTo, AwardTypes, Quiet, Stages, AwardStages
  <1>2. CASE UnderTheCap(r)
    BY <1>2, <1>0 DEF UnderTheCap, GoTo, AwardTypes, Quiet, Stages, AwardStages
  <1>3. CASE CheckAward(r)
    BY <1>3, <1>0 DEF CheckAward, GoTo, AwardTypes, Quiet, Stages, AwardStages
  <1>4. CASE Reply(r)
    <2>1. alerts' \subseteq Alert
      BY <1>4, <1>0 DEF Reply, AddAlert, AwardTypes, Alert, Statuses
    <2> QED
      BY <1>4, <1>0, <2>1 DEF Reply, GoTo, AwardTypes, Quiet, Stages, AwardStages
  <1>5. CASE RecordSwap(r)
    <2>1. sims' \subseteq Swap /\ alerts' \subseteq Alert
      BY <1>5, <1>0 DEF RecordSwap, AwardTypes, Swap
    <2> QED
      BY <1>5, <1>0, <2>1 DEF RecordSwap, GoTo, AwardTypes, Quiet, Stages, AwardStages
  <1>6. CASE RaiseAlert(r)
    <2>1. alerts' \subseteq Alert
      BY <1>6, <1>0 DEF RaiseAlert, AddAlert, AwardTypes, Alert, Statuses
    <2> QED
      BY <1>6, <1>0, <2>1 DEF RaiseAlert, GoTo, AwardTypes, Quiet, Stages, AwardStages
  <1>7. CASE FindAlert(r)
    BY <1>7, <1>0 DEF FindAlert, GoTo, AwardTypes, Quiet, Stages, AwardStages
  <1>8. CASE Acknowledge(r)
    <2>1. alerts' \subseteq Alert
      BY <1>8, <1>0 DEF Acknowledge, SetStatus, AwardTypes, Alert, Statuses
    <2>2. pc[r] = "acknowledging" /\ pc' = [pc EXCEPT ![r] = "checking"]
      BY <1>8 DEF Acknowledge, GoTo
    <2> QED
      BY <1>8, <1>0, <2>1, <2>2 DEF Acknowledge, AwardTypes, Quiet, Stages, AwardStages
  <1>9. CASE CountAlerts(r)
    <2>1. /\ pc[r] = "counting alerts"
          /\ \E s \in {"comparing", "counting swaps"} : pc' = [pc EXCEPT ![r] = s]
          /\ UNCHANGED <<clock, job, points, badges, log, alerts, sims, seen, paid, earned>>
      BY <1>9 DEF CountAlerts, GoTo
    <2> QED
      BY <1>0, <2>1 DEF AwardTypes, Quiet, Stages, AwardStages
  <1>10. CASE CountSwaps(r)
    BY <1>10, <1>0 DEF CountSwaps, GoTo, AwardTypes, Quiet, Stages, AwardStages
  <1>11. CASE CompareTrend(r)
    BY <1>11, <1>0 DEF CompareTrend, Chart, GoTo, AwardTypes, Quiet, Stages, AwardStages
  <1>12. CASE InsertTrend(r)
    BY <1>12, <1>0 DEF InsertTrend, Chart, GoTo, AwardTypes, Quiet, Stages, AwardStages
  <1>13. CASE Die(r)
    BY <1>13, <1>0 DEF Die, InFlight, GoTo, AwardTypes, Quiet, Stages, AwardStages
  <1>14. CASE ChangeStatus(r)
    <2>1. job[r].status \in Statuses
      BY <1>14, <1>0, AwarenessAssumption DEF ChangeStatus, AwardTypes, Decisions
    <2>2. alerts' \subseteq Alert
      BY <1>14, <1>0, <2>1 DEF ChangeStatus, SetStatus, AwardTypes, Alert
    <2> QED
      BY <1>14, <1>0, <2>2 DEF ChangeStatus, GoTo, AwardTypes, Quiet, Stages, AwardStages
  <1>15. CASE PurgeAlerts(r)
    <2>1. alerts' \subseteq Alert
      BY <1>15, <1>0 DEF PurgeAlerts, AwardTypes
    <2> QED
      BY <1>15, <1>0, <2>1 DEF PurgeAlerts, GoTo, AwardTypes, Quiet, Stages, AwardStages
  <1>16. CASE PurgeTrend(r)
    BY <1>16, <1>0 DEF PurgeTrend, GoTo, AwardTypes, Quiet, Stages, AwardStages
  <1> QED
    BY <1>1, <1>2, <1>3, <1>4, <1>5, <1>6, <1>7, <1>8, <1>9, <1>10, <1>11, <1>12, <1>13,
       <1>14, <1>15, <1>16

\* Ticking off adds a row that rewards nothing.
LEMMA TickOffStep ==
    ASSUME AwardInv, NEW r \in Requests, TickOff(r)
    PROVE  AwardInv'
  <1>1. AwardTypes'
    <2>1. \A y \in log' : y.at \in Nat
      BY DEF AwardInv, AwardTypes, TickOff, Log
    <2> QED
      BY <2>1 DEF AwardInv, AwardTypes, TickOff, GoTo, Stages, AwardStages
  <1>2. AllCovered'
    BY DEF AwardInv, AllCovered, Covered, TickOff
  <1>3. ASSUME NEW x \in paid'
        PROVE  Accounted(x)'
    BY <1>3 DEF AwardInv, AwardTypes, Accounted, TickOff, Log, GoTo
  <1> QED
    BY <1>1, <1>2, <1>3 DEF AwardInv

\* What is read of the account is covered as the account is.
LEMMA ReadPointsStep ==
    ASSUME AwardInv, NEW r \in Requests, ReadPoints(r)
    PROVE  AwardInv'
  <1>1. AwardTypes'
    BY DEF AwardInv, AwardTypes, ReadPoints, GoTo, Stages, AwardStages
  <1>2. AllCovered'
    BY DEF AwardInv, AwardTypes, AllCovered, Covered, ReadPoints
  <1>3. ASSUME NEW x \in paid'
        PROVE  Accounted(x)'
    BY <1>3 DEF AwardInv, AwardTypes, Accounted, ReadPoints, GoTo
  <1> QED
    BY <1>1, <1>2, <1>3 DEF AwardInv

\* The points as read were earned before, and the new ones are earned now.
LEMMA CreditStep ==
    ASSUME AwardInv, NEW r \in Requests, Credit(r)
    PROVE  AwardInv'
  <1> DEFINE event == job[r].event
  <1>1. /\ event \in Events /\ Worth[event] \in Nat
        /\ \A b \in Badges : Threshold[b] \in Nat \ {0}
    BY AwarenessAssumption DEF AwardInv, AwardTypes, AwardStages, Credit
  <1>2. /\ seen[r].points \in Nat /\ seen[r].badges \subseteq Badges
        /\ points' = seen[r].points + Worth[event]
        /\ badges' = seen[r].badges \cup Due(r)
        /\ earned' = earned + Worth[event]
        /\ Covered(seen[r].points, seen[r].badges)
    BY DEF AwardInv, AwardTypes, AllCovered, Credit, Total
  <1>3. seen' = [q \in Requests |-> IF q = r THEN NoneSeen ELSE seen[q]]
    BY DEF AwardInv, AwardTypes, Credit
  <1>4. AwardTypes'
    <2>1. points' \in Nat /\ earned' \in Nat /\ badges' \subseteq Badges
      BY <1>1, <1>2 DEF AwardInv, AwardTypes, Due
    <2>2. seen' \in [Requests -> [points : Nat, badges : SUBSET Badges]]
      BY <1>3 DEF AwardInv, AwardTypes, NoneSeen
    <2>3. \A x \in paid' : x.by \in Requests /\ x.at \in Nat
      BY DEF AwardInv, AwardTypes, Credit
    <2> QED
      BY <2>1, <2>2, <2>3 DEF AwardInv, AwardTypes, Credit, GoTo, Stages, AwardStages
  <1>5. AllCovered'
    <2>1. Covered(points, badges)'
      BY <1>1, <1>2 DEF Covered, Due, AwardInv, AwardTypes
    <2>2. ASSUME NEW q \in Requests
          PROVE  Covered(seen[q].points, seen[q].badges)'
      <3>1. CASE q = r
        BY <3>1, <1>1, <1>2, <1>3 DEF Covered, NoneSeen, AwardInv, AwardTypes
      <3>2. CASE q # r
        BY <3>2, <1>1, <1>2, <1>3 DEF Covered, AwardInv, AwardTypes, AllCovered
      <3> QED
        BY <3>1, <3>2
    <2> QED
      BY <2>1, <2>2 DEF AllCovered
  <1>6. ASSUME NEW x \in paid'
        PROVE  Accounted(x)'
    <2>1. CASE x \in paid
      BY <2>1 DEF AwardInv, AwardTypes, Accounted, Credit, GoTo
    <2>2. CASE x \notin paid
      BY <1>6, <2>2 DEF AwardInv, AwardTypes, Accounted, Credit, GoTo
    <2> QED
      BY <2>1, <2>2
  <1> QED
    BY <1>4, <1>5, <1>6 DEF AwardInv

\* The row of an award, which is no older than the award.
LEMMA LogAwardStep ==
    ASSUME AwardInv, NEW r \in Requests, LogAward(r)
    PROVE  AwardInv'
  <1>1. AwardTypes'
    <2>1. \A y \in log' : y.at \in Nat
      BY DEF AwardInv, AwardTypes, LogAward, Log
    <2> QED
      BY <2>1 DEF AwardInv, AwardTypes, LogAward, GoTo, Stages, AwardStages
  <1>2. AllCovered'
    BY DEF AwardInv, AllCovered, Covered, LogAward
  <1>3. ASSUME NEW x \in paid'
        PROVE  Accounted(x)'
    <2>1. x \in paid /\ Accounted(x) /\ x.by \in Requests
      BY <1>3 DEF AwardInv, AwardTypes, LogAward
    <2>2. CASE x.by = r
      <3>1. [by |-> r, event |-> job[r].event, about |-> job[r].about, at |-> clock] \in log'
        BY DEF LogAward, Log
      <3>2. x.event = job[r].event /\ x.at <= clock
        BY <2>1, <2>2 DEF Accounted, LogAward
      <3> QED
        BY <2>1, <2>2, <3>1, <3>2 DEF Accounted, LogAward, GoTo, AwardInv, AwardTypes
    <2>3. CASE x.by # r
      BY <2>1, <2>3 DEF Accounted, LogAward, Log, GoTo, AwardInv, AwardTypes
    <2> QED
      BY <2>2, <2>3
  <1> QED
    BY <1>1, <1>2, <1>3 DEF AwardInv

\* Time passes.
LEMMA TickStep ==
    ASSUME AwardInv, Tick, UNCHANGED accountVars
    PROVE  AwardInv'
  <1>1. AwardTypes'
    BY DEF AwardInv, AwardTypes, Tick, accountVars
  <1>2. AllCovered'
    BY DEF AwardInv, AllCovered, Covered, Tick, accountVars
  <1>3. ASSUME NEW x \in paid'
        PROVE  Accounted(x)'
    BY <1>3, AwarenessAssumption DEF AwardInv, AwardTypes, Accounted, Tick, accountVars
  <1> QED
    BY <1>1, <1>2, <1>3 DEF AwardInv

\* Retention takes the row of an award only when the award is as old.
LEMMA PurgeLogStep ==
    ASSUME AwardInv, NEW r \in Requests, PurgeLog(r)
    PROVE  AwardInv'
  <1>1. AwardTypes'
    BY DEF AwardInv, AwardTypes, PurgeLog, GoTo, Stages, AwardStages
  <1>2. AllCovered'
    BY DEF AwardInv, AllCovered, Covered, PurgeLog
  <1>3. ASSUME NEW x \in paid'
        PROVE  Accounted(x)'
    <2>1. /\ x \in paid /\ Accounted(x) /\ x.by # r /\ x.at \in Nat
          /\ pc'[x.by] = pc[x.by] /\ job'[x.by] = job[x.by]
      BY <1>3 DEF AwardInv, AwardTypes, Accounted, PurgeLog, GoTo
    <2>2. CASE x.at < clock - AuditDays
      BY <2>1, <2>2 DEF Accounted, PurgeLog
    <2>3. CASE x.at >= clock - AuditDays
      <3>1. /\ clock \in Nat /\ AuditDays \in Nat /\ \A y \in log : y.at \in Nat
            /\ clock' = clock /\ log' = {y \in log : y.at >= clock - AuditDays}
        BY AwarenessAssumption DEF AwardInv, AwardTypes, PurgeLog
      <3>2. ASSUME NEW y \in log, y.at >= x.at
            PROVE  y \in log'
        BY <2>1, <2>3, <3>1, <3>2
      <3> QED
        BY <2>1, <2>3, <3>1, <3>2 DEF Accounted
    <2> QED
      BY <2>1, <2>2, <2>3, AwarenessAssumption DEF AwardInv, AwardTypes
  <1> QED
    BY <1>1, <1>2, <1>3 DEF AwardInv

\* AwardInv holds at the start and is preserved by every step.
LEMMA AwardInvHolds == Spec => []AwardInv
  <1>1. Init => AwardInv
    BY AwarenessAssumption
    DEF Init, StudyInit, AwardInv, AwardTypes, AllCovered, Covered, Stages, AwardStages,
        Job, NoneSeen
  <1>2. AwardInv /\ [Next]_vars => AwardInv'
    <2> SUFFICES ASSUME AwardInv, [Next]_vars
                 PROVE  AwardInv'
      OBVIOUS
    <2>1. CASE StudyNext /\ UNCHANGED accountVars
      BY <2>1, StudyQuiet
    <2>2. CASE Tick /\ UNCHANGED accountVars
      BY <2>2, TickStep
    <2>3. ASSUME NEW r \in Requests, Ask(r) \/ Review(r) \/ Rule(r)
          PROVE  AwardInv'
      <3>1. PICK j \in Claims \cup Reviews \cup Decisions : Start(r, j)
        BY <2>3, OtherJobs DEF AwardInv
      <3> QED
        BY <3>1, StartQuiet, QuietStep
    <2>4. ASSUME NEW r \in Requests, Work(r)
          PROVE  AwardInv'
      BY <2>4, WorkQuiet, QuietStep, TickOffStep, ReadPointsStep, CreditStep, LogAwardStep,
         PurgeLogStep
      DEF Work
    <2>6. CASE UNCHANGED vars
      BY <2>6 DEF vars, accountVars, AwardInv, AwardTypes, AllCovered, Covered, Accounted
    <2> QED
      BY <2>1, <2>2, <2>3, <2>4, <2>6 DEF Next
  <1> QED
    BY <1>1, <1>2, PTL DEF Spec

\* Points and badges were all earned, totals show their badges, and every award
\* has its row for as long as the log remembers, whatever requests overlap and die.
THEOREM PointsAreEarnedHolds == Spec => []PointsAreEarned
  <1>1. AwardInv => PointsAreEarned
    BY DEF AwardInv, AwardTypes, AllCovered, Covered, Accounted, PointsAreEarned
  <1> QED
    BY <1>1, AwardInvHolds, PTL

-----------------------------------------------------------------------------
(* The files of the study *)

SubmitWork == {"pruning", "popping", "counting", "appending", "judging", "opening", "filling",
               "opening comment", "filling comment"}
Filing == {"filling", "opening comment", "filling comment"}
OtherWork == Stages \ (SubmitWork \cup {"idle", "done", "refused", "failed", "dead"})

Admission == [by : Requests, at : Nat, when : Nat]

\* What was let through, in whatever order.
Admissions == {admitted[i] : i \in DOMAIN admitted}

FilesOf(r) == {f \in files : f.by = r}
Answered(r) == pc[r] = "done" /\ job[r].kind = "submit"

\* It was let through, and no answers of it are on file from before that.
LetThrough(r) ==
    \E x \in Admissions :
        x.by = r /\ x.at <= clock /\ \A f \in FilesOf(r) : x.at <= f.at

\* It was let through so long ago that its answers may be gone.
LongAgo(r) == \E x \in Admissions : x.by = r /\ x.at < clock - Retention

\* What the files say of a request, by where the request stands.
Kept(r) ==
    /\ now[r] <= clock
    /\ pc[r] \in SubmitWork => job[r].kind = "submit"
    /\ pc[r] \in OtherWork => job[r].kind # "submit"
    /\ pc[r] \in (SubmitWork \ Filing) \cup OtherWork \cup {"idle"} => FilesOf(r) = {}
    /\ pc[r] \in {"filling", "opening comment"} => CommentOf(r) = {}
    /\ pc[r] = "filling comment" => CommentOf(r) # {}
    /\ pc[r] \in Filing \cup {"judging", "opening"} \/ Answered(r) => LetThrough(r)
    /\ pc[r] \in Filing \/ Answered(r) => RecordOf(r) # {} \/ LongAgo(r)
    /\ Answered(r) /\ job[r].comment => CommentOf(r) # {}
    /\ \A f \in FilesOf(r) : ~f.whole =>
         \/ f.dir = "study" /\ pc[r] = "filling"
         \/ f.dir = "feedback" /\ pc[r] = "filling comment"
         \/ pc[r] = "dead"
    /\ CommentOf(r) # {} => \A f \in RecordOf(r) : f.whole

FileTypes ==
    /\ \A f \in files :
         f \in File /\ f.dir \in Dirs /\ f.by \in Requests /\ f.at \in Nat
    /\ admitted \in Seq(Admission)
    /\ now \in [Requests -> Nat]

FileInv == FileTypes /\ \A r \in Requests : Kept(r)

LEMMA AdmissionTypes ==
    ASSUME admitted \in Seq(Admission)
    PROVE  \A x \in Admissions : x \in Admission /\ x.at \in Nat
  <1>1. \A i \in DOMAIN admitted : admitted[i] \in Admission
    OBVIOUS
  <1>2. \A x \in Admissions : x \in Admission
    BY <1>1 DEF Admissions
  <1> QED
    BY <1>2 DEF Admission

LEMMA AdmissionsGrow ==
    ASSUME admitted \in Seq(Admission), NEW x \in Admission, admitted' = Append(admitted, x)
    PROVE  admitted' \in Seq(Admission) /\ Admissions' = Admissions \cup {x}
  <1>1. /\ admitted' \in Seq(Admission)
        /\ DOMAIN admitted = 1..Len(admitted) /\ DOMAIN admitted' = 1..(Len(admitted) + 1)
        /\ admitted'[Len(admitted) + 1] = x
        /\ \A i \in 1..Len(admitted) : admitted'[i] = admitted[i]
        /\ Len(admitted) \in Nat
    OBVIOUS
  <1>2. ASSUME NEW i \in 1..(Len(admitted) + 1)
        PROVE  i \in 1..Len(admitted) \/ i = Len(admitted) + 1
    BY <1>1
  <1>3. Len(admitted) + 1 \in 1..(Len(admitted) + 1)
        /\ \A i \in 1..Len(admitted) : i \in 1..(Len(admitted) + 1)
    BY <1>1
  <1> QED
    BY <1>1, <1>2, <1>3 DEF Admissions

\* A request whose own files stay, while others may be let through.
LEMMA KeptStays ==
    ASSUME NEW r \in Requests, Kept(r),
           pc'[r] = pc[r], job'[r] = job[r], now'[r] = now[r], clock' = clock,
           FilesOf(r)' = FilesOf(r), Admissions \subseteq Admissions'
    PROVE  Kept(r)'
  <1>1. RecordOf(r)' = RecordOf(r) /\ CommentOf(r)' = CommentOf(r)
    BY DEF FilesOf, RecordOf, CommentOf
  <1>2. (LetThrough(r) => LetThrough(r)') /\ (LongAgo(r) => LongAgo(r)')
    BY DEF LetThrough, LongAgo
  <1> QED
    BY <1>1, <1>2 DEF Kept, Answered

LEMMA FileStep ==
    ASSUME FileInv, NEW r \in Requests, FileTypes', Kept(r)', clock' = clock,
           Admissions \subseteq Admissions',
           \A q \in Requests \ {r} :
               /\ pc'[q] = pc[q] /\ job'[q] = job[q] /\ now'[q] = now[q]
               /\ FilesOf(q)' = FilesOf(q)
    PROVE  FileInv'
  <1>1. ASSUME NEW q \in Requests, q # r
        PROVE  Kept(q)'
    BY <1>1, KeptStays DEF FileInv
  <1> QED
    BY <1>1 DEF FileInv

\* Steps that leave the files alone and move a request along, outside Filing.
LEMMA NoFileStep ==
    ASSUME FileInv, AwardTypes, AwardTypes', NEW r \in Requests, Kept(r)',
           UNCHANGED <<clock, files>>, Admissions \subseteq Admissions',
           admitted' \in Seq(Admission), now' \in [Requests -> Nat],
           \A q \in Requests \ {r} : pc'[q] = pc[q] /\ job'[q] = job[q] /\ now'[q] = now[q]
    PROVE  FileInv'
  BY FileStep DEF FileInv, FileTypes, FilesOf

\* Everything that happens outside the study, as seen from it.
LEMMA OutsideStep ==
    ASSUME FileInv, AwardTypes, AwardTypes', NEW r \in Requests,
           UNCHANGED <<clock, files, now, admitted>>,
           \A q \in Requests \ {r} : pc'[q] = pc[q] /\ job'[q] = job[q],
           \/ pc'[r] = "dead"
           \/ /\ pc[r] \in OtherWork \cup {"idle"} /\ job'[r].kind # "submit"
              /\ pc'[r] \in OtherWork \cup {"done", "failed"}
    PROVE  FileInv'
  <1>1. Kept(r)'
    <2>0. Kept(r)
      BY DEF FileInv
    <2>1. CASE pc'[r] = "dead"
      BY <2>0, <2>1 DEF Kept, Answered, FilesOf, RecordOf, CommentOf, SubmitWork, Filing, OtherWork
    <2>2. CASE pc'[r] # "dead"
      BY <2>0, <2>2 DEF Kept, Answered, FilesOf, RecordOf, CommentOf, SubmitWork, Filing, OtherWork
    <2> QED
      BY <2>1, <2>2
  <1> QED
    BY <1>1, NoFileStep DEF FileInv, FileTypes, Admissions

\* What a request does with its points, alerts or dashboard, and how it dies.
LEMMA AccountStep ==
    ASSUME FileInv, AwardTypes, AwardTypes', NEW r \in Requests, Work(r)
    PROVE  FileInv'
  <1> USE DEF OtherWork, SubmitWork, Stages, AwardStages, studyVars, accountVars, GoTo
  <1>0. pc[r] \in OtherWork => job[r].kind # "submit"
    BY DEF FileInv, Kept
  <1>a. pc \in [Requests -> Stages] /\ DOMAIN job = Requests
    BY DEF AwardTypes
  <1>1. CASE LookUpItem(r)
    BY <1>1, <1>0, <1>a, OutsideStep DEF LookUpItem
  <1>2. CASE TickOff(r)
    BY <1>2, <1>0, <1>a, OutsideStep DEF TickOff
  <1>3. CASE UnderTheCap(r)
    BY <1>3, <1>0, <1>a, OutsideStep DEF UnderTheCap
  <1>4. CASE CheckAward(r)
    BY <1>4, <1>0, <1>a, OutsideStep DEF CheckAward
  <1>5. CASE ReadPoints(r)
    BY <1>5, <1>0, <1>a, OutsideStep DEF ReadPoints
  <1>6. CASE Credit(r)
    BY <1>6, <1>0, <1>a, OutsideStep DEF Credit
  <1>7. CASE LogAward(r)
    BY <1>7, <1>0, <1>a, OutsideStep DEF LogAward
  <1>8. CASE Reply(r)
    BY <1>8, <1>0, <1>a, OutsideStep DEF Reply
  <1>9. CASE RecordSwap(r)
    BY <1>9, <1>0, <1>a, OutsideStep DEF RecordSwap
  <1>10. CASE RaiseAlert(r)
    BY <1>10, <1>0, <1>a, OutsideStep DEF RaiseAlert
  <1>11. CASE FindAlert(r)
    BY <1>11, <1>0, <1>a, OutsideStep DEF FindAlert
  <1>12. CASE Acknowledge(r)
    BY <1>12, <1>0, <1>a, OutsideStep DEF Acknowledge
  <1>18. CASE ChangeStatus(r)
    BY <1>18, <1>0, <1>a, OutsideStep DEF ChangeStatus
  <1>19. CASE PurgeAlerts(r)
    BY <1>19, <1>0, <1>a, OutsideStep DEF PurgeAlerts
  <1>20. CASE PurgeLog(r)
    BY <1>20, <1>0, <1>a, OutsideStep DEF PurgeLog
  <1>21. CASE PurgeTrend(r)
    BY <1>21, <1>0, <1>a, OutsideStep DEF PurgeTrend
  <1>13. CASE CountAlerts(r)
    <2>1. /\ pc[r] \in OtherWork /\ pc'[r] \in {"comparing", "counting swaps"}
          /\ UNCHANGED <<clock, files, now, admitted, job>>
          /\ \A q \in Requests \ {r} : pc'[q] = pc[q]
      BY <1>13, <1>a DEF CountAlerts
    <2> QED
      BY <2>1, <1>0, OutsideStep
  <1>14. CASE CountSwaps(r)
    BY <1>14, <1>0, <1>a, OutsideStep DEF CountSwaps
  <1>15. CASE CompareTrend(r)
    <2>1. /\ pc[r] \in OtherWork /\ pc'[r] \in {"done", "charting"}
          /\ UNCHANGED <<clock, files, now, admitted, job>>
          /\ \A q \in Requests \ {r} : pc'[q] = pc[q]
      BY <1>15, <1>a DEF CompareTrend, Chart
    <2> QED
      BY <2>1, <1>0, OutsideStep
  <1>16. CASE InsertTrend(r)
    BY <1>16, <1>0, <1>a, OutsideStep DEF InsertTrend, Chart
  <1>17. CASE Die(r)
    BY <1>17, <1>a, OutsideStep DEF Die
  <1> QED
    BY <1>1, <1>2, <1>3, <1>4, <1>5, <1>6, <1>7, <1>8, <1>9,
        <1>10, <1>11, <1>12, <1>13, <1>14, <1>15, <1>16, <1>17, <1>18, <1>19, <1>20, <1>21
    DEF Work

\* A request that has nothing to do with the study begins.
LEMMA OtherStart ==
    ASSUME FileInv, AwardTypes, AwardTypes', NEW r \in Requests,
           \/ \E j \in Claims \cup Reviews \cup Decisions : Start(r, j)
           \/ \E e \in Exports : Export(r, e)
    PROVE  FileInv'
  <1> USE DEF OtherWork, SubmitWork, Stages, AwardStages, studyVars, GoTo, AwardTypes
  <1>1. CASE \E j \in Claims \cup Reviews \cup Decisions : Start(r, j)
    <2>1. PICK j \in Claims \cup Reviews \cup Decisions : Start(r, j)
      BY <1>1
    <2>2. j.kind # "submit" /\ FirstStage(j.kind) \in OtherWork
      <3>1. CASE j \in Rewards \cup Checklists \cup Capped
        BY <3>1 DEF FirstStage, Rewards, Checklists, Capped
      <3>2. CASE j \in Swaps \cup Dashboards \cup Reviews \cup Decisions
        BY <3>2 DEF FirstStage, Swaps, Dashboards, Reviews, Decisions
      <3> QED
        BY <3>1, <3>2, AwarenessAssumption
    <2>3. /\ UNCHANGED <<clock, files, now, admitted>> /\ pc[r] = "idle"
          /\ job'[r] = j /\ pc'[r] = FirstStage(j.kind)
          /\ \A q \in Requests \ {r} : pc'[q] = pc[q] /\ job'[q] = job[q]
      BY <2>1 DEF Start
    <2> QED
      BY <2>2, <2>3, OutsideStep
  <1>2. CASE \E e \in Exports : Export(r, e)
    <2>1. PICK e \in Exports : Export(r, e)
      BY <1>2
    <2>2. e.kind # "submit"
      BY StudyAssumption
    <2>3. /\ UNCHANGED <<clock, files, now, admitted>> /\ pc[r] = "idle"
          /\ job'[r] = e /\ pc'[r] = "listing"
          /\ \A q \in Requests \ {r} : pc'[q] = pc[q] /\ job'[q] = job[q]
      <3>1. DOMAIN pc = Requests /\ DOMAIN job = Requests
        OBVIOUS
      <3> HIDE DEF OtherWork, SubmitWork, Stages, AwardStages, AwardTypes
      <3> QED
        BY <2>1, <3>1 DEF Export
    <2> QED
      BY <2>2, <2>3, OutsideStep
  <1> QED
    BY <1>1, <1>2

\* As long as a request has no files there is little to keep.
LEMMA NoFiles ==
    ASSUME NEW r \in Requests, FilesOf(r)' = {}, now'[r] <= clock',
           pc'[r] \notin Filing, ~Answered(r)',
           pc'[r] \in SubmitWork => job'[r].kind = "submit",
           pc'[r] \in OtherWork => job'[r].kind # "submit",
           pc'[r] \in {"judging", "opening"} => LetThrough(r)'
    PROVE  Kept(r)'
  <1>1. RecordOf(r)' = {} /\ CommentOf(r)' = {}
    BY DEF FilesOf, RecordOf, CommentOf
  <1> QED
    BY <1>1 DEF Kept, Filing

\* A submission, up to the moment it was let through and judged, and exports.
LEMMA LimiterStep ==
    ASSUME FileInv, AwardTypes, AwardTypes', NEW r \in Requests,
           \/ \E s \in Submissions : Submit(r, s)
           \/ EnforceRetention(r)
           \/ Prune(r) \/ PopLeft(r) \/ Count(r) \/ AppendHit(r) \/ Judge(r)
           \/ List(r) \/ ReadNext(r)
    PROVE  FileInv'
  <1> USE DEF GoTo, studyVars
  <1>0. Kept(r) /\ FileTypes
    BY DEF FileInv
  <1>a. pc \in [Requests -> Stages] /\ DOMAIN job = Requests /\ clock \in Nat
    BY DEF AwardTypes
  <1>b. UNCHANGED <<clock, files>> /\ FilesOf(r)' = FilesOf(r)
    BY DEF Submit, EnforceRetention, Prune, PopLeft, Count, AppendHit, Judge, List, ReadNext, FilesOf
  <1>c. /\ Admissions \subseteq Admissions' /\ admitted' \in Seq(Admission)
        /\ now' \in [Requests -> Nat] /\ now'[r] <= clock
        /\ \A q \in Requests \ {r} : now'[q] = now[q]
    <2>1. /\ \/ admitted' = admitted
             \/ admitted' = Append(admitted, [by |-> r, at |-> now[r], when |-> clock])
          /\ now' = now \/ now' = [now EXCEPT ![r] = clock]
      BY DEF Submit, EnforceRetention, Prune, PopLeft, Count, AppendHit, Judge, List, ReadNext
    <2>2. /\ now \in [Requests -> Nat] /\ now[r] <= clock /\ clock \in Nat
          /\ admitted \in Seq(Admission)
      BY <1>0, <1>a DEF FileTypes, Kept
    <2>3. now' \in [Requests -> Nat] /\ now'[r] <= clock /\ \A q \in Requests \ {r} : now'[q] = now[q]
      BY <2>1, <2>2
    <2>4. Admissions \subseteq Admissions' /\ admitted' \in Seq(Admission)
      <3>1. [by |-> r, at |-> now[r], when |-> clock] \in Admission
        BY <1>0, <1>a DEF Admission, FileTypes
      <3>2. CASE admitted' = admitted
        BY <3>2, <2>2 DEF Admissions
      <3> QED
        BY <3>1, <3>2, <2>1, <2>2, AdmissionsGrow
    <2> QED
      BY <2>3, <2>4
  <1>d. LetThrough(r) => LetThrough(r)'
    BY <1>b, <1>c DEF LetThrough
  <1>e. /\ pc[r] \in (SubmitWork \ Filing) \cup OtherWork \cup {"idle"} => FilesOf(r)' = {}
        /\ pc[r] \in SubmitWork => job[r].kind = "submit"
        /\ pc[r] \in OtherWork => job[r].kind # "submit"
    BY <1>0, <1>b DEF Kept
  <1>f. ASSUME FilesOf(r)' = {}, job' = job, \A q \in Requests \ {r} : pc'[q] = pc[q],
               pc'[r] \notin Filing, ~Answered(r)',
               pc'[r] \in SubmitWork => job[r].kind = "submit",
               pc'[r] \in OtherWork => job[r].kind # "submit",
               pc'[r] \in {"judging", "opening"} => LetThrough(r)'
        PROVE  FileInv'
    <2>1. Kept(r)'
      BY <1>f, <1>b, <1>c, NoFiles
    <2> QED
      BY <2>1, <1>f, <1>b, <1>c, NoFileStep
  <1>1. ASSUME NEW s \in Submissions, Submit(r, s)
        PROVE  FileInv'
    <2>1. s.kind = "submit"
      BY StudyAssumption
    <2>2. /\ pc[r] = "idle" /\ pc'[r] = "pruning" /\ job'[r] = s
          /\ \A q \in Requests \ {r} : pc'[q] = pc[q] /\ job'[q] = job[q]
      BY <1>1, <1>a DEF Submit
    <2>3. Kept(r)'
      BY <2>1, <2>2, <1>b, <1>c, <1>e, NoFiles DEF Answered, Filing, SubmitWork, OtherWork
    <2> QED
      BY <2>2, <2>3, <1>b, <1>c, NoFileStep
  <1>2. CASE Prune(r) \/ Count(r) \/ PopLeft(r)
    <2>1. /\ pc[r] \in {"pruning", "popping", "counting"} /\ job' = job
          /\ pc'[r] \in {"pruning", "popping", "counting", "appending", "refused", "failed"}
          /\ \A q \in Requests \ {r} : pc'[q] = pc[q]
      BY <1>2, <1>a DEF Prune, Count, PopLeft
    <2>2. FilesOf(r)' = {} /\ job[r].kind = "submit"
      BY <2>1, <1>e DEF Filing, SubmitWork
    <2> QED
      BY <2>1, <2>2, <1>f DEF Filing, SubmitWork, OtherWork, Answered
  <1>3. CASE AppendHit(r)
    <2>1. /\ pc[r] = "appending" /\ pc'[r] = "judging" /\ job' = job
          /\ \A q \in Requests \ {r} : pc'[q] = pc[q]
          /\ now[r] <= clock
      BY <1>3, <1>a, <1>0 DEF AppendHit, Kept
    <2>5. [by |-> r, at |-> now[r], when |-> clock] \in Admissions'
      <3>1. [by |-> r, at |-> now[r], when |-> clock] \in Admission
        BY <1>0, <1>a DEF Admission, FileTypes
      <3> QED
        BY <3>1, <1>3, <1>0, AdmissionsGrow DEF AppendHit, FileTypes
    <2>2. FilesOf(r)' = {}
      BY <2>1, <1>e DEF Filing, SubmitWork
    <2>3. LetThrough(r)'
      BY <2>1, <2>2, <2>5, <1>b DEF LetThrough
    <2>4. job[r].kind = "submit"
      BY <2>1, <1>e DEF SubmitWork
    <2> QED
      BY <2>1, <2>2, <2>3, <2>4, <1>f DEF SubmitWork, Filing, OtherWork, Answered
  <1>4. CASE Judge(r)
    <2>1. /\ pc[r] = "judging" /\ pc'[r] \in {"opening", "refused"} /\ job' = job
          /\ \A q \in Requests \ {r} : pc'[q] = pc[q]
      BY <1>4, <1>a DEF Judge
    <2>2. LetThrough(r)'
      BY <2>1, <1>0, <1>d DEF Kept
    <2>3. FilesOf(r)' = {} /\ job[r].kind = "submit"
      BY <2>1, <1>e DEF Filing, SubmitWork
    <2> QED
      BY <2>1, <2>2, <2>3, <1>f DEF SubmitWork, Filing, OtherWork, Answered
  <1>5. CASE List(r) \/ ReadNext(r)
    <2>1. /\ pc[r] \in {"listing", "reading"} /\ pc'[r] \in {"reading", "done", "failed"}
          /\ job' = job /\ \A q \in Requests \ {r} : pc'[q] = pc[q]
      BY <1>5, <1>a DEF List, ReadNext
    <2>2. FilesOf(r)' = {} /\ job[r].kind # "submit"
      BY <2>1, <1>e DEF Filing, SubmitWork, OtherWork, Stages
    <2> QED
      BY <2>1, <2>2, <1>f DEF Filing, SubmitWork, Answered
  <1>6. CASE EnforceRetention(r)
    <2>1. /\ pc[r] = "idle" /\ pc'[r] = "sweeping" /\ job'[r] = Upkeep
          /\ \A q \in Requests \ {r} : pc'[q] = pc[q] /\ job'[q] = job[q]
      BY <1>6, <1>a DEF EnforceRetention
    <2>3. job'[r].kind = "retain" /\ FilesOf(r)' = {}
      BY <2>1, <1>e DEF Upkeep
    <2>2. Kept(r)'
      BY <2>1, <2>3, <1>b, <1>c, NoFiles DEF Answered, Filing, SubmitWork
    <2> QED
      BY <2>1, <2>2, <1>b, <1>c, NoFileStep
  <1> QED
    BY <1>1, <1>2, <1>3, <1>4, <1>5, <1>6

\* A file is created, and empty.
LEMMA OpenStep ==
    ASSUME FileInv, AwardTypes, NEW r \in Requests, OpenRecord(r) \/ OpenComment(r)
    PROVE  FileInv'
  <1> USE DEF GoTo
  <1>0. Kept(r) /\ FileTypes /\ clock \in Nat /\ pc \in [Requests -> Stages]
    BY DEF FileInv, AwardTypes
  <1>1. /\ UNCHANGED <<clock, job, now, admitted>>
        /\ \A q \in Requests \ {r} : pc'[q] = pc[q]
    BY <1>0 DEF OpenRecord, OpenComment
  <1>2. PICK dir \in Dirs :
          /\ files' = files \cup {[dir |-> dir, by |-> r, whole |-> FALSE, at |-> clock]}
          /\ \/ dir = "study" /\ pc[r] = "opening" /\ pc'[r] = "filling"
             \/ dir = "feedback" /\ pc[r] = "opening comment" /\ pc'[r] = "filling comment"
    BY <1>0 DEF OpenRecord, OpenComment, Created, Dirs
  <1> DEFINE new == [dir |-> dir, by |-> r, whole |-> FALSE, at |-> clock]
  <1>3. /\ FilesOf(r)' = FilesOf(r) \cup {new}
        /\ \A q \in Requests \ {r} : FilesOf(q)' = FilesOf(q)
    <2>1. files' = files \cup {new} /\ new.by = r
      BY <1>2
    <2> HIDE DEF new
    <2>2. FilesOf(r)' = FilesOf(r) \cup {new}
      BY <2>1 DEF FilesOf
    <2>3. ASSUME NEW q \in Requests \ {r}
          PROVE  FilesOf(q)' = FilesOf(q)
      BY <2>1 DEF FilesOf
    <2> QED
      BY <2>2, <2>3
  <1>4. FileTypes'
    <2>1. files' = files \cup {new}
          /\ new \in File /\ new.dir \in Dirs /\ new.by \in Requests /\ new.at \in Nat
      BY <1>0, <1>2 DEF File
    <2> HIDE DEF new
    <2> QED
      BY <2>1, <1>0, <1>1 DEF FileTypes
  <1>5. LetThrough(r)'
    <2>1. PICK x \in Admissions : x.by = r /\ x.at <= clock /\ \A f \in FilesOf(r) : x.at <= f.at
      BY <1>0, <1>2 DEF Kept, LetThrough, Filing
    <2> QED
      BY <2>1, <1>1, <1>3 DEF LetThrough, Admissions
  <1>6. Kept(r)'
    <2>1. CASE dir = "study"
      <3>1. FilesOf(r) = {} /\ FilesOf(r)' = {new} /\ job[r].kind = "submit"
        BY <2>1, <1>0, <1>2, <1>3 DEF Kept, SubmitWork, Filing
      <3>2. RecordOf(r)' = {new} /\ CommentOf(r)' = {}
        BY <2>1, <3>1 DEF FilesOf, RecordOf, CommentOf
      <3>3. pc'[r] = "filling" /\ new.dir = "study" /\ now'[r] <= clock' /\ job'[r].kind = "submit"
        BY <2>1, <3>1, <1>0, <1>1, <1>2 DEF Kept
      <3> HIDE DEF new
      <3> QED
        BY <3>1, <3>2, <3>3, <1>5 DEF Kept, Answered, SubmitWork, Filing, OtherWork
    <2>2. CASE dir = "feedback"
      <3>1. /\ CommentOf(r) = {} /\ job[r].kind = "submit"
            /\ RecordOf(r) = {} => LongAgo(r)
            /\ \A f \in FilesOf(r) : f.whole
        BY <2>2, <1>0, <1>2 DEF Kept, SubmitWork, Filing
      <3>2. CommentOf(r)' = {new} /\ RecordOf(r)' = RecordOf(r) /\ LongAgo(r)' = LongAgo(r)
        <4>1. files' = files \cup {new} /\ new.by = r /\ new.dir = "feedback"
          BY <2>2, <1>2
        <4> HIDE DEF new
        <4>2. CommentOf(r)' = {new}
          BY <4>1, <3>1 DEF CommentOf
        <4>3. RecordOf(r)' = RecordOf(r)
          BY <4>1 DEF RecordOf
        <4> QED
          BY <4>2, <4>3, <1>1 DEF LongAgo, Admissions
      <3>3. \A f \in RecordOf(r) : f.whole
        BY <3>1 DEF RecordOf, FilesOf
      <3>4. \A f \in FilesOf(r)' : ~f.whole => f.dir = "feedback"
        BY <2>2, <3>1, <1>3
      <3> QED
        BY <2>2, <3>1, <3>2, <3>3, <3>4, <1>0, <1>1, <1>2, <1>5
        DEF Kept, Answered, SubmitWork, Filing, OtherWork
    <2> QED
      BY <1>2, <2>1, <2>2
  <1> QED
    BY <1>1, <1>3, <1>4, <1>6, FileStep DEF Admissions

\* What writing makes of the record of a file.
LEMMA PutBoth ==
    ASSUME NEW D, NEW R, NEW f \in [dir : D, by : R, whole : BOOLEAN, at : Nat], NEW c \in Nat
    PROVE  LET h == [f EXCEPT !.whole = TRUE, !.at = c]
           IN  /\ h \in [dir : D, by : R, whole : BOOLEAN, at : Nat]
               /\ h.dir = f.dir /\ h.by = f.by /\ h.at = c /\ h.whole
  <1> DEFINE Shape(B) == [dir : D, by : R, whole : B, at : Nat]
  <1>1. ASSUME NEW B, f \in Shape(B), NEW t \in B
        PROVE  [f EXCEPT !.whole = t] \in Shape(B)
    BY <1>1
  <1>2. [f EXCEPT !.whole = TRUE] \in Shape(BOOLEAN)
    BY <1>1, TRUE \in BOOLEAN, Zenon
  <1>3. ASSUME NEW B, NEW g \in Shape(B)
        PROVE  [g EXCEPT !.at = c] \in Shape(B)
    BY <1>3
  <1>4. [[f EXCEPT !.whole = TRUE] EXCEPT !.at = c] \in Shape(BOOLEAN)
    BY <1>2, <1>3, Zenon
  <1>5. [f EXCEPT !.whole = TRUE, !.at = c] = [[f EXCEPT !.whole = TRUE] EXCEPT !.at = c]
    OBVIOUS
  <1>6. [f EXCEPT !.whole = TRUE, !.at = c] \in Shape(BOOLEAN)
    BY <1>4, <1>5, Zenon
  <1> QED
    BY <1>6

\* A file is written, unless retention took it while it was open.
LEMMA FillStep ==
    ASSUME FileInv, AwardTypes, NEW r \in Requests, FillRecord(r) \/ FillComment(r)
    PROVE  FileInv'
  <1> USE DEF GoTo
  <1>0. Kept(r) /\ FileTypes /\ clock \in Nat /\ pc \in [Requests -> Stages]
    BY DEF FileInv, AwardTypes
  <1>1. /\ UNCHANGED <<clock, job, now, admitted>>
        /\ \A q \in Requests \ {r} : pc'[q] = pc[q]
    BY <1>0 DEF FillRecord, FillComment
  <1>2. PICK dir \in Dirs :
          /\ files' = Written(dir, r)
          /\ \/ /\ dir = "study" /\ pc[r] = "filling"
                /\ pc'[r] = IF job[r].comment THEN "opening comment" ELSE "done"
             \/ dir = "feedback" /\ pc[r] = "filling comment" /\ pc'[r] = "done"
    BY <1>0 DEF FillRecord, FillComment, Dirs
  <1> DEFINE Filled(f) == [f EXCEPT !.whole = TRUE, !.at = clock]
             Now(f) == IF f.dir = dir /\ f.by = r THEN Filled(f) ELSE f
  <1>3. \A f \in files :
          /\ Filled(f) \in File /\ Filled(f).dir = f.dir /\ Filled(f).by = f.by
          /\ Filled(f).at = clock /\ Filled(f).whole
    BY <1>0, PutBoth DEF FileTypes, File
  <1>4. files' = {Now(f) : f \in files}
    BY <1>2 DEF Written
  <1> HIDE DEF Filled
  <1>a. \A f \in files : /\ Now(f) \in File /\ Now(f).dir = f.dir /\ Now(f).by = f.by
                         /\ Now(f).at \in {clock, f.at}
                         /\ f.by = r /\ f.dir = dir => Now(f).whole
                         /\ f.by # r \/ f.dir # dir => Now(f) = f
    BY <1>3, <1>0 DEF FileTypes
  <1> HIDE DEF Now
  <1>5. FileTypes'
    <2>1. ASSUME NEW g \in files'
          PROVE  g \in File /\ g.dir \in Dirs /\ g.by \in Requests /\ g.at \in Nat
      BY <2>1, <1>4, <1>a, <1>0 DEF FileTypes
    <2> QED
      BY <2>1, <1>0, <1>1 DEF FileTypes
  <1>6. ASSUME NEW q \in Requests \ {r}
        PROVE  FilesOf(q)' = FilesOf(q)
    BY <1>4, <1>a DEF FilesOf
  <1>b. ASSUME NEW g, g \in FilesOf(r)'
        PROVE  \E f \in files : f.by = r /\ g = Now(f)
    BY <1>b, <1>4, <1>a DEF FilesOf
  <1>7. /\ RecordOf(r)' = {} <=> RecordOf(r) = {}
        /\ CommentOf(r)' = {} <=> CommentOf(r) = {}
    <2>1. ASSUME NEW d \in Dirs
          PROVE  {g \in files : g.by = r /\ g.dir = d}' = {}
                   <=> {f \in files : f.by = r /\ f.dir = d} = {}
      <3>1. ASSUME NEW f \in files, f.by = r, f.dir = d
            PROVE  Now(f) \in files' /\ Now(f).by = r /\ Now(f).dir = d
        BY <3>1, <1>4, <1>a
      <3>2. ASSUME NEW g \in files', g.by = r, g.dir = d
            PROVE  \E f \in files : f.by = r /\ f.dir = d
        BY <3>2, <1>4, <1>a
      <3> QED
        BY <3>1, <3>2
    <2> QED
      BY <2>1 DEF RecordOf, CommentOf, Dirs
  <1>8. LetThrough(r)'
    <2>1. PICK x \in Admissions : x.by = r /\ x.at <= clock /\ \A f \in FilesOf(r) : x.at <= f.at
      BY <1>0, <1>2 DEF Kept, LetThrough, Filing
    <2>2. ASSUME NEW g, g \in FilesOf(r)'
          PROVE  x.at <= g.at
      <3>1. PICK f \in files : f.by = r /\ g = Now(f)
        BY <2>2, <1>b
      <3> QED
        BY <2>1, <3>1, <1>a DEF FilesOf
    <2> QED
      BY <2>1, <2>2, <1>1 DEF LetThrough, Admissions
  <1>9. \A g \in FilesOf(r)' : g.whole
    <2>1. \A f \in FilesOf(r) : f.dir # dir => f.whole
      BY <1>0, <1>2 DEF Kept
    <2>2. ASSUME NEW g, g \in FilesOf(r)'
          PROVE  g.whole
      <3>1. PICK f \in files : f.by = r /\ g = Now(f)
        BY <2>2, <1>b
      <3> QED
        BY <2>1, <3>1, <1>a DEF FilesOf
    <2> QED
      BY <2>2
  <1>10. \A f \in RecordOf(r)' : f.whole
    BY <1>9 DEF RecordOf, FilesOf
  <1>11. LongAgo(r)' = LongAgo(r)
    BY <1>1 DEF LongAgo, Admissions
  <1>12. Kept(r)'
    <2>1. /\ job[r].kind = "submit" /\ RecordOf(r) = {} => LongAgo(r)
          /\ dir = "study" => CommentOf(r) = {}
          /\ dir = "feedback" => CommentOf(r) # {}
      BY <1>0, <1>2 DEF Kept, SubmitWork, Filing
    <2>2. /\ pc'[r] \in {"opening comment", "done"}
          /\ dir = "study" /\ pc'[r] = "done" => ~job[r].comment
      BY <1>2
    <2> QED
      BY <2>1, <2>2, <1>0, <1>1, <1>2, <1>7, <1>8, <1>9, <1>10, <1>11
      DEF Kept, Answered, SubmitWork, Filing, OtherWork
  <1> QED
    BY <1>1, <1>5, <1>6, <1>12, FileStep DEF Admissions

\* Retention takes only answers that were let through long ago.
LEMMA SweepStep ==
    ASSUME FileInv, AwardTypes, NEW r \in Requests, Sweep(r)
    PROVE  FileInv'
  <1>0. FileTypes /\ clock \in Nat /\ pc \in [Requests -> Stages] /\ \A q \in Requests : Kept(q)
    BY DEF FileInv, AwardTypes
  <1>1. /\ UNCHANGED <<clock, job, now, admitted>> /\ files' \subseteq files
        /\ \A q \in Requests \ {r} : pc'[q] = pc[q]
        /\ pc[r] = "sweeping" /\ pc'[r] \in {"sweeping", "purging alerts", "failed"}
    BY <1>0 DEF Sweep, GoTo
  <1>2. \A f \in files : f \notin files' => f.dir = "study" /\ f.at < clock - Retention
    <2>1. \A f \in files : f \notin files' => f.dir = "study" /\ f.at < now[r] - Retention
      BY DEF Sweep, Overdue
    <2>2. now[r] <= clock /\ now[r] \in Nat
      BY <1>0 DEF Kept, FileTypes
    <2>3. \A f \in files : f.at \in Nat
      BY <1>0 DEF FileTypes
    <2> QED
      BY <1>0, <2>1, <2>2, <2>3, StudyAssumption
  <1>3. FileTypes'
    BY <1>0, <1>1 DEF FileTypes
  <1>4. Kept(r)'
    <2>1. /\ FilesOf(r) = {} /\ now[r] <= clock /\ job[r].kind # "submit"
      BY <1>0, <1>1 DEF Kept, OtherWork, SubmitWork, Stages
    <2>2. FilesOf(r)' = {}
      BY <2>1, <1>1 DEF FilesOf
    <2> QED
      BY <2>1, <2>2, <1>1, NoFiles DEF Filing, SubmitWork, Answered
  <1>5. ASSUME NEW q \in Requests, q # r
        PROVE  Kept(q)'
    <2>1. CommentOf(q)' = CommentOf(q) /\ RecordOf(q)' \subseteq RecordOf(q)
          /\ FilesOf(q)' \subseteq FilesOf(q)
      BY <1>1, <1>2 DEF CommentOf, RecordOf, FilesOf
    <2>2. LongAgo(q)' = LongAgo(q) /\ (LetThrough(q) => LetThrough(q)')
      BY <1>1, <2>1 DEF LongAgo, LetThrough, Admissions
    <2>3. LetThrough(q) /\ RecordOf(q) # {} /\ RecordOf(q)' = {} => LongAgo(q)
      <3> SUFFICES ASSUME LetThrough(q), RecordOf(q) # {}, RecordOf(q)' = {}
                   PROVE  LongAgo(q)
        OBVIOUS
      <3>1. PICK f \in files : f \in RecordOf(q) /\ f \in FilesOf(q) /\ f \notin files'
        BY DEF RecordOf, FilesOf
      <3>2. PICK x \in Admissions : x.by = q /\ x.at <= f.at
        BY <3>1 DEF LetThrough
      <3>3. f.at < clock - Retention /\ f.at \in Nat /\ x.at \in Nat
        BY <3>1, <3>2, <1>2, <1>0, AdmissionTypes DEF FileTypes
      <3> QED
        BY <3>2, <3>3, <1>0, StudyAssumption DEF LongAgo
    <2> QED
      BY <2>1, <2>2, <2>3, <1>0, <1>1, <1>5 DEF Kept, Answered
  <1> QED
    BY <1>3, <1>4, <1>5 DEF FileInv

\* Time passes.
LEMMA FileTick ==
    ASSUME FileInv, AwardTypes, Tick
    PROVE  FileInv'
  <1>0. FileTypes /\ clock \in Nat /\ \A r \in Requests : Kept(r)
    BY DEF FileInv, AwardTypes
  <1>1. UNCHANGED <<pc, job, now, files, admitted>> /\ clock' = clock + 1
    BY DEF Tick, studyVars
  <1>2. FileTypes'
    BY <1>0, <1>1 DEF FileTypes
  <1>4. Admissions' = Admissions /\ \A x \in Admissions : x.at \in Nat
    BY <1>0, <1>1, AdmissionTypes DEF Admissions, FileTypes
  <1>3. ASSUME NEW r \in Requests
        PROVE  Kept(r)'
    <2>1. CommentOf(r)' = CommentOf(r) /\ RecordOf(r)' = RecordOf(r) /\ FilesOf(r)' = FilesOf(r)
      BY <1>1 DEF CommentOf, RecordOf, FilesOf
    <2>2. (LongAgo(r) => LongAgo(r)') /\ (LetThrough(r) => LetThrough(r)')
      BY <1>0, <1>1, <2>1, <1>4, StudyAssumption DEF LongAgo, LetThrough
    <2>3. now'[r] <= clock'
      <3>1. now[r] <= clock /\ now[r] \in Nat /\ clock \in Nat
        BY <1>0 DEF Kept, FileTypes
      <3> QED
        BY <3>1, <1>1
    <2> QED
      BY <2>1, <2>2, <2>3, <1>0, <1>1 DEF Kept, Answered
  <1> QED
    BY <1>2, <1>3 DEF FileInv

\* FileInv holds at the start and is preserved by every step.
LEMMA FileInvHolds == Spec => []FileInv
  <1>1. Init => FileInv
    BY DEF Init, StudyInit, FileInv, FileTypes, Kept, Answered, FilesOf, RecordOf, CommentOf,
           SubmitWork, Filing, OtherWork
  <1>2. FileInv /\ AwardTypes /\ AwardTypes' /\ [Next]_vars => FileInv'
    <2> SUFFICES ASSUME FileInv, AwardTypes, AwardTypes', [Next]_vars
                 PROVE  FileInv'
      OBVIOUS
    <2>1. CASE StudyNext
      BY <2>1, OtherStart, LimiterStep, OpenStep, FillStep, SweepStep DEF StudyNext, StudyWork
    <2>2. CASE Tick
      BY <2>2, FileTick
    <2>3. ASSUME NEW r \in Requests, Ask(r) \/ Review(r) \/ Rule(r)
          PROVE  FileInv'
      <3>1. PICK j \in Claims \cup Reviews \cup Decisions : Start(r, j)
        BY <2>3, OtherJobs
      <3> QED
        BY <3>1, OtherStart
    <2>4. ASSUME NEW r \in Requests, Work(r)
          PROVE  FileInv'
      BY <2>4, AccountStep
    <2>5. CASE UNCHANGED vars
      <3>1. UNCHANGED <<clock, pc, job, now, files, admitted>>
        BY <2>5 DEF vars, studyVars
      <3>2. Admissions' = Admissions /\ \A r \in Requests : FilesOf(r)' = FilesOf(r)
        BY <3>1 DEF Admissions, FilesOf
      <3>3. \A r \in Requests : Kept(r)'
        BY <3>1, <3>2, KeptStays DEF FileInv
      <3> QED
        BY <3>1, <3>3 DEF FileInv, FileTypes
    <2> QED
      BY <2>1, <2>2, <2>3, <2>4, <2>5 DEF Next
  <1>3. AwardInv => AwardTypes
    BY DEF AwardInv
  <1> QED
    BY <1>1, <1>2, <1>3, AwardInvHolds, PTL DEF Spec

\* However submissions overlap, die and are overtaken by retentions, an answered
\* one keeps its answers and its comment for their time, and nothing half-written
\* stays behind a request that came to its end.
THEOREM AnsweredSubmissionsAreKeptHolds == Spec => []AnsweredSubmissionsAreKept
  <1>1. FileInv => AnsweredSubmissionsAreKept
    <2> SUFFICES ASSUME FileInv
                 PROVE  AnsweredSubmissionsAreKept
      OBVIOUS
    <2>1. ASSUME NEW f \in files, ~f.whole
          PROVE  pc[f.by] \in {"filling", "filling comment", "dead"}
      BY <2>1 DEF FileInv, FileTypes, Kept, FilesOf
    <2>2. ASSUME NEW r \in Requests
          PROVE  /\ Answered(r) =>
                      \/ RecordOf(r) # {} /\ (job[r].comment => CommentOf(r) # {})
                      \/ TimeIsOver(r)
                 /\ CommentOf(r) # {} => \A f \in RecordOf(r) : f.whole
      <3>1. Kept(r)
        BY DEF FileInv
      <3>2. LongAgo(r) => TimeIsOver(r)
        BY DEF LongAgo, TimeIsOver, Admissions
      <3> QED
        BY <3>1, <3>2 DEF Kept
    <2> QED
      BY <2>1, <2>2 DEF AnsweredSubmissionsAreKept, Answered
  <1> QED
    BY <1>1, FileInvHolds, PTL

-----------------------------------------------------------------------------
(* Awards one by one: what a request remembers of the log *)

Memory == [rewards : SUBSET Logged, alerts : SUBSET Requests, swaps : SUBSET Swap]

\* What a request remembers is still in the log, or was taken for its age: a row
\* that is gone never comes back.
Rows ==
    /\ IsFiniteSet(log) /\ log \subseteq Logged
    /\ known \in [Requests -> Memory]
    /\ \A r \in Requests : \A x \in known[r].rewards : x \in log \/ x.at < clock - AuditDays

\* What is left of what a request remembers.
Left(r) == known[r].rewards \cap log

\* What a step does to the log and to what is remembered of it.
LogMoves ==
    /\ clock' \in Nat /\ clock <= clock'
    /\ known' \in [Requests -> Memory]
    /\ \/ log' = log
       \/ \E row \in Logged : row.at = clock /\ log' = log \cup {row}
       \/ log' = {x \in log : x.at >= clock - AuditDays}
    /\ \A r \in Requests :
         known'[r].rewards = known[r].rewards \/ known'[r].rewards \subseteq log \cap log'

LEMMA RowsMove ==
    ASSUME Rows, LogMoves, clock \in Nat
    PROVE  /\ Rows'
           /\ \A r \in Requests :
                known'[r].rewards = known[r].rewards => Left(r)' \subseteq Left(r)
  <1>1. IsFiniteSet(log') /\ log' \subseteq Logged
    <2>1. CASE log' \subseteq log
      BY <2>1, FS_Subset DEF Rows
    <2>2. ASSUME NEW row \in Logged, log' = log \cup {row}
          PROVE  IsFiniteSet(log') /\ log' \subseteq Logged
      BY <2>2, FS_AddElement DEF Rows
    <2> QED
      BY <2>1, <2>2 DEF LogMoves
  <1>2. ASSUME NEW x \in Logged, x \in log \/ x.at < clock - AuditDays
        PROVE  /\ x \in log' \/ x.at < clock' - AuditDays
               /\ x \in log' => x \in log
    <2>1. x.at \in Nat /\ clock' \in Nat /\ clock <= clock' /\ AuditDays \in Nat
      BY AwarenessAssumption DEF Logged, LogMoves
    <2>2. x.at < clock - AuditDays => x.at < clock' - AuditDays /\ x.at < clock
      BY <2>1
    <2>3. x.at >= clock - AuditDays \/ x.at < clock' - AuditDays
      BY <2>1
    <2>4. CASE log' = log
      BY <1>2, <2>2, <2>4
    <2>5. ASSUME NEW row \in Logged, row.at = clock, log' = log \cup {row}
          PROVE  /\ x \in log' \/ x.at < clock' - AuditDays
                 /\ x \in log' => x \in log
      BY <1>2, <2>1, <2>2, <2>5
    <2>6. CASE log' = {y \in log : y.at >= clock - AuditDays}
      BY <1>2, <2>2, <2>3, <2>6
    <2> QED
      BY <2>4, <2>5, <2>6 DEF LogMoves
  <1>3. ASSUME NEW r \in Requests, NEW x \in known'[r].rewards
        PROVE  x \in log' \/ x.at < clock' - AuditDays
    <2>1. x \in Logged
      BY <1>3 DEF LogMoves, Memory
    <2> QED
      BY <2>1, <1>2, <1>3 DEF Rows, LogMoves
  <1>4. ASSUME NEW r \in Requests, known'[r].rewards = known[r].rewards
        PROVE  Left(r)' \subseteq Left(r)
    <2>1. ASSUME NEW x \in Left(r)'
          PROVE  x \in Left(r)
      <3>1. x \in known[r].rewards /\ x \in log'
        BY <1>4, <2>1 DEF Left
      <3>2. x \in Logged /\ (x \in log \/ x.at < clock - AuditDays)
        BY <3>1 DEF Rows, Memory
      <3> QED
        BY <3>1, <3>2, <1>2 DEF Left
    <2> QED
      BY <2>1
  <1> QED
    BY <1>1, <1>3, <1>4 DEF Rows, LogMoves

\* An alert that gets a status may be forgotten as open, and nothing else.
LEMMA StatusKnown ==
    ASSUME known \in [Requests -> Memory], NEW r \in Requests, Acknowledge(r) \/ ChangeStatus(r)
    PROVE  /\ known' \in [Requests -> Memory]
           /\ \A q \in Requests : /\ known'[q].rewards = known[q].rewards
                                 /\ known'[q].swaps = known[q].swaps
                                 /\ known'[q].alerts \subseteq known[q].alerts
  <1>1. PICK by, status : SetStatus(by, status)
    BY DEF Acknowledge, ChangeStatus
  <1> DEFINE Open1(q) == IF status \in {"new", "escalated"} THEN known[q].alerts
                         ELSE known[q].alerts \ {by}
  <1>2. known' = [q \in Requests |-> [known[q] EXCEPT !.alerts = Open1(q)]]
    BY <1>1 DEF SetStatus
  <1>3. ASSUME NEW q \in Requests
        PROVE  Open1(q) \in SUBSET Requests /\ known[q] \in Memory
    BY DEF Memory
  <1>4. \A q \in Requests : Open1(q) \subseteq known[q].alerts
    OBVIOUS
  <1> HIDE DEF Open1
  <1>5. ASSUME NEW q \in Requests
        PROVE  /\ known'[q] \in Memory /\ known'[q].alerts = Open1(q)
               /\ known'[q].rewards = known[q].rewards /\ known'[q].swaps = known[q].swaps
    BY <1>2, <1>3 DEF Memory
  <1> QED
    BY <1>2, <1>4, <1>5

\* A request that logs something leaves the rest to the others.
LEMMA LogAdds ==
    ASSUME Rows, AwardTypes, NEW r \in Requests, NEW event, Log(r, event),
           event \in Events \cup {"ticked"}, job[r].about \in Requests \cup {"account"},
           clock' = clock, known' = known
    PROVE  LogMoves
  <1> DEFINE row == [by |-> r, event |-> event, about |-> job[r].about, at |-> clock]
  <1>1. row \in Logged /\ row.at = clock /\ log' = log \cup {row}
    BY DEF Logged, Log, AwardTypes
  <1> HIDE DEF row
  <1>2. /\ clock \in Nat /\ clock <= clock
        /\ known \in [Requests -> Memory]
    BY DEF Rows, AwardTypes
  <1> QED
    BY <1>1, <1>2 DEF LogMoves

\* The jobs that collect points.
AwardJobs == Rewards \cup Checklists \cup Capped \cup Reviews

\* Every step moves the log like that, if a request that collects points has such a job.
LEMMA LogMovesHold ==
    ASSUME Rows, AwardTypes, AwardTypes', [Next]_vars,
           \A r \in Requests : pc[r] \in AwardStages => job[r] \in AwardJobs
    PROVE  LogMoves
  <1>a. clock \in Nat /\ clock' \in Nat /\ AuditDays \in Nat /\ known \in [Requests -> Memory]
    BY AwarenessAssumption DEF AwardTypes, Rows
  <1>b. ASSUME log' = log, known' = known, clock' >= clock
        PROVE  LogMoves
    BY <1>a, <1>b DEF LogMoves
  <1>1. CASE StudyNext /\ UNCHANGED accountVars
    <2>1. clock' = clock
      BY <1>1 DEF StudyNext, StudyWork, Submit, Export, Prune, PopLeft, Count, AppendHit, Judge,
                  OpenRecord, FillRecord, OpenComment, FillComment, List, ReadNext,
                  EnforceRetention, Sweep
    <2> QED
      BY <2>1, <1>1, <1>a, <1>b DEF accountVars
  <1>2. CASE Tick /\ UNCHANGED accountVars
    BY <1>2, <1>a, <1>b DEF Tick, accountVars
  <1>3. ASSUME NEW r \in Requests, NEW j, Start(r, j)
        PROVE  LogMoves
    <2>1. /\ clock' = clock /\ log' = log /\ log \subseteq Logged
          /\ known' = [known EXCEPT ![r] = [rewards |-> Remembered(j), alerts |-> OpenOnes,
                                            swaps |-> sims]]
      BY <1>3 DEF Start, Rows
    <2>2. Remembered(j) \subseteq log /\ OpenOnes \subseteq Requests /\ sims \subseteq Swap
      BY DEF Remembered, OpenOnes, Open, AwardTypes, Alert
    <2> QED
      BY <2>1, <2>2, <1>a DEF LogMoves, Memory
  <1>4. ASSUME NEW r \in Requests, Work(r)
        PROVE  LogMoves
    <2>1. CASE UNCHANGED <<clock, log, known>>
      BY <2>1, <1>a, <1>b
    <2>2. ASSUME clock' = clock, log' = log, known' = [known EXCEPT ![r] = NothingKnown]
          PROVE  LogMoves
      <3>1. NothingKnown \in Memory /\ NothingKnown.rewards = {}
        BY DEF NothingKnown, Memory
      <3> HIDE DEF NothingKnown
      <3> QED
        BY <2>2, <3>1, <1>a DEF LogMoves
    <2>3. ASSUME NEW event \in Events \cup {"ticked"}, Log(r, event), job[r] \in AwardJobs,
                 clock' = clock, known' = known
          PROVE  LogMoves
      <3>1. job[r].about \in Requests \cup {"account"}
        BY <2>3 DEF AwardJobs, Rewards, Checklists, Capped, Reviews
      <3> QED
        BY <3>1, <2>3, LogAdds
    <2>4. CASE TickOff(r)
      BY <2>3, <2>4 DEF TickOff, AwardStages
    <2>5. CASE LogAward(r)
      BY <2>3, <2>5 DEF LogAward, AwardStages, AwardTypes
    <2>6. CASE Credit(r) \/ InsertTrend(r)
      BY <2>2, <2>6 DEF Credit, InsertTrend, Chart
    <2>7. CASE CompareTrend(r)
      BY <2>1, <2>2, <2>7 DEF CompareTrend, Chart
    <2>8. CASE Acknowledge(r) \/ ChangeStatus(r)
      <3>1. clock' = clock /\ log' = log
        BY <2>8 DEF Acknowledge, ChangeStatus
      <3>2. /\ known' \in [Requests -> Memory]
            /\ \A q \in Requests : known'[q].rewards = known[q].rewards
        BY <2>8, <1>a, StatusKnown
      <3> QED
        BY <3>1, <3>2, <1>a DEF LogMoves
    <2>9. CASE PurgeLog(r)
      <3>1. /\ clock' = clock /\ known' = known
            /\ log' = {x \in log : x.at >= clock - AuditDays}
        BY <2>9 DEF PurgeLog
      <3> QED
        BY <3>1, <1>a DEF LogMoves
    <2> QED
      BY <1>4, <2>1, <2>4, <2>5, <2>6, <2>7, <2>8, <2>9
      DEF Work, accountVars, LookUpItem, UnderTheCap, CheckAward, ReadPoints, Reply, RecordSwap,
          RaiseAlert, FindAlert, PurgeAlerts, PurgeTrend, CountAlerts, CountSwaps, Die
  <1>6. CASE UNCHANGED vars
    BY <1>6, <1>a, <1>b DEF vars, accountVars
  <1> QED
    BY <1>1, <1>2, <1>3, <1>4, <1>6 DEF Next, Ask, Review, Rule

\* The rows that say that j was rewarded.
Tells(x, j) ==
    IF j.kind = "checklist" THEN x.event = "ticked" ELSE x.event = j.event /\ x.about = j.about

\* Where the job of a request leads it, and what it remembers.
Task(r) ==
    /\ pc[r] \in AwardStages => job[r] \in AwardJobs
    /\ pc[r] \in {"looking up", "ticking"} => job[r].kind = "checklist"
    /\ pc[r] \in {"replying", "capping"} => job[r] \in Capped
    /\ pc[r] \in {"finding", "acknowledging"} => job[r].kind = "ack"
    /\ pc[r] \in AwardStages \ {"logging"} => \A x \in known[r].rewards : Tells(x, job[r])

\* A request that looked has, as far as it remembers and the log still does, been
\* rewarded less often than it may be, or an operator made its alert new again; a
\* claim is only looked up by award itself.
Looked(r) ==
    \/ pc[r] \in {"ticking", "acknowledging", "adding up", "crediting"}
    \/ pc[r] = "checking" /\ job[r].kind # "claim"

Few(r) ==
    Looked(r) => Cardinality(Left(r)) < Most(job[r].event) \/ job[r].about \in reopened

\* An alert is raised once, by a request that does not come back to it.
Raising == {"idle", "recording", "alerting", "replying"}

Passed(q) == pc[q] \notin Raising

Rewarding == {"checking", "adding up", "crediting", "logging"}

\* As long as an alert is new nobody was rewarded, or is about to be, for it, unless
\* an operator made it new.
Unread(a) ==
    /\ \A x \in log : x.event = "reviewed_alert" => x.about # a.by
    /\ \A r \in Requests : job[r].kind = "ack" /\ pc[r] \in Rewarding => job[r].about # a.by

Settled ==
    /\ \A a \in alerts :
         Passed(a.by) /\ (a.status = "new" => Unread(a) \/ a.by \in reopened)
    /\ \A r \in Requests : job[r].kind = "ack" => Passed(job[r].about)
    /\ \A x \in log : x.about \in Requests => Passed(x.about)

OneInv ==
    /\ Rows /\ Settled
    /\ \A r \in Requests : Task(r) /\ Few(r)
    /\ \A x \in paid : x.past < Most(x.event) \/ x.about \in reopened

LEMMA MostPositive == \A e : Most(e) \in Nat /\ Most(e) > 0
  BY AwarenessAssumption DEF Most

\* What is left only shrinks, so a request that stays where it is has few still.
LEMMA TaskStays ==
    ASSUME NEW q \in Requests, Rows, Rows', Task(q), Few(q), Left(q)' \subseteq Left(q),
           reopened \subseteq reopened',
           pc'[q] = pc[q], job'[q] = job[q], known'[q].rewards = known[q].rewards
    PROVE  Task(q)' /\ Few(q)'
  <1>1. Task(q)'
    BY DEF Task
  <1>2. IsFiniteSet(Left(q)) /\ IsFiniteSet(Left(q)')
    BY FS_Subset DEF Left, Rows
  <1>3. Cardinality(Left(q)') <= Cardinality(Left(q))
    BY <1>2, FS_Subset
  <1>4. Cardinality(Left(q)) \in Nat /\ Cardinality(Left(q)') \in Nat
    BY <1>2, FS_CardinalityType
  <1>5. Looked(q)' = Looked(q) /\ job'[q].event = job[q].event
    BY DEF Looked
  <1>6. Few(q)'
    BY <1>3, <1>4, <1>5, MostPositive DEF Few
  <1> QED
    BY <1>1, <1>6

\* The same for a request that moves, having looked before.
LEMMA FewStays ==
    ASSUME NEW q \in Requests, Rows, Rows', Few(q), Looked(q), Left(q)' \subseteq Left(q),
           reopened \subseteq reopened', job'[q] = job[q]
    PROVE  Few(q)'
  <1>2. IsFiniteSet(Left(q)) /\ IsFiniteSet(Left(q)')
    BY FS_Subset DEF Left, Rows
  <1>3. Cardinality(Left(q)') <= Cardinality(Left(q))
    BY <1>2, FS_Subset
  <1>4. Cardinality(Left(q)) \in Nat /\ Cardinality(Left(q)') \in Nat
    BY <1>2, FS_CardinalityType
  <1> QED
    BY <1>3, <1>4, MostPositive DEF Few

\* Counting the rows of something shows that there are few left of it.
LEMMA FewByCount ==
    ASSUME NEW q \in Requests, Rows, NEW S \in SUBSET log, Left(q) \subseteq S,
           NEW n \in Nat, Cardinality(S) < n
    PROVE  Cardinality(Left(q)) < n
  <1>1. IsFiniteSet(S)
    BY FS_Subset DEF Rows
  <1>2. IsFiniteSet(Left(q)) /\ Cardinality(Left(q)) <= Cardinality(S)
    BY <1>1, FS_Subset
  <1>3. Cardinality(Left(q)) \in Nat /\ Cardinality(S) \in Nat
    BY <1>1, <1>2, FS_CardinalityType
  <1> QED
    BY <1>2, <1>3

\* The stages of a dashboard.
DashboardStages == {"counting alerts", "counting swaps", "comparing", "charting"}

\* One request moves, the others stay.
OnlyMoves(r) ==
    \A q \in Requests \ {r} :
        pc'[q] = pc[q] /\ job'[q] = job[q] /\ known'[q].rewards = known[q].rewards

\* No step takes back that an alert was made new again.
LEMMA ReopenedGrows ==
    ASSUME [Next]_vars
    PROVE  reopened \subseteq reopened'
  <1>1. ASSUME NEW r \in Requests, Work(r)
        PROVE  reopened \subseteq reopened'
    BY <1>1
    DEF Work, accountVars, LookUpItem, TickOff, UnderTheCap, CheckAward, ReadPoints, Credit,
        LogAward, Reply, RecordSwap, RaiseAlert, FindAlert, Acknowledge, ChangeStatus, PurgeAlerts,
        PurgeLog, PurgeTrend, CountAlerts, CountSwaps, CompareTrend, InsertTrend, Die
  <1>2. ASSUME NEW r \in Requests, Ask(r) \/ Review(r) \/ Rule(r)
        PROVE  reopened \subseteq reopened'
    BY <1>2 DEF Ask, Review, Rule, Start
  <1> QED
    BY <1>1, <1>2 DEF Next, vars, accountVars

LEMMA TaskStep ==
    ASSUME OneInv, Rows', NEW r \in Requests, OnlyMoves(r), Task(r)', Few(r)',
           reopened \subseteq reopened',
           \A q \in Requests : known'[q].rewards = known[q].rewards => Left(q)' \subseteq Left(q)
    PROVE  \A q \in Requests : Task(q)' /\ Few(q)'
  BY TaskStays DEF OneInv, OnlyMoves

\* A request begins, moves within its job or leaves it.
LEMMA TaskMoves ==
    ASSUME OneInv, AwardTypes, AwardTypes', Rows', NEW r \in Requests,
           \/ \E j \in Claims \cup Reviews \cup Decisions : Start(r, j)
           \/ Work(r),
           reopened \subseteq reopened',
           \A q \in Requests : known'[q].rewards = known[q].rewards => Left(q)' \subseteq Left(q)
    PROVE  OnlyMoves(r) /\ Task(r)' /\ Few(r)'
  <1> USE DEF GoTo
  <1>0. /\ Task(r) /\ Few(r) /\ Rows
        /\ pc \in [Requests -> Stages] /\ job \in [Requests -> Job]
        /\ known \in [Requests -> Memory]
    BY DEF OneInv, AwardTypes, Rows
  <1>1. ASSUME NEW j \in Claims \cup Reviews \cup Decisions, Start(r, j)
        PROVE  OnlyMoves(r) /\ Task(r)' /\ Few(r)'
    <2>1. /\ pc' = [pc EXCEPT ![r] = FirstStage(j.kind)] /\ job' = [job EXCEPT ![r] = j]
          /\ known' = [known EXCEPT ![r] = [rewards |-> Remembered(j), alerts |-> OpenOnes,
                                            swaps |-> sims]]
      BY <1>1 DEF Start
    <2>2. OnlyMoves(r) /\ pc'[r] = FirstStage(j.kind) /\ job'[r] = j
          /\ known'[r].rewards = Remembered(j)
      BY <2>1, <1>0 DEF OnlyMoves, AwardTypes
    <2>3. \A x \in Remembered(j) : Tells(x, j)
      BY DEF Remembered, Tells
    <2>4. /\ j \in Claims => j \in Rewards \cup Checklists \cup Capped \cup Swaps \cup Dashboards
          /\ j \in AwardJobs => j.kind \in {"claim", "checklist", "question", "spot", "ack"}
      BY AwarenessAssumption DEF AwardJobs, Rewards, Checklists, Capped, Reviews
    <2>5. /\ FirstStage(j.kind) \in AwardStages => j \in AwardJobs
          /\ FirstStage(j.kind) \in {"looking up", "ticking"} => j.kind = "checklist"
          /\ FirstStage(j.kind) \in {"replying", "capping"} => j \in Capped
          /\ FirstStage(j.kind) \in {"finding", "acknowledging"} => j.kind = "ack"
          /\ FirstStage(j.kind) \notin {"ticking", "acknowledging", "adding up", "crediting"}
          /\ FirstStage(j.kind) = "checking" => j.kind = "claim"
      BY <2>4
      DEF FirstStage, AwardStages, AwardJobs, Rewards, Checklists, Capped, Swaps, Dashboards,
          Reviews, Decisions
    <2> QED
      BY <2>2, <2>3, <2>5 DEF Task, Few, Looked
  <1>2. ASSUME OnlyMoves(r), pc'[r] \notin AwardStages \/ pc'[r] = "logging",
               pc'[r] = "logging" => pc[r] \in AwardStages /\ job'[r] = job[r]
        PROVE  Task(r)' /\ Few(r)'
    BY <1>0, <1>2 DEF Task, Few, Looked, AwardStages
  <1>3. ASSUME OnlyMoves(r), pc[r] \in AwardStages, pc'[r] \in AwardStages, job'[r] = job[r],
               known'[r].rewards = known[r].rewards,
               pc[r] # "logging",
               pc'[r] \in {"looking up", "ticking"} => job[r].kind = "checklist",
               pc'[r] \in {"replying", "capping"} => job[r] \in Capped,
               pc'[r] \in {"finding", "acknowledging"} => job[r].kind = "ack"
        PROVE  Task(r)' /\ Left(r)' \subseteq Left(r)
    BY <1>0, <1>3 DEF Task
  <1>4. CASE LookUpItem(r)
    <2>1. /\ pc[r] = "looking up" /\ UNCHANGED <<job, known, log>> /\ OnlyMoves(r)
          /\ pc'[r] \in {"done", "ticking"} /\ (pc'[r] = "ticking" => ~(Rewarded("ticked") > 0))
      BY <1>4, <1>0 DEF LookUpItem, accountVars, OnlyMoves
    <2>2. CASE pc'[r] = "done"
      BY <1>2, <2>1, <2>2 DEF AwardStages
    <2>3. CASE pc'[r] = "ticking"
      <3>1. job[r].kind = "checklist" /\ \A x \in known[r].rewards : x.event = "ticked"
        BY <2>1, <1>0 DEF Task, Tells, AwardStages
      <3>2. Task(r)'
        BY <1>3, <2>1, <2>3, <3>1 DEF AwardStages
      <3> DEFINE S == {x \in log : x.event = "ticked"}
      <3>3. IsFiniteSet(S)
        BY <1>0, FS_Subset DEF Rows
      <3>7. Cardinality(S) \in Nat /\ ~(Cardinality(S) > 0)
        BY <2>1, <2>3, <3>3, FS_CardinalityType DEF Rewarded
      <3>4. Cardinality(S) < Most(job[r].event)
        BY <3>7, MostPositive
      <3>5. Left(r) \subseteq S /\ Left(r)' = Left(r)
        BY <2>1, <3>1 DEF Left
      <3> HIDE DEF S
      <3>6. Cardinality(Left(r)) < Most(job[r].event)
        BY <3>4, <3>5, FewByCount, <1>0, MostPositive, S \in SUBSET log DEF S
      <3> QED
        BY <3>2, <3>5, <3>6, <2>1 DEF Few
    <2> QED
      BY <2>1, <2>2, <2>3
  <1>5. CASE TickOff(r)
    <2>1. /\ pc[r] = "ticking" /\ pc'[r] = "checking" /\ UNCHANGED <<job, known>> /\ OnlyMoves(r)
      BY <1>5, <1>0 DEF TickOff, OnlyMoves
    <2> QED
      BY <2>1, <1>0, <1>3, FewStays DEF AwardStages, Looked
  <1>6. CASE UnderTheCap(r)
    <2>1. /\ pc[r] = "capping" /\ UNCHANGED <<job, known, log>> /\ OnlyMoves(r)
          /\ pc'[r] \in {"done", "checking"}
          /\ pc'[r] = "checking" => Rewarded(job[r].event) < Cap[job[r].event]
      BY <1>6, <1>0 DEF UnderTheCap, accountVars, OnlyMoves
    <2>2. CASE pc'[r] = "done"
      BY <1>2, <2>1, <2>2 DEF AwardStages
    <2>3. CASE pc'[r] = "checking"
      <3>1. job[r].event \in DOMAIN Cap /\ \A x \in known[r].rewards : x.event = job[r].event
        BY <2>1, <1>0 DEF Task, Tells, AwardStages, Capped
      <3>2. Task(r)'
        BY <1>3, <2>1, <2>3 DEF AwardStages
      <3> DEFINE S == {x \in log : x.event = job[r].event}
      <3>4. Cardinality(S) < Most(job[r].event)
        BY <2>1, <2>3, <3>1 DEF Rewarded, Most
      <3>5. Left(r) \subseteq S /\ Left(r)' = Left(r)
        BY <2>1, <3>1 DEF Left
      <3> HIDE DEF S
      <3>6. Cardinality(Left(r)) < Most(job[r].event)
        BY <3>4, <3>5, FewByCount, <1>0, MostPositive, S \in SUBSET log DEF S
      <3> QED
        BY <3>2, <3>5, <3>6, <2>1 DEF Few
    <2> QED
      BY <2>1, <2>2, <2>3
  <1>7. CASE CheckAward(r)
    <2>1. /\ pc[r] = "checking" /\ UNCHANGED <<job, known, log>> /\ OnlyMoves(r)
          /\ pc'[r] \in {"done", "adding up"}
          /\ pc'[r] = "adding up" => MayAward(job[r].event)
      BY <1>7, <1>0 DEF CheckAward, accountVars, OnlyMoves
    <2>2. CASE pc'[r] = "done"
      BY <1>2, <2>1, <2>2 DEF AwardStages
    <2>3. CASE pc'[r] = "adding up" /\ job[r].kind # "claim"
      BY <2>1, <2>3, <1>0, <1>3, FewStays DEF AwardStages, Looked
    <2>4. CASE pc'[r] = "adding up" /\ job[r].kind = "claim"
      <3>1. job[r].event \in OneShot /\ \A x \in known[r].rewards : x.event = job[r].event
        BY <2>1, <2>4, <1>0
        DEF Task, Tells, AwardStages, AwardJobs, Rewards, Checklists, Capped, Reviews
      <3>2. Task(r)'
        BY <1>3, <2>1, <2>4 DEF AwardStages
      <3> DEFINE S == {x \in log : x.event = job[r].event}
      <3>4. Cardinality(S) < Most(job[r].event)
        BY <2>1, <2>4, <3>1, MostPositive DEF Rewarded, MayAward
      <3>5. Left(r) \subseteq S /\ Left(r)' = Left(r)
        BY <2>1, <3>1 DEF Left
      <3> HIDE DEF S
      <3>6. Cardinality(Left(r)) < Most(job[r].event)
        BY <3>4, <3>5, FewByCount, <1>0, MostPositive, S \in SUBSET log DEF S
      <3> QED
        BY <3>2, <3>5, <3>6, <2>1 DEF Few
    <2> QED
      BY <2>1, <2>2, <2>3, <2>4
  <1>8. CASE ReadPoints(r)
    <2>1. /\ pc[r] = "adding up" /\ pc'[r] = "crediting" /\ UNCHANGED <<job, known>> /\ OnlyMoves(r)
      BY <1>8, <1>0 DEF ReadPoints, OnlyMoves
    <2> QED
      BY <2>1, <1>0, <1>3, FewStays DEF AwardStages, Looked
  <1>9. CASE Credit(r)
    <2>1. /\ pc[r] = "crediting" /\ pc'[r] = "logging" /\ job' = job /\ OnlyMoves(r)
      BY <1>9, <1>0 DEF Credit, OnlyMoves
    <2> QED
      BY <2>1, <1>2 DEF AwardStages
  <1>10. CASE Reply(r)
    <2>1. /\ pc[r] = "replying" /\ pc'[r] = "capping" /\ UNCHANGED <<job, known>> /\ OnlyMoves(r)
      BY <1>10, <1>0 DEF Reply, OnlyMoves
    <2> QED
      BY <2>1, <1>0, <1>3 DEF AwardStages, Looked, Few, Task
  <1>11. CASE FindAlert(r)
    <2>1. /\ pc[r] = "finding" /\ UNCHANGED <<job, known, log, alerts>> /\ OnlyMoves(r)
          /\ pc'[r] \in {"done", "acknowledging"}
          /\ pc'[r] = "acknowledging" => \E a \in alerts : a.by = job[r].about /\ a.status = "new"
      BY <1>11, <1>0 DEF FindAlert, Awaits, accountVars, OnlyMoves
    <2>2. CASE pc'[r] = "done"
      BY <1>2, <2>1, <2>2 DEF AwardStages
    <2>3. CASE pc'[r] = "acknowledging"
      <3>1. /\ job[r].kind = "ack" /\ job[r] \in AwardJobs
            /\ \A x \in known[r].rewards : Tells(x, job[r])
        BY <2>1, <1>0 DEF Task, AwardStages
      <3>2. job[r].event = "reviewed_alert"
        BY <3>1 DEF AwardJobs, Rewards, Checklists, Capped, Reviews
      <3>5. Task(r)'
        BY <1>3, <2>1, <2>3, <3>1 DEF AwardStages
      <3>3. Left(r) = {} \/ job[r].about \in reopened
        BY <2>1, <2>3, <3>1, <3>2 DEF OneInv, Settled, Unread, Left, Tells
      <3>4. CASE Left(r) = {}
        <4>1. Cardinality(Left(r)) = 0 /\ Left(r)' = Left(r)
          BY <2>1, <3>4, FS_EmptySet DEF Left
        <4> QED
          BY <4>1, <3>5, <2>1, MostPositive DEF Few
      <3>6. CASE job[r].about \in reopened
        BY <3>5, <3>6, <2>1 DEF Few
      <3> QED
        BY <3>3, <3>4, <3>6
    <2> QED
      BY <2>1, <2>2, <2>3
  <1>12. CASE Acknowledge(r)
    <2>1. /\ pc[r] = "acknowledging" /\ pc'[r] = "checking" /\ job' = job /\ OnlyMoves(r)
          /\ known'[r].rewards = known[r].rewards
      <3>1. \A q \in Requests : known'[q].rewards = known[q].rewards
        BY <1>12, <1>0, StatusKnown
      <3> QED
        BY <1>12, <1>0, <3>1 DEF Acknowledge, OnlyMoves
    <2> QED
      BY <2>1, <1>0, <1>3, FewStays DEF AwardStages, Looked
  <1>13. CASE LogAward(r) \/ RecordSwap(r) \/ RaiseAlert(r) \/ CountSwaps(r) \/ InsertTrend(r)
    <2>1. pc'[r] \in {"done", "alerting", "comparing"} /\ OnlyMoves(r)
      BY <1>13, <1>0 DEF LogAward, RecordSwap, RaiseAlert, CountSwaps, InsertTrend, Chart, OnlyMoves
    <2> QED
      BY <2>1, <1>2 DEF AwardStages
  <1>14. CASE Die(r)
    <2>1. pc'[r] = "dead" /\ OnlyMoves(r)
      BY <1>14, <1>0 DEF Die, OnlyMoves, accountVars
    <2> QED
      BY <2>1, <1>2 DEF AwardStages
  <1>15. CASE CountAlerts(r)
    <2>1. pc'[r] \in {"comparing", "counting swaps"} /\ OnlyMoves(r)
      BY <1>15, <1>0 DEF CountAlerts, OnlyMoves
    <2> QED
      BY <2>1, <1>2 DEF AwardStages
  <1>16. CASE CompareTrend(r)
    <2>1. pc'[r] \in {"done", "charting"} /\ OnlyMoves(r)
      BY <1>16, <1>0 DEF CompareTrend, Chart, OnlyMoves
    <2> QED
      BY <2>1, <1>2 DEF AwardStages
  <1>17. CASE ChangeStatus(r)
    <2>1. \A q \in Requests : known'[q].rewards = known[q].rewards
      BY <1>17, <1>0, StatusKnown
    <2>2. pc'[r] = "done" /\ OnlyMoves(r)
      BY <1>17, <1>0, <2>1 DEF ChangeStatus, OnlyMoves
    <2> QED
      BY <2>2, <1>2 DEF AwardStages
  <1>18. CASE PurgeAlerts(r) \/ PurgeLog(r) \/ PurgeTrend(r)
    <2>1. pc'[r] \in {"purging log", "purging trend", "done"} /\ OnlyMoves(r)
      BY <1>18, <1>0 DEF PurgeAlerts, PurgeLog, PurgeTrend, OnlyMoves
    <2> QED
      BY <2>1, <1>2 DEF AwardStages
  <1> QED
    BY <1>1, <1>4, <1>5, <1>6, <1>7, <1>8, <1>9, <1>10, <1>11, <1>12, <1>13, <1>14, <1>15, <1>16,
       <1>17, <1>18
    DEF Work

\* Most steps leave the log and new alerts alone, and reward nobody for an alert.
Calm ==
    /\ \A q \in Requests : Passed(q) => Passed(q)'
    /\ log' \subseteq log /\ reopened \subseteq reopened'
    /\ \A a \in alerts' :
         \/ a \in alerts
         \/ pc'[a.by] \notin Raising /\ (a.status # "new" \/ a.by \in reopened')
    /\ \A q \in Requests :
         job'[q].kind = "ack" =>
           \/ job'[q] = job[q] /\ (pc'[q] \in Rewarding => pc[q] \in Rewarding)
           \/ pc'[job'[q].about] \notin Raising /\ pc'[q] \notin Rewarding

LEMMA SettledStays ==
    ASSUME Settled, AwardTypes, Calm, \A q \in Requests : job[q].kind = "ack" => job[q] \in Reviews
    PROVE  Settled'
  <1>1. ASSUME NEW a \in alerts'
        PROVE  (Passed(a.by) /\ (a.status = "new" => Unread(a) \/ a.by \in reopened))'
    <2>1. CASE a \in alerts
      <3>1. a.by \in Requests
        BY <2>1 DEF AwardTypes, Alert
      <3>2. a.status = "new" => Unread(a)' \/ a.by \in reopened'
        BY <2>1 DEF Settled, Unread, Calm
      <3> QED
        BY <2>1, <3>1, <3>2 DEF Settled, Calm
    <2>2. CASE a \notin alerts
      BY <1>1, <2>2 DEF Calm, Passed
    <2> QED
      BY <2>1, <2>2
  <1>2. ASSUME NEW q \in Requests, job'[q].kind = "ack"
        PROVE  pc'[job'[q].about] \notin Raising
    <2>1. CASE job'[q] = job[q]
      <3>1. job[q].about \in Requests /\ Passed(job[q].about)
        BY <1>2, <2>1 DEF Settled, Reviews
      <3> QED
        BY <2>1, <3>1 DEF Calm, Passed
    <2> QED
      BY <1>2, <2>1 DEF Calm
  <1>3. ASSUME NEW x \in log', x.about \in Requests
        PROVE  Passed(x.about)'
    BY <1>3 DEF Settled, Calm
  <1> QED
    BY <1>1, <1>2, <1>3 DEF Settled, Passed

\* Only a request about an alert has a request in its job.
LEMMA AcksAreReviews ==
    ASSUME AwardTypes
    PROVE  \A q \in Requests : job[q].kind = "ack" => job[q] \in Reviews
  BY AwarenessAssumption, StudyAssumption
  DEF AwardTypes, Job, NoJob, Upkeep, Rewards, Checklists, Capped, Swaps, Dashboards,
      Decisions

\* A request moves on, not to be rewarded for an alert.
LEMMA CalmMove ==
    ASSUME AwardTypes, NEW r \in Requests, OnlyMoves(r), job'[r] = job[r],
           pc[r] \in Raising \/ pc'[r] \notin Raising,
           pc'[r] \in Rewarding => pc[r] \in Rewarding \/ job[r].kind # "ack",
           log' \subseteq log, alerts' \subseteq alerts, reopened' = reopened
    PROVE  Calm
  <1>1. \A q \in Requests : Passed(q) => Passed(q)'
    BY DEF OnlyMoves, Passed
  <1>2. \A q \in Requests :
          job'[q] = job[q] /\ (job[q].kind = "ack" => (pc'[q] \in Rewarding => pc[q] \in Rewarding))
    BY DEF OnlyMoves
  <1> QED
    BY <1>1, <1>2 DEF Calm

LEMMA SettledStudy ==
    ASSUME Settled, AwardTypes, StudyNext, UNCHANGED accountVars
    PROVE  Settled'
  <1> USE DEF GoTo, studyVars
  <1>0. /\ pc \in [Requests -> Stages] /\ job \in [Requests -> Job]
        /\ UNCHANGED <<log, alerts, known, reopened>>
    BY DEF AwardTypes, accountVars
  <1>1. ASSUME NEW r \in Requests, NEW j \in Submissions \cup Exports \cup {Upkeep},
               NEW stage \in {"pruning", "listing", "sweeping"},
               pc[r] = "idle", job' = [job EXCEPT ![r] = j], pc' = [pc EXCEPT ![r] = stage]
        PROVE  Calm
    <2>3. j.kind # "ack"
      BY StudyAssumption DEF Upkeep
    <2>1. j.kind # "ack" /\ pc'[r] \notin Raising \cup Rewarding /\ job'[r] = j
          /\ \A q \in Requests \ {r} : pc'[q] = pc[q] /\ job'[q] = job[q]
      BY <1>0, <1>1, <2>3 DEF Raising, Rewarding
    <2>2. \A q \in Requests : Passed(q) => Passed(q)'
      BY <2>1 DEF Passed
    <2> QED
      BY <1>0, <2>1, <2>2 DEF Calm
  <1>2. ASSUME NEW r \in Requests, StudyWork(r)
        PROVE  Calm
    <2>1. /\ job' = job /\ \A q \in Requests \ {r} : pc'[q] = pc[q]
          /\ pc'[r] \notin Raising \cup Rewarding
      <3>1. CASE Prune(r) \/ PopLeft(r) \/ Count(r) \/ AppendHit(r) \/ Judge(r)
        BY <3>1, <1>0 DEF Prune, PopLeft, Count, AppendHit, Judge, Raising, Rewarding
      <3>2. CASE OpenRecord(r) \/ FillRecord(r) \/ OpenComment(r) \/ FillComment(r) \/ List(r)
        BY <3>2, <1>0 DEF OpenRecord, FillRecord, OpenComment, FillComment, List, Raising, Rewarding
      <3>3. CASE ReadNext(r)
        BY <3>3, <1>0 DEF ReadNext, Raising, Rewarding
      <3>4. CASE Sweep(r)
        BY <3>4, <1>0 DEF Sweep, Raising, Rewarding
      <3> QED
        BY <1>2, <3>1, <3>2, <3>3, <3>4 DEF StudyWork
    <2> QED
      BY <2>1, <1>0, CalmMove DEF OnlyMoves
  <1>3. Calm
    BY <1>1, <1>2 DEF StudyNext, Submit, Export, EnforceRetention
  <1> QED
    BY <1>3, SettledStays, AcksAreReviews

\* A request begins; one about an alert comes after the alert.
LEMMA SettledStart ==
    ASSUME Settled, AwardTypes, NEW r \in Requests,
           \/ \E j \in Claims : Start(r, j)
           \/ Review(r) \/ Rule(r)
    PROVE  Settled'
  <1> USE DEF GoTo
  <1>0. pc \in [Requests -> Stages] /\ job \in [Requests -> Job]
    BY DEF AwardTypes
  <1>1. PICK j \in Claims \cup Reviews \cup Decisions :
          /\ Start(r, j)
          /\ j.kind = "ack" => \E a \in alerts : a.by = j.about
    <2>1. ASSUME NEW j \in Claims
          PROVE  j.kind # "ack"
      BY <2>1, AwarenessAssumption DEF Rewards, Checklists, Capped, Swaps, Dashboards
    <2>2. ASSUME Review(r)
          PROVE  \E j \in Reviews : Start(r, j) /\ \E a \in alerts : a.by = j.about
      <3>1. PICK a \in alerts :
              Start(r, [kind |-> "ack", event |-> "reviewed_alert", about |-> a.by])
        BY <2>2 DEF Review
      <3>2. [kind |-> "ack", event |-> "reviewed_alert", about |-> a.by] \in Reviews
        BY DEF Reviews, AwardTypes, Alert
      <3> QED
        BY <3>1, <3>2
    <2>3. ASSUME Rule(r)
          PROVE  \E j \in Decisions : Start(r, j) /\ j.kind # "ack"
      <3>1. PICK a \in alerts, s \in Rulings :
              Start(r, [kind |-> "status", event |-> "none", about |-> a.by, status |-> s])
        BY <2>3 DEF Rule
      <3>2. [kind |-> "status", event |-> "none", about |-> a.by, status |-> s] \in Decisions
        BY DEF Decisions, AwardTypes, Alert
      <3> QED
        BY <3>1, <3>2
    <2> QED
      BY <2>1, <2>2, <2>3
  <1>2. /\ pc[r] = "idle" /\ job'[r] = j /\ pc'[r] = FirstStage(j.kind)
        /\ \A q \in Requests \ {r} : pc'[q] = pc[q] /\ job'[q] = job[q]
        /\ UNCHANGED <<log, alerts, reopened>>
    BY <1>1, <1>0 DEF Start
  <1>3. j.kind = "ack" => pc[j.about] \notin Raising /\ j.about # r /\ j.about \in Requests
    BY <1>1, <1>2 DEF Settled, Passed, Raising, AwardTypes, Alert
  <1>4. j.kind = "ack" => pc'[r] \notin Rewarding
    BY <1>2 DEF FirstStage, Rewarding
  <1>5. Calm
    <2>1. \A q \in Requests : Passed(q) => Passed(q)'
      BY <1>2 DEF Passed, Raising
    <2>2. ASSUME NEW q \in Requests, job'[q].kind = "ack"
          PROVE  \/ job'[q] = job[q] /\ (pc'[q] \in Rewarding => pc[q] \in Rewarding)
                 \/ pc'[job'[q].about] \notin Raising /\ pc'[q] \notin Rewarding
      BY <1>2, <1>3, <1>4, <2>2
    <2> QED
      BY <1>2, <2>1, <2>2 DEF Calm
  <1> QED
    BY <1>5, SettledStays, AcksAreReviews

\* A row is logged: for an alert by a request that acknowledged it.
LEMMA SettledLog ==
    ASSUME Settled, AwardTypes, NEW r \in Requests, Task(r), TickOff(r) \/ LogAward(r)
    PROVE  Settled'
  <1> USE DEF GoTo
  <1>0. /\ pc \in [Requests -> Stages] /\ job \in [Requests -> Job]
        /\ job' = job /\ alerts' = alerts /\ reopened' = reopened
    BY DEF AwardTypes, TickOff, LogAward
  <1>1. PICK event :
          /\ log' = log \cup {[by |-> r, event |-> event, about |-> job[r].about, at |-> clock]}
          /\ \/ pc[r] = "ticking" /\ pc'[r] = "checking" /\ job[r].kind # "ack"
             \/ pc[r] = "logging" /\ pc'[r] = "done"
    BY <1>0 DEF TickOff, LogAward, Log, Task
  <1>2. \A q \in Requests \ {r} : pc'[q] = pc[q]
    BY <1>0 DEF TickOff, LogAward
  <1>3. /\ job[r] \in AwardJobs /\ job[r].about \in Requests \cup {"account"}
        /\ job[r].about \in Requests => job[r].kind = "ack"
    BY <1>1, AwarenessAssumption
    DEF Task, AwardStages, AwardJobs, Rewards, Checklists, Capped, Reviews
  <1>4. \A q \in Requests : Passed(q) => Passed(q)'
    BY <1>1, <1>2 DEF Passed, Raising
  <1>5. ASSUME NEW x \in log'
        PROVE  x \in log \/ (x.about = job[r].about /\ (x.about \in Requests => pc[r] = "logging"))
    BY <1>1, <1>3
  <1>6. ASSUME NEW a \in alerts'
        PROVE  (Passed(a.by) /\ (a.status = "new" => Unread(a) \/ a.by \in reopened))'
    <2>1. a \in alerts /\ a.by \in Requests /\ Passed(a.by)
      BY <1>0 DEF AwardTypes, Alert, Settled
    <2>2. ASSUME a.status = "new", a.by \notin reopened
          PROVE  Unread(a)'
      <3>1. Unread(a)
        BY <2>1, <2>2 DEF Settled
      <3>2. ASSUME NEW x \in log', x.event = "reviewed_alert"
            PROVE  x.about # a.by
        BY <1>3, <1>5, <2>1, <3>1, <3>2 DEF Unread, Rewarding
      <3>3. ASSUME NEW q \in Requests, job[q].kind = "ack", pc'[q] \in Rewarding
            PROVE  job[q].about # a.by
        BY <1>1, <1>2, <3>1, <3>3 DEF Unread, Rewarding
      <3> QED
        BY <1>0, <3>2, <3>3 DEF Unread
    <2> QED
      BY <1>0, <1>4, <2>1, <2>2
  <1>7. ASSUME NEW x \in log', x.about \in Requests
        PROVE  Passed(x.about)'
    BY <1>3, <1>4, <1>5, <1>7 DEF Settled
  <1>8. ASSUME NEW q \in Requests, job[q].kind = "ack"
        PROVE  Passed(job[q].about)'
    BY <1>0, <1>4, <1>8, AcksAreReviews DEF Settled, Reviews
  <1> QED
    BY <1>0, <1>6, <1>7, <1>8 DEF Settled, Passed

\* An alert is raised by a request nobody was rewarded about.
LEMMA SettledRaise ==
    ASSUME Settled, AwardTypes, NEW r \in Requests, RaiseAlert(r)
    PROVE  Settled'
  <1> USE DEF GoTo
  <1>0. /\ pc \in [Requests -> Stages] /\ job' = job /\ log' = log /\ reopened' = reopened
        /\ pc[r] = "alerting" /\ pc'[r] = "done" /\ \A q \in Requests \ {r} : pc'[q] = pc[q]
    BY DEF AwardTypes, RaiseAlert
  <1>1. PICK new : new.by = r /\ alerts' = alerts \cup {new}
    BY DEF RaiseAlert, AddAlert
  <1>2. \A q \in Requests : Passed(q) => Passed(q)'
    BY <1>0 DEF Passed, Raising
  <1>3. ~Passed(r) /\ Passed(r)'
    BY <1>0 DEF Passed, Raising
  <1>4. Unread(new)'
    <2>1. \A x \in log : x.about # r
      BY <1>3 DEF Settled
    <2>2. \A q \in Requests : job[q].kind = "ack" => job[q].about # r
      BY <1>3 DEF Settled
    <2> QED
      BY <1>0, <1>1, <2>1, <2>2 DEF Unread
  <1>5. ASSUME NEW a \in alerts
        PROVE  Passed(a.by)' /\ (a.status = "new" => Unread(a)' \/ a.by \in reopened)
    <2>1. a.by \in Requests /\ Passed(a.by) /\ (a.status = "new" => Unread(a) \/ a.by \in reopened)
      BY DEF AwardTypes, Alert, Settled
    <2> QED
      BY <1>0, <1>2, <2>1 DEF Unread, Rewarding
  <1>6. ASSUME NEW q \in Requests, job[q].kind = "ack"
        PROVE  Passed(job[q].about)'
    BY <1>0, <1>2, <1>6, AcksAreReviews DEF Settled, Reviews
  <1>7. ASSUME NEW x \in log, x.about \in Requests
        PROVE  Passed(x.about)'
    BY <1>2, <1>7 DEF Settled
  <1> QED
    BY <1>0, <1>1, <1>3, <1>4, <1>5, <1>6, <1>7 DEF Settled, Passed

\* An alert is acknowledged, and new no more, before anybody is rewarded for it.
LEMMA SettledAcknowledge ==
    ASSUME Settled, AwardTypes, NEW r \in Requests, Acknowledge(r)
    PROVE  Settled'
  <1> USE DEF GoTo
  <1>0. /\ pc \in [Requests -> Stages] /\ job' = job /\ log' = log /\ reopened' = reopened
        /\ pc'[r] = "checking" /\ \A q \in Requests \ {r} : pc'[q] = pc[q]
    BY DEF AwardTypes, Acknowledge
  <1>1. \A q \in Requests : Passed(q) => Passed(q)'
    BY <1>0 DEF Passed, Raising
  <1>2. ASSUME NEW a \in alerts'
        PROVE  /\ \E b \in alerts : b.by = a.by
               /\ a.status = "new" => a \in alerts /\ a.by # job[r].about
    <2>1. PICK b \in alerts : a = IF b.by = job[r].about THEN [b EXCEPT !.status = "acknowledged"]
                                  ELSE b
      BY DEF Acknowledge, SetStatus
    <2>2. b \in Alert
      BY DEF AwardTypes
    <2> QED
      BY <2>1, <2>2 DEF Alert
  <1>3. ASSUME NEW a \in alerts'
        PROVE  (Passed(a.by) /\ (a.status = "new" => Unread(a) \/ a.by \in reopened))'
    <2>1. Passed(a.by)'
      BY <1>1, <1>2 DEF Settled, AwardTypes, Alert
    <2>2. a.status = "new" => Unread(a)' \/ a.by \in reopened
      BY <1>0, <1>2 DEF Settled, Unread, Rewarding
    <2> QED
      BY <1>0, <2>1, <2>2
  <1>4. ASSUME NEW q \in Requests, job[q].kind = "ack"
        PROVE  Passed(job[q].about)'
    BY <1>0, <1>1, <1>4, AcksAreReviews DEF Settled, Reviews
  <1>5. ASSUME NEW x \in log, x.about \in Requests
        PROVE  Passed(x.about)'
    BY <1>1, <1>5 DEF Settled
  <1> QED
    BY <1>0, <1>3, <1>4, <1>5 DEF Settled, Passed

\* An operator changes the status of an alert that was raised, whatever it was.
LEMMA SettledStatus ==
    ASSUME Settled, AwardTypes, NEW r \in Requests, ChangeStatus(r)
    PROVE  Settled'
  <1> USE DEF GoTo
  <1>0. /\ pc \in [Requests -> Stages] /\ job' = job /\ log' = log
        /\ pc'[r] = "done" /\ \A q \in Requests \ {r} : pc'[q] = pc[q]
        /\ reopened \subseteq reopened'
        /\ job[r].status = "new" => job[r].about \in reopened'
    BY DEF AwardTypes, ChangeStatus
  <1>1. \A q \in Requests : Passed(q) => Passed(q)'
    BY <1>0 DEF Passed, Raising
  <1>2. ASSUME NEW a \in alerts', a \notin alerts
        PROVE  pc'[a.by] \notin Raising /\ (a.status # "new" \/ a.by \in reopened')
    <2>1. PICK b \in alerts : a = IF b.by = job[r].about THEN [b EXCEPT !.status = job[r].status]
                                  ELSE b
      BY <1>2 DEF ChangeStatus, SetStatus
    <2>2. b \in Alert /\ b.by = job[r].about
      BY <1>2, <2>1 DEF AwardTypes
    <2>3. a.by = b.by /\ a.status = job[r].status
      BY <2>1, <2>2 DEF Alert
    <2>4. Passed(b.by)'
      BY <1>1, <2>2 DEF Settled, Alert
    <2> QED
      BY <1>0, <2>2, <2>3, <2>4 DEF Passed
  <1>3. Calm
    BY <1>0, <1>1, <1>2 DEF Calm, Rewarding
  <1> QED
    BY <1>3, SettledStays, AcksAreReviews

\* Whatever a request does.
LEMMA SettledWork ==
    ASSUME Settled, AwardTypes, NEW r \in Requests, Task(r), OnlyMoves(r), Work(r)
    PROVE  Settled'
  <1> USE DEF GoTo, accountVars
  <1>0. pc \in [Requests -> Stages] /\ job \in [Requests -> Job]
    BY DEF AwardTypes
  <1>1. CASE LookUpItem(r) \/ UnderTheCap(r) \/ CheckAward(r) \/ ReadPoints(r) \/ Credit(r)
    <2>1. /\ job' = job /\ log' = log /\ alerts' = alerts /\ reopened' = reopened
          /\ pc'[r] \notin Raising
          /\ pc'[r] \in Rewarding => pc[r] \in Rewarding \cup {"capping"}
      BY <1>1, <1>0
      DEF LookUpItem, UnderTheCap, CheckAward, ReadPoints, Credit, Raising, Rewarding
    <2>2. pc[r] = "capping" => job[r].kind # "ack"
      BY DEF Task, Capped
    <2> QED
      BY <2>1, <2>2, CalmMove, SettledStays, AcksAreReviews
  <1>2. CASE Reply(r)
    <2>1. /\ job' = job /\ log' = log /\ reopened' = reopened /\ pc'[r] = "capping"
          /\ \A a \in alerts' : a \in alerts \/ (a.status # "new" /\ a.by = r)
      BY <1>2, <1>0 DEF Reply, AddAlert
    <2>2. Calm
      BY <2>1 DEF Calm, OnlyMoves, Passed, Raising, Rewarding
    <2> QED
      BY <2>2, SettledStays, AcksAreReviews
  <1>3. CASE RecordSwap(r) \/ FindAlert(r) \/ CountSwaps(r) \/ InsertTrend(r) \/ Die(r)
    <2>1. /\ job' = job /\ log' = log /\ alerts' = alerts /\ reopened' = reopened
          /\ pc[r] \in Raising \/ pc'[r] \notin Raising
          /\ pc'[r] \notin Rewarding
      BY <1>3, <1>0
      DEF RecordSwap, FindAlert, CountSwaps, InsertTrend, Chart, Die, Raising, Rewarding
    <2> QED
      BY <2>1, CalmMove, SettledStays, AcksAreReviews
  <1>4. CASE CountAlerts(r)
    <2>1. /\ job' = job /\ log' = log /\ alerts' = alerts /\ reopened' = reopened
          /\ pc'[r] \notin Raising \cup Rewarding
      BY <1>4, <1>0 DEF CountAlerts, Raising, Rewarding
    <2> QED
      BY <2>1, CalmMove, SettledStays, AcksAreReviews
  <1>5. CASE CompareTrend(r)
    <2>1. /\ job' = job /\ log' = log /\ alerts' = alerts /\ reopened' = reopened
          /\ pc'[r] \notin Raising \cup Rewarding
      BY <1>5, <1>0 DEF CompareTrend, Chart, Raising, Rewarding
    <2> QED
      BY <2>1, CalmMove, SettledStays, AcksAreReviews
  <1>6. CASE PurgeAlerts(r) \/ PurgeLog(r) \/ PurgeTrend(r)
    <2>1. /\ job' = job /\ log' \subseteq log /\ alerts' \subseteq alerts /\ reopened' = reopened
          /\ pc'[r] \notin Raising \cup Rewarding
      BY <1>6, <1>0 DEF PurgeAlerts, PurgeLog, PurgeTrend, Raising, Rewarding
    <2> QED
      BY <2>1, CalmMove, SettledStays, AcksAreReviews
  <1> QED
    BY <1>1, <1>2, <1>3, <1>4, <1>5, <1>6,
       SettledLog, SettledRaise, SettledAcknowledge, SettledStatus DEF Work

\* An award is credited to a request that looked.
LEMMA PaidFew ==
    ASSUME OneInv, NEW r \in Requests, Work(r), reopened \subseteq reopened'
    PROVE  \A x \in paid' : x.past < Most(x.event) \/ x.about \in reopened'
  <1>1. CASE Credit(r)
    <2>1. Cardinality(Left(r)) < Most(job[r].event) \/ job[r].about \in reopened
      BY <1>1 DEF Credit, OneInv, Few, Looked
    <2> QED
      BY <1>1, <2>1 DEF Credit, OneInv, Left
  <1>2. CASE paid' = paid
    BY <1>2 DEF OneInv
  <1>3. Credit(r) \/ paid' = paid
    BY DEF Work, accountVars, LookUpItem, TickOff, UnderTheCap, CheckAward, ReadPoints, LogAward,
           Reply, RecordSwap, RaiseAlert, FindAlert, Acknowledge, ChangeStatus, PurgeAlerts,
           PurgeLog, PurgeTrend, CountAlerts, CountSwaps, CompareTrend, InsertTrend, Die
  <1> QED
    BY <1>1, <1>2, <1>3

\* The rows stay, and what is left of what a request remembers shrinks.
LEMMA RowsHold ==
    ASSUME OneInv, AwardTypes, AwardTypes', [Next]_vars
    PROVE  /\ Rows'
           /\ \A r \in Requests :
                known'[r].rewards = known[r].rewards => Left(r)' \subseteq Left(r)
  <1>1. \A r \in Requests : pc[r] \in AwardStages => job[r] \in AwardJobs
    BY DEF OneInv, Task
  <1> QED
    BY <1>1, LogMovesHold, RowsMove DEF OneInv, AwardTypes

\* The study moves one request, and not to where points or scores are.
LEMMA StudyMoves ==
    ASSUME AwardTypes, StudyNext, UNCHANGED accountVars
    PROVE  \E r \in Requests : OnlyMoves(r) /\ pc'[r] \notin AwardStages \cup DashboardStages
  <1>1. PICK r \in Requests :
          \/ \E s \in Submissions : Submit(r, s)
          \/ \E e \in Exports : Export(r, e)
          \/ EnforceRetention(r)
          \/ StudyWork(r)
    BY DEF StudyNext
  <1>2. CASE StudyWork(r)
    BY <1>2
    DEF StudyWork, AwardTypes, accountVars, OnlyMoves, AwardStages, DashboardStages, GoTo, Prune,
        PopLeft, Count, AppendHit, Judge, OpenRecord, FillRecord, OpenComment, FillComment, List,
        ReadNext, Sweep
  <1>3. CASE ~StudyWork(r)
    BY <1>1, <1>3
    DEF AwardTypes, accountVars, OnlyMoves, AwardStages, DashboardStages, GoTo, Submit, Export,
        EnforceRetention
  <1> QED
    BY <1>2, <1>3

\* OneInv holds at the start and is preserved by every step.
LEMMA OneInvHolds == Spec => []OneInv
  <1>1. Init => OneInv
    <2>1. Init => Rows
      BY FS_EmptySet DEF Init, Rows, Memory, NothingKnown
    <2>2. Init => \A r \in Requests : Task(r) /\ Few(r)
      BY DEF Init, StudyInit, Task, Few, Looked, AwardStages
    <2>3. Init => Settled
      BY DEF Init, StudyInit, Settled, NoJob
    <2> QED
      BY <2>1, <2>2, <2>3 DEF Init, OneInv
  <1>2. OneInv /\ AwardTypes /\ AwardTypes' /\ [Next]_vars => OneInv'
    <2> SUFFICES ASSUME OneInv, AwardTypes, AwardTypes', [Next]_vars
                 PROVE  OneInv'
      OBVIOUS
    <2>1. /\ Rows'
          /\ \A r \in Requests :
               known'[r].rewards = known[r].rewards => Left(r)' \subseteq Left(r)
          /\ reopened \subseteq reopened'
      BY RowsHold, ReopenedGrows
    <2>2. ASSUME NEW r \in Requests, Ask(r) \/ Review(r) \/ Rule(r) \/ Work(r)
          PROVE  OneInv'
      <3>1. (\E j \in Claims \cup Reviews \cup Decisions : Start(r, j)) \/ Work(r)
        BY <2>2, OtherJobs
      <3>2. OnlyMoves(r) /\ \A q \in Requests : Task(q)' /\ Few(q)'
        BY <2>1, <3>1, TaskMoves, TaskStep
      <3>3. Settled'
        BY <2>2, <3>2, SettledStart, SettledWork DEF OneInv, Ask
      <3>4. \A x \in paid' : x.past < Most(x.event) \/ x.about \in reopened'
        <4>1. CASE Work(r)
          BY <2>1, <4>1, PaidFew
        <4>2. CASE ~Work(r)
          BY <2>1, <2>2, <4>2 DEF Ask, Review, Rule, Start, OneInv
        <4> QED
          BY <4>1, <4>2
      <3> QED
        BY <2>1, <3>2, <3>3, <3>4 DEF OneInv
    <2>3. ASSUME UNCHANGED <<pc, job, known, log, alerts, reopened, paid>>
          PROVE  OneInv'
      <3>1. Calm
        BY <2>3 DEF Calm, Passed
      <3>2. Settled'
        BY <3>1, SettledStays, AcksAreReviews DEF OneInv
      <3>3. \A q \in Requests : Task(q)' /\ Few(q)'
        BY <2>1, <2>3, TaskStays DEF OneInv
      <3> QED
        BY <2>1, <2>3, <3>2, <3>3 DEF OneInv
    <2>4. CASE StudyNext /\ UNCHANGED accountVars
      <3>1. PICK r \in Requests : OnlyMoves(r) /\ pc'[r] \notin AwardStages
        BY <2>4, StudyMoves
      <3>2. Task(r)' /\ Few(r)'
        BY <3>1 DEF Task, Few, Looked, AwardStages
      <3>3. \A q \in Requests : Task(q)' /\ Few(q)'
        BY <2>1, <3>1, <3>2, TaskStep
      <3> QED
        BY <2>1, <2>4, <3>3, SettledStudy DEF OneInv, accountVars
    <2>5. CASE Tick /\ UNCHANGED accountVars
      BY <2>3, <2>5 DEF Tick, accountVars
    <2>7. CASE UNCHANGED vars
      BY <2>3, <2>7 DEF vars, accountVars
    <2> QED
      BY <2>2, <2>4, <2>5, <2>7 DEF Next
  <1>3. AwardInv => AwardTypes
    BY DEF AwardInv
  <1> QED
    BY <1>1, <1>2, <1>3, AwardInvHolds, PTL DEF Spec

\* A request is credited for an event, an item or an alert only if, as far as the
\* log remembers, it was rewarded less often than it may be when the request began,
\* however requests overlap, die and are forgotten; an alert that an operator made
\* new again is the one exception.
THEOREM AwardsOneByOneHolds == Spec => []AwardsOneByOne
  <1>1. OneInv => AwardsOneByOne
    BY DEF OneInv, AwardsOneByOne
  <1> QED
    BY <1>1, OneInvHolds, PTL

-----------------------------------------------------------------------------
(* No false calm: the score of a dashboard *)

\* What was counted is no less than what there was throughout.
Counted(r) ==
    /\ known[r].alerts \subseteq OpenOnes
    /\ known[r].swaps \subseteq sims
    /\ pc[r] \in DashboardStages => job[r] \in Dashboards
    /\ pc[r] \in DashboardStages \ {"counting alerts"} =>
         job[r].frozen \/ posture[r].critical >= Cardinality(known[r].alerts)
    /\ pc[r] \in {"comparing", "charting"} =>
         job[r].frozen \/ posture[r].swaps >= Cardinality(Lately(known[r].swaps))

\* A score that was charted is in the trend for as long as it is recent.
Shown(x) ==
    /\ x.at <= clock
    /\ x.score >= x.least
    /\ x.at = clock =>
         \E row \in trend.rows : row.score = x.score /\ (row.at = x.at \/ x.at - row.at < Recent)

CalmTypes ==
    /\ IsFiniteSet(alerts) /\ IsFiniteSet(sims)
    /\ posture \in [Requests -> [critical : Nat, swaps : Nat]]
    /\ \A row \in trend.rows : row.at \in Nat
    /\ DOMAIN trend = {"last", "rows"}
    /\ \A x \in charted : x.at \in Nat

CalmInv ==
    /\ CalmTypes
    /\ \A r \in Requests : Counted(r)
    /\ \A x \in charted : Shown(x)

\* What a request knows is less than before, or the same.
KnowsLess(q) ==
    known'[q].alerts \subseteq known[q].alerts /\ known'[q].swaps = known[q].swaps

LEMMA ScoreGrows ==
    ASSUME NEW c \in Nat, NEW d \in Nat, NEW s \in Nat, NEW t \in Nat, NEW o \in Nat,
           c >= d, s >= t
    PROVE  /\ Score(c, s, o) >= Score(d, t, 0)
           /\ Score(d, t, 0) <= 100
  <1>1. AtMost(40, 25 * c) >= AtMost(40, 25 * d) /\ AtMost(35, 20 * s) >= AtMost(35, 20 * t)
    BY DEF AtMost
  <1>2. /\ AtMost(40, 25 * c) \in Nat /\ AtMost(40, 25 * d) \in Nat
        /\ AtMost(35, 20 * s) \in Nat /\ AtMost(35, 20 * t) \in Nat
    BY DEF AtMost
  <1> QED
    BY <1>1, <1>2 DEF Score, AtMost

\* A part of a finite set has no more elements.
LEMMA PartsCount ==
    ASSUME NEW S, NEW T, IsFiniteSet(T), S \subseteq T
    PROVE  /\ IsFiniteSet(S) /\ Cardinality(S) \in Nat /\ Cardinality(T) \in Nat
           /\ Cardinality(S) <= Cardinality(T)
  BY FS_Subset, FS_CardinalityType

\* There are no more requests with open alerts than open alerts.
LEMMA OpenOnesCount ==
    ASSUME IsFiniteSet(alerts)
    PROVE  /\ IsFiniteSet(OpenOnes) /\ Cardinality(OpenOnes) \in Nat
           /\ Cardinality(Unresolved(alerts)) \in Nat
           /\ Cardinality(OpenOnes) <= Cardinality(Unresolved(alerts))
  <1> DEFINE f == [a \in Open(alerts) |-> a.by]
  <1>1. IsFiniteSet(Open(alerts))
    BY FS_Subset DEF Open
  <1>2. f \in Surjection(Open(alerts), OpenOnes)
    BY DEF Surjection, OpenOnes
  <1>3. Unresolved(alerts) = Open(alerts)
    BY DEF Unresolved, Open
  <1> QED
    BY <1>1, <1>2, <1>3, FS_Surjection, FS_CardinalityType

\* An alert gets a status: it stays open, or nobody counts on it any more.
LEMMA StatusMoves ==
    ASSUME IsFiniteSet(alerts), known \in [Requests -> Memory], alerts \subseteq Alert,
           NEW r \in Requests, Acknowledge(r) \/ ChangeStatus(r)
    PROVE  /\ IsFiniteSet(alerts')
           /\ \A q \in Requests : known[q].alerts \subseteq OpenOnes =>
                                     known'[q].alerts \subseteq OpenOnes'
  <1>1. PICK by, status : SetStatus(by, status)
    BY DEF Acknowledge, ChangeStatus
  <1> DEFINE Changed(a) == IF a.by = by THEN [a EXCEPT !.status = status] ELSE a
             f == [a \in alerts |-> Changed(a)]
  <1>2. alerts' = {Changed(a) : a \in alerts}
    BY <1>1 DEF SetStatus
  <1>3. f \in Surjection(alerts, alerts')
    BY <1>2 DEF Surjection
  <1>4. IsFiniteSet(alerts')
    BY <1>3, FS_Surjection
  <1>5. ASSUME NEW q \in Requests, known[q].alerts \subseteq OpenOnes, NEW b \in known'[q].alerts
        PROVE  b \in OpenOnes'
    <2>1. b \in known[q].alerts
      BY <1>5, StatusKnown
    <2>2. PICK a \in alerts : a.by = b /\ a.status \in {"new", "escalated"}
      BY <1>5, <2>1 DEF OpenOnes, Open
    <2>3. Changed(a) \in alerts' /\ Changed(a).by = b
      BY <1>2, <2>2 DEF Alert
    <2>4. CASE b # by
      <3>1. Changed(a) = a
        BY <2>2, <2>4
      <3> QED
        BY <2>2, <2>3, <3>1 DEF OpenOnes, Open
    <2>5. CASE b = by
      <3>1. known'[q].alerts = IF status \in {"new", "escalated"} THEN known[q].alerts
                               ELSE known[q].alerts \ {by}
        BY <1>1 DEF SetStatus, Memory
      <3>2. status \in {"new", "escalated"}
        BY <1>5, <2>5, <3>1
      <3>3. Changed(a).status = status
        BY <2>2, <2>5 DEF Alert
      <3> HIDE DEF Changed
      <3> QED
        BY <2>3, <3>2, <3>3 DEF OpenOnes, Open
    <2> QED
      BY <2>4, <2>5
  <1> QED
    BY <1>4, <1>5

\* SIM changes are recorded, one at a time, and never deleted.
LEMMA SimsMove ==
    ASSUME IsFiniteSet(sims), [Next]_vars
    PROVE  IsFiniteSet(sims') /\ sims \subseteq sims'
  <1>1. sims' = sims \/ \E s : sims' = sims \cup {s}
    <2>1. ASSUME NEW r \in Requests, Work(r)
          PROVE  sims' = sims \/ RecordSwap(r)
      BY <2>1
      DEF Work, accountVars, LookUpItem, TickOff, UnderTheCap, CheckAward, ReadPoints, Credit,
          LogAward, Reply, RaiseAlert, FindAlert, Acknowledge, ChangeStatus, PurgeAlerts,
          PurgeLog, PurgeTrend, CountAlerts, CountSwaps, CompareTrend, InsertTrend, Die
    <2>2. ASSUME NEW r \in Requests, Ask(r) \/ Review(r) \/ Rule(r)
          PROVE  sims' = sims
      BY <2>2 DEF Ask, Review, Rule, Start
    <2> QED
      BY <2>1, <2>2 DEF Next, vars, accountVars, RecordSwap
  <1> QED
    BY <1>1, FS_AddElement

\* Alerts stay finitely many, and one that a request counts on stays open.
LEMMA AlertsMove ==
    ASSUME IsFiniteSet(alerts), IsFiniteSet(sims), AwardTypes, known \in [Requests -> Memory],
           [Next]_vars
    PROVE  /\ IsFiniteSet(alerts') /\ IsFiniteSet(sims') /\ sims \subseteq sims'
           /\ \A q \in Requests :
                known[q].alerts \subseteq OpenOnes /\ KnowsLess(q) =>
                    known'[q].alerts \subseteq OpenOnes'
  <1> USE DEF accountVars
  <1>1. CASE alerts' = alerts
    <2>1. OpenOnes' = OpenOnes
      BY <1>1 DEF OpenOnes, Open
    <2> QED
      BY <1>1, <2>1, SimsMove DEF KnowsLess
  <1>2. ASSUME NEW r \in Requests, NEW s, AddAlert(r, s)
        PROVE  IsFiniteSet(alerts') /\ OpenOnes \subseteq OpenOnes'
    <2>1. PICK new : alerts' = alerts \cup {new}
      BY <1>2 DEF AddAlert
    <2> QED
      BY <2>1, FS_AddElement DEF OpenOnes, Open
  <1>3. ASSUME NEW r \in Requests, PurgeAlerts(r)
        PROVE  IsFiniteSet(alerts') /\ OpenOnes \subseteq OpenOnes'
    <2>1. /\ alerts' \subseteq alerts
          /\ \A a \in alerts : a.status \in {"new", "escalated"} => a \in alerts'
      BY <1>3 DEF PurgeAlerts
    <2> QED
      BY <2>1, FS_Subset DEF OpenOnes, Open
  <1>4. \/ alerts' = alerts
        \/ \E r \in Requests : \/ AddAlert(r, "new") \/ AddAlert(r, "escalated")
                               \/ PurgeAlerts(r) \/ Acknowledge(r) \/ ChangeStatus(r)
    <2>1. ASSUME NEW r \in Requests, Work(r)
          PROVE  \/ alerts' = alerts \/ AddAlert(r, "new") \/ AddAlert(r, "escalated")
                 \/ PurgeAlerts(r) \/ Acknowledge(r) \/ ChangeStatus(r)
      BY <2>1
      DEF Work, LookUpItem, TickOff, UnderTheCap, CheckAward, ReadPoints, Credit, LogAward, Reply,
          RecordSwap, RaiseAlert, FindAlert, PurgeLog, PurgeTrend, CountAlerts, CountSwaps,
          CompareTrend, InsertTrend, Die
    <2>2. ASSUME NEW r \in Requests, Ask(r) \/ Review(r) \/ Rule(r)
          PROVE  alerts' = alerts
      BY <2>2 DEF Ask, Review, Rule, Start
    <2> QED
      BY <2>1, <2>2 DEF Next, vars
  <1>5. ASSUME NEW r \in Requests, Acknowledge(r) \/ ChangeStatus(r)
        PROVE  /\ IsFiniteSet(alerts')
               /\ \A q \in Requests : known[q].alerts \subseteq OpenOnes =>
                                         known'[q].alerts \subseteq OpenOnes'
    BY <1>5, StatusMoves DEF AwardTypes
  <1>6. ASSUME IsFiniteSet(alerts') /\ OpenOnes \subseteq OpenOnes'
        PROVE  /\ IsFiniteSet(alerts')
               /\ \A q \in Requests : known[q].alerts \subseteq OpenOnes /\ KnowsLess(q) =>
                                         known'[q].alerts \subseteq OpenOnes'
    BY <1>6 DEF KnowsLess
  <1> QED
    BY <1>1, <1>2, <1>3, <1>4, <1>5, <1>6, SimsMove

\* A request that stays where it is: there is less of what it knew, not more.
LEMMA CountedStays ==
    ASSUME NEW q \in Requests, CalmTypes, CalmTypes', Counted(q), Rows, clock \in Nat,
           clock' \in Nat, clock <= clock', pc'[q] = pc[q], job'[q] = job[q],
           posture'[q] = posture[q], KnowsLess(q), known'[q].alerts \subseteq OpenOnes',
           sims \subseteq sims'
    PROVE  Counted(q)'
  <1>1. /\ known'[q].alerts \subseteq known[q].alerts /\ known'[q].swaps = known[q].swaps
        /\ known[q].swaps \subseteq Swap /\ known[q].alerts \subseteq OpenOnes
        /\ known[q].swaps \subseteq sims
    BY DEF KnowsLess, Counted, Rows, Memory
  <1>2. Lately(known[q].swaps)' \subseteq Lately(known[q].swaps)
    <2>1. ASSUME NEW s \in known[q].swaps, s.at >= clock' - RiskDays
          PROVE  s.at >= clock - RiskDays
      <3>1. s.at \in Nat /\ RiskDays \in Nat
        BY <1>1, AwarenessAssumption DEF Swap
      <3> QED
        BY <2>1, <3>1
    <2> QED
      BY <1>1, <2>1 DEF Lately
  <1>3. IsFiniteSet(known[q].alerts) /\ IsFiniteSet(Lately(known[q].swaps))
    <2>1. Lately(known[q].swaps) \subseteq sims
      BY <1>1 DEF Lately
    <2> QED
      BY <1>1, <2>1, OpenOnesCount, PartsCount DEF CalmTypes
  <1>4. /\ Cardinality(known[q].alerts) \in Nat /\ Cardinality(known'[q].alerts) \in Nat
        /\ Cardinality(known'[q].alerts) <= Cardinality(known[q].alerts)
    BY <1>1, <1>3, PartsCount
  <1>5. /\ Cardinality(Lately(known[q].swaps)) \in Nat /\ Cardinality(Lately(known[q].swaps)') \in Nat
        /\ Cardinality(Lately(known[q].swaps)') <= Cardinality(Lately(known[q].swaps))
    BY <1>2, <1>3, PartsCount
  <1>6. posture[q].critical \in Nat /\ posture[q].swaps \in Nat
    BY DEF CalmTypes
  <1>7. posture[q].critical >= Cardinality(known[q].alerts) =>
          posture[q].critical >= Cardinality(known'[q].alerts)
    BY <1>4, <1>6
  <1>8. posture[q].swaps >= Cardinality(Lately(known[q].swaps)) =>
          posture[q].swaps >= Cardinality(Lately(known[q].swaps)')
    BY <1>5, <1>6
  <1>9. known'[q].swaps \subseteq sims'
    BY <1>1
  <1> QED
    BY <1>7, <1>8, <1>9, Zenon DEF Counted

\* What a request at work knows: of its own it may forget everything.
LEMMA KnownMoves ==
    ASSUME known \in [Requests -> Memory], NEW r \in Requests, Work(r)
    PROVE  /\ \A q \in Requests \ {r} : KnowsLess(q)
           /\ known'[r] = NothingKnown \/ KnowsLess(r)
  <1>1. CASE Acknowledge(r) \/ ChangeStatus(r)
    BY <1>1, StatusKnown DEF KnowsLess
  <1>2. CASE known' = known
    BY <1>2 DEF KnowsLess
  <1>3. CASE known' = [known EXCEPT ![r] = NothingKnown]
    BY <1>3 DEF KnowsLess
  <1>4. \/ Acknowledge(r) \/ ChangeStatus(r) \/ known' = known
        \/ known' = [known EXCEPT ![r] = NothingKnown]
    BY DEF Work, accountVars, LookUpItem, TickOff, UnderTheCap, CheckAward, ReadPoints, Credit,
           LogAward, Reply, RecordSwap, RaiseAlert, FindAlert, PurgeAlerts, PurgeLog, PurgeTrend,
           CountAlerts, CountSwaps, CompareTrend, InsertTrend, Chart, Die
  <1> QED
    BY <1>1, <1>2, <1>3, <1>4

\* What a step of one request does to what dashboards count.
LEMMA CountedStep ==
    ASSUME CalmInv, CalmTypes', Rows, AwardTypes, [Next]_vars, NEW r \in Requests, OnlyMoves(r),
           clock' \in Nat, clock <= clock',
           \A q \in Requests \ {r} : KnowsLess(q) /\ posture'[q] = posture[q],
           Counted(r)'
    PROVE  \A q \in Requests : Counted(q)'
  <1>0. clock \in Nat /\ IsFiniteSet(alerts) /\ IsFiniteSet(sims) /\ CalmTypes
        /\ known \in [Requests -> Memory]
    BY DEF AwardTypes, CalmInv, CalmTypes, Rows
  <1>1. ASSUME NEW q \in Requests, q # r
        PROVE  Counted(q)'
    <2>1. pc'[q] = pc[q] /\ job'[q] = job[q] /\ posture'[q] = posture[q] /\ KnowsLess(q)
      BY <1>1 DEF OnlyMoves
    <2>2. Counted(q) /\ known[q].alerts \subseteq OpenOnes
      BY DEF CalmInv, Counted
    <2>3. known'[q].alerts \subseteq OpenOnes' /\ sims \subseteq sims'
      BY <1>0, <2>1, <2>2, AlertsMove
    <2> QED
      BY <1>0, <2>1, <2>2, <2>3, CountedStays
  <1> QED
    BY <1>1

\* A request that counts nothing knows no more than it knew.
LEMMA CountedElsewhere ==
    ASSUME CalmInv, Rows, AwardTypes, [Next]_vars, NEW r \in Requests,
           pc'[r] \notin DashboardStages, known'[r] = NothingKnown \/ KnowsLess(r)
    PROVE  Counted(r)'
  <1>0. /\ IsFiniteSet(alerts) /\ IsFiniteSet(sims) /\ known \in [Requests -> Memory]
        /\ known[r].alerts \subseteq OpenOnes /\ known[r].swaps \subseteq sims
    BY DEF AwardTypes, CalmInv, CalmTypes, Rows, Counted
  <1>1. CASE KnowsLess(r)
    <2>1. known'[r].alerts \subseteq OpenOnes' /\ sims \subseteq sims'
      BY <1>0, <1>1, AlertsMove
    <2>2. known'[r].swaps \subseteq sims'
      BY <1>0, <1>1, <2>1 DEF KnowsLess
    <2> QED
      BY <2>1, <2>2 DEF Counted, DashboardStages
  <1>2. CASE known'[r] = NothingKnown
    <2>1. known'[r].alerts = {} /\ known'[r].swaps = {}
      BY <1>2 DEF NothingKnown
    <2> QED
      BY <2>1 DEF Counted, DashboardStages
  <1> QED
    BY <1>1, <1>2

\* The score of a dashboard is no less than what there was throughout.
LEMMA ScoreSuffices ==
    ASSUME CalmInv, Rows, NEW r \in Requests, pc[r] \in {"comparing", "charting"}
    PROVE  ScoreOf(r) >= Score(Cardinality(known[r].alerts), Cardinality(Lately(known[r].swaps)), 0)
  <1> DEFINE open == Cardinality(known[r].alerts)
             late == Cardinality(Lately(known[r].swaps))
  <1>1. open \in Nat /\ late \in Nat
    <2>1. known[r].alerts \subseteq OpenOnes /\ Lately(known[r].swaps) \subseteq sims
      BY DEF CalmInv, Counted, Lately
    <2>2. IsFiniteSet(OpenOnes) /\ IsFiniteSet(sims)
      BY OpenOnesCount DEF CalmInv, CalmTypes
    <2> QED
      BY <2>1, <2>2, PartsCount
  <1>2. posture[r].critical \in Nat /\ posture[r].swaps \in Nat
    BY DEF CalmInv, CalmTypes
  <1>3. job[r] \in Dashboards
    BY DEF CalmInv, Counted, DashboardStages
  <1>4. job[r].other \in Nat
    BY <1>3, AwarenessAssumption DEF Dashboards
  <1>7. ~job[r].frozen => posture[r].critical >= open /\ posture[r].swaps >= late
    BY Zenon DEF CalmInv, Counted, DashboardStages
  <1> HIDE DEF open, late
  <1>5. CASE job[r].frozen
    <2>1. Score(open, late, 0) <= 100 /\ ScoreOf(r) = 100
      BY <1>1, <1>5, ScoreGrows DEF ScoreOf
    <2>2. Score(open, late, 0) \in Int
      BY <1>1 DEF Score, AtMost
    <2>3. ScoreOf(r) >= Score(open, late, 0)
      BY <2>1, <2>2
    <2> QED
      BY <2>3 DEF open, late
  <1>6. CASE ~job[r].frozen
    <2>1. posture[r].critical >= open /\ posture[r].swaps >= late
      BY <1>6, <1>7
    <2>2. ScoreOf(r) >= Score(open, late, 0)
      BY <1>6, <2>1, <1>1, <1>2, <1>4, ScoreGrows DEF ScoreOf
    <2> QED
      BY <2>2 DEF open, late
  <1> QED
    BY <1>5, <1>6

\* A request begins and knows what there is.
LEMMA CountedStart ==
    ASSUME CalmInv, AwardTypes, NEW r \in Requests, known \in [Requests -> Memory],
           NEW j \in Claims \cup Reviews \cup Decisions, Start(r, j)
    PROVE  Counted(r)'
  <1> USE DEF GoTo
  <1>0. pc \in [Requests -> Stages] /\ job \in [Requests -> Job]
    BY DEF AwardTypes
  <1>1. /\ pc'[r] = FirstStage(j.kind) /\ job'[r] = j /\ UNCHANGED <<sims, alerts>>
        /\ known'[r].alerts = OpenOnes /\ known'[r].swaps = sims
    BY <1>0 DEF Start
  <1>2. OpenOnes' = OpenOnes
    BY <1>1 DEF OpenOnes, Open
  <1>3. /\ pc'[r] \in DashboardStages => j \in Dashboards
        /\ pc'[r] \notin DashboardStages \ {"counting alerts"}
    BY <1>1, AwarenessAssumption
    DEF FirstStage, DashboardStages, Rewards, Checklists, Capped, Swaps, Dashboards, Reviews,
        Decisions
  <1> QED
    BY <1>1, <1>2, <1>3 DEF Counted, DashboardStages

\* What dashboards counted suffices after every step of a request.
LEMMA CountedWork ==
    ASSUME CalmInv, CalmTypes', OneInv, AwardTypes, [Next]_vars, NEW r \in Requests, OnlyMoves(r),
           (\E j \in Claims \cup Reviews \cup Decisions : Start(r, j)) \/ Work(r), clock' = clock
    PROVE  \A q \in Requests : Counted(q)'
  <1> USE DEF GoTo, accountVars
  <1>0. /\ pc \in [Requests -> Stages] /\ job \in [Requests -> Job] /\ known \in [Requests -> Memory]
        /\ posture \in [Requests -> [critical : Nat, swaps : Nat]]
        /\ Counted(r) /\ Rows
    BY DEF AwardTypes, Rows, CalmInv, CalmTypes, OneInv
  <1>a. ASSUME \A q \in Requests \ {r} : KnowsLess(q) /\ posture'[q] = posture[q], Counted(r)'
        PROVE  \A q \in Requests : Counted(q)'
    <2>1. clock' \in Nat /\ clock <= clock'
      BY DEF AwardTypes
    <2> QED
      BY <1>0, <1>a, <2>1, CountedStep
  <1>b. ASSUME Work(r), posture' = posture \/ posture' = [posture EXCEPT ![r] = NoPosture],
               pc'[r] \notin DashboardStages
        PROVE  \A q \in Requests : Counted(q)'
    <2>1. \A q \in Requests \ {r} : posture'[q] = posture[q]
      BY <1>0, <1>b
    <2> QED
      BY <1>0, <1>a, <1>b, <2>1, KnownMoves, CountedElsewhere
  <1>2. ASSUME NEW j \in Claims \cup Reviews \cup Decisions, Start(r, j)
        PROVE  \A q \in Requests : Counted(q)'
    <2>1. \A q \in Requests \ {r} : KnowsLess(q) /\ posture'[q] = posture[q]
      BY <1>0, <1>2 DEF Start, KnowsLess
    <2> QED
      BY <1>0, <1>2, <2>1, CountedStart, <1>a
  <1>3. CASE CountAlerts(r)
    <2>1. /\ pc[r] = "counting alerts" /\ UNCHANGED <<job, known, sims, alerts>>
          /\ \/ /\ job[r].frozen /\ pc'[r] = "comparing" /\ posture' = posture
             \/ /\ ~job[r].frozen /\ pc'[r] = "counting swaps"
                /\ posture' = [posture EXCEPT ![r].critical = Cardinality(Unresolved(alerts))]
      BY <1>0, <1>3 DEF CountAlerts
    <2>2. /\ IsFiniteSet(OpenOnes) /\ Cardinality(OpenOnes) \in Nat
          /\ Cardinality(Unresolved(alerts)) \in Nat
          /\ Cardinality(OpenOnes) <= Cardinality(Unresolved(alerts))
      BY OpenOnesCount DEF CalmInv, CalmTypes
    <2>3. Cardinality(known[r].alerts) \in Nat /\ Cardinality(known[r].alerts) <= Cardinality(OpenOnes)
      BY <1>0, <2>2, PartsCount DEF Counted
    <2>4. /\ \A q \in Requests \ {r} : posture'[q] = posture[q]
          /\ ~job[r].frozen => posture'[r].critical = Cardinality(Unresolved(alerts))
      BY <1>0, <2>1
    <2>5. ~job[r].frozen => posture'[r].critical >= Cardinality(known'[r].alerts)
      <3>1. ~job[r].frozen => posture'[r].critical >= Cardinality(known[r].alerts)
        BY <2>2, <2>3, <2>4
      <3>2. known' = known
        BY <2>1
      <3> QED
        BY <3>1, <3>2
    <2>6. OpenOnes' = OpenOnes
      BY <2>1 DEF OpenOnes, Open
    <2>7. Counted(r)'
      BY <1>0, <2>1, <2>5, <2>6, Zenon DEF Counted, DashboardStages
    <2> QED
      BY <2>1, <2>4, <2>7, <1>a DEF KnowsLess
  <1>4. CASE CountSwaps(r)
    <2>1. /\ pc[r] = "counting swaps" /\ UNCHANGED <<job, known, sims, alerts>>
          /\ pc'[r] = "comparing"
          /\ posture' = [posture EXCEPT ![r].swaps = Cardinality(Lately(sims))]
      BY <1>0, <1>4 DEF CountSwaps
    <2>2. OpenOnes' = OpenOnes /\ Lately(known[r].swaps)' = Lately(known[r].swaps)
      BY <2>1 DEF OpenOnes, Open, Lately
    <2>3. /\ posture'[r].swaps = Cardinality(Lately(sims))
          /\ posture'[r].critical = posture[r].critical
          /\ \A q \in Requests \ {r} : posture'[q] = posture[q]
      BY <1>0, <2>1
    <2>4. IsFiniteSet(Lately(sims)) /\ Lately(known[r].swaps) \subseteq Lately(sims)
      <3>1. Lately(sims) \subseteq sims /\ IsFiniteSet(sims)
        BY DEF Lately, CalmInv, CalmTypes
      <3> QED
        BY <1>0, <3>1, PartsCount DEF Lately, Counted
    <2>5. Cardinality(Lately(sims)) >= Cardinality(Lately(known[r].swaps))
      BY <2>4, PartsCount
    <2>6. posture'[r].swaps >= Cardinality(Lately(known[r].swaps)')
      BY <2>2, <2>3, <2>5
    <2>7. Counted(r)'
      BY <1>0, <2>1, <2>2, <2>3, <2>6, Zenon DEF Counted, DashboardStages
    <2> QED
      BY <2>1, <2>3, <2>7, <1>a DEF KnowsLess
  <1>5. CASE CompareTrend(r) \/ InsertTrend(r)
    <2>1. CASE Chart(r)
      <3>1. posture' = [posture EXCEPT ![r] = NoPosture] /\ pc'[r] = "done"
        BY <1>0, <2>1 DEF Chart
      <3> QED
        BY <3>1, <1>5, <1>b DEF DashboardStages, Work
    <2>2. CASE ~Chart(r)
      <3>1. /\ pc[r] = "comparing" /\ pc'[r] = "charting"
            /\ UNCHANGED <<job, known, posture, sims, alerts>>
        BY <1>0, <1>5, <2>2 DEF CompareTrend, InsertTrend
      <3>2. OpenOnes' = OpenOnes /\ Lately(known[r].swaps)' = Lately(known[r].swaps)
        BY <3>1 DEF OpenOnes, Open, Lately
      <3>3. Counted(r)'
        BY <1>0, <3>1, <3>2, Zenon DEF Counted, DashboardStages
      <3> QED
        BY <3>1, <3>3, <1>a DEF KnowsLess
    <2> QED
      BY <2>1, <2>2
  <1>6. CASE \/ LookUpItem(r) \/ TickOff(r) \/ UnderTheCap(r) \/ CheckAward(r) \/ ReadPoints(r)
             \/ Credit(r) \/ LogAward(r) \/ Reply(r) \/ RaiseAlert(r) \/ FindAlert(r)
    <2>1. posture' = posture /\ pc'[r] \notin DashboardStages
      BY <1>0, <1>6
      DEF LookUpItem, TickOff, UnderTheCap, CheckAward, ReadPoints, Credit, LogAward, Reply,
          RaiseAlert, FindAlert, DashboardStages
    <2> QED
      BY <1>6, <1>b, <2>1 DEF Work
  <1>7. CASE \/ RecordSwap(r) \/ Acknowledge(r) \/ ChangeStatus(r) \/ PurgeAlerts(r)
             \/ PurgeLog(r) \/ PurgeTrend(r) \/ Die(r)
    <2>1. posture' = posture /\ pc'[r] \notin DashboardStages
      BY <1>0, <1>7
      DEF RecordSwap, Acknowledge, ChangeStatus, PurgeAlerts, PurgeLog, PurgeTrend, Die,
          DashboardStages
    <2> QED
      BY <1>7, <1>b, <2>1 DEF Work
  <1> QED
    BY <1>2, <1>3, <1>4, <1>5, <1>6, <1>7 DEF Work

\* The row of a score that was charted is not taken as long as it is recent.
LEMMA ShownStays ==
    ASSUME CalmInv, clock \in Nat, clock' = clock, NEW x \in charted,
           \/ trend.rows \subseteq trend'.rows
           \/ trend'.rows = {row \in trend.rows : row.at >= clock - AuditDays}
    PROVE  Shown(x)' /\ x.at \in Nat
  <1>1. Shown(x) /\ x.at \in Nat /\ \A row \in trend.rows : row.at \in Nat
    BY DEF CalmInv, CalmTypes
  <1>2. ASSUME x.at = clock
        PROVE  \E row \in trend'.rows :
                   row.score = x.score /\ (row.at = x.at \/ x.at - row.at < Recent)
    <2>1. PICK row \in trend.rows :
                 row.score = x.score /\ (row.at = x.at \/ x.at - row.at < Recent)
      BY <1>1, <1>2 DEF Shown
    <2>2. row.at >= clock - AuditDays
      BY <1>1, <1>2, <2>1, AwarenessAssumption
    <2> QED
      BY <2>1, <2>2
  <1> QED
    BY <1>1, <1>2 DEF Shown

\* A dashboard that is charted shows no less than there was throughout.
LEMMA ChartedWork ==
    ASSUME CalmInv, OneInv, AwardTypes, NEW r \in Requests, Work(r)
    PROVE  /\ \A x \in charted' : Shown(x)' /\ x.at \in Nat
           /\ \A row \in trend'.rows : row.at \in Nat
           /\ DOMAIN trend' = {"last", "rows"}
  <1>0. /\ clock \in Nat /\ clock' = clock /\ DOMAIN trend = {"last", "rows"}
        /\ \A row \in trend.rows : row.at \in Nat
    BY DEF AwardTypes, CalmInv, CalmTypes, Work, accountVars, LookUpItem, TickOff, UnderTheCap,
           CheckAward, ReadPoints, Credit, LogAward, Reply, RecordSwap, RaiseAlert, FindAlert,
           Acknowledge, ChangeStatus, PurgeAlerts, PurgeLog, PurgeTrend, CountAlerts, CountSwaps,
           CompareTrend, InsertTrend, Die
  <1>1. ASSUME NEW x \in charted, trend.rows \subseteq trend'.rows
        PROVE  Shown(x)' /\ x.at \in Nat
    BY <1>0, <1>1, ShownStays
  <1>2. ASSUME Chart(r), pc[r] \in {"comparing", "charting"}, trend.rows \subseteq trend'.rows,
               \E row \in trend'.rows :
                   row.score = ScoreOf(r) /\ (row.at = clock \/ clock - row.at < Recent)
        PROVE  \A x \in charted' : Shown(x)' /\ x.at \in Nat
    <2> DEFINE least == Score(Cardinality(known[r].alerts), Cardinality(Lately(known[r].swaps)), 0)
    <2>1. PICK new : /\ charted' = charted \cup {new} /\ new.at = clock /\ new.score = ScoreOf(r)
                     /\ new.least = least
      <3> DEFINE row == [score |-> ScoreOf(r), at |-> clock, least |-> least]
      <3>1. charted' = charted \cup {row}
        BY <1>2 DEF Chart
      <3>2. row.at = clock /\ row.score = ScoreOf(r) /\ row.least = least
        OBVIOUS
      <3> HIDE DEF row
      <3> QED
        BY <3>1, <3>2
    <2>2. new.score >= new.least
      BY <1>2, <2>1, ScoreSuffices DEF OneInv
    <2>3. Shown(new)'
      BY <1>0, <1>2, <2>1, <2>2 DEF Shown
    <2> QED
      BY <1>0, <1>1, <1>2, <2>1, <2>3
  <1>3. CASE CompareTrend(r)
    <2>1. trend' = trend /\ pc[r] = "comparing"
      BY <1>3 DEF CompareTrend
    <2>2. CASE Chart(r) /\ \E row \in trend.rows : Repeats(row, ScoreOf(r))
      BY <1>0, <1>2, <2>1, <2>2 DEF Repeats
    <2>3. CASE charted' = charted
      BY <1>0, <1>1, <2>1, <2>3
    <2> QED
      BY <1>3, <2>2, <2>3 DEF CompareTrend
  <1>4. CASE InsertTrend(r)
    <2>1. PICK new : /\ trend' = [last |-> trend.last + 1, rows |-> trend.rows \cup {new}]
                     /\ new.score = ScoreOf(r) /\ new.at = clock
      <3> DEFINE row == [id |-> trend.last + 1, score |-> ScoreOf(r), at |-> clock]
      <3>1. trend' = [last |-> trend.last + 1, rows |-> trend.rows \cup {row}]
        BY <1>4 DEF InsertTrend
      <3>2. row.score = ScoreOf(r) /\ row.at = clock
        OBVIOUS
      <3> HIDE DEF row
      <3> QED
        BY <3>1, <3>2
    <2>2. trend'.rows = trend.rows \cup {new} /\ DOMAIN trend' = {"last", "rows"}
      BY <2>1
    <2> QED
      BY <1>0, <1>2, <1>4, <2>1, <2>2 DEF InsertTrend
  <1>5. CASE UNCHANGED <<charted, trend>>
    BY <1>0, <1>1, <1>5
  <1>7. CASE PurgeTrend(r)
    <2>1. /\ charted' = charted /\ DOMAIN trend' = {"last", "rows"}
          /\ trend'.rows = {row \in trend.rows : row.at >= clock - AuditDays}
      BY <1>0, <1>7 DEF PurgeTrend
    <2> QED
      BY <1>0, <2>1, ShownStays
  <1>6. CompareTrend(r) \/ InsertTrend(r) \/ PurgeTrend(r) \/ UNCHANGED <<charted, trend>>
    BY DEF Work, accountVars, LookUpItem, TickOff, UnderTheCap, CheckAward, ReadPoints, Credit,
           LogAward, Reply, RecordSwap, RaiseAlert, FindAlert, Acknowledge, ChangeStatus,
           PurgeAlerts, PurgeLog, CountAlerts, CountSwaps, Die
  <1> QED
    BY <1>3, <1>4, <1>5, <1>6, <1>7

LEMMA PostureTypes ==
    ASSUME CalmTypes, AwardTypes, NEW r \in Requests,
           (\E j \in Claims \cup Reviews \cup Decisions : Start(r, j)) \/ Work(r)
    PROVE  posture' \in [Requests -> [critical : Nat, swaps : Nat]]
  <1>1. CASE CountAlerts(r)
    <2>1. Cardinality(Unresolved(alerts)) \in Nat
      BY OpenOnesCount DEF CalmTypes
    <2> QED
      BY <1>1, <2>1 DEF CountAlerts, CalmTypes
  <1>2. CASE CountSwaps(r)
    <2>1. Cardinality(Lately(sims)) \in Nat
      BY PartsCount DEF Lately, CalmTypes
    <2> QED
      BY <1>2, <2>1 DEF CountSwaps, CalmTypes
  <1>3. CASE CompareTrend(r) \/ InsertTrend(r)
    BY <1>3 DEF CompareTrend, InsertTrend, Chart, NoPosture, CalmTypes
  <1>4. CASE posture' = posture
    BY <1>4 DEF CalmTypes
  <1>5. CountAlerts(r) \/ CountSwaps(r) \/ CompareTrend(r) \/ InsertTrend(r) \/ posture' = posture
    BY DEF Start, Work, accountVars, LookUpItem, TickOff, UnderTheCap, CheckAward, ReadPoints,
           Credit, LogAward, Reply, RecordSwap, RaiseAlert, FindAlert, Acknowledge, ChangeStatus,
           PurgeAlerts, PurgeLog, PurgeTrend, Die
  <1> QED
    BY <1>1, <1>2, <1>3, <1>4, <1>5

\* CalmInv holds at the start and is preserved by every step.
LEMMA CalmInvHolds == Spec => []CalmInv
  <1>1. Init => CalmInv
    <2>1. Init => CalmTypes
      BY FS_EmptySet DEF Init, CalmTypes, NoPosture
    <2>2. ASSUME Init, NEW r \in Requests PROVE Counted(r)
      <3>1. /\ pc[r] = "idle" /\ pc[r] \notin DashboardStages
            /\ known[r].alerts = {} /\ known[r].swaps = {}
        BY <2>2 DEF Init, StudyInit, NothingKnown, DashboardStages
      <3> QED
        BY <3>1 DEF Counted, DashboardStages
    <2> QED
      BY <2>1, <2>2 DEF Init, CalmInv
  <1>2. CalmInv /\ OneInv /\ AwardTypes /\ AwardTypes' /\ [Next]_vars => CalmInv'
    <2> SUFFICES ASSUME CalmInv, OneInv, AwardTypes, AwardTypes', [Next]_vars
                 PROVE  CalmInv'
      OBVIOUS
    <2>1. /\ IsFiniteSet(alerts') /\ IsFiniteSet(sims') /\ sims \subseteq sims'
          /\ Rows /\ CalmTypes /\ known \in [Requests -> Memory]
          /\ \A q \in Requests : known[q].alerts \subseteq OpenOnes /\ KnowsLess(q) =>
                                    known'[q].alerts \subseteq OpenOnes'
      BY AlertsMove DEF CalmInv, CalmTypes, OneInv, Rows
    <2>2. ASSUME NEW r \in Requests,
                 (\E j \in Claims \cup Reviews \cup Decisions : Start(r, j)) \/ Work(r)
          PROVE  CalmInv'
      <3>1. OnlyMoves(r)
        BY <2>2, RowsHold, ReopenedGrows, TaskMoves
      <3>5. clock' = clock
        BY <2>2
        DEF Start, Work, accountVars, LookUpItem, TickOff, UnderTheCap, CheckAward, ReadPoints,
            Credit, LogAward, Reply, RecordSwap, RaiseAlert, FindAlert, Acknowledge, ChangeStatus,
            PurgeAlerts, PurgeLog, PurgeTrend, CountAlerts, CountSwaps, CompareTrend,
            InsertTrend, Die
      <3>2. /\ \A x \in charted' : Shown(x)' /\ x.at \in Nat
            /\ \A row \in trend'.rows : row.at \in Nat
            /\ DOMAIN trend' = {"last", "rows"}
        <4>1. CASE Work(r)
          BY <4>1, ChartedWork
        <4>2. CASE ~Work(r)
          BY <2>2, <4>2 DEF Start, CalmInv, CalmTypes, Shown
        <4> QED
          BY <4>1, <4>2
      <3>3. CalmTypes'
        BY <2>1, <2>2, <3>2, PostureTypes DEF CalmTypes
      <3>4. \A q \in Requests : Counted(q)'
        BY <2>2, <3>1, <3>3, <3>5, CountedWork
      <3> QED
        BY <3>2, <3>3, <3>4 DEF CalmInv
    <2>3. ASSUME UNCHANGED <<pc, job, known, posture>>, CalmTypes',
                 clock' \in Nat, clock <= clock', \A x \in charted' : Shown(x)'
          PROVE  CalmInv'
      <3>1. ASSUME NEW q \in Requests
            PROVE  Counted(q)'
        <4>1. Counted(q) /\ KnowsLess(q)
          BY <2>3 DEF CalmInv, KnowsLess
        <4>2. known'[q].alerts \subseteq OpenOnes' /\ clock \in Nat
          BY <2>1, <4>1 DEF Counted, AwardTypes
        <4> QED
          BY <2>1, <2>3, <4>1, <4>2, CountedStays
      <3> QED
        BY <2>3, <3>1 DEF CalmInv
    <2>4. CASE StudyNext /\ UNCHANGED accountVars
      <3>1. PICK r \in Requests : OnlyMoves(r) /\ pc'[r] \notin DashboardStages
        BY <2>4, StudyMoves
      <3>2. clock' = clock /\ UNCHANGED <<alerts, sims, trend, posture, known, charted>>
        BY <2>4 DEF StudyNext, StudyWork, Submit, Export, Prune, PopLeft, Count, AppendHit, Judge,
                    OpenRecord, FillRecord, OpenComment, FillComment, List, ReadNext,
                    EnforceRetention, Sweep, accountVars
      <3>3. CalmTypes' /\ \A q \in Requests : KnowsLess(q) /\ posture'[q] = posture[q]
        BY <2>1, <3>2 DEF CalmTypes, KnowsLess
      <3>4. clock' \in Nat /\ clock <= clock'
        BY <3>2 DEF AwardTypes
      <3>5. Counted(r)'
        BY <2>1, <3>1, <3>3, CountedElsewhere
      <3>6. \A q \in Requests : Counted(q)'
        BY <2>1, <3>1, <3>3, <3>4, <3>5, CountedStep
      <3> QED
        BY <3>2, <3>3, <3>6 DEF CalmInv, Shown
    <2>5. CASE Tick /\ UNCHANGED accountVars
      <3>1. CalmTypes'
        BY <2>1, <2>5 DEF CalmTypes, accountVars
      <3>2. \A x \in charted' : Shown(x)'
        BY <2>5 DEF CalmInv, CalmTypes, Shown, Tick, accountVars, AwardTypes
      <3>3. clock' \in Nat /\ clock <= clock' /\ UNCHANGED <<pc, job, known, posture>>
        BY <2>5 DEF Tick, AwardTypes, accountVars
      <3> QED
        BY <2>3, <3>1, <3>2, <3>3
    <2>7. CASE UNCHANGED vars
      <3>1. CalmTypes' /\ \A x \in charted' : Shown(x)'
        BY <2>1, <2>7 DEF vars, accountVars, CalmInv, CalmTypes, Shown
      <3>2. clock' \in Nat /\ clock <= clock' /\ UNCHANGED <<pc, job, known, posture>>
        BY <2>7 DEF vars, AwardTypes, accountVars
      <3> QED
        BY <2>3, <3>1, <3>2
    <2>8. ASSUME NEW r \in Requests, Ask(r) \/ Review(r) \/ Rule(r)
          PROVE  \E j \in Claims \cup Reviews \cup Decisions : Start(r, j)
      BY <2>8, OtherJobs
    <2> QED
      BY <2>2, <2>4, <2>5, <2>7, <2>8 DEF Next
  <1>3. AwardInv => AwardTypes
    BY DEF AwardInv
  <1> QED
    BY <1>1, <1>2, <1>3, AwardInvHolds, OneInvHolds, PTL DEF Spec

\* A dashboard never charts less than the account had throughout, and what it
\* charts is in the trend, whatever is raised, closed and retained meanwhile.
THEOREM NoFalseCalmHolds == Spec => []NoFalseCalm
  <1>1. CalmInv => NoFalseCalm
    BY DEF CalmInv, Shown, NoFalseCalm
  <1> QED
    BY <1>1, CalmInvHolds, PTL

-----------------------------------------------------------------------------
(* The window of the limiter *)

\* The hits that were dropped are the first ones of those let through.
Dropped == Len(admitted) - Len(hits)

\* A request in one of these has not been let through.
Early == {"idle", "pruning", "popping", "counting", "appending"}

\* Those let through before r began that are young at the time t.
Ahead(r, t) ==
    {k \in DOMAIN admitted : admitted[k].by \in behind[r] /\ admitted[k].at > t - Window}

\* The deque holds the last of those let through; unless two calls trod on each
\* other, those it holds no more are old.
Deque ==
    /\ hits \in Seq(Nat) /\ admitted \in Seq(Admission)
    /\ Dropped \in Nat
    /\ \A i \in 1..Len(hits) : hits[i] = admitted[Dropped + i].at
    /\ ~clash => \A i \in 1..Dropped : admitted[i].at <= clock - Window

\* Who was let through has begun, and was in nobody's way before.
Entered ==
    /\ behind \in [Requests -> SUBSET Through]
    /\ \A i \in DOMAIN admitted : pc[admitted[i].by] \notin Early

Room ==
    /\ \A r \in Requests : pc[r] = "appending" => Cardinality(Ahead(r, clock)) < Limit
    /\ \A i \in DOMAIN admitted :
         Cardinality(Ahead(admitted[i].by, admitted[i].when)) < Limit

WindowInv == Deque /\ Entered /\ (~clash => Room)

LEMMA AheadFinite ==
    ASSUME Deque, NEW r, NEW t
    PROVE  IsFiniteSet(Ahead(r, t)) /\ Cardinality(Ahead(r, t)) \in Nat
  <1>1. IsFiniteSet(1..Len(admitted))
    BY FS_Interval DEF Deque
  <1>2. Ahead(r, t) \subseteq 1..Len(admitted)
    BY DEF Ahead, Deque
  <1> QED
    BY <1>1, <1>2, FS_Subset, FS_CardinalityType

\* Unless two calls trod on each other, the deque holds whoever is young.
LEMMA YoungAreHeld ==
    ASSUME WindowInv, ~clash, NEW r \in Requests, clock \in Nat
    PROVE  Cardinality(Ahead(r, clock)) <= Len(hits)
  <1>1. /\ Len(admitted) \in Nat /\ Len(hits) \in Nat /\ Dropped \in Nat
        /\ DOMAIN admitted = 1..Len(admitted)
        /\ \A i \in 1..Dropped : admitted[i].at <= clock - Window
    BY DEF WindowInv, Deque
  <1>2. \A k \in 1..Len(admitted) : admitted[k] \in Admission
    BY DEF WindowInv, Deque
  <1>3. ASSUME NEW k \in Ahead(r, clock)
        PROVE  k \in (Dropped + 1)..Len(admitted)
    <2>1. k \in 1..Len(admitted) /\ admitted[k].at > clock - Window
      BY <1>1 DEF Ahead
    <2>2. admitted[k].at \in Nat
      BY <1>2, <2>1 DEF Admission
    <2>3. ~(admitted[k].at <= clock - Window)
      BY <2>1, <2>2, StudyAssumption
    <2>4. k \notin 1..Dropped
      BY <1>1, <2>3
    <2> QED
      BY <1>1, <2>1, <2>4
  <1>4. /\ IsFiniteSet((Dropped + 1)..Len(admitted))
        /\ Cardinality((Dropped + 1)..Len(admitted)) = Len(hits)
    <2>1. Len(admitted) = Dropped + Len(hits)
      BY <1>1 DEF Dropped
    <2>2. Dropped + 1 \in Int /\ Len(admitted) \in Int
      BY <1>1
    <2>3. /\ IsFiniteSet((Dropped + 1)..Len(admitted))
          /\ Cardinality((Dropped + 1)..Len(admitted)) =
               IF Dropped + 1 > Len(admitted) THEN 0 ELSE Len(admitted) - (Dropped + 1) + 1
      BY <2>2, FS_Interval
    <2> QED
      BY <1>1, <2>1, <2>3
  <1> QED
    BY <1>3, <1>4, FS_Subset

\* Fewer are young as time passes.
LEMMA AheadShrinks ==
    ASSUME Deque, NEW r, NEW t \in Nat, NEW u \in Nat, t <= u
    PROVE  Cardinality(Ahead(r, u)) <= Cardinality(Ahead(r, t))
  <1>1. \A k \in DOMAIN admitted : admitted[k].at \in Nat
    <2>1. \A k \in DOMAIN admitted : admitted[k] \in Admission
      BY DEF Deque
    <2> QED
      BY <2>1 DEF Admission
  <1>2. Ahead(r, u) \subseteq Ahead(r, t)
    BY <1>1, StudyAssumption DEF Ahead
  <1> QED
    BY <1>2, AheadFinite, FS_Subset

\* Steps that leave the limiter alone, and those that only look at the deque.
LEMMA WindowStays ==
    ASSUME WindowInv, UNCHANGED <<hits, admitted, behind, clash>>,
           clock \in Nat, clock' \in Nat, clock <= clock',
           \A q \in Requests : pc'[q] \in Early => pc[q] \in Early,
           \A q \in Requests : pc'[q] = "appending" =>
               pc[q] = "appending" \/ (~clash => Cardinality(Ahead(q, clock)) < Limit)
    PROVE  WindowInv'
  <1>1. Deque'
    <2>1. \A i \in DOMAIN admitted : admitted[i].at \in Nat
      <3>1. \A k \in DOMAIN admitted : admitted[k] \in Admission
        BY DEF WindowInv, Deque
      <3> QED
        BY <3>1 DEF Admission
    <2>2. DOMAIN admitted = 1..Len(admitted) /\ Len(admitted) \in Nat /\ Len(hits) \in Nat
          /\ Dropped \in Nat
      BY DEF WindowInv, Deque
    <2>3. \A i \in 1..Dropped : i \in DOMAIN admitted
      BY <2>2 DEF Dropped
    <2>4. ~clash => \A i \in 1..Dropped : admitted[i].at <= clock' - Window
      BY <2>1, <2>3, StudyAssumption DEF WindowInv, Deque
    <2> QED
      BY <2>4 DEF WindowInv, Deque, Dropped
  <1>2. Entered'
    <2>1. \A i \in DOMAIN admitted : admitted[i].by \in Requests
      <3>1. \A k \in DOMAIN admitted : admitted[k] \in Admission
        BY DEF WindowInv, Deque
      <3> QED
        BY <3>1 DEF Admission
    <2> QED
      BY <2>1 DEF WindowInv, Entered, Through
  <1>3. ASSUME ~clash
        PROVE  Room'
    <2>2. ASSUME NEW r \in Requests, pc'[r] = "appending"
          PROVE  Cardinality(Ahead(r, clock)') < Limit
      <3>1. Cardinality(Ahead(r, clock)) < Limit
        BY <1>3, <2>2 DEF WindowInv, Room
      <3>2. Cardinality(Ahead(r, clock')) <= Cardinality(Ahead(r, clock))
        BY AheadShrinks DEF WindowInv
      <3>3. Ahead(r, clock)' = Ahead(r, clock')
        BY DEF Ahead
      <3> QED
        BY <3>1, <3>2, <3>3, AheadFinite, StudyAssumption DEF WindowInv
    <2>3. ASSUME NEW i \in DOMAIN admitted
          PROVE  Cardinality(Ahead(admitted[i].by, admitted[i].when)') < Limit
      BY <1>3 DEF WindowInv, Room, Ahead
    <2> QED
      BY <2>2, <2>3 DEF Room
  <1> QED
    BY <1>1, <1>2, <1>3 DEF WindowInv

\* What the limiter needs to know of times and requests.
LEMMA WindowTypes ==
    ASSUME FileInv, AwardTypes
    PROVE  /\ clock \in Nat /\ pc \in [Requests -> Stages] /\ now \in [Requests -> Nat]
           /\ \A r \in Requests : now[r] <= clock
  BY DEF FileInv, FileTypes, Kept, AwardTypes

LEMMA AdmittedTypes ==
    ASSUME Deque
    PROVE  /\ Len(admitted) \in Nat /\ Len(hits) \in Nat /\ DOMAIN admitted = 1..Len(admitted)
           /\ \A i \in DOMAIN admitted : /\ admitted[i].by \in Requests
                                         /\ admitted[i].at \in Nat /\ admitted[i].when \in Nat
  <1>1. \A k \in DOMAIN admitted : admitted[k] \in Admission
    BY DEF Deque
  <1> QED
    BY <1>1 DEF Admission, Deque

\* A submission begins, behind all that were let through; it is in nobody's way.
LEMMA WindowSubmit ==
    ASSUME WindowInv, FileInv, AwardTypes, NEW r \in Requests, NEW s, Submit(r, s)
    PROVE  WindowInv'
  <1>1. /\ UNCHANGED <<clock, hits, admitted, clash>> /\ pc[r] = "idle" /\ pc'[r] = "pruning"
        /\ \A q \in Requests \ {r} : pc'[q] = pc[q] /\ behind'[q] = behind[q]
        /\ behind' = [behind EXCEPT ![r] = Through]
    BY WindowTypes DEF Submit, GoTo, WindowInv, Entered
  <1>2. Deque'
    BY <1>1 DEF WindowInv, Deque, Dropped
  <1>3. \A i \in DOMAIN admitted : admitted[i].by \in Requests \ {r}
    BY <1>1, AdmittedTypes DEF WindowInv, Entered, Early
  <1>4. Entered'
    <2>1. behind' \in [Requests -> SUBSET Through]
      BY <1>1 DEF WindowInv, Entered
    <2>2. Through' = Through
      BY <1>1 DEF Through
    <2> QED
      BY <1>1, <1>3, <2>1, <2>2 DEF WindowInv, Entered
  <1>5. ASSUME ~clash
        PROVE  Room'
    <2>1. ASSUME NEW q \in Requests, pc'[q] = "appending"
          PROVE  Cardinality(Ahead(q, clock)') < Limit
      BY <1>1, <1>5, <2>1 DEF WindowInv, Room, Ahead
    <2>2. ASSUME NEW i \in DOMAIN admitted
          PROVE  Cardinality(Ahead(admitted[i].by, admitted[i].when)') < Limit
      BY <1>1, <1>3, <1>5 DEF WindowInv, Room, Ahead
    <2> QED
      BY <1>1, <2>1, <2>2 DEF Room
  <1> QED
    BY <1>1, <1>2, <1>4, <1>5 DEF WindowInv

\* A hit is dropped: an old one, or two calls trod on each other.
LEMMA WindowPop ==
    ASSUME WindowInv, FileInv, AwardTypes, NEW r \in Requests, PopLeft(r), hits # <<>>
    PROVE  WindowInv'
  <1>1. /\ UNCHANGED <<clock, admitted, behind>> /\ hits' = Tail(hits)
        /\ clash' = (clash \/ ~IsOld(Head(hits), now[r]))
        /\ pc[r] = "popping" /\ pc'[r] = "pruning"
        /\ \A q \in Requests \ {r} : pc'[q] = pc[q]
    BY WindowTypes DEF PopLeft, GoTo
  <1>2. /\ hits \in Seq(Nat) /\ Len(hits) \in Nat /\ Len(hits) > 0 /\ Head(hits) = hits[1]
        /\ hits' \in Seq(Nat) /\ Len(hits') = Len(hits) - 1
        /\ \A i \in 1..Len(hits') : hits'[i] = hits[i + 1]
    BY <1>1 DEF WindowInv, Deque
  <1>3. /\ Dropped \in Nat /\ Dropped' = Dropped + 1 /\ Len(admitted) \in Nat
        /\ Dropped + Len(hits) = Len(admitted)
    BY <1>1, <1>2, AdmittedTypes DEF WindowInv, Deque, Dropped
  <1>4. hits[1] = admitted[Dropped + 1].at
    BY <1>2 DEF WindowInv, Deque
  <1>5. \A i \in 1..Len(hits') : hits'[i] = admitted[Dropped' + i].at
    <2>1. ASSUME NEW i \in 1..Len(hits')
          PROVE  hits'[i] = admitted[Dropped' + i].at
      <3>1. i + 1 \in 1..Len(hits) /\ Dropped + (i + 1) = Dropped' + i
        BY <1>2, <1>3
      <3> QED
        BY <1>2, <3>1 DEF WindowInv, Deque
    <2> QED
      BY <2>1
  <1>6. ~clash' => \A i \in 1..Dropped' : admitted[i].at <= clock - Window
    <2> SUFFICES ASSUME ~clash', NEW i \in 1..Dropped'
                 PROVE  admitted[i].at <= clock - Window
      OBVIOUS
    <2>1. ~clash /\ Head(hits) <= now[r] - Window
      BY <1>1 DEF IsOld
    <2>2. now[r] \in Nat /\ now[r] <= clock /\ clock \in Nat
      BY WindowTypes
    <2>3. CASE i = Dropped + 1
      <3>1. Head(hits) \in Nat /\ admitted[i].at = Head(hits)
        BY <1>2, <1>4, <2>3
      <3> QED
        BY <2>1, <2>2, <3>1, StudyAssumption
    <2>4. CASE i # Dropped + 1
      <3>1. i \in 1..Dropped
        BY <1>3, <2>4
      <3> QED
        BY <2>1, <3>1 DEF WindowInv, Deque
    <2> QED
      BY <2>3, <2>4
  <1>7. Deque'
    BY <1>1, <1>2, <1>3, <1>5, <1>6 DEF WindowInv, Deque
  <1>8. Entered'
    <2>1. \A i \in DOMAIN admitted : admitted[i].by \in Requests \ {r}
      BY <1>1, AdmittedTypes DEF WindowInv, Entered, Early
    <2> QED
      BY <1>1, <2>1 DEF WindowInv, Entered, Through
  <1>9. ~clash' => Room'
    <2>1. \A q \in Requests : pc'[q] = "appending" => pc[q] = "appending"
      BY <1>1
    <2> QED
      BY <1>1, <2>1 DEF WindowInv, Room, Ahead
  <1> QED
    BY <1>7, <1>8, <1>9 DEF WindowInv

\* A request is let through: it was not ahead of anybody, and there is room for it.
LEMMA WindowAppend ==
    ASSUME WindowInv, FileInv, AwardTypes, NEW r \in Requests, AppendHit(r)
    PROVE  WindowInv'
  <1> DEFINE n == Len(admitted)
  <1>1. /\ UNCHANGED <<clock, behind, clash>> /\ hits' = Append(hits, now[r])
        /\ pc[r] = "appending" /\ pc'[r] = "judging"
        /\ \A q \in Requests \ {r} : pc'[q] = pc[q]
        /\ clock \in Nat /\ now[r] \in Nat
    BY WindowTypes DEF AppendHit, GoTo
  <1>2. PICK new \in Admission : /\ admitted' = Append(admitted, new)
                                 /\ new.by = r /\ new.at = now[r] /\ new.when = clock
    <2>1. [by |-> r, at |-> now[r], when |-> clock] \in Admission
      BY <1>1 DEF Admission
    <2> QED
      BY <2>1 DEF AppendHit
  <1>3. /\ n \in Nat /\ DOMAIN admitted = 1..n
        /\ \A i \in 1..n : admitted[i].by \in Requests \ {r}
    BY <1>1, AdmittedTypes DEF WindowInv, Entered, Early
  <1>4. /\ admitted' \in Seq(Admission) /\ DOMAIN admitted' = 1..(n + 1) /\ Len(admitted') = n + 1
        /\ admitted'[n + 1] = new /\ \A i \in 1..n : admitted'[i] = admitted[i]
    BY <1>2 DEF WindowInv, Deque
  <1> HIDE DEF n
  <1>5. Deque'
    <2>1. /\ hits' \in Seq(Nat) /\ Len(hits) \in Nat /\ Len(hits') = Len(hits) + 1
          /\ hits'[Len(hits) + 1] = now[r] /\ \A i \in 1..Len(hits) : hits'[i] = hits[i]
      BY <1>1 DEF WindowInv, Deque
    <2>2. Dropped \in Nat /\ Dropped' = Dropped /\ Dropped + Len(hits) = n
      BY <1>3, <1>4, <2>1 DEF WindowInv, Deque, Dropped, n
    <2>3. ASSUME NEW i \in 1..Len(hits')
          PROVE  hits'[i] = admitted'[Dropped + i].at
      <3>1. CASE i = Len(hits) + 1
        BY <1>2, <1>4, <2>1, <2>2, <3>1
      <3>2. CASE i # Len(hits) + 1
        <4>1. i \in 1..Len(hits) /\ Dropped + i \in 1..n
          BY <2>1, <2>2, <3>2
        <4> QED
          BY <1>4, <2>1, <4>1 DEF WindowInv, Deque
      <3> QED
        BY <3>1, <3>2
    <2>4. \A i \in 1..Dropped : i \in 1..n
      BY <1>3, <2>1, <2>2
    <2> QED
      BY <1>1, <1>4, <2>1, <2>2, <2>3, <2>4 DEF WindowInv, Deque
  <1>6. Through' = Through \cup {r} /\ r \notin Through
    <2>1. \A i \in 1..(n + 1) : i \in 1..n \/ i = n + 1
      BY <1>3
    <2>2. n + 1 \in 1..(n + 1) /\ \A i \in 1..n : i \in 1..(n + 1)
      BY <1>3
    <2> QED
      BY <1>2, <1>3, <1>4, <2>1, <2>2 DEF Through
  <1>7. Entered'
    <2>1. \A i \in DOMAIN admitted' : pc'[admitted'[i].by] \notin Early
      <3>1. \A i \in 1..(n + 1) : i \in 1..n \/ i = n + 1
        BY <1>3
      <3>2. \A i \in 1..n : pc'[admitted'[i].by] \notin Early
        BY <1>1, <1>3, <1>4 DEF WindowInv, Entered
      <3>3. pc'[admitted'[n + 1].by] \notin Early
        BY <1>1, <1>2, <1>4 DEF Early
      <3> QED
        BY <1>4, <3>1, <3>2, <3>3
    <2> QED
      BY <1>1, <1>6, <2>1 DEF WindowInv, Entered
  <1>8. ASSUME NEW q \in Requests, NEW t
        PROVE  {k \in DOMAIN admitted' : admitted'[k].by \in behind[q]
                                           /\ admitted'[k].at > t - Window} = Ahead(q, t)
    <2>1. r \notin behind[q]
      BY <1>6 DEF WindowInv, Entered
    <2>2. \A i \in 1..(n + 1) : i \in 1..n \/ i = n + 1
      BY <1>3
    <2>3. \A i \in 1..n : i \in 1..(n + 1)
      BY <1>3
    <2> QED
      BY <1>2, <1>3, <1>4, <2>1, <2>2, <2>3 DEF Ahead
  <1>9. ASSUME ~clash
        PROVE  Room'
    <2>1. Room
      BY <1>9 DEF WindowInv
    <2>2. ASSUME NEW q \in Requests, pc'[q] = "appending"
          PROVE  Cardinality(Ahead(q, clock)') < Limit
      BY <1>1, <1>8, <2>1, <2>2 DEF Room, Ahead
    <2>3. ASSUME NEW i \in DOMAIN admitted'
          PROVE  Cardinality({k \in DOMAIN admitted' :
                                 /\ admitted'[k].by \in behind[admitted'[i].by]
                                 /\ admitted'[k].at > admitted'[i].when - Window}) < Limit
      <3>1. CASE i \in 1..n
        <4>1. admitted[i].by \in Requests /\ admitted'[i] = admitted[i]
          BY <1>3, <1>4, <3>1
        <4>2. Cardinality(Ahead(admitted[i].by, admitted[i].when)) < Limit
          BY <1>3, <2>1, <3>1 DEF Room
        <4> QED
          BY <1>8, <4>1, <4>2
      <3>2. CASE i \notin 1..n
        <4>1. i = n + 1
          BY <1>3, <1>4, <3>2
        <4>2. admitted'[i].by = r /\ admitted'[i].when = clock
          BY <1>2, <1>4, <4>1
        <4>3. Cardinality(Ahead(r, clock)) < Limit
          BY <1>1, <2>1 DEF Room
        <4> QED
          BY <1>8, <4>2, <4>3
      <3> QED
        BY <3>1, <3>2
    <2> QED
      BY <1>1, <2>2, <2>3 DEF Room, Ahead
  <1> QED
    BY <1>1, <1>5, <1>7, <1>9 DEF WindowInv

\* Looking at the deque, what follows it, exports and retention: they find room or
\* give up.
LEMMA WindowStudy ==
    ASSUME WindowInv, FileInv, AwardTypes, StudyNext
    PROVE  WindowInv'
  <1> USE DEF GoTo, studyVars
  <1>0. clock \in Nat /\ pc \in [Requests -> Stages]
    BY WindowTypes
  <1>1. ASSUME NEW r \in Requests, UNCHANGED <<clock, hits, admitted, behind, clash>>,
               \A q \in Requests \ {r} : pc'[q] = pc[q],
               pc'[r] \in Early => pc[r] \in Early,
               pc'[r] = "appending" =>
                   pc[r] = "appending" \/ (~clash => Cardinality(Ahead(r, clock)) < Limit)
        PROVE  WindowInv'
    BY <1>0, <1>1, WindowStays
  <1>2. ASSUME NEW r \in Requests, Prune(r) \/ (PopLeft(r) /\ hits = <<>>)
        PROVE  WindowInv'
    <2>1. /\ UNCHANGED <<clock, hits, admitted, behind, clash>> /\ pc[r] \in {"pruning", "popping"}
          /\ \A q \in Requests \ {r} : pc'[q] = pc[q]
          /\ pc'[r] \in {"popping", "counting", "failed"}
      BY <1>0, <1>2 DEF Prune, PopLeft
    <2> QED
      BY <1>1, <2>1 DEF Early
  <1>3. ASSUME NEW r \in Requests, Count(r)
        PROVE  WindowInv'
    <2>1. /\ UNCHANGED <<clock, hits, admitted, behind, clash>> /\ pc[r] = "counting"
          /\ \A q \in Requests \ {r} : pc'[q] = pc[q]
          /\ pc'[r] \in {"refused", "appending"}
          /\ pc'[r] = "appending" => ~(Len(hits) >= Limit)
      BY <1>0, <1>3 DEF Count, Full
    <2>2. ASSUME ~clash, pc'[r] = "appending"
          PROVE  Cardinality(Ahead(r, clock)) < Limit
      <3>1. Cardinality(Ahead(r, clock)) <= Len(hits)
        BY <1>0, <2>2, YoungAreHeld
      <3>2. Cardinality(Ahead(r, clock)) \in Nat /\ Len(hits) \in Nat
        BY AheadFinite, AdmittedTypes DEF WindowInv
      <3> QED
        BY <2>1, <2>2, <3>1, <3>2, StudyAssumption
    <2> QED
      BY <1>1, <2>1, <2>2 DEF Early
  <1>4. ASSUME NEW r \in Requests,
               \/ Judge(r) \/ OpenRecord(r) \/ FillRecord(r) \/ OpenComment(r) \/ FillComment(r)
               \/ List(r) \/ EnforceRetention(r) \/ \E e \in Exports : Export(r, e)
        PROVE  WindowInv'
    <2>1. /\ UNCHANGED <<clock, hits, admitted, behind, clash>>
          /\ \A q \in Requests \ {r} : pc'[q] = pc[q]
          /\ pc'[r] \notin Early
      BY <1>0, <1>4
      DEF Judge, OpenRecord, FillRecord, OpenComment, FillComment, List, Export,
          EnforceRetention, Early
    <2> QED
      BY <1>1, <2>1 DEF Early
  <1>5. ASSUME NEW r \in Requests, ReadNext(r) \/ Sweep(r)
        PROVE  WindowInv'
    <2>1. /\ UNCHANGED <<clock, hits, admitted, behind, clash>>
          /\ \A q \in Requests \ {r} : pc'[q] = pc[q]
          /\ pc'[r] \notin Early
      BY <1>0, <1>5 DEF ReadNext, Sweep, Early
    <2> QED
      BY <1>1, <2>1 DEF Early
  <1> QED
    BY <1>2, <1>3, <1>4, <1>5, WindowSubmit, WindowPop, WindowAppend DEF StudyNext, StudyWork

\* WindowInv holds at the start and is preserved by every step.
LEMMA WindowInvHolds == Spec => []WindowInv
  <1>1. Init => WindowInv
    BY DEF Init, StudyInit, WindowInv, Deque, Dropped, Entered, Room, Through
  <1>2. WindowInv /\ FileInv /\ AwardTypes /\ AwardTypes' /\ OneInv /\ [Next]_vars => WindowInv'
    <2> SUFFICES ASSUME WindowInv, FileInv, AwardTypes, AwardTypes', OneInv, [Next]_vars
                 PROVE  WindowInv'
      OBVIOUS
    <2>0. clock \in Nat /\ clock' \in Nat /\ pc \in [Requests -> Stages]
      BY DEF AwardTypes
    <2>1. CASE StudyNext
      BY <2>1, WindowStudy
    <2>2. ASSUME UNCHANGED <<hits, admitted, behind, clash>>, clock <= clock',
                 \A q \in Requests : pc'[q] = pc[q] \/ pc'[q] \notin Early
          PROVE  WindowInv'
      BY <2>0, <2>2, WindowStays DEF Early
    <2>3. ASSUME NEW r \in Requests, NEW j \in Claims \cup Reviews \cup Decisions, Start(r, j)
          PROVE  WindowInv'
      <3>1. FirstStage(j.kind) \notin Early
        BY AwarenessAssumption
        DEF FirstStage, Early, Rewards, Checklists, Capped, Swaps, Dashboards, Reviews, Decisions
      <3>2. /\ UNCHANGED <<clock, hits, admitted, behind, clash>>
            /\ \A q \in Requests : pc'[q] = pc[q] \/ pc'[q] = FirstStage(j.kind)
        BY <2>0, <2>3 DEF Start, GoTo, studyVars
      <3> QED
        BY <2>0, <2>2, <3>1, <3>2
    <2>4. ASSUME NEW r \in Requests, Work(r)
          PROVE  WindowInv'
      <3>1. UNCHANGED <<clock, hits, admitted, behind, clash>>
        BY <2>4
        DEF Work, studyVars, LookUpItem, TickOff, UnderTheCap, CheckAward, ReadPoints, Credit,
            LogAward, Reply, RecordSwap, RaiseAlert, FindAlert, Acknowledge, ChangeStatus,
            PurgeAlerts, PurgeLog, PurgeTrend, CountAlerts, CountSwaps, CompareTrend, InsertTrend,
            Die
      <3>2. \E s : s \notin Early /\ pc' = [pc EXCEPT ![r] = s]
        <4>1. CASE \/ LookUpItem(r) \/ UnderTheCap(r) \/ CheckAward(r) \/ FindAlert(r)
                   \/ CountAlerts(r) \/ CompareTrend(r)
          BY <4>1
          DEF GoTo, Early, LookUpItem, UnderTheCap, CheckAward, FindAlert, CountAlerts, CompareTrend,
              Chart
        <4>2. CASE \/ TickOff(r) \/ ReadPoints(r) \/ Credit(r) \/ LogAward(r) \/ Reply(r)
                   \/ RecordSwap(r) \/ RaiseAlert(r) \/ Acknowledge(r) \/ CountSwaps(r)
                   \/ InsertTrend(r) \/ Die(r)
          BY <4>2
          DEF GoTo, Early, TickOff, ReadPoints, Credit, LogAward, Reply, RecordSwap, RaiseAlert,
              Acknowledge, CountSwaps, InsertTrend, Chart, Die
        <4>3. CASE ChangeStatus(r) \/ PurgeAlerts(r) \/ PurgeLog(r) \/ PurgeTrend(r)
          BY <4>3 DEF GoTo, Early, ChangeStatus, PurgeAlerts, PurgeLog, PurgeTrend
        <4> QED
          BY <2>4, <4>1, <4>2, <4>3 DEF Work
      <3>3. \A q \in Requests : pc'[q] = pc[q] \/ pc'[q] \notin Early
        BY <2>0, <3>2
      <3> QED
        BY <2>0, <2>2, <3>1, <3>3
    <2>5. CASE Tick \/ UNCHANGED vars
      <3>1. UNCHANGED <<pc, hits, admitted, behind, clash>> /\ clock <= clock'
        BY <2>0, <2>5 DEF Tick, vars, studyVars
      <3> QED
        BY <2>2, <3>1
    <2>6. ASSUME NEW r \in Requests, Ask(r) \/ Review(r) \/ Rule(r)
          PROVE  \E j \in Claims \cup Reviews \cup Decisions : Start(r, j)
      BY <2>6, OtherJobs
    <2> QED
      BY <2>1, <2>3, <2>4, <2>5, <2>6 DEF Next
  <1>3. AwardInv => AwardTypes
    BY DEF AwardInv
  <1> QED
    BY <1>1, <1>2, <1>3, AwardInvHolds, FileInvHolds, OneInvHolds, PTL DEF Spec

\* As long as no two calls trod on each other in the deque, a submission is let
\* through only if fewer than Limit of those it came after are young, for any
\* number of requests, any limit and any window.
THEOREM AdmittedWithinLimitHolds == Spec => []AdmittedWithinLimit
  <1>1. WindowInv => AdmittedWithinLimit
    BY DEF WindowInv, Room, Ahead, AdmittedWithinLimit
  <1> QED
    BY <1>1, WindowInvHolds, PTL

-----------------------------------------------------------------------------
(* Types *)

\* An award that was credited.
Payment ==
    [by : Requests, event : Events, about : Requests \cup {"account"}, at : Nat, past : Nat]

\* What no other invariant says of a table, a history or a request: the names it
\* has still to read are of requests, and who looks at the dashboard asked for it.
RestTypes ==
    /\ names \in [Requests -> SUBSET Requests]
    /\ clash \in BOOLEAN
    /\ trend \in [last : Nat, rows : SUBSET [id : Nat, score : Nat, at : Nat]]
    /\ reopened \subseteq Requests
    /\ paid \subseteq Payment
    /\ charted \subseteq [score : Nat, at : Nat, least : Nat]
    /\ \A r \in Requests : pc[r] \in DashboardStages => job[r] \in Dashboards

LEMMA ScoreType ==
    ASSUME NEW c \in Nat, NEW s \in Nat, NEW o \in Nat
    PROVE  Score(c, s, o) \in Nat
  <1>1. AtMost(40, 25 * c) \in Nat /\ AtMost(35, 20 * s) \in Nat
    BY DEF AtMost
  <1>2. AtMost(40, 25 * c) + AtMost(35, 20 * s) + o \in Nat
    BY <1>1
  <1> QED
    BY <1>2 DEF Score, AtMost

\* The study lists and reads files; nobody in it looks at the dashboard.
LEMMA RestStudy ==
    ASSUME RestTypes, FileTypes, AwardTypes, StudyNext, UNCHANGED accountVars
    PROVE  RestTypes'
  <1> USE DEF GoTo
  <1>0. pc \in [Requests -> Stages] /\ DOMAIN job = Requests
    BY DEF AwardTypes
  <1>1. UNCHANGED <<trend, reopened, paid, charted>>
    BY DEF accountVars
  <1>2. PICK r \in Requests :
            \/ \E s \in Submissions : Submit(r, s)
            \/ \E e \in Exports : Export(r, e)
            \/ EnforceRetention(r)
            \/ StudyWork(r)
    BY DEF StudyNext
  <1>3. names' \in [Requests -> SUBSET Requests]
    <2>1. CASE List(r) \/ EnforceRetention(r)
      <3>1. \A dir : Listed(dir) \subseteq Requests
        BY DEF Listed, FileTypes
      <3> QED
        BY <2>1, <3>1 DEF List, EnforceRetention, RestTypes
    <2>2. CASE ReadNext(r)
      BY <2>2 DEF ReadNext, RestTypes
    <2>4. CASE Sweep(r)
      BY <2>4 DEF Sweep, RestTypes
    <2>3. CASE UNCHANGED names
      BY <2>3 DEF RestTypes
    <2> QED
      BY <1>2, <2>1, <2>2, <2>3, <2>4
      DEF StudyWork, Submit, Export, Prune, PopLeft, Count, AppendHit, Judge, OpenRecord, FillRecord,
          OpenComment, FillComment, studyVars
  <1>4. clash' \in BOOLEAN
    <2>1. CASE PopLeft(r)
      BY <2>1 DEF PopLeft, RestTypes
    <2>2. CASE UNCHANGED clash
      BY <2>2 DEF RestTypes
    <2> QED
      BY <1>2, <2>1, <2>2
      DEF StudyWork, Submit, Export, Prune, Count, AppendHit, Judge, OpenRecord, FillRecord,
          OpenComment, FillComment, List, ReadNext, EnforceRetention, Sweep, studyVars
  <1>5. /\ \A q \in Requests \ {r} : pc'[q] = pc[q] /\ job'[q] = job[q]
        /\ pc'[r] \notin DashboardStages
    BY <1>0, <1>2
    DEF StudyWork, Submit, Export, Prune, PopLeft, Count, AppendHit, Judge, OpenRecord, FillRecord,
        OpenComment, FillComment, List, ReadNext, EnforceRetention, Sweep, studyVars,
        DashboardStages
  <1> QED
    BY <1>1, <1>3, <1>4, <1>5 DEF RestTypes

LEMMA RestStart ==
    ASSUME RestTypes, AwardTypes, NEW r \in Requests,
           NEW j \in Claims \cup Reviews \cup Decisions, Start(r, j)
    PROVE  RestTypes'
  <1>1. UNCHANGED <<names, clash, trend, reopened, paid, charted>>
    BY DEF Start, studyVars
  <1>2. /\ \A q \in Requests \ {r} : pc'[q] = pc[q] /\ job'[q] = job[q]
        /\ pc'[r] = FirstStage(j.kind) /\ job'[r] = j
    BY DEF Start, GoTo, AwardTypes
  <1>3. FirstStage(j.kind) \in DashboardStages => j \in Dashboards
    <2>1. CASE j \in Rewards \cup Checklists \cup Capped \cup Swaps \cup Reviews \cup Decisions
      BY <2>1
      DEF FirstStage, DashboardStages, Rewards, Checklists, Capped, Swaps, Reviews, Decisions
    <2> QED
      BY <2>1, AwarenessAssumption
  <1> QED
    BY <1>1, <1>2, <1>3 DEF RestTypes

LEMMA RestCharted ==
    ASSUME RestTypes, AwardTypes, CalmInv, NEW r \in Requests, pc[r] \in DashboardStages
    PROVE  /\ ScoreOf(r) \in Nat
           /\ Chart(r) => charted' \subseteq [score : Nat, at : Nat, least : Nat]
  <1>1. ScoreOf(r) \in Nat
    <2>1. job[r].other \in Nat
      BY AwarenessAssumption DEF RestTypes, Dashboards
    <2>2. posture[r].critical \in Nat /\ posture[r].swaps \in Nat
      BY DEF CalmInv, CalmTypes
    <2> QED
      BY <2>1, <2>2, ScoreType DEF ScoreOf
  <1>2. ASSUME Chart(r)
        PROVE  charted' \subseteq [score : Nat, at : Nat, least : Nat]
    <2> DEFINE least == Score(Cardinality(known[r].alerts), Cardinality(Lately(known[r].swaps)), 0)
    <2>1. least \in Nat
      <3>1. known[r].alerts \subseteq OpenOnes /\ Lately(known[r].swaps) \subseteq sims
        BY DEF CalmInv, Counted, Lately
      <3>2. IsFiniteSet(OpenOnes) /\ IsFiniteSet(sims)
        BY OpenOnesCount DEF CalmInv, CalmTypes
      <3>3. Cardinality(known[r].alerts) \in Nat /\ Cardinality(Lately(known[r].swaps)) \in Nat
        BY <3>1, <3>2, PartsCount
      <3> QED
        BY <3>3, ScoreType
    <2>2. charted' = charted \cup {[score |-> ScoreOf(r), at |-> clock, least |-> least]}
      BY <1>2 DEF Chart
    <2> HIDE DEF least
    <2>3. [score |-> ScoreOf(r), at |-> clock, least |-> least]
              \in [score : Nat, at : Nat, least : Nat]
      BY <1>1, <2>1 DEF AwardTypes
    <2> QED
      BY <2>2, <2>3 DEF RestTypes
  <1> QED
    BY <1>1, <1>2

LEMMA RestWork ==
    ASSUME RestTypes, AwardTypes, OneInv, CalmInv, NEW r \in Requests, Work(r)
    PROVE  RestTypes'
  <1> USE DEF GoTo
  <1>0. pc \in [Requests -> Stages]
    BY DEF AwardTypes
  <1>1. UNCHANGED <<job, names, clash>>
    BY DEF Work, accountVars, studyVars, LookUpItem, TickOff, UnderTheCap, CheckAward, ReadPoints,
           Credit, LogAward, Reply, RecordSwap, RaiseAlert, FindAlert, Acknowledge, ChangeStatus,
           PurgeAlerts, PurgeLog, PurgeTrend, CountAlerts, CountSwaps, CompareTrend, InsertTrend,
           Die
  <1>2. /\ \A q \in Requests \ {r} : pc'[q] = pc[q]
        /\ pc'[r] \in DashboardStages => pc[r] \in DashboardStages
    BY <1>0
    DEF Work, LookUpItem, TickOff, UnderTheCap, CheckAward, ReadPoints,
        Credit, LogAward, Reply, RecordSwap, RaiseAlert, FindAlert, Acknowledge, ChangeStatus,
        PurgeAlerts, PurgeLog, PurgeTrend, CountAlerts, CountSwaps, CompareTrend, InsertTrend,
        Chart, Die, DashboardStages
  <1>3. CASE Credit(r)
    <2> DEFINE past == Cardinality(known[r].rewards \cap log)
               row == [by |-> r, event |-> job[r].event, about |-> job[r].about,
                       at |-> clock, past |-> past]
    <2>1. past \in Nat
      BY FS_Subset, FS_CardinalityType DEF OneInv, Rows
    <2>2. job[r].event \in Events /\ clock \in Nat /\ job[r] \in AwardJobs
      BY <1>3 DEF Credit, AwardTypes, AwardStages, OneInv, Task
    <2>5. job[r].about \in Requests \cup {"account"}
      BY <2>2 DEF AwardJobs, Rewards, Checklists, Capped, Reviews
    <2>3. paid' = paid \cup {row} /\ UNCHANGED <<trend, reopened, charted>>
      BY <1>3 DEF Credit
    <2> HIDE DEF past
    <2>4. row \in Payment
      BY <2>1, <2>2, <2>5 DEF Payment
    <2> HIDE DEF row
    <2> QED
      BY <1>1, <1>2, <2>3, <2>4 DEF RestTypes
  <1>4. CASE CompareTrend(r)
    <2>1. UNCHANGED <<trend, reopened, paid>> /\ (Chart(r) \/ charted' = charted)
          /\ pc[r] \in DashboardStages
      BY <1>4 DEF CompareTrend, DashboardStages
    <2>2. charted' \subseteq [score : Nat, at : Nat, least : Nat]
      BY <2>1, RestCharted DEF RestTypes
    <2> QED
      BY <1>1, <1>2, <2>1, <2>2 DEF RestTypes
  <1>5. CASE InsertTrend(r)
    <2> DEFINE row == [id |-> trend.last + 1, score |-> ScoreOf(r), at |-> clock]
    <2>1. paid' = paid /\ reopened' = reopened /\ Chart(r) /\ pc[r] \in DashboardStages
          /\ trend' = [last |-> trend.last + 1, rows |-> trend.rows \cup {row}]
      BY <1>5 DEF InsertTrend, DashboardStages
    <2>2. charted' \subseteq [score : Nat, at : Nat, least : Nat] /\ ScoreOf(r) \in Nat
      BY <2>1, RestCharted
    <2>3. row \in [id : Nat, score : Nat, at : Nat]
      BY <2>2 DEF RestTypes, AwardTypes
    <2> HIDE DEF row
    <2>4. trend' \in [last : Nat, rows : SUBSET [id : Nat, score : Nat, at : Nat]]
      <3>1. /\ trend.last + 1 \in Nat
            /\ trend.rows \cup {row} \subseteq [id : Nat, score : Nat, at : Nat]
        BY <2>3 DEF RestTypes
      <3> QED
        BY <2>1, <3>1
    <2> QED
      BY <1>1, <1>2, <2>1, <2>2, <2>4 DEF RestTypes
  <1>6. CASE UNCHANGED <<trend, reopened, paid, charted>>
    BY <1>1, <1>2, <1>6 DEF RestTypes
  <1>7. CASE ChangeStatus(r)
    <2>1. job[r].about \in Requests
      BY <1>7 DEF ChangeStatus, AwardTypes, Decisions
    <2>2. UNCHANGED <<trend, paid, charted>> /\ reopened' \subseteq reopened \cup {job[r].about}
      BY <1>7 DEF ChangeStatus
    <2> QED
      BY <1>1, <1>2, <2>1, <2>2 DEF RestTypes
  <1>8. CASE PurgeTrend(r)
    <2>1. /\ UNCHANGED <<reopened, paid, charted>>
          /\ trend' = [trend EXCEPT !.rows = {row \in @ : row.at >= clock - AuditDays}]
      BY <1>8 DEF PurgeTrend
    <2>2. trend' \in [last : Nat, rows : SUBSET [id : Nat, score : Nat, at : Nat]]
      BY <2>1 DEF RestTypes
    <2> QED
      BY <1>1, <1>2, <2>1, <2>2 DEF RestTypes
  <1> QED
    BY <1>3, <1>4, <1>5, <1>6, <1>7, <1>8
    DEF Work, accountVars, LookUpItem, TickOff, UnderTheCap, CheckAward, ReadPoints, LogAward,
        Reply, RecordSwap, RaiseAlert, FindAlert, Acknowledge, PurgeAlerts, PurgeLog, CountAlerts,
        CountSwaps, Die

LEMMA RestTypesHold == Spec => []RestTypes
  <1>1. ASSUME Init PROVE RestTypes
    <2>1. /\ names \in [Requests -> SUBSET Requests] /\ clash \in BOOLEAN
          /\ \A r \in Requests : pc[r] \notin DashboardStages
      BY <1>1 DEF Init, StudyInit, DashboardStages
    <2>2. reopened = {} /\ paid = {} /\ charted = {} /\ trend = [last |-> 0, rows |-> {}]
      BY <1>1 DEF Init
    <2> QED
      BY <2>1, <2>2 DEF RestTypes
  <1>2. RestTypes /\ FileTypes /\ AwardTypes /\ OneInv /\ CalmInv /\ [Next]_vars => RestTypes'
    <2> SUFFICES ASSUME RestTypes, FileTypes, AwardTypes, OneInv, CalmInv, [Next]_vars
                 PROVE  RestTypes'
      OBVIOUS
    <2>1. CASE StudyNext /\ UNCHANGED accountVars
      BY <2>1, RestStudy
    <2>2. CASE Tick /\ UNCHANGED accountVars
      BY <2>2 DEF Tick, studyVars, accountVars, RestTypes
    <2>3. ASSUME NEW r \in Requests, Ask(r) \/ Review(r) \/ Rule(r)
          PROVE  RestTypes'
      <3>1. PICK j \in Claims \cup Reviews \cup Decisions : Start(r, j)
        BY <2>3, OtherJobs
      <3> QED
        BY <3>1, RestStart
    <2>4. ASSUME NEW r \in Requests, Work(r)
          PROVE  RestTypes'
      BY <2>4, RestWork
    <2>6. CASE UNCHANGED vars
      BY <2>6 DEF vars, studyVars, accountVars, RestTypes
    <2> QED
      BY <2>1, <2>2, <2>3, <2>4, <2>6 DEF Next
  <1>3. AwardInv /\ FileInv => AwardTypes /\ FileTypes
    BY DEF AwardInv, FileInv
  <1> QED
    BY <1>1, <1>2, <1>3, AwardInvHolds, FileInvHolds, OneInvHolds, CalmInvHolds, PTL DEF Spec

\* Files, log, alerts, trend and history keep their shape, and every request is at
\* a known stage of a job it was given.
THEOREM TypeCorrect == Spec => []TypeOK
  <1>1. RestTypes /\ AwardTypes /\ FileTypes /\ WindowInv /\ Rows /\ CalmTypes => TypeOK
    <2> SUFFICES ASSUME RestTypes, AwardTypes, FileTypes, WindowInv, Rows, CalmTypes
                 PROVE  TypeOK
      OBVIOUS
    <2>1. behind \in [Requests -> SUBSET Requests]
      <3>1. Through \subseteq Requests
        BY AdmittedTypes DEF WindowInv, Through
      <3> QED
        BY <3>1 DEF WindowInv, Entered
    <2>2. StudyTypeOK
      BY <2>1 DEF StudyTypeOK, RestTypes, AwardTypes, FileTypes, WindowInv, Deque, Admission
    <2> QED
      BY <2>2 DEF TypeOK, RestTypes, Payment, AwardTypes, Rows, Memory, CalmTypes, Job
  <1>2. AwardInv /\ FileInv /\ OneInv /\ CalmInv => AwardTypes /\ FileTypes /\ Rows /\ CalmTypes
    BY DEF AwardInv, FileInv, OneInv, CalmInv
  <1> QED
    BY <1>1, <1>2, RestTypesHold, AwardInvHolds, FileInvHolds, OneInvHolds, CalmInvHolds,
       WindowInvHolds, PTL
=============================================================================
