------------------------------- MODULE Awareness -------------------------------
(***************************************************************************)
(* What a subscriber's account collects beside the money: alerts, a risk   *)
(* score with its trend (engine/account_risk.py), and the points and       *)
(* badges of engine/gamification.py for reading an alert, asking the       *)
(* assistant, spotting a scam, the checklist and the study.  Participants  *)
(* of the study claim their points over the same request threads, an       *)
(* operator gives alerts a status, and retention goes through the tables.  *)
(***************************************************************************)
EXTENDS Study

CONSTANTS
    Claims,             \* what is asked of the account
    Worth,              \* gamification.points
    Badges, Threshold,  \* gamification.badges and their min_points
    OneShot,            \* _ONE_SHOT
    Cap,                \* how often a route rewards an event, where it counts
    Others,             \* what transactions, devices and habits add to the score
    Rulings,            \* the statuses an operator gives to alerts
    Recent,             \* 30 minutes, in ticks
    RiskDays,           \* the 30 days for which a SIM change counts, in ticks
    AuditDays,          \* audit_log_days, of activity_log and risk_history, in ticks
    AlertDays           \* alert_log_days, in ticks

Events == DOMAIN Worth

\* _ALERT_STATUSES
Statuses == {"new", "escalated", "acknowledged", "resolved"}

\* What the route of the study and the quiz lets a subscriber claim; the checklist.
Rewards == [kind : {"claim"}, event : OneShot, about : {"account"}]
Checklists == [kind : {"checklist"}, event : Events, about : {"account"}]
Capped == [kind : {"question", "spot"}, event : DOMAIN Cap, about : {"account"}]
Swaps == [kind : {"swap"}, event : {"none"}, about : {"account"}]
Dashboards == [kind : {"dashboard"}, event : {"none"}, about : {"account"},
               frozen : BOOLEAN, other : Others]
Reviews == [kind : {"ack"}, event : {"reviewed_alert"}, about : Requests]
Decisions == [kind : {"status"}, event : {"none"}, about : Requests, status : Rulings]

ASSUME AwarenessAssumption ==
    /\ Worth \in [Events -> Nat] /\ Threshold \in [Badges -> Nat \ {0}] /\ OneShot \subseteq Events
    /\ "reviewed_alert" \in Events
    /\ Claims \subseteq Rewards \cup Checklists \cup Capped \cup Swaps \cup Dashboards
    /\ "account" \notin Requests
    /\ DOMAIN Cap \subseteq Events \ OneShot /\ Cap \in [DOMAIN Cap -> Nat \ {0}]
    /\ Others \subseteq Nat /\ Rulings \subseteq Statuses
    /\ Recent \in Nat /\ RiskDays \in Nat /\ AuditDays \in Nat /\ AlertDays \in Nat
    /\ Recent <= AuditDays + 1

VARIABLES
    points, badges,     \* of users
    log,                \* activity_log: what was rewarded, and the item ticked off
    alerts, sims,       \* alerts, and sim_events: SIM changes
    trend,              \* risk_history: its rows, and the id it gave last
    seen, posture,      \* per request: points and badges, alerts and events as read
    known,              \* history, per request: what there was when it began, and the
                        \* alerts that were open ever since
    reopened,           \* history: the alerts that an operator made new again
    paid, earned,       \* history: awards credited and what they are worth together
    charted             \* history: the scores charted, with the least they had to be

accountVars == <<points, badges, log, alerts, sims, trend, seen, posture, known, reopened,
                 paid, earned, charted>>
vars == <<clock, pc, job, studyVars, accountVars>>

Open(A) == {a \in A : a.status \in {"new", "escalated"}}

\* Faulty variant: an alert that was escalated no longer counts as open.
Unresolved_New(A) == {a \in A : a.status = "new"}

Unresolved(A) == {a \in A : a.status \in {"new", "escalated"}}

NoneSeen == [points |-> 0, badges |-> {}]
NoPosture == [critical |-> 0, swaps |-> 0]
NothingKnown == [rewards |-> {}, alerts |-> {}, swaps |-> {}]

Logged == [by : Requests, event : Events \cup {"ticked"}, about : Requests \cup {"account"},
           at : Nat]
Alert == [by : Requests, status : Statuses, at : Nat]
Swap == [by : Requests, at : Nat]

\* The stages of a request that collects points.
AwardStages ==
    {"looking up", "ticking", "replying", "capping", "finding", "acknowledging",
     "checking", "adding up", "crediting", "logging"}

Stages ==
    AwardStages \cup
    {"idle", "pruning", "popping", "counting", "appending", "judging", "opening",
     "filling", "opening comment", "filling comment", "listing", "reading", "sweeping",
     "purging alerts", "purging log", "purging trend", "recording", "alerting", "ruling",
     "counting alerts", "counting swaps", "comparing", "charting",
     "done", "refused", "failed", "dead"}

TypeOK ==
    /\ StudyTypeOK
    /\ pc \in [Requests -> Stages]
    /\ job \in [Requests -> {NoJob, Upkeep} \cup Submissions \cup Exports \cup Claims
                                 \cup Reviews \cup Decisions]
    /\ points \in Nat /\ earned \in Nat
    /\ badges \subseteq Badges
    /\ log \subseteq Logged /\ alerts \subseteq Alert /\ sims \subseteq Swap
    /\ trend \in [last : Nat, rows : SUBSET [id : Nat, score : Nat, at : Nat]]
    /\ seen \in [Requests -> [points : Nat, badges : SUBSET Badges]]
    /\ posture \in [Requests -> [critical : Nat, swaps : Nat]]
    /\ known \in [Requests -> [rewards : SUBSET Logged, alerts : SUBSET Requests,
                               swaps : SUBSET Swap]]
    /\ reopened \subseteq Requests
    /\ paid \subseteq [by : Requests, event : Events, about : Requests \cup {"account"},
                      at : Nat, past : Nat]
    /\ charted \subseteq [score : Nat, at : Nat, least : Nat]

Init ==
    /\ StudyInit
    /\ points = 0 /\ badges = {} /\ log = {}
    /\ alerts = {} /\ sims = {} /\ trend = [last |-> 0, rows |-> {}]
    /\ seen = [r \in Requests |-> NoneSeen]
    /\ posture = [r \in Requests |-> NoPosture]
    /\ known = [r \in Requests |-> NothingKnown]
    /\ reopened = {} /\ paid = {} /\ earned = 0 /\ charted = {}

\* log_activity
Log(r, event) ==
    log' = log \cup {[by |-> r, event |-> event, about |-> job[r].about, at |-> clock]}

Rewarded(event) == Cardinality({x \in log : x.event = event})

\* The alerts that are open, by the requests that raised them.
OpenOnes == {a.by : a \in Open(alerts)}

\* The rows that say that j was rewarded: of the checklist, that it was ticked off.
Remembered(j) ==
    {x \in log : IF j.kind = "checklist" THEN x.event = "ticked"
                 ELSE x.event = j.event /\ x.about = j.about}

FirstStage(kind) ==
    CASE kind = "claim" -> "checking"
      [] kind = "checklist" -> "looking up"
      [] kind = "question" -> "replying"
      [] kind = "spot" -> "capping"
      [] kind = "ack" -> "finding"
      [] kind = "status" -> "ruling"
      [] kind = "swap" -> "recording"
      [] kind = "dashboard" -> "counting alerts"

Start(r, j) ==
    /\ pc[r] = "idle"
    /\ job' = [job EXCEPT ![r] = j]
    /\ known' = [known EXCEPT ![r] =
           [rewards |-> Remembered(j), alerts |-> OpenOnes, swaps |-> sims]]
    /\ GoTo(r, FirstStage(j.kind))
    /\ UNCHANGED <<clock, studyVars, points, badges, log, alerts, sims, trend, seen,
                   posture, reopened, paid, earned, charted>>

\* A request of the subscriber: points for something, the dashboard, a SIM change.
Ask(r) == \E c \in Claims : Start(r, c)

\* An alert of the dashboard is acknowledged.
Review(r) ==
    \E a \in alerts : Start(r, [kind |-> "ack", event |-> "reviewed_alert", about |-> a.by])

\* set_alert_status, for an alert that is there.
Rule(r) ==
    \E a \in alerts, s \in Rulings :
        Start(r, [kind |-> "status", event |-> "none", about |-> a.by, status |-> s])

-----------------------------------------------------------------------------
(* Points *)

\* checklist: the item is looked up and ticked off, then rewarded.
LookUpItem(r) ==
    /\ pc[r] = "looking up"
    /\ GoTo(r, IF Rewarded("ticked") > 0 THEN "done" ELSE "ticking")
    /\ UNCHANGED <<clock, job, studyVars, accountVars>>

TickOff(r) ==
    /\ pc[r] = "ticking"
    /\ Log(r, "ticked")
    /\ GoTo(r, "checking")
    /\ UNCHANGED <<clock, job, studyVars, points, badges, alerts, sims, trend, seen, posture,
                   known, reopened, paid, earned, charted>>

\* chat and check: an event of this kind is rewarded up to a cap.
UnderTheCap(r) ==
    /\ pc[r] = "capping"
    /\ GoTo(r, IF Rewarded(job[r].event) < Cap[job[r].event] THEN "checking" ELSE "done")
    /\ UNCHANGED <<clock, job, studyVars, accountVars>>

\* Faulty variant: a one-shot event is rewarded every time.
MayAward_Always(event) == TRUE

MayAward(event) == event \in OneShot => Rewarded(event) = 0

CheckAward(r) ==
    /\ pc[r] = "checking"
    /\ GoTo(r, IF MayAward(job[r].event) THEN "adding up" ELSE "done")
    /\ UNCHANGED <<clock, job, studyVars, accountVars>>

ReadPoints(r) ==
    /\ pc[r] = "adding up"
    /\ seen' = [seen EXCEPT ![r] = [points |-> points, badges |-> badges]]
    /\ GoTo(r, "crediting")
    /\ UNCHANGED <<clock, job, studyVars, points, badges, log, alerts, sims, trend,
                   posture, known, reopened, paid, earned, charted>>

\* Faulty variant: the points are added to what there is by now.
Total_ByNow(r) == points + Worth[job[r].event]

Total(r) == seen[r].points + Worth[job[r].event]

\* The badges the points as read, with the new ones, are enough for.
Due(r) == {b \in Badges : Threshold[b] <= seen[r].points + Worth[job[r].event]}

Credit(r) ==
    /\ pc[r] = "crediting"
    /\ points' = Total(r)
    /\ badges' = seen[r].badges \cup Due(r)
    /\ paid' = paid \cup {[by |-> r, event |-> job[r].event, about |-> job[r].about,
                           at |-> clock, past |-> Cardinality(known[r].rewards \cap log)]}
    /\ earned' = earned + Worth[job[r].event]
    /\ seen' = [seen EXCEPT ![r] = NoneSeen]
    /\ known' = [known EXCEPT ![r] = NothingKnown]
    /\ GoTo(r, "logging")
    /\ UNCHANGED <<clock, job, studyVars, log, alerts, sims, trend, posture, reopened, charted>>

LogAward(r) ==
    /\ pc[r] = "logging"
    /\ Log(r, job[r].event)
    /\ GoTo(r, "done")
    /\ UNCHANGED <<clock, job, studyVars, points, badges, alerts, sims, trend, seen,
                   posture, known, reopened, paid, earned, charted>>

-----------------------------------------------------------------------------
(* Alerts *)

AddAlert(r, status) == alerts' = alerts \cup {[by |-> r, status |-> status, at |-> clock]}

\* chatbot.reply: a request for the fraud team is an alert of its own.
Reply(r) ==
    /\ pc[r] = "replying"
    /\ AddAlert(r, "escalated") \/ UNCHANGED alerts
    /\ GoTo(r, "capping")
    /\ UNCHANGED <<clock, job, studyVars, points, badges, log, sims, trend, seen, posture,
                   known, reopened, paid, earned, charted>>

\* simulate_sim_swap: the event, then notifier.send with a critical alert.
RecordSwap(r) ==
    /\ pc[r] = "recording"
    /\ sims' = sims \cup {[by |-> r, at |-> clock]}
    /\ GoTo(r, "alerting")
    /\ UNCHANGED <<clock, job, studyVars, points, badges, log, alerts, trend, seen,
                   posture, known, reopened, paid, earned, charted>>

RaiseAlert(r) ==
    /\ pc[r] = "alerting"
    /\ AddAlert(r, "new")
    /\ GoTo(r, "done")
    /\ UNCHANGED <<clock, job, studyVars, points, badges, log, sims, trend, seen, posture,
                   known, reopened, paid, earned, charted>>

\* ack_alert: only a new alert is acknowledged, and rewarded.
Awaits(a) == a.status = "new"

FindAlert(r) ==
    /\ pc[r] = "finding"
    /\ GoTo(r, IF \E a \in alerts : a.by = job[r].about /\ Awaits(a)
               THEN "acknowledging" ELSE "done")
    /\ UNCHANGED <<clock, job, studyVars, accountVars>>

\* UPDATE alerts SET status, of one alert if it is still there; a request that
\* counted on its being open does so no longer if it is closed.
SetStatus(by, status) ==
    /\ alerts' = {IF a.by = by THEN [a EXCEPT !.status = status] ELSE a : a \in alerts}
    /\ known' = [q \in Requests |-> [known[q] EXCEPT !.alerts =
                     IF status \in {"new", "escalated"} THEN @ ELSE @ \ {by}]]

Acknowledge(r) ==
    /\ pc[r] = "acknowledging"
    /\ SetStatus(job[r].about, "acknowledged")
    /\ GoTo(r, "checking")
    /\ UNCHANGED <<clock, job, studyVars, points, badges, log, sims, trend, seen, posture,
                   reopened, paid, earned, charted>>

\* Whatever the alert's status was.
ChangeStatus(r) ==
    /\ pc[r] = "ruling"
    /\ SetStatus(job[r].about, job[r].status)
    /\ reopened' = IF job[r].status = "new" THEN reopened \cup {job[r].about} ELSE reopened
    /\ GoTo(r, "done")
    /\ UNCHANGED <<clock, job, studyVars, points, badges, log, sims, trend, seen, posture,
                   paid, earned, charted>>

-----------------------------------------------------------------------------
(* The dashboard: account_risk.compute, then snapshot *)

AtMost(a, b) == IF a <= b THEN a ELSE b

\* Every alert of this model is critical; what the other tables add is `other`.
Score(critical, swaps, other) ==
    AtMost(100, AtMost(40, 25 * critical) + AtMost(35, 20 * swaps) + other)

CountAlerts(r) ==
    /\ pc[r] = "counting alerts"
    /\ IF job[r].frozen
       THEN UNCHANGED posture /\ GoTo(r, "comparing")
       ELSE /\ posture' = [posture EXCEPT ![r].critical = Cardinality(Unresolved(alerts))]
            /\ GoTo(r, "counting swaps")
    /\ UNCHANGED <<clock, job, studyVars, points, badges, log, alerts, sims, trend, seen,
                   known, reopened, paid, earned, charted>>

\* Of the SIM changes S, those of the last 30 days.
Lately(S) == {s \in S : s.at >= clock - RiskDays}

\* Each event of this model is of one of the types that are counted.
CountSwaps(r) ==
    /\ pc[r] = "counting swaps"
    /\ posture' = [posture EXCEPT ![r].swaps = Cardinality(Lately(sims))]
    /\ GoTo(r, "comparing")
    /\ UNCHANGED <<clock, job, studyVars, points, badges, log, alerts, sims, trend, seen,
                   known, reopened, paid, earned, charted>>

ScoreOf(r) ==
    IF job[r].frozen THEN 100 ELSE Score(posture[r].critical, posture[r].swaps, job[r].other)

\* A score that did not change is charted again after 30 minutes.
Repeats(row, score) == row.score = score /\ clock - row.at < Recent

\* The last snapshot: ORDER BY id DESC LIMIT 1.
IsLast(row) == \A other \in trend.rows : other.id <= row.id

\* The dashboard is answered; what it read is gone.
Chart(r) ==
    /\ charted' = charted \cup
           {[score |-> ScoreOf(r), at |-> clock,
             least |-> Score(Cardinality(known[r].alerts),
                             Cardinality(Lately(known[r].swaps)), 0)]}
    /\ posture' = [posture EXCEPT ![r] = NoPosture]
    /\ known' = [known EXCEPT ![r] = NothingKnown]
    /\ GoTo(r, "done")

CompareTrend(r) ==
    /\ pc[r] = "comparing"
    /\ IF \E row \in trend.rows : IsLast(row) /\ Repeats(row, ScoreOf(r))
       THEN Chart(r)
       ELSE GoTo(r, "charting") /\ UNCHANGED <<charted, posture, known>>
    /\ UNCHANGED <<clock, job, studyVars, points, badges, log, alerts, sims, trend, seen,
                   reopened, paid, earned>>

InsertTrend(r) ==
    /\ pc[r] = "charting"
    /\ trend' = [last |-> trend.last + 1,
                 rows |-> trend.rows \cup
                     {[id |-> trend.last + 1, score |-> ScoreOf(r), at |-> clock]}]
    /\ Chart(r)
    /\ UNCHANGED <<clock, job, studyVars, points, badges, log, alerts, sims, seen, reopened,
                   paid, earned>>

-----------------------------------------------------------------------------
(* Retention and failure *)

\* enforce_retention goes on to the tables, one autocommitted DELETE after the
\* other.  Of the alerts it takes only those that are closed; with the rows of
\* activity_log goes the memory of what was rewarded.
PurgeAlerts(r) ==
    /\ pc[r] = "purging alerts"
    /\ alerts' = {a \in alerts : a.status \in {"resolved", "acknowledged"} =>
                                    a.at >= clock - AlertDays}
    /\ GoTo(r, "purging log")
    /\ UNCHANGED <<clock, job, studyVars, points, badges, log, sims, trend, seen, posture,
                   known, reopened, paid, earned, charted>>

PurgeLog(r) ==
    /\ pc[r] = "purging log"
    /\ log' = {x \in log : x.at >= clock - AuditDays}
    /\ GoTo(r, "purging trend")
    /\ UNCHANGED <<clock, job, studyVars, points, badges, alerts, sims, trend, seen, posture,
                   known, reopened, paid, earned, charted>>

PurgeTrend(r) ==
    /\ pc[r] = "purging trend"
    /\ trend' = [trend EXCEPT !.rows = {row \in @ : row.at >= clock - AuditDays}]
    /\ GoTo(r, "done")
    /\ UNCHANGED <<clock, job, studyVars, points, badges, log, alerts, sims, seen, posture,
                   known, reopened, paid, earned, charted>>

InFlight(r) == pc[r] \notin {"idle", "done", "refused", "failed", "dead"}

Die(r) ==
    /\ InFlight(r)
    /\ GoTo(r, "dead")
    /\ UNCHANGED <<clock, job, studyVars, accountVars>>

Work(r) ==
    \/ LookUpItem(r) \/ TickOff(r) \/ UnderTheCap(r)
    \/ CheckAward(r) \/ ReadPoints(r) \/ Credit(r) \/ LogAward(r)
    \/ Reply(r) \/ RecordSwap(r) \/ RaiseAlert(r) \/ FindAlert(r) \/ Acknowledge(r)
    \/ ChangeStatus(r) \/ PurgeAlerts(r) \/ PurgeLog(r) \/ PurgeTrend(r)
    \/ CountAlerts(r) \/ CountSwaps(r) \/ CompareTrend(r) \/ InsertTrend(r)
    \/ Die(r)

Next ==
    \/ (StudyNext \/ Tick) /\ UNCHANGED accountVars
    \/ \E r \in Requests : Ask(r) \/ Review(r) \/ Rule(r) \/ Work(r)

Spec == Init /\ [][Next]_vars

-----------------------------------------------------------------------------
(* Properties *)

\* However awards overlap and die, the points and badges of an account were all
\* earned, a total always shows its badges, and until the log forgets it only an
\* award that is at work or died is credited without its row (gamification.py:19-46).
PointsAreEarned ==
    /\ points <= earned
    /\ \A b \in badges : Threshold[b] <= earned
    /\ \A b \in Badges : Threshold[b] <= points => b \in badges
    /\ \A x \in paid :
         \/ \E y \in log : y.by = x.by /\ y.event = x.event
         \/ x.at < clock - AuditDays
         \/ pc[x.by] \in {"logging", "dead"}

Most(event) == IF event \in DOMAIN Cap THEN Cap[event] ELSE 1

\* No award is credited to a request that began when its event - an event of the
\* study, the checklist item, the alert - had been rewarded as often as it may
\* be, as long as the log remembers and unless an operator made the alert new
\* again: only requests that overlap can exceed the limit (gamification.py:16-31,
\* user_routes.py:78-85, 265-274, chat_routes.py:23-27).
AwardsOneByOne == \A x \in paid : x.past < Most(x.event) \/ x.about \in reopened

\* A dashboard never charts less than the account had throughout: the alerts
\* that were open all the time since it began, whatever became of the others, and
\* the SIM changes of then that still are of the last 30 days.  What it charts is
\* in the trend, as of the last 30 minutes (account_risk.py:32-68, 113-133).
NoFalseCalm ==
    \A x \in charted :
        /\ x.score >= x.least
        /\ x.at = clock =>
             \E row \in trend.rows :
                 row.score = x.score /\ (row.at = x.at \/ x.at - row.at < Recent)
=============================================================================
