--------------------------------- MODULE Study ---------------------------------
(***************************************************************************)
(* The user study: engine/study.py behind the routes of app.py, with the   *)
(* sliding window of engine/ratelimit.py in front and the retention of     *)
(* engine/compliance.py behind.  Participants share one connection, hence  *)
(* one window.  A submission is stored as a file of answers and, if there  *)
(* is a comment, a second file; each is opened, and is empty until it is   *)
(* written.  Module Awareness adds the points a participant then collects, *)
(* and what the retention does to the tables after the files.              *)
(***************************************************************************)
EXTENDS Threads, Integers, Sequences, FiniteSets

CONSTANTS
    Submissions,        \* the submissions that are posted
    Exports,            \* the exports that are asked for
    Limit, Window,      \* rate_limits.study_submit, the window in ticks
    Retention,          \* study_responses_days, in ticks
    MaxClock            \* bound

Dirs == {"study", "feedback"}

ASSUME StudyAssumption ==
    /\ Limit \in Nat \ {0} /\ Window \in Nat /\ Retention \in Nat /\ MaxClock \in Nat
    /\ Submissions \subseteq [kind : {"submit"}, consented : BOOLEAN, valid : BOOLEAN,
                              comment : BOOLEAN]
    /\ Exports \subseteq [kind : {"export"}, dir : Dirs]

VARIABLES
    clock,              \* time, in ticks
    hits,               \* _hits["study:..."]
    files,              \* data/study and data/study_feedback
    job,                \* per request: what it does; a participant has its id
    now, names,         \* per request: the time as read; file names still to visit
    admitted,           \* history: what allow() let through, in order
    behind,             \* history, per request: who had been let through when it began
    clash               \* history: two calls of allow() dropped one hit too many

studyVars == <<hits, files, now, names, admitted, behind, clash>>

File == [dir : Dirs, by : Requests, whole : BOOLEAN, at : Nat]
NoJob == [kind |-> "none"]
Upkeep == [kind |-> "retain"]

StudyTypeOK ==
    /\ clock \in Nat
    /\ hits \in Seq(Nat)
    /\ files \subseteq File
    /\ now \in [Requests -> Nat]
    /\ names \in [Requests -> SUBSET Requests]
    /\ admitted \in Seq([by : Requests, at : Nat, when : Nat])
    /\ behind \in [Requests -> SUBSET Requests]
    /\ clash \in BOOLEAN

StudyInit ==
    /\ clock = 0 /\ hits = <<>> /\ files = {}
    /\ pc = [r \in Requests |-> "idle"]
    /\ job = [r \in Requests |-> NoJob]
    /\ now = [r \in Requests |-> 0]
    /\ names = [r \in Requests |-> {}]
    /\ admitted = <<>> /\ clash = FALSE
    /\ behind = [r \in Requests |-> {}]

-----------------------------------------------------------------------------
(* ratelimit.allow: no lock is held *)

\* The requests that were let through so far.
Through == {admitted[i].by : i \in DOMAIN admitted}

Submit(r, s) ==
    /\ pc[r] = "idle"
    /\ job' = [job EXCEPT ![r] = s]
    /\ now' = [now EXCEPT ![r] = clock]
    /\ behind' = [behind EXCEPT ![r] = Through]
    /\ GoTo(r, "pruning")
    /\ UNCHANGED <<clock, hits, files, names, admitted, clash>>

IsOld(at, time) == at <= time - Window

\* while q and q[0] <= now - window_seconds.
Prune(r) ==
    /\ pc[r] = "pruning"
    /\ GoTo(r, IF Len(hits) > 0 /\ IsOld(Head(hits), now[r]) THEN "popping" ELSE "counting")
    /\ UNCHANGED <<clock, job, studyVars>>

\* q.popleft(), of what is now the first hit: another call may have taken the
\* one that was looked at, and on an emptied deque it raises.
PopLeft(r) ==
    /\ pc[r] = "popping"
    /\ IF hits = <<>>
       THEN GoTo(r, "failed") /\ UNCHANGED <<hits, clash>>
       ELSE /\ hits' = Tail(hits)
            /\ clash' = (clash \/ ~IsOld(Head(hits), now[r]))
            /\ GoTo(r, "pruning")
    /\ UNCHANGED <<clock, files, job, now, names, admitted, behind>>

\* Faulty variant: one hit more than the limit is let through.
Full_OneMore(n) == n > Limit

Full(n) == n >= Limit

Count(r) ==
    /\ pc[r] = "counting"
    /\ GoTo(r, IF Full(Len(hits)) THEN "refused" ELSE "appending")
    /\ UNCHANGED <<clock, job, studyVars>>

AppendHit(r) ==
    /\ pc[r] = "appending"
    /\ hits' = Append(hits, now[r])
    /\ admitted' = Append(admitted, [by |-> r, at |-> now[r], when |-> clock])
    /\ GoTo(r, "judging")
    /\ UNCHANGED <<clock, files, job, now, names, behind, clash>>

-----------------------------------------------------------------------------
(* submit *)

\* check_consent: agreed, and to the current version.
Consents(s) == s.consented

\* Without consent nothing is looked at; then every answer is validated.
Judge(r) ==
    /\ pc[r] = "judging"
    /\ GoTo(r, IF Consents(job[r]) /\ job[r].valid THEN "opening" ELSE "refused")
    /\ UNCHANGED <<clock, job, studyVars>>

Created(dir, r) == files \cup {[dir |-> dir, by |-> r, whole |-> FALSE, at |-> clock]}

\* The file was opened for writing; if it was purged meanwhile, nothing is left.
Written(dir, r) ==
    {IF f.dir = dir /\ f.by = r THEN [f EXCEPT !.whole = TRUE, !.at = clock] ELSE f : f \in files}

OpenRecord(r) ==
    /\ pc[r] = "opening"
    /\ files' = Created("study", r)
    /\ GoTo(r, "filling")
    /\ UNCHANGED <<clock, hits, job, now, names, admitted, behind, clash>>

FillRecord(r) ==
    /\ pc[r] = "filling"
    /\ files' = Written("study", r)
    /\ GoTo(r, IF job[r].comment THEN "opening comment" ELSE "done")
    /\ UNCHANGED <<clock, hits, job, now, names, admitted, behind, clash>>

OpenComment(r) ==
    /\ pc[r] = "opening comment"
    /\ files' = Created("feedback", r)
    /\ GoTo(r, "filling comment")
    /\ UNCHANGED <<clock, hits, job, now, names, admitted, behind, clash>>

FillComment(r) ==
    /\ pc[r] = "filling comment"
    /\ files' = Written("feedback", r)
    /\ GoTo(r, "done")
    /\ UNCHANGED <<clock, hits, job, now, names, admitted, behind, clash>>

-----------------------------------------------------------------------------
(* Exports and aggregates *)

Export(r, e) ==
    /\ pc[r] = "idle"
    /\ job' = [job EXCEPT ![r] = e]
    /\ GoTo(r, "listing")
    /\ UNCHANGED <<clock, studyVars>>

\* Whose files os.listdir finds.
Listed(dir) == {f.by : f \in {x \in files : x.dir = dir}}

List(r) ==
    /\ pc[r] = "listing"
    /\ names' = [names EXCEPT ![r] = Listed(job[r].dir)]
    /\ GoTo(r, "reading")
    /\ UNCHANGED <<clock, hits, files, job, now, admitted, behind, clash>>

Readable(dir, by) == \E f \in files : f.dir = dir /\ f.by = by /\ f.whole

\* An export is all or nothing: json.load raises on an empty file, and a file
\* that was purged is not there to be opened.
ReadNext(r) ==
    /\ pc[r] = "reading"
    /\ \/ /\ names[r] = {}
          /\ GoTo(r, "done") /\ UNCHANGED names
       \/ \E by \in names[r] :
            IF Readable(job[r].dir, by)
            THEN names' = [names EXCEPT ![r] = @ \ {by}] /\ UNCHANGED pc
            ELSE GoTo(r, "failed") /\ UNCHANGED names
    /\ UNCHANGED <<clock, hits, files, job, now, admitted, behind, clash>>

-----------------------------------------------------------------------------
(* Retention, as far as the files: time.time() is read once *)

\* Of the two directories enforce_retention looks through data/study only.
EnforceRetention(r) ==
    /\ pc[r] = "idle"
    /\ job' = [job EXCEPT ![r] = Upkeep]
    /\ now' = [now EXCEPT ![r] = clock]
    /\ names' = [names EXCEPT ![r] = Listed("study")]
    /\ GoTo(r, "sweeping")
    /\ UNCHANGED <<clock, hits, files, admitted, behind, clash>>

\* Faulty variant: the files on the last day of their time go as well.
Overdue_OnTheDay(f, time) == f.dir = "study" /\ f.at <= time - Retention

Overdue(f, time) == f.dir = "study" /\ f.at < time - Retention

\* os.path.getmtime and os.remove raise on a file that another retention took
\* after os.path.isfile had seen it.
Sweep(r) ==
    /\ pc[r] = "sweeping"
    /\ \/ names[r] = {} /\ GoTo(r, "purging alerts") /\ UNCHANGED <<files, names>>
       \/ \E by \in names[r] :
            /\ names' = [names EXCEPT ![r] = @ \ {by}]
            /\ files' = {f \in files : f.by = by => ~Overdue(f, now[r])}
            /\ UNCHANGED pc
       \/ /\ ~(names[r] \subseteq Listed("study"))
          /\ GoTo(r, "failed") /\ UNCHANGED <<files, names>>
    /\ UNCHANGED <<clock, hits, job, now, admitted, behind, clash>>

Tick ==
    /\ clock < MaxClock
    /\ clock' = clock + 1
    /\ UNCHANGED <<pc, job, studyVars>>

StudyWork(r) ==
    \/ Prune(r) \/ PopLeft(r) \/ Count(r) \/ AppendHit(r)
    \/ Judge(r) \/ OpenRecord(r) \/ FillRecord(r) \/ OpenComment(r) \/ FillComment(r)
    \/ List(r) \/ ReadNext(r) \/ Sweep(r)

StudyNext ==
    \E r \in Requests :
        \/ \E s \in Submissions : Submit(r, s)
        \/ \E e \in Exports : Export(r, e)
        \/ EnforceRetention(r)
        \/ StudyWork(r)

-----------------------------------------------------------------------------
(* Properties *)

\* As long as no two calls trod on each other in the deque, a submission is let
\* through only if fewer than Limit of those let through before it began are
\* young: overlapping submissions may pass together, but what has passed counts
\* (ratelimit.py:14-25, tests/test_p2_research.py:66-74).
AdmittedWithinLimit ==
    ~clash =>
        \A i \in DOMAIN admitted :
            Cardinality({k \in DOMAIN admitted :
                             /\ admitted[k].by \in behind[admitted[i].by]
                             /\ admitted[k].at > admitted[i].when - Window}) < Limit

RecordOf(r) == {f \in files : f.dir = "study" /\ f.by = r}
CommentOf(r) == {f \in files : f.dir = "feedback" /\ f.by = r}

\* The time of what a request left is over.
TimeIsOver(r) ==
    \E i \in DOMAIN admitted : admitted[i].by = r /\ admitted[i].at < clock - Retention

\* However retentions overlap with it, a submission that was answered is kept
\* until its time is over, its answers and its comment.  Only one that is at work
\* or died leaves a file that cannot be read, and a comment never comes without
\* answers that were complete (study.py:230-241, compliance.py:448-457).
AnsweredSubmissionsAreKept ==
    /\ \A f \in files : ~f.whole => pc[f.by] \in {"filling", "filling comment", "dead"}
    /\ \A r \in Requests :
         /\ pc[r] = "done" /\ job[r].kind = "submit" =>
              \/ /\ RecordOf(r) # {}
                 /\ job[r].comment => CommentOf(r) # {}
              \/ TimeIsOver(r)
         /\ CommentOf(r) # {} => \A f \in RecordOf(r) : f.whole
=============================================================================
