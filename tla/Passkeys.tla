------------------------------- MODULE Passkeys -------------------------------
(***************************************************************************)
(* Passkey ceremonies: engine/webauthn.py with the routes passkey_options  *)
(* and passkey_login (routes/auth_routes.py) and the passkey routes of     *)
(* routes/user_routes.py.                                                  *)
(*                                                                         *)
(* An authenticator answers a challenge with the key it holds and its      *)
(* signature counter.  Two authenticators with one key are an original and *)
(* its clone.  Any answer may be flawed - malformed, from a wrong origin   *)
(* or site, without user presence, with a bad signature - and is refused   *)
(* where it is looked at; one that answers nothing uses up its challenge   *)
(* like Expire.  Whether an account is frozen is a matter of module SignIn,*)
(* like the table of devices: here a sign-in may be turned away.           *)
(***************************************************************************)
EXTENDS Threads, Integers, Sequences, FiniteSets

CONSTANTS
    Accounts,           \* rows of users
    Authenticators,     \* devices that hold a key
    Keys, KeyOf,        \* the credential each of them holds
    Counting,           \* the ones that use a signature counter
    Enrolled,           \* webauthn_credentials at the start
    MaxCeremonies, MaxCount     \* bounds

ASSUME KeyAssumption == KeyOf \in [Authenticators -> Keys] /\ Counting \subseteq Authenticators
ASSUME BoundAssumption == MaxCeremonies \in Nat /\ MaxCount \in Nat

Nobody == "nobody"      \* options asked for without an account
ASSUME NobodyAssumption == Nobody \notin Accounts

Handles == 1..MaxCeremonies
Kinds == {"create", "get"}
Ceremony == [kind : Kinds, account : Accounts \cup {Nobody}]
\* What parse_authenticator_data and the client data say of an answer.
Answer == [handle : Handles, kind : Kinds, key : Keys, count : 0..MaxCount]
Row == [id : Nat, account : Accounts, key : Keys, count : 0..MaxCount]
NoRow == [id |-> 0]
Call == [kind : Kinds, handle : Handles, account : Accounts \cup {Nobody}, answer : Answer]
NoCall == [kind |-> "none"]

ASSUME EnrolledAssumption ==
    /\ Enrolled \subseteq Row /\ IsFiniteSet(Enrolled)
    /\ {x.id : x \in Enrolled} = 1..Cardinality(Enrolled)
    /\ \A x, y \in Enrolled : x.key = y.key => x = y

VARIABLES
    ceremonies,     \* what the challenges were issued for; the n-th has handle n
    open,           \* handles in _challenges that are not past their time
    counter,        \* the counter of each authenticator
    answers,        \* what the authenticators signed so far
    rows,           \* webauthn_credentials
    lastId,         \* sqlite_sequence: row ids are never used again
    sessions, alerts, notices,
    call, row,      \* per request
    registered,     \* history: the passkeys there ever were, and how they came
    accepted,       \* history: the counters the server took, in their order
    overtaken       \* history: rows that changed between a sign-in's read and its write

store == <<open, rows, lastId, sessions, alerts, notices>>
outside == <<counter, answers>>
locals == <<call, row>>
history == <<registered, accepted, overtaken>>
vars == <<outside, ceremonies, store, pc, locals, history>>

Stages == {"idle", "taking", "looking", "inserting", "telling", "reading", "counting", "warning",
           "admitting", "opening", "over", "dead"}

Issued == 1..Len(ceremonies)

TypeOK ==
    /\ ceremonies \in Seq(Ceremony) /\ Len(ceremonies) <= MaxCeremonies
    /\ open \subseteq Issued
    /\ counter \in [Authenticators -> 0..MaxCount]
    /\ answers \subseteq Answer
    /\ rows \subseteq Row /\ lastId \in Nat
    /\ sessions \subseteq [account : Accounts, key : Keys, handle : Handles, by : Requests]
    /\ alerts \subseteq [id : Nat, by : Requests] /\ notices \subseteq Nat
    /\ pc \in [Requests -> Stages]
    /\ call \in [Requests -> Call \cup {NoCall}]
    /\ row \in [Requests -> Row \cup {NoRow}]
    /\ \A r \in Requests :
         /\ pc[r] \notin {"idle", "over", "dead"} =>
                call[r] \in Call /\ call[r].handle \in Issued
         /\ pc[r] \in {"counting", "warning", "admitting", "opening"} => row[r] \in Row
    /\ registered \subseteq [id : Nat, account : Accounts, key : Keys, handle : Handles,
                             by : Requests]
    /\ accepted \in Seq([id : Nat, count : 0..MaxCount, warned : BOOLEAN, by : Requests])
    /\ overtaken \subseteq Nat

Init ==
    /\ ceremonies = <<>> /\ open = {}
    /\ counter = [d \in Authenticators |-> 0]
    /\ answers = {}
    /\ rows = Enrolled /\ lastId = Cardinality(Enrolled)
    /\ sessions = {} /\ alerts = {} /\ notices = {}
    /\ pc = [r \in Requests |-> "idle"]
    /\ call = [r \in Requests |-> NoCall]
    /\ row = [r \in Requests |-> NoRow]
    /\ registered = {} /\ accepted = <<>> /\ overtaken = {}

\* A request that is over forgets what it worked on.
Leave(r, where) ==
    /\ GoTo(r, where)
    /\ call' = [call EXCEPT ![r] = NoCall]
    /\ row' = [row EXCEPT ![r] = NoRow]

Proceed(r, where) == GoTo(r, where) /\ UNCHANGED locals

-----------------------------------------------------------------------------
(* Challenges and authenticators *)

\* _new_challenge.
NewChallenge(kind, account) ==
    /\ Len(ceremonies) < MaxCeremonies
    /\ ceremonies' = Append(ceremonies, [kind |-> kind, account |-> account])
    /\ open' = open \cup {Len(ceremonies) + 1}
    /\ UNCHANGED <<outside, rows, lastId, sessions, alerts, notices, pc, locals, history>>

\* registration_options, for the account that is signed in.
RegistrationOptions(account) == NewChallenge("create", account)

\* authentication_options, for an account or, without a known address, for any.
AuthenticationOptions(account) == NewChallenge("get", account)

\* CHALLENGE_TTL_SECONDS have passed: the challenge is as good as gone, and is
\* swept when the next one is issued.
Expire(h) ==
    /\ h \in open
    /\ open' = open \ {h}
    /\ UNCHANGED <<outside, ceremonies, rows, lastId, sessions, alerts, notices, pc, locals,
                   history>>

\* An authenticator signs the challenge of a ceremony, and counts if it counts.
Sign(d, h) ==
    LET count == IF d \in Counting THEN counter[d] + 1 ELSE 0
    IN  /\ count <= MaxCount
        /\ counter' = [counter EXCEPT ![d] = count]
        /\ answers' = answers \cup {[handle |-> h, kind |-> ceremonies[h].kind,
                                     key |-> KeyOf[d], count |-> count]}
        /\ UNCHANGED <<ceremonies, store, pc, locals, history>>

\* A browser posts an answer with a handle, its own or another one: register for
\* the account that is signed in, authenticate for none.
Begin(r, kind, h, account, answer) ==
    /\ pc[r] = "idle"
    /\ kind = "create" <=> account # Nobody
    /\ call' = [call EXCEPT ![r] = [kind |-> kind, handle |-> h, account |-> account,
                                    answer |-> answer]]
    /\ GoTo(r, "taking")
    /\ UNCHANGED <<outside, ceremonies, store, row, history>>

-----------------------------------------------------------------------------
(* register and authenticate *)

\* Faulty variant: a challenge stays in the store until it is swept.
Pop_Kept(r) == open' = open

\* The challenge leaves the store whatever becomes of the ceremony.
Pop(r) == open' = open \ {call[r].handle}

\* _take_challenge raises unless the handle is there, in time and of its kind.
TakenFor(r) ==
    /\ call[r].handle \in open
    /\ ceremonies[call[r].handle].kind = call[r].kind

\* _check_client_data: the answer was made for this ceremony and this challenge.
Fits(r) ==
    /\ call[r].answer.kind = call[r].kind
    /\ call[r].answer.handle = call[r].handle

\* A registration is checked in full before the database is looked at.
TakeChallenge(r) ==
    /\ pc[r] = "taking"
    /\ Pop(r)
    /\ \/ TakenFor(r) /\ call[r].kind = "get" /\ Proceed(r, "reading")
       \/ /\ TakenFor(r) /\ call[r].kind = "create"
          /\ Fits(r) /\ ceremonies[call[r].handle].account = call[r].account
          /\ Proceed(r, "looking")
       \/ Leave(r, "over")
    /\ UNCHANGED <<outside, ceremonies, rows, lastId, sessions, alerts, notices, history>>

Registered(key) == \E x \in rows : x.key = key

LookForPasskey(r) ==
    /\ pc[r] = "looking"
    /\ \/ Registered(call[r].answer.key) /\ Leave(r, "over")
       \/ ~Registered(call[r].answer.key) /\ Proceed(r, "inserting")
    /\ UNCHANGED <<outside, ceremonies, store, history>>

\* credential_id is UNIQUE: the later of two registrations fails.
InsertPasskey(r) ==
    LET id == lastId + 1
        new == [id |-> id, account |-> call[r].account, key |-> call[r].answer.key]
        count == call[r].answer.count
    IN  /\ pc[r] = "inserting"
        /\ \/ /\ Registered(new.key)
              /\ Leave(r, "over") /\ UNCHANGED <<rows, lastId, registered, accepted>>
           \/ /\ ~Registered(new.key)
              /\ rows' = rows \cup {[id |-> id, account |-> new.account, key |-> new.key,
                                     count |-> count]}
              /\ lastId' = id
              /\ registered' = registered \cup
                   {[id |-> id, account |-> new.account, key |-> new.key,
                     handle |-> call[r].handle, by |-> r]}
              /\ accepted' = Append(accepted, [id |-> id, count |-> count, warned |-> FALSE,
                                               by |-> r])
              /\ Proceed(r, "telling")
        /\ UNCHANGED <<outside, ceremonies, open, sessions, alerts, notices, overtaken>>

\* passkey_register writes to the owner.
TellOwner(r) ==
    /\ pc[r] = "telling"
    /\ notices' = notices \cup {x.id : x \in {y \in registered : y.by = r}}
    /\ Leave(r, "over")
    /\ UNCHANGED <<outside, ceremonies, open, rows, lastId, sessions, alerts, history>>

\* Faulty variant: a challenge issued for an account may be answered by any.
ForAccount_Any(h, account) == TRUE

ForAccount(h, account) == ceremonies[h].account \in {Nobody, account}

\* _verify_signature: only the key of the row makes an answer it accepts.
Answers(r, x) ==
    /\ Fits(r) /\ x.key = call[r].answer.key
    /\ ForAccount(call[r].handle, x.account)

\* authenticate reads the credential's row and checks the answer against it.
ReadPasskey(r) ==
    /\ pc[r] = "reading"
    /\ \/ \E x \in rows : /\ Answers(r, x)
                          /\ row' = [row EXCEPT ![r] = x]
                          /\ GoTo(r, "counting") /\ UNCHANGED call
       \/ Leave(r, "over")
    /\ UNCHANGED <<outside, ceremonies, store, history>>

\* Faulty variant: only a counter that went back is a sign of a clone.
Suspicious_Less(seen, count) == (count > 0 \/ seen > 0) /\ count < seen

\* A counter in use that does not advance suggests a cloned authenticator.
Suspicious(seen, count) == (count > 0 \/ seen > 0) /\ count <= seen

\* The counter is written back from the row as it was read.
WriteCounter(r) ==
    LET id == row[r].id
        seen == row[r].count
        count == call[r].answer.count
        newest == IF count >= seen THEN count ELSE seen
    IN  /\ pc[r] = "counting"
        /\ rows' = {IF x.id = id THEN [x EXCEPT !.count = newest] ELSE x : x \in rows}
        /\ overtaken' = IF row[r] \in rows THEN overtaken ELSE overtaken \cup {id}
        /\ accepted' = Append(accepted, [id |-> id, count |-> count,
                                         warned |-> Suspicious(seen, count), by |-> r])
        /\ Proceed(r, IF Suspicious(seen, count) THEN "warning" ELSE "admitting")
        /\ UNCHANGED <<outside, ceremonies, open, lastId, sessions, alerts, notices,
                       registered>>

Warn(r) ==
    /\ pc[r] = "warning"
    /\ alerts' = alerts \cup {[id |-> row[r].id, by |-> r]}
    /\ Proceed(r, "admitting")
    /\ UNCHANGED <<outside, ceremonies, open, rows, lastId, sessions, notices, history>>

\* passkey_login turns away an account that is frozen or gone.
Admit(r) ==
    /\ pc[r] = "admitting"
    /\ Proceed(r, "opening") \/ Leave(r, "over")
    /\ UNCHANGED <<outside, ceremonies, store, history>>

OpenSession(r) ==
    /\ pc[r] = "opening"
    /\ sessions' = sessions \cup {[account |-> row[r].account, key |-> row[r].key,
                                   handle |-> call[r].handle, by |-> r]}
    /\ Leave(r, "over")
    /\ UNCHANGED <<outside, ceremonies, open, rows, lastId, alerts, notices, history>>

-----------------------------------------------------------------------------
\* delete_credential: the owner removes a row.
DeletePasskey(a) ==
    /\ \E x \in rows : x.account = a /\ rows' = rows \ {x}
    /\ UNCHANGED <<outside, ceremonies, open, lastId, sessions, alerts, notices, pc,
                   locals, history>>

InFlight(r) == pc[r] \notin {"idle", "over", "dead"}

Die(r) ==
    /\ InFlight(r)
    /\ Leave(r, "dead")
    /\ UNCHANGED <<outside, ceremonies, store, history>>

\* The challenges are in memory only.
Restart ==
    /\ open' = {}
    /\ pc' = [r \in Requests |-> IF InFlight(r) THEN "dead" ELSE pc[r]]
    /\ call' = [r \in Requests |-> NoCall] /\ row' = [r \in Requests |-> NoRow]
    /\ UNCHANGED <<outside, ceremonies, rows, lastId, sessions, alerts, notices, history>>

Work(r) ==
    \/ TakeChallenge(r)
    \/ LookForPasskey(r) \/ InsertPasskey(r) \/ TellOwner(r)
    \/ ReadPasskey(r) \/ WriteCounter(r) \/ Warn(r) \/ Admit(r) \/ OpenSession(r)
    \/ Die(r)

Next ==
    \/ \E a \in Accounts : RegistrationOptions(a)
    \/ \E a \in Accounts \cup {Nobody} : AuthenticationOptions(a)
    \/ \E d \in Authenticators, h \in Issued : Sign(d, h)
    \/ \E r \in Requests, kind \in Kinds, h \in Issued, a \in Accounts \cup {Nobody} :
         \E answer \in answers : Begin(r, kind, h, a, answer)
    \/ \E r \in Requests : Work(r)
    \/ \E a \in Accounts : DeletePasskey(a)
    \/ (\E h \in open : Expire(h)) \/ Restart

Spec == Init /\ [][Next]_vars

-----------------------------------------------------------------------------
(* Properties *)

\* A challenge buys one thing at most, once, however many requests post it: one
\* passkey for the account it was issued to, or one session
\* (webauthn.py:121-135, tests/test_passkeys.py:285).
OneUsePerChallenge ==
    /\ \A x, y \in sessions : x.handle = y.handle => x = y
    /\ \A x, y \in registered : x.handle = y.handle => x = y
    /\ \A s \in sessions, x \in registered : s.handle # x.handle

Owns(a, key) == \E x \in registered \cup Enrolled : x.account = a /\ x.key = key

\* Every session is on an account for which, in a ceremony that was open to it,
\* a key of the account answered; and every key came to its account in a
\* ceremony of that account (webauthn.py:302-336, 409-446).
SessionsAreSigned ==
    /\ \A s \in sessions :
         /\ ceremonies[s.handle].kind = "get" /\ ceremonies[s.handle].account \in {Nobody, s.account}
         /\ \E x \in answers : x.kind = "get" /\ x.handle = s.handle /\ x.key = s.key
         /\ Owns(s.account, s.key)
    /\ \A x \in registered :
         /\ ceremonies[x.handle].kind = "create" /\ ceremonies[x.handle].account = x.account
         /\ \E y \in answers : y.kind = "create" /\ y.handle = x.handle /\ y.key = x.key

\* The owner hears of what happens to a passkey, unless the request that did it
\* is not over or was stopped: of a new one, and of a counter that did not
\* advance on one the server took before.  Two overlapping sign-ins with one
\* passkey write the counter over each other: from then on a step back may pass
\* unseen (webauthn.py:448-469, user_routes.py:395, tests/test_passkeys.py:425).
OwnersAreTold ==
    /\ \A x \in registered : x.id \in notices \/ pc[x.by] \in {"telling", "dead"}
    /\ \A i, j \in 1..Len(accepted) :
         LET x == accepted[i]  y == accepted[j]
         IN  i < j /\ x.id = y.id /\ x.count > 0 /\ y.count <= x.count =>
                \/ y.id \in overtaken
                \/ [id |-> y.id, by |-> y.by] \in alerts
                \/ pc[y.by] \in {"warning", "dead"}
=============================================================================
