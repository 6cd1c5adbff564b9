-------------------------------- MODULE SignIn --------------------------------
(***************************************************************************)
(* Signing in to one account: engine/auth.py (check_password_step,         *)
(* issue_otp, verify_otp, register_device, create_session,                 *)
(* reset_password) as the routes of routes/auth_routes.py call them, on    *)
(* concurrent request threads of one process.                              *)
(*                                                                         *)
(* Every db.execute is one autocommitted statement and one step here; the  *)
(* in-process dict of challenges is read and popped in steps of its own.   *)
(* A challenge is named by the login that created it, a session by the     *)
(* request that opened it, a password by its version (0 is a wrong one)    *)
(* and a code by its row.  The attempt budget and expiry of a code are in  *)
(* module OneTimeCodes, the sheet of recovery codes in RecoveryCodes: here *)
(* either second factor may also just be refused.  users.twofa_enabled is  *)
(* 1 and nothing in the program clears it.  The ceremony of a passkey is   *)
(* in module Passkeys: here it is accepted or refused, and what the route  *)
(* then does to devices and sessions is modelled.                          *)
(***************************************************************************)
EXTENDS Threads, Naturals, Sequences

CONSTANTS
    Devices,        \* browser fingerprints
    LockoutAfter    \* config auth.lockout_after_failures

ASSUME LockoutAssumption == LockoutAfter \in Nat \ {0}

VARIABLES
    user,           \* the users row: password, failed_attempts, locked_until
    challenges,     \* keys of the dict _challenges
    codes,          \* login rows of otp_codes, oldest first
    devices,        \* rows of devices
    sessions,       \* rows of sessions
    call,           \* the call it serves
    row,            \* the users row check_password_step read
    judged,         \* the otp_codes row verify_otp read, 0 when none
    announced,      \* history: devices the owner was told of
    untold,         \* history: devices a passkey sign-in registered
    openedUnder,    \* history: the account's password when a session was opened
    overlapped      \* history: two calls have been in flight at once

tables == <<user, codes, devices, sessions>>
locals == <<call, row, judged>>
history == <<announced, untold, openedUnder, overlapped>>
vars == <<tables, challenges, pc, locals, history>>

NoDevice == "none"
ASSUME NoDeviceAssumption == NoDevice \notin Devices
Fingerprints == Devices \cup {NoDevice}

UserRow == [password : Nat \ {0}, fails : Nat, locked : BOOLEAN]
CodeRow == [bound : Requests, used : BOOLEAN]
LoginCall == [kind : {"login"}, device : Fingerprints, password : Nat]
VerifyCall == [kind : {"verify"}, device : Fingerprints, challenge : Requests, guess : Nat]
ChallengeCall == [kind : {"recover", "resend"}, device : Fingerprints, challenge : Requests]
PasskeyCall == [kind : {"passkey"}, device : Fingerprints]
ResetCall == [kind : {"reset"}]
NoCall == [kind |-> "none"]

Ended == {"idle", "done", "refused", "failed", "dead"}
InFlight == {"login", "checking", "passed", "issuing", "superseded", "verify", "recover",
             "resend", "live", "reading", "match", "miss", "spending", "proved", "registering",
             "new", "announcing", "opening", "passkey", "reset", "changed"}
Ids == 1..Len(codes)

TypeOK ==
    /\ user \in UserRow /\ user.fails < LockoutAfter
    /\ challenges \subseteq Requests
    /\ codes \in Seq(CodeRow)
    /\ devices \subseteq Devices /\ announced \subseteq Devices /\ untold \subseteq Devices
    /\ sessions \subseteq Requests
    /\ pc \in [Requests -> Ended \cup InFlight]
    /\ call \in [Requests -> LoginCall \cup VerifyCall \cup ChallengeCall \cup PasskeyCall
                             \cup ResetCall \cup {NoCall}]
    /\ row \in [Requests -> UserRow]
    /\ judged \in [Requests -> 0..Len(codes)]
    /\ openedUnder \in [Requests -> Nat]
    /\ overlapped \in BOOLEAN

FirstUser == [password |-> 1, fails |-> 0, locked |-> FALSE]

Init ==
    /\ user = FirstUser
    /\ challenges = {} /\ codes = <<>> /\ devices = {} /\ sessions = {}
    /\ pc = [r \in Requests |-> "idle"]
    /\ call = [r \in Requests |-> NoCall]
    /\ row = [r \in Requests |-> FirstUser]
    /\ judged = [r \in Requests |-> 0]
    /\ announced = {} /\ untold = {} /\ openedUnder = [r \in Requests |-> 0]
    /\ overlapped = FALSE

-----------------------------------------------------------------------------
\* A thread picks up a request.
Begin(r, c) ==
    /\ pc[r] = "idle"
    /\ overlapped' = (overlapped \/ \E q \in Requests : pc[q] \in InFlight)
    /\ call' = [call EXCEPT ![r] = c]
    /\ GoTo(r, c.kind)
    /\ UNCHANGED <<tables, challenges, row, judged, announced, untold, openedUnder>>

(* POST /login: check_password_step *)

\* Faulty variant: locked_until is not looked at.
ReadUser_Unlocked(r) ==
    /\ pc[r] = "login"
    /\ row' = [row EXCEPT ![r] = user]
    /\ GoTo(r, "checking")
    /\ UNCHANGED <<tables, challenges, call, judged, history>>

\* The account is read once; a locked one is refused.
ReadUser(r) ==
    /\ pc[r] = "login"
    /\ row' = [row EXCEPT ![r] = user]
    /\ GoTo(r, IF user.locked THEN "refused" ELSE "checking")
    /\ UNCHANGED <<tables, challenges, call, judged, history>>

\* The counter and the lock are written back from the row that was read.
WrongPassword(r) ==
    /\ pc[r] = "checking" /\ call[r].password # row[r].password
    /\ LET fails == row[r].fails + 1
       IN  user' = [user EXCEPT !.fails = IF fails >= LockoutAfter THEN 0 ELSE fails,
                                !.locked = fails >= LockoutAfter]
    /\ GoTo(r, "refused")
    /\ UNCHANGED <<codes, devices, sessions, challenges, locals, history>>

RightPassword(r) ==
    /\ pc[r] = "checking" /\ call[r].password = row[r].password
    /\ user' = [user EXCEPT !.fails = 0, !.locked = FALSE]
    /\ GoTo(r, "passed")
    /\ UNCHANGED <<codes, devices, sessions, challenges, locals, history>>

\* The risk check before any code is issued answers BLOCK.
RiskBlocks(r) ==
    /\ pc[r] = "passed"
    /\ GoTo(r, "refused")
    /\ UNCHANGED <<tables, challenges, locals, history>>

\* _new_challenge
NewChallenge(r) ==
    /\ pc[r] = "passed"
    /\ challenges' = challenges \cup {r}
    /\ GoTo(r, "issuing")
    /\ UNCHANGED <<tables, locals, history>>

(* issue_otp, for a login and for a resend *)

Supersede(r) ==
    /\ pc[r] = "issuing"
    /\ codes' = [i \in Ids |-> [codes[i] EXCEPT !.used = TRUE]]
    /\ GoTo(r, "superseded")
    /\ UNCHANGED <<user, devices, sessions, challenges, locals, history>>

InsertCode(r) ==
    /\ pc[r] = "superseded"
    /\ codes' = Append(codes, [bound |-> IF call[r].kind = "login" THEN r
                                         ELSE call[r].challenge,
                               used |-> FALSE])
    /\ GoTo(r, "done")
    /\ UNCHANGED <<user, devices, sessions, challenges, locals, history>>

-----------------------------------------------------------------------------
(* POST /verify-otp, /recovery-login and /resend-otp *)

\* _challenge_ok.  A login without a fingerprint does not bind the device.
FromItsDevice(r, c) ==
    /\ c \in challenges
    /\ call[c].device \in {NoDevice, call[r].device}

AfterChallenge == [verify |-> "reading", recover |-> "spending", resend |-> "live"]

CheckChallenge(r) ==
    /\ pc[r] \in DOMAIN AfterChallenge
    /\ GoTo(r, IF FromItsDevice(r, call[r].challenge) THEN AfterChallenge[pc[r]]
               ELSE "refused")
    /\ UNCHANGED <<tables, challenges, locals, history>>

Live(i) == ~codes[i].used

\* A resend needs a code that is still live, whatever sign-in it is bound to.
CheckLive(r) ==
    /\ pc[r] = "live"
    /\ GoTo(r, IF \E i \in Ids : Live(i) THEN "issuing" ELSE "refused")
    /\ UNCHANGED <<tables, challenges, locals, history>>

\* Faulty variant: a code is good for every sign-in.
Verdict_AnySignIn(r, i) == IF call[r].guess = i THEN "match" ELSE "miss"

\* A code of another sign-in only costs an attempt.
Verdict(r, i) ==
    IF codes[i].bound # call[r].challenge THEN "refused"
    ELSE IF call[r].guess = i THEN "match" ELSE "miss"

\* verify_otp: the newest live row and what it makes of it.
ReadCode(r) ==
    /\ pc[r] = "reading"
    /\ \E i \in Ids :
           /\ Live(i) /\ \A j \in Ids : Live(j) => j <= i
           /\ judged' = [judged EXCEPT ![r] = i]
           /\ GoTo(r, Verdict(r, i))
    /\ UNCHANGED <<tables, challenges, call, row, history>>

\* There is no live row, or it is expired or out of attempts.
NoUsableCode(r) ==
    /\ pc[r] = "reading"
    /\ GoTo(r, "refused")
    /\ UNCHANGED <<tables, challenges, locals, history>>

\* verify_otp: `used` is overwritten with the verdict of this request.
CloseCode(r) ==
    /\ pc[r] \in {"match", "miss"}
    /\ codes' = [codes EXCEPT ![judged[r]].used = pc[r] = "match"]
    /\ GoTo(r, IF pc[r] = "match" THEN "proved" ELSE "refused")
    /\ UNCHANGED <<user, devices, sessions, challenges, locals, history>>

\* recovery_codes.consume, which is atomic, accepts the code or does not.
SpendRecoveryCode(r) ==
    /\ pc[r] = "spending"
    /\ GoTo(r, "proved") \/ GoTo(r, "refused")
    /\ UNCHANGED <<tables, challenges, locals, history>>

\* Faulty variant: the challenge is left in the dict.
PopChallenge_Keeps(r) ==
    /\ pc[r] = "proved"
    /\ GoTo(r, "registering")
    /\ UNCHANGED <<tables, challenges, locals, history>>

\* `_challenges.pop(...)   # single use`
PopChallenge(r) ==
    /\ pc[r] = "proved"
    /\ challenges' = challenges \ {call[r].challenge}
    /\ GoTo(r, "registering")
    /\ UNCHANGED <<tables, locals, history>>

\* POST /passkey/login: webauthn.authenticate accepts or does not, or the account
\* is frozen.  No password, challenge or code of a login is involved.
CheckPasskey(r) ==
    /\ pc[r] = "passkey"
    /\ GoTo(r, "registering") \/ GoTo(r, "refused")
    /\ UNCHANGED <<tables, challenges, locals, history>>

\* register_device, of all three sign-ins: the SELECT.
LookUpDevice(r) ==
    /\ pc[r] = "registering"
    /\ GoTo(r, IF call[r].device \in devices \cup {NoDevice} THEN "opening" ELSE "new")
    /\ UNCHANGED <<tables, challenges, locals, history>>

\* register_device: the INSERT, which fails on UNIQUE when another sign-in from
\* the device got there first.  Only /verify-otp tells the owner of it now; for a
\* recovery code the owner is told of the sign-in, for a passkey of nothing.
InsertDevice(r) ==
    /\ pc[r] = "new"
    /\ devices' = devices \cup {call[r].device}
    /\ GoTo(r, IF call[r].device \in devices THEN "failed"
               ELSE IF call[r].kind = "verify" THEN "announcing" ELSE "opening")
    /\ untold' = IF call[r].kind = "passkey" /\ call[r].device \notin devices
                 THEN untold \cup {call[r].device} ELSE untold
    /\ UNCHANGED <<user, codes, sessions, challenges, locals, announced, openedUnder,
                   overlapped>>

\* Faulty variant: only a sign-in by recovery code is announced.
Announce_RecoveryOnly(r) ==
    /\ pc[r] = "announcing"
    /\ announced' = IF call[r].kind = "recover" THEN announced \cup ({call[r].device} \cap Devices)
                    ELSE announced
    /\ GoTo(r, IF call[r].kind = "verify" THEN "opening" ELSE "done")
    /\ UNCHANGED <<tables, challenges, locals, untold, openedUnder, overlapped>>

\* notifier.send: of the new device, or of the recovery code.
Announce(r) ==
    /\ pc[r] = "announcing"
    /\ announced' = announced \cup ({call[r].device} \cap Devices)
    /\ GoTo(r, IF call[r].kind = "verify" THEN "opening" ELSE "done")
    /\ UNCHANGED <<tables, challenges, locals, untold, openedUnder, overlapped>>

\* create_session
OpenSession(r) ==
    /\ pc[r] = "opening"
    /\ sessions' = sessions \cup {r}
    /\ openedUnder' = [openedUnder EXCEPT ![r] = user.password]
    /\ GoTo(r, IF call[r].kind = "recover" THEN "announcing" ELSE "done")
    /\ UNCHANGED <<user, codes, devices, challenges, locals, announced, untold, overlapped>>

-----------------------------------------------------------------------------
(* POST /reset/confirm, once its own code was accepted: reset_password *)

ChangePassword(r) ==
    /\ pc[r] = "reset"
    /\ user' = [password |-> user.password + 1, fails |-> 0, locked |-> FALSE]
    /\ GoTo(r, "changed")
    /\ UNCHANGED <<codes, devices, sessions, challenges, locals, history>>

\* Faulty variant: the sessions on the devices the account knows are spared.
LogOutEverywhere_KnownDevices(r) ==
    /\ pc[r] = "changed"
    /\ sessions' = {s \in sessions : call[s].device \in devices}
    /\ GoTo(r, "done")
    /\ UNCHANGED <<user, codes, devices, challenges, locals, history>>

\* `DELETE FROM sessions ...  # log out everywhere`
LogOutEverywhere(r) ==
    /\ pc[r] = "changed"
    /\ sessions' = {}
    /\ GoTo(r, "done")
    /\ UNCHANGED <<user, codes, devices, challenges, locals, history>>

-----------------------------------------------------------------------------
(* Time, the subscriber and failures *)

LockEnds ==
    /\ user.locked
    /\ user' = [user EXCEPT !.locked = FALSE]
    /\ UNCHANGED <<codes, devices, sessions, challenges, pc, locals, history>>

\* _reap_challenges, after CHALLENGE_TTL_SECONDS.
ChallengeExpires(c) ==
    /\ c \in challenges
    /\ challenges' = challenges \ {c}
    /\ UNCHANGED <<tables, pc, locals, history>>

\* destroy_session (logout, revocation) and expiry.
SessionEnds(s) ==
    /\ s \in sessions
    /\ sessions' = sessions \ {s}
    /\ UNCHANGED <<user, codes, devices, challenges, pc, locals, history>>

\* An exception ends one request.
Die(r) ==
    /\ pc[r] \in InFlight
    /\ GoTo(r, "dead")
    /\ UNCHANGED <<tables, challenges, locals, history>>

\* The process restarts: the dict is empty and no request survives.
Restart ==
    /\ challenges' = {}
    /\ pc' = [r \in Requests |-> IF pc[r] \in InFlight THEN "dead" ELSE pc[r]]
    /\ UNCHANGED <<tables, locals, history>>

\* Only the response to a login tells its challenge.
Told == {c \in Requests : call[c].kind = "login" /\ pc[c] = "done"}

Calls ==
    [kind : {"login"}, device : Fingerprints, password : 0..user.password]
    \cup [kind : {"verify"}, device : Fingerprints, challenge : Told, guess : 0..Len(codes)]
    \cup [kind : {"recover", "resend"}, device : Fingerprints, challenge : Told]
    \cup PasskeyCall \cup ResetCall

Next ==
    \/ \E r \in Requests :
           \/ \E c \in Calls : Begin(r, c)
           \/ ReadUser(r) \/ WrongPassword(r) \/ RightPassword(r)
           \/ RiskBlocks(r) \/ NewChallenge(r) \/ Supersede(r) \/ InsertCode(r)
           \/ CheckChallenge(r) \/ CheckLive(r) \/ ReadCode(r) \/ NoUsableCode(r)
           \/ CloseCode(r) \/ SpendRecoveryCode(r) \/ PopChallenge(r) \/ CheckPasskey(r)
           \/ LookUpDevice(r) \/ InsertDevice(r) \/ Announce(r) \/ OpenSession(r)
           \/ ChangePassword(r) \/ LogOutEverywhere(r) \/ Die(r)
           \/ ChallengeExpires(r) \/ SessionEnds(r)
    \/ LockEnds \/ Restart

Spec == Init /\ [][Next]_vars

-----------------------------------------------------------------------------
(* Properties of the threaded server *)

\* A session opened behind a password rests on two factors of one sign-in: it
\* belongs to the browser that sign-in's password came from, and the second factor
\* was a code issued for that very login or a recovery code, however sign-ins
\* interleave (auth_routes.py:70-81, auth.py:171-179).
BehindPassword == {s \in sessions : call[s].kind # "passkey"}
TwoFactors ==
    \A s \in BehindPassword :
        LET login == call[s].challenge
        IN  /\ call[login].device \in {NoDevice, call[s].device}
            /\ call[s].kind = "recover" \/ codes[judged[s]].bound = login

\* Unless a reset died half-way, no session opened before the password was
\* changed outlives the reset (auth.py:334-336).
Resetting == \E r \in Requests : call[r].kind = "reset" /\ pc[r] \in {"changed", "dead"}
OldSessionsEnd ==
    Resetting \/ \A s \in sessions : openedUnder[s] = user.password

\* Once no request is in flight and none died, the owner has been told of every
\* device a session was opened from that no passkey sign-in registered: also when
\* two sign-ins meet on a new device and the one that does not insert it is the
\* first to open a session (auth_routes.py:282-287, 341-346, 399-402).
Quiet == \A r \in Requests : pc[r] \notin InFlight \cup {"dead"}
NewDevicesAreAnnounced ==
    Quiet => \A s \in sessions : call[s].device \in announced \cup untold \cup {NoDevice}

Opened(r) == openedUnder[r] # 0 /\ call[r].kind # "passkey"

\* auth_routes.py:280 "single use": a challenge opens one session, whatever is
\* presented for it.
ChallengesAreSingleUse ==
    \A q, r \in Requests :
        Opened(q) /\ Opened(r) /\ call[q].challenge = call[r].challenge => q = r

(* Properties kept until two calls first overlap *)

\* A sign-in opens one session, whichever second factors are presented for it
\* and whatever is resent.
OneSessionPerSignIn == overlapped \/ ChallengesAreSingleUse

\* A locked account is unlocked by time or by a reset and by nothing else: no
\* guess, right or wrong, lifts the lock (auth.py:198-213).
LockHolds ==
    [][user.locked /\ ~user'.locked =>
          overlapped \/ LockEnds \/ \E r \in Requests : ChangePassword(r)]_vars

(* What a comment claims *)

\* auth.py:336 "log out everywhere": after a reset nobody is signed in on the
\* strength of the old password.
ResetLogsOutEverywhere ==
    Resetting \/ \A s \in BehindPassword :
                    call[call[s].challenge].password = user.password
=============================================================================
