---------------------------- MODULE OneTimeCode -----------------------------
(***************************************************************************)
(* What engine/auth.py promises of the emailed codes of one email address  *)
(* and one purpose: at most one code is live at any time, it is the newest *)
(* one issued, it is redeemed at most once and within its attempt budget.  *)
(***************************************************************************)
EXTENDS Naturals

CONSTANT MaxAttempts    \* config auth.otp_max_attempts

VARIABLES
    issued,     \* number of codes issued so far; codes are named 1..issued
    live,       \* the code that can be redeemed, 0 when there is none
    tries,      \* guesses recorded against the live code
    redeemed    \* the codes that have been redeemed

token == <<issued, live, tries, redeemed>>

Init == issued = 0 /\ live = 0 /\ tries = 0 /\ redeemed = {}

Issue ==
    /\ issued' = issued + 1
    /\ live' = issued + 1 /\ tries' = 0
    /\ UNCHANGED redeemed

\* The right code, in time and within budget.
Redeem ==
    /\ live # 0 /\ tries < MaxAttempts
    /\ redeemed' = redeemed \cup {live}
    /\ live' = 0 /\ tries' = 0
    /\ UNCHANGED issued

\* A wrong guess, or the right code from the wrong sign-in; the code may
\* expire meanwhile.
Miss ==
    /\ live # 0 /\ tries < MaxAttempts
    /\ \/ live' = live /\ tries' = tries + 1
       \/ live' = 0 /\ tries' = 0
    /\ UNCHANGED <<issued, redeemed>>

\* The code expires or is superseded.
Lapse == live # 0 /\ live' = 0 /\ tries' = 0 /\ UNCHANGED <<issued, redeemed>>

Next == Issue \/ Redeem \/ Miss \/ Lapse

Spec == Init /\ [][Next]_token
=============================================================================
