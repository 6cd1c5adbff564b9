---------------------------- MODULE SignInProofs ----------------------------
(***************************************************************************)
(* Theorems about SignIn for any number of requests and devices, any       *)
(* lockout threshold, and every interleaving, death and restart the model  *)
(* has.                                                                    *)
(***************************************************************************)
EXTENDS SignIn, TLAPS

\* A request is only where its call takes it, and a device about to be inserted
\* is one.
Route(kind) ==
    CASE kind = "login" -> {"login", "checking", "passed", "issuing", "superseded"}
      [] kind = "verify" -> {"verify", "reading", "match", "miss", "proved", "registering",
                             "new", "announcing", "opening"}
      [] kind = "recover" -> {"recover", "spending", "proved", "registering", "new",
                              "announcing", "opening"}
      [] kind = "passkey" -> {"passkey", "registering", "new", "opening"}
      [] kind = "resend" -> {"resend", "live", "issuing", "superseded"}
      [] kind = "reset" -> {"reset", "changed"}
      [] OTHER -> {}

OnRoute(r) ==
    /\ pc[r] \in InFlight => pc[r] \in Route(call[r].kind)
    /\ pc[r] = "new" => call[r].device # NoDevice

\* The login a later call belongs to was answered, and stays as it is.
Begun(r) ==
    call[r].kind \in {"verify", "recover", "resend"} => pc[call[r].challenge] = "done"

\* What a call is known to have shown, by where it stands.
Admitted == {"reading", "match", "miss", "spending", "proved", "registering", "new",
             "announcing", "opening"}
Judged == {"match", "miss", "proved", "registering", "new", "announcing", "opening"}

ShownBy(r) ==
    LET login == call[r].challenge
    IN  /\ pc[r] \in Admitted /\ call[r].kind # "passkey" =>
               call[login].device \in {NoDevice, call[r].device}
        /\ pc[r] \in Judged /\ call[r].kind = "verify" =>
               judged[r] \in Ids /\ codes[judged[r]].bound = login

\* A session belongs to a finished sign-in, or to one whose answer is under way,
\* and to what that sign-in has shown.
Opener(s) ==
    /\ call[s].kind \in {"verify", "recover", "passkey"}
    /\ pc[s] \in {"announcing", "done", "dead"}
    /\ pc[s] = "announcing" => call[s].kind = "recover"
    /\ call[s].kind # "passkey" =>
           call[call[s].challenge].device \in {NoDevice, call[s].device}
    /\ call[s].kind = "verify" =>
           judged[s] \in Ids /\ codes[judged[s]].bound = call[s].challenge

Inv ==
    /\ TypeOK
    /\ \A r \in Requests : OnRoute(r) /\ Begun(r) /\ ShownBy(r)
    /\ \A s \in sessions : Opener(s)
    /\ OldSessionsEnd

-----------------------------------------------------------------------------
(* The frame of a step *)

\* A request that moves along its route and touches neither calls, verdicts nor
\* the sign-ins' codes.
Moves(r) ==
    /\ pc' \in [Requests -> Ended \cup InFlight]
    /\ \A q \in Requests \ {r} : pc'[q] = pc[q]
    /\ pc[r] \in InFlight /\ pc'[r] # "idle"

SameCodes ==
    /\ codes' \in Seq(CodeRow) /\ Len(codes') >= Len(codes)
    /\ \A i \in Ids : codes'[i].bound = codes[i].bound

LEMMA GoToMoves ==
  ASSUME TypeOK, NEW r \in Requests, pc[r] \in InFlight,
         NEW where \in (Ended \cup InFlight) \ {"idle"}, GoTo(r, where)
  PROVE  Moves(r) /\ pc'[r] = where
  BY DEF TypeOK, GoTo, Moves

\* The three statements that write otp_codes leave the sign-in of a code alone.
LEMMA CodesUsed ==
  ASSUME TypeOK, codes' = [i \in Ids |-> [codes[i] EXCEPT !.used = TRUE]]
  PROVE  SameCodes /\ Len(codes') = Len(codes)
  <1>1. \A i \in Ids : codes[i] \in CodeRow
    BY DEF TypeOK, Ids
  <1>2. \A i \in Ids : [codes[i] EXCEPT !.used = TRUE] \in CodeRow
    BY <1>1 DEF CodeRow
  <1>3. Len(codes) \in Nat
    BY DEF TypeOK
  <1>4. codes' \in Seq(CodeRow) /\ Len(codes') = Len(codes)
    BY <1>2, <1>3 DEF Ids
  <1> QED
    BY <1>1, <1>3, <1>4 DEF SameCodes, Ids, CodeRow

LEMMA CodeAppended ==
  ASSUME Inv, NEW r \in Requests, InsertCode(r)
  PROVE  SameCodes /\ Len(codes') = Len(codes) + 1
  <1>1. call[r].kind = "login" \/ call[r].challenge \in Requests
    <2>1. call[r] \in LoginCall \cup VerifyCall \cup ChallengeCall \cup PasskeyCall
        \cup ResetCall \cup {NoCall}
      BY DEF Inv, TypeOK
    <2>2. call[r].kind \in {"login", "resend"}
      BY DEF Inv, InsertCode, OnRoute, Route, InFlight
    <2> QED
      BY <2>1, <2>2 DEF LoginCall, VerifyCall, ChallengeCall, PasskeyCall, ResetCall, NoCall
  <1> DEFINE fresh == [bound |-> IF call[r].kind = "login" THEN r ELSE call[r].challenge,
                       used |-> FALSE]
  <1>2. fresh \in CodeRow
    BY <1>1 DEF CodeRow
  <1>3. codes' = Append(codes, fresh) /\ codes \in Seq(CodeRow)
    BY DEF InsertCode, Inv, TypeOK
  <1> HIDE DEF fresh
  <1> QED
    BY <1>2, <1>3 DEF SameCodes, Ids

\* The row a verdict is written to is the one the verdict is about.
LEMMA ClosesItsOwn ==
  ASSUME Inv, NEW r \in Requests, CloseCode(r)
  PROVE  call[r].kind = "verify" /\ judged[r] \in Ids
  <1>1. call[r].kind = "verify"
    BY DEF Inv, OnRoute, Route, InFlight, CloseCode
  <1> QED
    BY <1>1 DEF Inv, ShownBy, Judged, CloseCode

LEMMA CodeClosed ==
  ASSUME Inv, NEW r \in Requests, CloseCode(r)
  PROVE  SameCodes /\ Len(codes') = Len(codes)
  <1> DEFINE i == judged[r]
             closed == [codes[i] EXCEPT !.used = pc[r] = "match"]
  <1>1. codes \in Seq(CodeRow) /\ i \in Ids
    BY ClosesItsOwn DEF Inv, TypeOK
  <1>2. closed \in CodeRow /\ closed.bound = codes[i].bound
    <2>1. codes[i] \in CodeRow
      BY <1>1 DEF Ids
    <2>2. CASE pc[r] = "match"
      BY <2>1, <2>2 DEF CodeRow
    <2>3. CASE pc[r] # "match"
      BY <2>1, <2>3 DEF CodeRow
    <2> QED
      BY <2>2, <2>3
  <1>3. codes' = [codes EXCEPT ![i] = closed]
    BY DEF CloseCode
  <1> HIDE DEF i, closed
  <1> QED
    BY <1>1, <1>2, <1>3 DEF SameCodes, Ids

LEMMA ChallengeIsARequest ==
  ASSUME TypeOK, NEW r \in Requests, call[r].kind \in {"verify", "recover", "resend"}
  PROVE  call[r].challenge \in Requests
  <1>1. call[r] \in LoginCall \cup VerifyCall \cup ChallengeCall \cup PasskeyCall
      \cup ResetCall \cup {NoCall}
    BY DEF TypeOK
  <1> QED
    BY <1>1 DEF LoginCall, VerifyCall, ChallengeCall, PasskeyCall, ResetCall, NoCall

LEMMA CodesUnchanged == ASSUME TypeOK, UNCHANGED codes PROVE SameCodes
  BY DEF TypeOK, SameCodes

-----------------------------------------------------------------------------
(* Type correctness *)

LEMMA TypeStep == Inv /\ [Next]_vars => TypeOK'
  <1> SUFFICES ASSUME Inv, [Next]_vars PROVE TypeOK'
    OBVIOUS
  <1> USE LockoutAssumption DEF GoTo, tables, locals, history, Ended, InFlight
  <1>0. TypeOK /\ user \in UserRow /\ 0 < LockoutAfter
    BY DEF Inv, TypeOK
  <1>1. ASSUME NEW r \in Requests, NEW c \in Calls, Begin(r, c) PROVE TypeOK'
    <2>1. c \in LoginCall \cup VerifyCall \cup ChallengeCall \cup PasskeyCall \cup ResetCall
      BY <1>0, <1>1 DEF TypeOK, Calls, Told, LoginCall, VerifyCall, ChallengeCall,
         PasskeyCall, ResetCall, UserRow
    <2>2. c.kind \in InFlight
      BY <1>0, <1>1 DEF TypeOK, Calls, PasskeyCall, ResetCall, InFlight
    <2> QED
      BY <1>0, <1>1, <2>1, <2>2 DEF TypeOK, Begin, Ids
  <1>2. ASSUME NEW r \in Requests, ReadUser(r) PROVE TypeOK'
    BY <1>0, <1>2 DEF TypeOK, ReadUser, Ids
  <1>3. ASSUME NEW r \in Requests, WrongPassword(r) PROVE TypeOK'
    <2>1. ASSUME row[r].fails + 1 >= LockoutAfter
          PROVE  user' \in UserRow /\ user'.fails < LockoutAfter
      <3>1. user' = [user EXCEPT !.fails = 0, !.locked = TRUE]
        BY <1>3, <2>1 DEF WrongPassword
      <3> QED
        BY <1>0, <3>1 DEF UserRow
    <2>2. ASSUME ~(row[r].fails + 1 >= LockoutAfter)
          PROVE  user' \in UserRow /\ user'.fails < LockoutAfter
      <3> DEFINE n == row[r].fails + 1
      <3>a. user' = [user EXCEPT !.fails = IF n >= LockoutAfter THEN 0 ELSE n,
                                 !.locked = n >= LockoutAfter]
        BY <1>3 DEF WrongPassword
      <3>b. (n >= LockoutAfter) = FALSE
        BY <2>2
      <3>1. user' = [user EXCEPT !.fails = n, !.locked = FALSE]
        BY <3>a, <3>b, Zenon
      <3>2. row[r].fails + 1 \in Nat /\ row[r].fails + 1 < LockoutAfter
        BY <1>0, <2>2 DEF TypeOK, UserRow
      <3> QED
        BY <1>0, <3>1, <3>2 DEF UserRow
    <2>3. user' \in UserRow /\ user'.fails < LockoutAfter
      BY <2>1, <2>2
    <2> QED
      BY <1>0, <1>3, <2>3 DEF TypeOK, WrongPassword
  <1>4. ASSUME NEW r \in Requests, RightPassword(r) PROVE TypeOK'
    <2>1. user' = [user EXCEPT !.fails = 0, !.locked = FALSE]
      BY <1>4 DEF RightPassword
    <2>2. user' \in UserRow /\ user'.fails < LockoutAfter
      BY <1>0, <2>1 DEF UserRow
    <2> QED
      BY <1>0, <1>4, <2>2 DEF TypeOK, RightPassword
  <1>5. ASSUME NEW r \in Requests, RiskBlocks(r) PROVE TypeOK'
    BY <1>0, <1>5 DEF TypeOK, RiskBlocks
  <1>6. ASSUME NEW r \in Requests, NewChallenge(r) PROVE TypeOK'
    BY <1>0, <1>6 DEF TypeOK, NewChallenge
  <1>7. ASSUME NEW r \in Requests, Supersede(r) PROVE TypeOK'
    <2>1. codes' \in Seq(CodeRow) /\ Len(codes') = Len(codes)
      BY <1>0, <1>7, CodesUsed DEF Supersede, SameCodes
    <2> QED
      BY <1>0, <1>7, <2>1 DEF TypeOK, Supersede
  <1>8. ASSUME NEW r \in Requests, InsertCode(r) PROVE TypeOK'
    <2>1. codes' \in Seq(CodeRow) /\ Len(codes') = Len(codes) + 1
      BY <1>8, CodeAppended DEF SameCodes
    <2>2. 0..Len(codes) \subseteq 0..Len(codes')
      BY <1>0, <2>1 DEF TypeOK
    <2> QED
      BY <1>0, <1>8, <2>1, <2>2 DEF TypeOK, InsertCode
  <1>9. ASSUME NEW r \in Requests, CheckChallenge(r) PROVE TypeOK'
    BY <1>0, <1>9 DEF TypeOK, CheckChallenge, AfterChallenge
  <1>10. ASSUME NEW r \in Requests, CheckLive(r) PROVE TypeOK'
    BY <1>0, <1>10 DEF TypeOK, CheckLive
  <1>11. ASSUME NEW r \in Requests, ReadCode(r) PROVE TypeOK'
    BY <1>0, <1>11 DEF TypeOK, ReadCode, Verdict, Ids
  <1>12. ASSUME NEW r \in Requests, NoUsableCode(r) PROVE TypeOK'
    BY <1>0, <1>12 DEF TypeOK, NoUsableCode
  <1>13. ASSUME NEW r \in Requests, CloseCode(r) PROVE TypeOK'
    <2>1. codes' \in Seq(CodeRow) /\ Len(codes') = Len(codes)
      BY <1>13, CodeClosed DEF SameCodes
    <2> QED
      BY <1>0, <1>13, <2>1 DEF TypeOK, CloseCode
  <1>14. ASSUME NEW r \in Requests, SpendRecoveryCode(r) PROVE TypeOK'
    BY <1>0, <1>14 DEF TypeOK, SpendRecoveryCode
  <1>15. ASSUME NEW r \in Requests, PopChallenge(r) PROVE TypeOK'
    BY <1>0, <1>15 DEF TypeOK, PopChallenge
  <1>16. ASSUME NEW r \in Requests, CheckPasskey(r) \/ LookUpDevice(r) PROVE TypeOK'
    BY <1>0, <1>16 DEF TypeOK, CheckPasskey, LookUpDevice
  <1>17. ASSUME NEW r \in Requests, InsertDevice(r) PROVE TypeOK'
    <2>1. call[r].kind \in {"verify", "recover", "passkey"} /\ call[r].device # NoDevice
      BY <1>17 DEF Inv, InsertDevice, OnRoute, Route
    <2>2. call[r] \in LoginCall \cup VerifyCall \cup ChallengeCall \cup PasskeyCall
        \cup ResetCall \cup {NoCall}
      BY <1>0 DEF TypeOK
    <2>3. call[r].device \in Devices
      BY <2>1, <2>2 DEF LoginCall, VerifyCall, ChallengeCall, PasskeyCall, ResetCall, NoCall,
         Fingerprints
    <2> QED
      BY <1>0, <1>17, <2>3 DEF TypeOK, InsertDevice
  <1>18. ASSUME NEW r \in Requests, Announce(r) PROVE TypeOK'
    BY <1>0, <1>18 DEF TypeOK, Announce
  <1>19. ASSUME NEW r \in Requests, OpenSession(r) PROVE TypeOK'
    BY <1>0, <1>19 DEF TypeOK, OpenSession, UserRow
  <1>20. ASSUME NEW r \in Requests, ChangePassword(r) PROVE TypeOK'
    <2>1. user' \in UserRow /\ user'.fails < LockoutAfter
      BY <1>0, <1>20 DEF ChangePassword, UserRow
    <2> QED
      BY <1>0, <1>20, <2>1 DEF TypeOK, ChangePassword
  <1>21. ASSUME NEW r \in Requests, LogOutEverywhere(r) PROVE TypeOK'
    BY <1>0, <1>21 DEF TypeOK, LogOutEverywhere
  <1>22. ASSUME NEW r \in Requests, Die(r) PROVE TypeOK'
    BY <1>0, <1>22 DEF TypeOK, Die
  <1>23. ASSUME NEW c \in Requests, ChallengeExpires(c) \/ SessionEnds(c) PROVE TypeOK'
    BY <1>0, <1>23 DEF TypeOK, ChallengeExpires, SessionEnds
  <1>24. CASE LockEnds
    BY <1>0, <1>24 DEF TypeOK, LockEnds, UserRow
  <1>25. CASE Restart
    BY <1>0, <1>25 DEF TypeOK, Restart
  <1>26. CASE UNCHANGED vars
    BY <1>0, <1>26 DEF TypeOK, vars, Ids
  <1> QED
    BY <1>1, <1>2, <1>3, <1>4, <1>5, <1>6, <1>7, <1>8, <1>9, <1>10, <1>11, <1>12, <1>13,
       <1>14, <1>15, <1>16, <1>17, <1>18, <1>19, <1>20, <1>21, <1>22, <1>23, <1>24, <1>25,
       <1>26 DEF Next
-----------------------------------------------------------------------------
(* What the requests have shown *)

Shown ==
    /\ \A r \in Requests : OnRoute(r) /\ Begun(r) /\ ShownBy(r)
    /\ \A s \in sessions : Opener(s)

\* A request that moves need only answer for itself.
LEMMA MoveShows ==
  ASSUME Inv, NEW r \in Requests, Moves(r), SameCodes, UNCHANGED call,
         \A q \in Requests \ {r} : judged'[q] = judged[q],
         sessions' \subseteq sessions \cup {r},
         OnRoute(r)', ShownBy(r)', r \in sessions' => Opener(r)'
  PROVE  Shown'
  <1>1. TypeOK /\ Len(codes) \in Nat /\ Len(codes') \in Nat
    BY DEF Inv, TypeOK, SameCodes
  <1>2. \A i \in Ids : i \in Ids' /\ codes'[i].bound = codes[i].bound
    BY <1>1 DEF SameCodes, Ids
  <1>3. ASSUME NEW q \in Requests PROVE OnRoute(q)'
    BY DEF Inv, Moves, OnRoute
  <1>4. ASSUME NEW q \in Requests PROVE Begun(q)'
    <2>1. CASE call[q].kind \in {"verify", "recover", "resend"}
      <3>1. call[q].challenge \in Requests
        BY <1>1, <2>1, ChallengeIsARequest
      <3> QED
        BY <3>1 DEF Inv, Moves, Begun, InFlight
    <2>2. CASE call[q].kind \notin {"verify", "recover", "resend"}
      BY <2>2 DEF Begun
    <2> QED
      BY <2>1, <2>2
  <1>5. ASSUME NEW q \in Requests \ {r} PROVE ShownBy(q)'
    BY <1>2 DEF Inv, Moves, ShownBy
  <1>6. ASSUME NEW q \in sessions', q # r PROVE Opener(q)'
    <2>1. q \in sessions /\ q \in Requests /\ Opener(q)
      BY <1>1, <1>6 DEF TypeOK, Inv
    <2> QED
      BY <1>2, <1>6, <2>1 DEF Moves, Opener
  <1> QED
    BY <1>3, <1>4, <1>5, <1>6 DEF Shown

\* A request that only goes on, to where its call takes it and it has been admitted.
LEMMA StepShows ==
  ASSUME Inv, NEW r \in Requests, pc[r] \in InFlight,
         NEW where \in (Ended \cup InFlight) \ {"idle"}, GoTo(r, where),
         UNCHANGED <<call, judged>>, SameCodes, sessions' \subseteq sessions,
         where \in InFlight => where \in Route(call[r].kind) \ {"new"},
         where \in Admitted => pc[r] \in Admitted,
         where \in Judged /\ call[r].kind = "verify" => pc[r] \in Judged,
         pc[r] = "announcing" /\ call[r].kind = "recover" => where \in {"done", "dead"}
  PROVE  Shown'
  <1>1. TypeOK /\ Moves(r) /\ pc'[r] = where
    BY GoToMoves DEF Inv
  <1>2. \A i \in Ids : i \in Ids' /\ codes'[i].bound = codes[i].bound
    BY <1>1 DEF TypeOK, SameCodes, Ids
  <1>3. OnRoute(r)'
    BY <1>1 DEF OnRoute, InFlight
  <1>4. ShownBy(r)'
    BY <1>1, <1>2 DEF Inv, ShownBy
  <1>5. r \in sessions' => Opener(r)'
    BY <1>1, <1>2 DEF Inv, Opener, InFlight
  <1> QED
    BY <1>1, <1>3, <1>4, <1>5, MoveShows
\* Picking up a request settles its call; nobody waits for it yet.
LEMMA BeginShows ==
  ASSUME Inv, NEW r \in Requests, NEW c \in Calls, Begin(r, c)
  PROVE  Shown'
  <1>1. TypeOK /\ pc[r] = "idle" /\ r \notin sessions
    BY DEF Inv, Begin, Opener
  <1>2. /\ call' = [call EXCEPT ![r] = c] /\ pc' = [pc EXCEPT ![r] = c.kind]
        /\ UNCHANGED <<codes, judged, sessions>>
    BY DEF Begin, GoTo, tables
  <1>3. c.kind \in {"login", "verify", "recover", "resend", "passkey", "reset"}
    BY DEF Calls, PasskeyCall, ResetCall
  <1>4. c.kind \in {"verify", "recover", "resend"} => c.challenge \in Told
    BY DEF Calls, PasskeyCall, ResetCall
  <1>5. /\ call'[r] = c /\ pc'[r] = c.kind
        /\ \A q \in Requests \ {r} : call'[q] = call[q] /\ pc'[q] = pc[q]
        /\ Ids' = Ids
    BY <1>1, <1>2 DEF TypeOK, Ids
  <1>6. OnRoute(r)' /\ ShownBy(r)'
    BY <1>3, <1>5 DEF OnRoute, ShownBy, Route, Admitted, Judged
  <1>7. Begun(r)'
    BY <1>1, <1>3, <1>4, <1>5 DEF Begun, Told
  <1>8. ASSUME NEW q \in Requests \ {r}, call[q].kind \in {"verify", "recover", "resend"}
        PROVE  call[q].challenge \in Requests \ {r}
    BY <1>1, <1>8, ChallengeIsARequest DEF Inv, Begun
  <1>9. ASSUME NEW q \in Requests \ {r} PROVE OnRoute(q)' /\ Begun(q)' /\ ShownBy(q)'
    <2>1. OnRoute(q) /\ Begun(q) /\ ShownBy(q)
      BY DEF Inv
    <2>2. pc[q] \in Admitted => call[q].kind \in {"verify", "recover", "passkey"}
      BY <2>1 DEF OnRoute, Route, Admitted, InFlight
    <2>3. OnRoute(q)' /\ Begun(q)'
      BY <1>5, <1>8, <2>1 DEF OnRoute, Begun
    <2>4. ShownBy(q)'
      BY <1>2, <1>5, <1>8, <2>1, <2>2 DEF ShownBy, Admitted, Judged
    <2> QED
      BY <2>3, <2>4
  <1>10. ASSUME NEW s \in sessions' PROVE Opener(s)'
    <2>1. s \in Requests \ {r} /\ Opener(s)
      BY <1>1, <1>2 DEF TypeOK, Inv
    <2> QED
      BY <1>2, <1>5, <1>8, <2>1 DEF Opener
  <1> QED
    BY <1>6, <1>7, <1>9, <1>10 DEF Shown

\* Nothing moves.
LEMMA StandStill ==
  ASSUME Inv, UNCHANGED <<codes, pc, call, judged>>, sessions' \subseteq sessions
  PROVE  Shown'
  BY DEF Inv, Shown, OnRoute, Begun, ShownBy, Opener, Ids

LEMMA ShownStep == Inv /\ [Next]_vars => Shown'
  <1> SUFFICES ASSUME Inv, [Next]_vars PROVE Shown'
    OBVIOUS
  <1>0. TypeOK
    BY DEF Inv
  <1> USE DEF tables, locals, history, Ended, InFlight
  <1>1. ASSUME NEW r \in Requests, NEW c \in Calls, Begin(r, c) PROVE Shown'
    BY <1>1, BeginShows
  <1>2. ASSUME NEW r \in Requests, ReadUser(r) PROVE Shown'
    <2>1. OnRoute(r)
      BY DEF Inv
    <2>2. SameCodes
      BY <1>0, <1>2, CodesUnchanged DEF ReadUser
    <2> QED
      BY <1>2, <2>1, <2>2, StepShows DEF ReadUser, OnRoute, Route, Admitted, Judged
  <1>3. ASSUME NEW r \in Requests, WrongPassword(r) PROVE Shown'
    <2>1. OnRoute(r)
      BY DEF Inv
    <2>2. SameCodes
      BY <1>0, <1>3, CodesUnchanged DEF WrongPassword
    <2> QED
      BY <1>3, <2>1, <2>2, StepShows DEF WrongPassword, OnRoute, Route, Admitted, Judged
  <1>4. ASSUME NEW r \in Requests, RightPassword(r) PROVE Shown'
    <2>1. OnRoute(r)
      BY DEF Inv
    <2>2. SameCodes
      BY <1>0, <1>4, CodesUnchanged DEF RightPassword
    <2> QED
      BY <1>4, <2>1, <2>2, StepShows DEF RightPassword, OnRoute, Route, Admitted, Judged
  <1>5. ASSUME NEW r \in Requests, RiskBlocks(r) PROVE Shown'
    <2>1. OnRoute(r)
      BY DEF Inv
    <2>2. SameCodes
      BY <1>0, <1>5, CodesUnchanged DEF RiskBlocks
    <2> QED
      BY <1>5, <2>1, <2>2, StepShows DEF RiskBlocks, OnRoute, Route, Admitted, Judged
  <1>6. ASSUME NEW r \in Requests, NewChallenge(r) PROVE Shown'
    <2>1. OnRoute(r)
      BY DEF Inv
    <2>2. SameCodes
      BY <1>0, <1>6, CodesUnchanged DEF NewChallenge
    <2> QED
      BY <1>6, <2>1, <2>2, StepShows DEF NewChallenge, OnRoute, Route, Admitted, Judged
  <1>7. ASSUME NEW r \in Requests, Supersede(r) PROVE Shown'
    <2>1. OnRoute(r)
      BY DEF Inv
    <2>2. SameCodes
      BY <1>0, <1>7, CodesUsed DEF Supersede
    <2> QED
      BY <1>7, <2>1, <2>2, StepShows DEF Supersede, OnRoute, Route, Admitted, Judged
  <1>8. ASSUME NEW r \in Requests, InsertCode(r) PROVE Shown'
    <2>1. OnRoute(r)
      BY DEF Inv
    <2>2. SameCodes
      BY <1>0, <1>8, CodeAppended DEF InsertCode
    <2> QED
      BY <1>8, <2>1, <2>2, StepShows DEF InsertCode, OnRoute, Route, Admitted, Judged
  <1>9. ASSUME NEW r \in Requests, CheckChallenge(r) PROVE Shown'
    <2>1. OnRoute(r)
      BY DEF Inv
    <2>2. SameCodes
      BY <1>0, <1>9, CodesUnchanged DEF CheckChallenge
    <2>3. PICK where \in {"reading", "spending", "live", "refused"} :
              /\ GoTo(r, where)
              /\ where # "refused" => FromItsDevice(r, call[r].challenge)
              /\ where \in InFlight => where \in Route(call[r].kind)
      BY <1>9, <2>1 DEF CheckChallenge, AfterChallenge, OnRoute, Route
    <2>4. Moves(r) /\ pc'[r] = where
      BY <1>0, <1>9, <2>3, GoToMoves DEF CheckChallenge, AfterChallenge
    <2>5. OnRoute(r)' /\ ShownBy(r)'
      BY <1>9, <2>3, <2>4 DEF CheckChallenge, OnRoute, ShownBy, Admitted, Judged,
                              FromItsDevice
    <2>6. r \notin sessions'
      BY <1>9 DEF CheckChallenge, Inv, Opener, AfterChallenge
    <2> QED
      BY <1>9, <2>2, <2>4, <2>5, <2>6, MoveShows DEF CheckChallenge
  <1>10. ASSUME NEW r \in Requests, CheckLive(r) PROVE Shown'
    <2>1. OnRoute(r)
      BY DEF Inv
    <2>2. SameCodes
      BY <1>0, <1>10, CodesUnchanged DEF CheckLive
    <2> QED
      BY <1>10, <2>1, <2>2, StepShows DEF CheckLive, OnRoute, Route, Admitted, Judged
  <1>11. ASSUME NEW r \in Requests, ReadCode(r) PROVE Shown'
    <2>1. OnRoute(r) /\ ShownBy(r)
      BY DEF Inv
    <2>2. SameCodes
      BY <1>0, <1>11, CodesUnchanged DEF ReadCode
    <2>3. PICK i \in Ids : judged' = [judged EXCEPT ![r] = i] /\ GoTo(r, Verdict(r, i))
      BY <1>11 DEF ReadCode
    <2>4. /\ Verdict(r, i) \in {"match", "miss", "refused"}
          /\ Verdict(r, i) # "refused" => codes[i].bound = call[r].challenge
      BY DEF Verdict
    <2>5. Moves(r) /\ pc'[r] = Verdict(r, i)
      BY <1>0, <1>11, <2>3, <2>4, GoToMoves DEF ReadCode
    <2>6. judged'[r] = i /\ \A q \in Requests \ {r} : judged'[q] = judged[q]
      BY <1>0, <2>3 DEF TypeOK
    <2>7. call[r].kind = "verify" /\ r \notin sessions'
      BY <1>11, <2>1 DEF ReadCode, OnRoute, Route, Inv, Opener
    <2>8. OnRoute(r)' /\ ShownBy(r)'
      BY <1>11, <2>1, <2>4, <2>5, <2>6, <2>7
         DEF ReadCode, OnRoute, Route, ShownBy, Admitted, Judged, Ids
    <2> QED
      BY <1>11, <2>2, <2>5, <2>6, <2>7, <2>8, MoveShows DEF ReadCode
  <1>12. ASSUME NEW r \in Requests, NoUsableCode(r) PROVE Shown'
    <2>1. OnRoute(r)
      BY DEF Inv
    <2>2. SameCodes
      BY <1>0, <1>12, CodesUnchanged DEF NoUsableCode
    <2> QED
      BY <1>12, <2>1, <2>2, StepShows DEF NoUsableCode, OnRoute, Route, Admitted, Judged
  <1>13. ASSUME NEW r \in Requests, CloseCode(r) PROVE Shown'
    <2>1. OnRoute(r)
      BY DEF Inv
    <2>2. SameCodes
      BY <1>0, <1>13, CodeClosed DEF CloseCode
    <2> QED
      BY <1>13, <2>1, <2>2, StepShows DEF CloseCode, OnRoute, Route, Admitted, Judged
  <1>14. ASSUME NEW r \in Requests, SpendRecoveryCode(r) PROVE Shown'
    <2>1. OnRoute(r)
      BY DEF Inv
    <2>2. SameCodes
      BY <1>0, <1>14, CodesUnchanged DEF SpendRecoveryCode
    <2> QED
      BY <1>14, <2>1, <2>2, StepShows DEF SpendRecoveryCode, OnRoute, Route, Admitted, Judged
  <1>15. ASSUME NEW r \in Requests, PopChallenge(r) PROVE Shown'
    <2>1. OnRoute(r)
      BY DEF Inv
    <2>2. SameCodes
      BY <1>0, <1>15, CodesUnchanged DEF PopChallenge
    <2> QED
      BY <1>15, <2>1, <2>2, StepShows DEF PopChallenge, OnRoute, Route, Admitted, Judged
  <1>27. ASSUME NEW r \in Requests, CheckPasskey(r) PROVE Shown'
    <2>1. OnRoute(r)
      BY DEF Inv
    <2>2. call[r].kind = "passkey" /\ r \notin sessions'
      BY <1>27, <2>1 DEF CheckPasskey, OnRoute, Route, Inv, Opener
    <2>3. SameCodes
      BY <1>0, <1>27, CodesUnchanged DEF CheckPasskey
    <2>4. PICK where \in {"registering", "refused"} : GoTo(r, where)
      BY <1>27 DEF CheckPasskey
    <2>5. Moves(r) /\ pc'[r] = where
      BY <1>0, <1>27, <2>4, GoToMoves DEF CheckPasskey
    <2>6. OnRoute(r)' /\ ShownBy(r)'
      BY <1>27, <2>2, <2>5 DEF CheckPasskey, OnRoute, Route, ShownBy
    <2> QED
      BY <1>27, <2>2, <2>3, <2>5, <2>6, MoveShows DEF CheckPasskey
  <1>16. ASSUME NEW r \in Requests, LookUpDevice(r) PROVE Shown'
    <2>1. OnRoute(r) /\ ShownBy(r)
      BY DEF Inv
    <2>2. SameCodes
      BY <1>0, <1>16, CodesUnchanged DEF LookUpDevice
    <2>3. PICK where \in {"opening", "new"} :
              GoTo(r, where) /\ (where = "new" => call[r].device # NoDevice)
      BY <1>16 DEF LookUpDevice
    <2>4. Moves(r) /\ pc'[r] = where
      BY <1>0, <1>16, <2>3, GoToMoves DEF LookUpDevice
    <2>5. OnRoute(r)' /\ ShownBy(r)'
      BY <1>16, <2>1, <2>3, <2>4
         DEF LookUpDevice, OnRoute, Route, ShownBy, Admitted, Judged, Ids
    <2>6. r \notin sessions'
      BY <1>16 DEF LookUpDevice, Inv, Opener
    <2> QED
      BY <1>16, <2>2, <2>4, <2>5, <2>6, MoveShows DEF LookUpDevice
  <1>17. ASSUME NEW r \in Requests, InsertDevice(r) PROVE Shown'
    <2>1. OnRoute(r)
      BY DEF Inv
    <2>2. SameCodes
      BY <1>0, <1>17, CodesUnchanged DEF InsertDevice
    <2> QED
      BY <1>17, <2>1, <2>2, StepShows DEF InsertDevice, OnRoute, Route, Admitted, Judged
  <1>18. ASSUME NEW r \in Requests, Announce(r) PROVE Shown'
    <2>1. OnRoute(r)
      BY DEF Inv
    <2>2. SameCodes
      BY <1>0, <1>18, CodesUnchanged DEF Announce
    <2> QED
      BY <1>18, <2>1, <2>2, StepShows DEF Announce, OnRoute, Route, Admitted, Judged
  <1>19. ASSUME NEW r \in Requests, OpenSession(r) PROVE Shown'
    <2>1. OnRoute(r) /\ ShownBy(r)
      BY DEF Inv
    <2>2. SameCodes
      BY <1>0, <1>19, CodesUnchanged DEF OpenSession
    <2>3. PICK where \in {"done", "announcing"} :
              GoTo(r, where) /\ (where = "announcing" <=> call[r].kind = "recover")
      BY <1>19 DEF OpenSession
    <2>4. Moves(r) /\ pc'[r] = where
      BY <1>0, <1>19, <2>3, GoToMoves DEF OpenSession
    <2>5. call[r].kind \in {"verify", "recover", "passkey"}
      BY <1>19, <2>1 DEF OpenSession, OnRoute, Route
    <2>6. OnRoute(r)' /\ ShownBy(r)'
      BY <1>19, <2>1, <2>3, <2>4, <2>5
         DEF OpenSession, OnRoute, Route, ShownBy, Admitted, Judged, Ids
    <2>7. Opener(r)'
      BY <1>19, <2>1, <2>3, <2>4, <2>5 DEF OpenSession, ShownBy, Admitted, Judged, Opener, Ids
    <2> QED
      BY <1>19, <2>2, <2>4, <2>6, <2>7, MoveShows DEF OpenSession
  <1>20. ASSUME NEW r \in Requests, ChangePassword(r) PROVE Shown'
    <2>1. OnRoute(r)
      BY DEF Inv
    <2>2. SameCodes
      BY <1>0, <1>20, CodesUnchanged DEF ChangePassword
    <2> QED
      BY <1>20, <2>1, <2>2, StepShows DEF ChangePassword, OnRoute, Route, Admitted, Judged
  <1>21. ASSUME NEW r \in Requests, LogOutEverywhere(r) PROVE Shown'
    <2>1. OnRoute(r)
      BY DEF Inv
    <2>2. SameCodes
      BY <1>0, <1>21, CodesUnchanged DEF LogOutEverywhere
    <2> QED
      BY <1>21, <2>1, <2>2, StepShows DEF LogOutEverywhere, OnRoute, Route, Admitted, Judged
  <1>22. ASSUME NEW r \in Requests, Die(r) PROVE Shown'
    <2>1. OnRoute(r)
      BY DEF Inv
    <2>2. SameCodes
      BY <1>0, <1>22, CodesUnchanged DEF Die
    <2> QED
      BY <1>22, <2>1, <2>2, StepShows DEF Die, OnRoute, Route, Admitted, Judged
  <1>23. ASSUME NEW c \in Requests, ChallengeExpires(c) \/ SessionEnds(c) PROVE Shown'
    BY <1>23, StandStill DEF ChallengeExpires, SessionEnds
  <1>24. CASE LockEnds
    BY <1>24, StandStill DEF LockEnds
  <1>25. CASE Restart
    <2>1. /\ \A q \in Requests : pc'[q] = IF pc[q] \in InFlight THEN "dead" ELSE pc[q]
          /\ UNCHANGED <<codes, call, judged, sessions>>
      BY <1>25 DEF Restart
    <2>2. \A q \in Requests : OnRoute(q)' /\ ShownBy(q)'
      BY <1>0, <2>1 DEF TypeOK, OnRoute, ShownBy, Admitted, Judged
    <2>3. ASSUME NEW q \in Requests PROVE Begun(q)'
      BY <1>0, <2>1, ChallengeIsARequest DEF Inv, Begun
    <2>4. ASSUME NEW q \in sessions PROVE Opener(q)'
      BY <1>0, <2>1 DEF TypeOK, Inv, Opener, Ids
    <2> QED
      BY <2>1, <2>2, <2>3, <2>4 DEF Shown
  <1>26. CASE UNCHANGED vars
    BY <1>26, StandStill DEF vars
  <1> QED
    BY <1>1, <1>2, <1>3, <1>4, <1>5, <1>6, <1>7, <1>8, <1>9, <1>10, <1>11, <1>12, <1>13,
       <1>14, <1>15, <1>16, <1>17, <1>18, <1>19, <1>20, <1>21, <1>22, <1>23, <1>24, <1>25,
       <1>26, <1>27 DEF Next
-----------------------------------------------------------------------------
(* Sessions and passwords *)

\* While a reset stands between its two statements, or died there, nothing is
\* claimed; the statement that ends it leaves no session.
LEMMA PasswordStep == Inv /\ [Next]_vars => OldSessionsEnd'
  <1> SUFFICES ASSUME Inv, [Next]_vars PROVE OldSessionsEnd'
    OBVIOUS
  <1>0. TypeOK /\ OldSessionsEnd /\ \A r \in Requests : OnRoute(r)
    BY DEF Inv
  <1> USE DEF tables, locals, history, GoTo
  \* A reset that stands between its statements stays there.
  <1>1. ASSUME UNCHANGED <<user.password, openedUnder>>, sessions' \subseteq sessions,
               \A r \in Requests :
                   call[r].kind = "reset" /\ pc[r] \in {"changed", "dead"}
                   => call'[r] = call[r] /\ pc'[r] \in {"changed", "dead"}
        PROVE  OldSessionsEnd'
    BY <1>0, <1>1 DEF OldSessionsEnd, Resetting, TypeOK
  <1>2. ASSUME NEW r \in Requests, NEW c \in Calls, Begin(r, c) PROVE OldSessionsEnd'
    BY <1>0, <1>1, <1>2 DEF Begin, TypeOK
  <1>3. ASSUME NEW r \in Requests, ReadUser(r) \/ WrongPassword(r) \/ RightPassword(r)
        PROVE  OldSessionsEnd'
    BY <1>0, <1>1, <1>3 DEF ReadUser, WrongPassword, RightPassword, TypeOK, UserRow
  <1>4. ASSUME NEW r \in Requests,
               RiskBlocks(r) \/ NewChallenge(r) \/ Supersede(r) \/ InsertCode(r)
        PROVE  OldSessionsEnd'
    BY <1>0, <1>1, <1>4 DEF RiskBlocks, NewChallenge, Supersede, InsertCode, TypeOK
  <1>5. ASSUME NEW r \in Requests,
               CheckChallenge(r) \/ CheckLive(r) \/ ReadCode(r) \/ NoUsableCode(r)
        PROVE  OldSessionsEnd'
    BY <1>0, <1>1, <1>5 DEF CheckChallenge, CheckLive, ReadCode, NoUsableCode, AfterChallenge,
                            TypeOK
  <1>6. ASSUME NEW r \in Requests, CloseCode(r) \/ SpendRecoveryCode(r) \/ PopChallenge(r)
        PROVE  OldSessionsEnd'
    BY <1>0, <1>1, <1>6 DEF CloseCode, SpendRecoveryCode, PopChallenge, TypeOK
  <1>7. ASSUME NEW r \in Requests,
               CheckPasskey(r) \/ LookUpDevice(r) \/ InsertDevice(r) \/ Announce(r)
        PROVE  OldSessionsEnd'
    BY <1>0, <1>1, <1>7 DEF CheckPasskey, LookUpDevice, InsertDevice, Announce, TypeOK
  <1>8. ASSUME NEW r \in Requests, OpenSession(r) PROVE OldSessionsEnd'
    <2>1. /\ sessions' = sessions \cup {r} /\ openedUnder'[r] = user.password
          /\ \A s \in Requests \ {r} : openedUnder'[s] = openedUnder[s]
          /\ UNCHANGED <<user, call>>
          /\ pc[r] = "opening" /\ \A q \in Requests \ {r} : pc'[q] = pc[q]
      BY <1>0, <1>8 DEF OpenSession, TypeOK
    <2> QED
      BY <1>0, <2>1 DEF OldSessionsEnd, Resetting, TypeOK
  <1>9. ASSUME NEW r \in Requests, ChangePassword(r) PROVE OldSessionsEnd'
    <2>1. call'[r].kind = "reset" /\ pc'[r] = "changed"
      BY <1>0, <1>9 DEF ChangePassword, OnRoute, Route, InFlight, TypeOK
    <2> QED
      BY <2>1 DEF OldSessionsEnd, Resetting
  <1>10. ASSUME NEW r \in Requests, LogOutEverywhere(r) PROVE OldSessionsEnd'
    BY <1>10 DEF LogOutEverywhere, OldSessionsEnd
  <1>11. ASSUME NEW r \in Requests, Die(r) PROVE OldSessionsEnd'
    BY <1>0, <1>1, <1>11 DEF Die, TypeOK
  <1>12. ASSUME NEW c \in Requests, ChallengeExpires(c) \/ SessionEnds(c)
         PROVE  OldSessionsEnd'
    BY <1>1, <1>12 DEF ChallengeExpires, SessionEnds
  <1>13. CASE LockEnds
    BY <1>0, <1>1, <1>13 DEF LockEnds, TypeOK, UserRow
  <1>14. CASE Restart
    BY <1>0, <1>1, <1>14 DEF Restart, TypeOK, InFlight
  <1>15. CASE UNCHANGED vars
    BY <1>1, <1>15 DEF vars
  <1> QED
    BY <1>2, <1>3, <1>4, <1>5, <1>6, <1>7, <1>8, <1>9, <1>10, <1>11, <1>12, <1>13, <1>14,
       <1>15 DEF Next

-----------------------------------------------------------------------------
(* The owner is told of new devices *)

\* A request that may still have to tell the owner of its device, or died before; a
\* passkey sign-in never has to.
Telling(r) ==
    \/ pc[r] \in {"announcing", "dead"} /\ call[r].kind \in {"verify", "recover"}
    \/ pc[r] = "opening" /\ call[r].kind = "recover"

Telltale ==
    /\ \A d \in devices :
           d \in announced \cup untold \/ \E r \in Requests : Telling(r) /\ call[r].device = d
    /\ \A r \in Requests :
           pc[r] \in {"announcing", "opening"} => call[r].device \in devices \cup {NoDevice}
    /\ \A s \in sessions : call[s].device \in devices \cup {NoDevice}

\* Devices and announcements are never forgotten, and a request that has its owner
\* to tell keeps that duty until it has done so.
LEMMA TellKeeps ==
  ASSUME Inv, Telltale, NEW r \in Requests, Moves(r), UNCHANGED call,
         devices \subseteq devices', announced \cup untold \subseteq (announced \cup untold)',
         devices' \subseteq devices \cup {call[r].device},
         sessions' \subseteq sessions \cup {r},
         Telling(r) => Telling(r)' \/ {call[r].device} \cap devices' \subseteq announced',
         call[r].device \in devices' \ devices => Telling(r)' \/ call[r].device \in untold',
         pc'[r] \in {"announcing", "opening"} \/ r \in sessions' \ sessions
         => call[r].device \in devices' \cup {NoDevice}
  PROVE  Telltale'
  <1>1. ASSUME NEW d \in devices'
        PROVE  d \in (announced \cup untold)'
            \/ \E q \in Requests : Telling(q)' /\ call[q].device = d
    <2>1. CASE d \notin devices
      BY <2>1
    <2>2. CASE d \in devices
      <3>1. \A q \in Requests \ {r} : Telling(q) => Telling(q)'
        BY DEF Moves, Telling
      <3> QED
        BY <2>2, <3>1 DEF Telltale
    <2> QED
      BY <2>1, <2>2
  <1>2. ASSUME NEW q \in Requests, pc'[q] \in {"announcing", "opening"}
        PROVE  call[q].device \in devices' \cup {NoDevice}
    BY <1>2 DEF Telltale, Moves
  <1>3. \A q \in sessions' : call[q].device \in devices' \cup {NoDevice}
    BY DEF Telltale
  <1> QED
    BY <1>1, <1>2, <1>3 DEF Telltale

\* A request that is on its way and has nothing to tell, or dies.
LEMMA TellsNothing ==
  ASSUME Inv, Telltale, NEW r \in Requests, pc[r] \in InFlight,
         NEW where \in (Ended \cup InFlight) \ {"idle"}, GoTo(r, where),
         where \notin {"announcing", "opening"},
         pc[r] \notin {"announcing", "opening"} \/ where = "dead",
         UNCHANGED <<call, devices, announced, untold>>, sessions' \subseteq sessions
  PROVE  Telltale'
  <1>1. Moves(r) /\ pc'[r] = where
    BY GoToMoves DEF Inv
  <1>2. Telling(r) => Telling(r)'
    BY <1>1 DEF Telling, InFlight
  <1> QED
    BY <1>1, <1>2, TellKeeps

LEMMA TellStep == Inv /\ Telltale /\ [Next]_vars => Telltale'
  <1> SUFFICES ASSUME Inv, Telltale, [Next]_vars PROVE Telltale'
    OBVIOUS
  <1>0. TypeOK /\ \A r \in Requests : OnRoute(r) /\ (r \in sessions => Opener(r))
    BY DEF Inv
  <1> USE DEF tables, locals, history, Ended, InFlight
  <1>1. ASSUME NEW r \in Requests, NEW c \in Calls, Begin(r, c) PROVE Telltale'
    <2>1. /\ pc[r] = "idle" /\ pc'[r] \notin {"announcing", "opening"} /\ r \notin sessions
          /\ \A q \in Requests \ {r} : pc'[q] = pc[q] /\ call'[q] = call[q]
          /\ UNCHANGED <<devices, announced, untold, sessions>>
      BY <1>0, <1>1 DEF Begin, GoTo, Calls, PasskeyCall, ResetCall, TypeOK, Opener
    <2>2. \A q \in Requests : Telling(q) => q # r /\ Telling(q)'
      BY <2>1 DEF Telling
    <2>3. \A d \in devices :
              d \in announced \cup untold
                  \/ \E q \in Requests : Telling(q)' /\ call'[q].device = d
      BY <2>1, <2>2 DEF Telltale
    <2>4. \A s \in sessions : s \in Requests \ {r}
      BY <1>0, <2>1 DEF TypeOK
    <2> QED
      BY <2>1, <2>3, <2>4 DEF Telltale
  <1>2. ASSUME NEW r \in Requests, ReadUser(r) \/ WrongPassword(r) \/ RightPassword(r)
        PROVE  Telltale'
    BY <1>2, TellsNothing DEF ReadUser, WrongPassword, RightPassword
  <1>3. ASSUME NEW r \in Requests,
               RiskBlocks(r) \/ NewChallenge(r) \/ Supersede(r) \/ InsertCode(r)
        PROVE  Telltale'
    BY <1>3, TellsNothing DEF RiskBlocks, NewChallenge, Supersede, InsertCode
  <1>4. ASSUME NEW r \in Requests,
               CheckChallenge(r) \/ CheckLive(r) \/ ReadCode(r) \/ NoUsableCode(r)
        PROVE  Telltale'
    BY <1>4, TellsNothing DEF CheckChallenge, AfterChallenge, CheckLive, ReadCode, Verdict,
                              NoUsableCode
  <1>5. ASSUME NEW r \in Requests,
               CloseCode(r) \/ SpendRecoveryCode(r) \/ PopChallenge(r) \/ CheckPasskey(r)
        PROVE  Telltale'
    BY <1>5, TellsNothing DEF CloseCode, SpendRecoveryCode, PopChallenge, CheckPasskey
  <1>6. ASSUME NEW r \in Requests, LookUpDevice(r) PROVE Telltale'
    <2>1. CASE call[r].device \in devices \cup {NoDevice}
      <3>1. Moves(r) /\ pc'[r] = "opening"
        BY <1>0, <1>6, <2>1, GoToMoves DEF LookUpDevice
      <3> QED
        BY <1>6, <2>1, <3>1, TellKeeps DEF LookUpDevice, Telling
    <2>2. CASE call[r].device \notin devices \cup {NoDevice}
      BY <1>6, <2>2, TellsNothing DEF LookUpDevice
    <2> QED
      BY <2>1, <2>2
  <1>7. ASSUME NEW r \in Requests, InsertDevice(r) PROVE Telltale'
    <2>1. call[r].kind \in {"verify", "recover", "passkey"}
      BY <1>0, <1>7 DEF InsertDevice, OnRoute, Route
    <2>2. PICK where \in {"failed", "announcing", "opening"} :
              /\ GoTo(r, where)
              /\ call[r].device \notin devices
                 => where # "failed" /\ (where = "announcing" <=> call[r].kind = "verify")
      BY <1>7, <2>1 DEF InsertDevice
    <2>3. Moves(r) /\ pc'[r] = where
      BY <1>0, <1>7, <2>2, GoToMoves DEF InsertDevice
    <2> QED
      BY <1>7, <2>1, <2>2, <2>3, TellKeeps DEF InsertDevice, Telling
  <1>8. ASSUME NEW r \in Requests, Announce(r) PROVE Telltale'
    <2>1. PICK where \in {"opening", "done"} : GoTo(r, where)
      BY <1>8 DEF Announce
    <2>2. Moves(r) /\ pc'[r] = where
      BY <1>0, <1>8, <2>1, GoToMoves DEF Announce
    <2>3. devices \subseteq Devices /\ call[r].device \in devices \cup {NoDevice}
      BY <1>0, <1>8 DEF TypeOK, Announce, Telltale
    <2> QED
      BY <1>8, <2>2, <2>3, TellKeeps DEF Announce
  <1>9. ASSUME NEW r \in Requests, OpenSession(r) PROVE Telltale'
    <2>1. PICK where \in {"announcing", "done"} :
              GoTo(r, where) /\ (where = "announcing" <=> call[r].kind = "recover")
      BY <1>9 DEF OpenSession
    <2>2. Moves(r) /\ pc'[r] = where
      BY <1>0, <1>9, <2>1, GoToMoves DEF OpenSession
    <2>3. call[r].device \in devices \cup {NoDevice}
      BY <1>9 DEF OpenSession, Telltale
    <2> QED
      BY <1>9, <2>1, <2>2, <2>3, TellKeeps DEF OpenSession, Telling
  <1>10. ASSUME NEW r \in Requests, ChangePassword(r) \/ LogOutEverywhere(r) PROVE Telltale'
    BY <1>10, TellsNothing DEF ChangePassword, LogOutEverywhere
  <1>11. ASSUME NEW r \in Requests, Die(r) PROVE Telltale'
    BY <1>11, TellsNothing DEF Die
  <1>12. ASSUME NEW c \in Requests, ChallengeExpires(c) \/ SessionEnds(c) PROVE Telltale'
    BY <1>12 DEF ChallengeExpires, SessionEnds, Telltale, Telling
  <1>13. CASE LockEnds
    BY <1>13 DEF LockEnds, Telltale, Telling
  <1>14. CASE Restart
    <2>1. \A q \in Requests : Telling(q) => Telling(q)'
      BY <1>0, <1>14 DEF Restart, Telling, TypeOK
    <2> QED
      BY <1>14, <2>1 DEF Restart, Telltale
  <1>15. CASE UNCHANGED vars
    BY <1>15 DEF vars, Telltale, Telling
  <1> QED
    BY <1>1, <1>2, <1>3, <1>4, <1>5, <1>6, <1>7, <1>8, <1>9, <1>10, <1>11, <1>12, <1>13,
       <1>14, <1>15 DEF Next

-----------------------------------------------------------------------------
(* Until two calls overlap *)

Spent == {"registering", "new", "announcing", "opening"}

\* The call in flight, if any, is the only one: the row it read is current, no
\* other request has used its sign-in, and a challenge is there for one use.
Alone ==
    overlapped \/
    /\ \A q, r \in Requests : pc[q] \in InFlight /\ pc[r] \in InFlight => q = r
    /\ \A r \in Requests : pc[r] = "checking" => ~user.locked
    /\ \A r \in Requests :
           pc[r] \in Spent /\ call[r].kind # "passkey" => call[r].challenge \notin challenges
    /\ \A r, q \in Requests :
           /\ pc[r] \in Admitted /\ call[r].kind # "passkey"
           /\ Opened(q) /\ call[q].challenge = call[r].challenge
           => q = r
    /\ \A q \in Requests :
           Opened(q) => /\ call[q].kind \in {"verify", "recover"}
                        /\ pc[q] \in {"announcing", "done", "dead"}
                        /\ pc[q] = "announcing" => call[q].kind = "recover"
                        /\ call[q].challenge \notin challenges
    /\ \A q \in Requests : pc[q] = "idle" => openedUnder[q] = 0
    /\ OneSessionPerSignIn

\* The one request in flight goes on.
LEMMA AloneKeeps ==
  ASSUME Inv, Alone, NEW r \in Requests, Moves(r), UNCHANGED <<call, overlapped>>,
         pc'[r] = "checking" => ~user'.locked,
         pc'[r] \in Spent /\ call[r].kind # "passkey" => call[r].challenge \notin challenges',
         \/ challenges' \subseteq challenges
         \/ pc[r] = "passed" /\ challenges' = challenges \cup {r},
         pc'[r] \in Admitted /\ call[r].kind # "passkey"
         => pc[r] \in Admitted \/ call[r].challenge \in challenges,
         \/ UNCHANGED openedUnder /\ (Opened(r) => pc'[r] \in {"done", "dead"})
         \/ /\ pc[r] = "opening" /\ pc'[r] \in {"announcing", "done"}
            /\ pc'[r] = "announcing" => call[r].kind = "recover"
            /\ \A q \in Requests \ {r} : openedUnder'[q] = openedUnder[q]
  PROVE  Alone'
  <1> SUFFICES ASSUME ~overlapped PROVE Alone'
    BY DEF Alone
  <1>1. \A q \in Requests \ {r} : pc[q] \notin InFlight /\ pc'[q] = pc[q]
    BY DEF Alone, Moves
  <1>2. Spent \subseteq InFlight /\ Admitted \subseteq InFlight /\ "checking" \in InFlight
    BY DEF Spent, Admitted, InFlight
  <1>3. \A q \in Requests : Opened(q) => Opened(q)' \/ q = r
    BY DEF Opened
  <1>4. \A q \in Requests :
            Opened(q)' => Opened(q) \/ (q = r /\ pc[r] = "opening" /\ call[r].kind # "passkey")
    BY DEF Opened
  <1>5. pc[r] = "opening" /\ call[r].kind # "passkey"
        => call[r].kind \in {"verify", "recover"} /\ call[r].challenge \notin challenges
    BY DEF Inv, OnRoute, Route, InFlight, Alone, Spent
  <1>6. \A q, c \in Requests : pc[c] = "passed" /\ call[q].kind \in {"verify", "recover"}
                              => call[q].challenge # c
    BY DEF Inv, Begun
  <1>7. ASSUME NEW q \in Requests, Opened(q)'
        PROVE  /\ call[q].kind \in {"verify", "recover"}
               /\ pc'[q] \in {"announcing", "done", "dead"}
               /\ pc'[q] = "announcing" => call[q].kind = "recover"
               /\ call[q].challenge \notin challenges'
    <2>1. call[q].kind \in {"verify", "recover"} /\ call[q].challenge \notin challenges
      BY <1>4, <1>5, <1>7 DEF Alone
    <2>2. /\ pc'[q] \in {"announcing", "done", "dead"}
          /\ pc'[q] = "announcing" => call[q].kind = "recover"
      BY <1>1, <1>4, <1>7 DEF Alone, Opened
    <2> QED
      BY <1>6, <2>1, <2>2
  <1>8. ASSUME NEW q \in Requests, pc'[r] \in Admitted, call[r].kind # "passkey", Opened(q)',
               call[q].challenge = call[r].challenge
        PROVE  q = r
    BY <1>4, <1>8 DEF Alone
  <1>9. ASSUME NEW p \in Requests, NEW q \in Requests, Opened(p)', Opened(q)',
               call[p].challenge = call[q].challenge
        PROVE  p = q
    BY <1>4, <1>9 DEF Alone, OneSessionPerSignIn, ChallengesAreSingleUse, Admitted
  <1>10. \A q \in Requests : pc'[q] \in InFlight => q = r
    BY <1>1
  <1>11. \A q \in Requests : pc'[q] = "idle" => openedUnder'[q] = 0
    BY <1>1 DEF Alone, Moves
  <1> QED
    BY <1>2, <1>7, <1>8, <1>9, <1>10, <1>11
       DEF Alone, OneSessionPerSignIn, ChallengesAreSingleUse

LEMMA OpenedIsLate ==
  ASSUME Alone, ~overlapped', UNCHANGED overlapped, NEW r \in Requests, Opened(r)
  PROVE  /\ pc[r] \in {"announcing", "done", "dead"}
         /\ pc[r] = "announcing" => call[r].kind = "recover"
  BY DEF Alone

\* The one request in flight goes on, and neither admits nor opens anything.
LEMMA OneGoesOn ==
  ASSUME Inv, Alone, ~overlapped', NEW r \in Requests, pc[r] \in InFlight,
         NEW where \in (Ended \cup InFlight) \ {"idle", "checking"}, GoTo(r, where),
         UNCHANGED <<call, challenges, openedUnder, overlapped>>,
         where \in Spent => pc[r] \in Spent,
         where \in Admitted => pc[r] \in Admitted,
         pc[r] = "announcing" /\ call[r].kind = "recover" => where \in {"done", "dead"}
  PROVE  Alone'
  <1>1. Moves(r) /\ pc'[r] = where
    BY GoToMoves DEF Inv
  <1>2. Opened(r) => where \in {"done", "dead"}
    BY OpenedIsLate DEF InFlight
  <1>3. where \in Spent /\ call[r].kind # "passkey" => call[r].challenge \notin challenges
    BY DEF Alone
  <1> QED
    BY <1>1, <1>2, <1>3, AloneKeeps

LEMMA AloneStep == Inv /\ Alone /\ [Next]_vars => Alone'
  <1> SUFFICES ASSUME Inv, Alone, [Next]_vars, ~overlapped' PROVE Alone'
    BY DEF Alone
  <1>0. TypeOK
    BY DEF Inv
  <1> USE DEF tables, locals, history
  <1>1. ASSUME NEW r \in Requests, NEW c \in Calls, Begin(r, c) PROVE Alone'
    <2>1. /\ ~overlapped /\ \A q \in Requests : pc[q] \notin InFlight
          /\ pc[r] = "idle" /\ pc'[r] \in {"login", "verify", "recover", "resend", "passkey",
              "reset"}
          /\ \A q \in Requests \ {r} : pc'[q] = pc[q] /\ call'[q] = call[q]
          /\ UNCHANGED <<challenges, openedUnder>>
      BY <1>0, <1>1 DEF Begin, GoTo, Calls, PasskeyCall, ResetCall, TypeOK
    <2>2. \A q \in Requests : Opened(q)' => Opened(q) /\ q # r
      BY <2>1 DEF Opened, Alone
    <2>3. \A q \in Requests : pc'[q] \in InFlight => q = r
      BY <2>1
    <2>4. \A q \in Requests : pc'[q] \notin Spent \cup Admitted \cup {"checking"}
      BY <2>1, <2>3 DEF Spent, Admitted, InFlight
    <2> QED
      BY <2>1, <2>2, <2>3, <2>4 DEF Alone, OneSessionPerSignIn, ChallengesAreSingleUse
  <1>2. ASSUME NEW r \in Requests, ReadUser(r) PROVE Alone'
    <2>1. ~overlapped /\ ~Opened(r)
      BY <1>2, OpenedIsLate DEF ReadUser
    <2>2. PICK where \in {"refused", "checking"} :
              GoTo(r, where) /\ (where = "checking" => ~user.locked)
      BY <1>2 DEF ReadUser
    <2>3. Moves(r) /\ pc'[r] = where
      BY <1>0, <1>2, <2>2, GoToMoves DEF ReadUser, Ended, InFlight
    <2> QED
      BY <1>2, <2>1, <2>2, <2>3, AloneKeeps DEF ReadUser, Spent, Admitted
  <1>3. ASSUME NEW r \in Requests, NewChallenge(r) PROVE Alone'
    <2>1. ~Opened(r)
      BY <1>3, OpenedIsLate DEF NewChallenge
    <2>2. Moves(r) /\ pc'[r] = "issuing"
      BY <1>0, <1>3, GoToMoves DEF NewChallenge, Ended, InFlight
    <2> QED
      BY <1>3, <2>1, <2>2, AloneKeeps DEF NewChallenge, Spent, Admitted
  <1>4. ASSUME NEW r \in Requests, CheckChallenge(r) PROVE Alone'
    <2>1. ~Opened(r)
      BY <1>4, OpenedIsLate DEF CheckChallenge, AfterChallenge
    <2>2. PICK where \in {"reading", "spending", "live", "refused"} :
              GoTo(r, where) /\ (where # "refused" => call[r].challenge \in challenges)
      BY <1>4 DEF CheckChallenge, AfterChallenge, FromItsDevice
    <2>3. Moves(r) /\ pc'[r] = where
      BY <1>0, <1>4, <2>2, GoToMoves DEF CheckChallenge, AfterChallenge, Ended, InFlight
    <2> QED
      BY <1>4, <2>1, <2>2, <2>3, AloneKeeps DEF CheckChallenge, Spent, Admitted
  <1>5. ASSUME NEW r \in Requests, PopChallenge(r) PROVE Alone'
    <2>1. ~Opened(r)
      BY <1>5, OpenedIsLate DEF PopChallenge
    <2>2. Moves(r) /\ pc'[r] = "registering"
      BY <1>0, <1>5, GoToMoves DEF PopChallenge, Ended, InFlight
    <2> QED
      BY <1>5, <2>1, <2>2, AloneKeeps DEF PopChallenge, Spent, Admitted
  <1>6. ASSUME NEW r \in Requests, OpenSession(r) PROVE Alone'
    <2>1. PICK where \in {"announcing", "done"} :
              GoTo(r, where) /\ (where = "announcing" <=> call[r].kind = "recover")
      BY <1>6 DEF OpenSession
    <2>2. Moves(r) /\ pc'[r] = where
      BY <1>0, <1>6, <2>1, GoToMoves DEF OpenSession, Ended, InFlight
    <2>3. call[r].kind \in {"verify", "recover", "passkey"}
      BY <1>6 DEF OpenSession, Inv, OnRoute, Route, InFlight
    <2>4. call[r].kind # "passkey" => call[r].challenge \notin challenges
      BY <1>6 DEF OpenSession, Alone, Spent
    <2>5. \A q \in Requests \ {r} : openedUnder'[q] = openedUnder[q]
      BY <1>0, <1>6 DEF OpenSession, TypeOK
    <2> QED
      BY <1>6, <2>1, <2>2, <2>3, <2>4, <2>5, AloneKeeps DEF OpenSession, Admitted
  <1>17. ASSUME NEW r \in Requests, CheckPasskey(r) PROVE Alone'
    <2>1. ~Opened(r) /\ call[r].kind = "passkey"
      BY <1>17, OpenedIsLate DEF CheckPasskey, Inv, OnRoute, Route, InFlight
    <2>2. PICK where \in {"registering", "refused"} : GoTo(r, where)
      BY <1>17 DEF CheckPasskey
    <2>3. Moves(r) /\ pc'[r] = where
      BY <1>0, <1>17, <2>2, GoToMoves DEF CheckPasskey, Ended, InFlight
    <2> QED
      BY <1>17, <2>1, <2>2, <2>3, AloneKeeps DEF CheckPasskey
  <1>7. ASSUME NEW r \in Requests, WrongPassword(r) \/ RightPassword(r) \/ RiskBlocks(r)
        PROVE  Alone'
    BY <1>7, OneGoesOn DEF WrongPassword, RightPassword, RiskBlocks, Spent, Admitted, Ended,
       InFlight
  <1>8. ASSUME NEW r \in Requests, Supersede(r) \/ InsertCode(r) \/ CheckLive(r)
        PROVE  Alone'
    BY <1>8, OneGoesOn DEF Supersede, InsertCode, CheckLive, Spent, Admitted, Ended, InFlight
  <1>9. ASSUME NEW r \in Requests, ReadCode(r) \/ NoUsableCode(r) \/ CloseCode(r)
        PROVE  Alone'
    BY <1>9, OneGoesOn DEF ReadCode, NoUsableCode, CloseCode, Verdict, Spent, Admitted,
       Ended, InFlight
  <1>10. ASSUME NEW r \in Requests, SpendRecoveryCode(r) \/ LookUpDevice(r) \/ InsertDevice(r)
        PROVE  Alone'
    BY <1>10, OneGoesOn DEF SpendRecoveryCode, LookUpDevice, InsertDevice, Spent, Admitted,
       Ended, InFlight
  <1>11. ASSUME NEW r \in Requests, Announce(r) \/ ChangePassword(r) \/ LogOutEverywhere(r)
        PROVE  Alone'
    BY <1>11, OneGoesOn DEF Announce, ChangePassword, LogOutEverywhere, Spent, Admitted,
       Ended, InFlight
  <1>12. ASSUME NEW r \in Requests, Die(r)
        PROVE  Alone'
    BY <1>12, OneGoesOn DEF Die, Spent, Admitted, Ended, InFlight
  <1>13. ASSUME NEW c \in Requests, ChallengeExpires(c) \/ SessionEnds(c) PROVE Alone'
    BY <1>13 DEF ChallengeExpires, SessionEnds, Alone, Opened, OneSessionPerSignIn,
       ChallengesAreSingleUse
  <1>14. CASE LockEnds
    BY <1>14 DEF LockEnds, Alone, Opened, OneSessionPerSignIn, ChallengesAreSingleUse
  <1>15. CASE Restart
    <2>1. \A q \in Requests :
              pc'[q] \notin InFlight /\ (pc[q] \notin InFlight => pc'[q] = pc[q])
      BY <1>0, <1>15 DEF Restart, TypeOK, InFlight
    <2>2. \A q \in Requests : pc[q] \in InFlight => pc'[q] = "dead"
      BY <1>0, <1>15 DEF Restart, TypeOK
    <2>3. Spent \subseteq InFlight /\ Admitted \subseteq InFlight /\ "checking" \in InFlight
      BY DEF Spent, Admitted, InFlight
    <2> QED
      BY <1>15, <2>1, <2>2, <2>3
         DEF Restart, Alone, Opened, OneSessionPerSignIn, ChallengesAreSingleUse
  <1>16. CASE UNCHANGED vars
    BY <1>16 DEF vars, Alone, Opened, OneSessionPerSignIn, ChallengesAreSingleUse
  <1> QED
    BY <1>1, <1>2, <1>3, <1>4, <1>5, <1>6, <1>7, <1>8, <1>9, <1>10, <1>11, <1>12, <1>13,
       <1>14, <1>15, <1>16, <1>17 DEF Next

-----------------------------------------------------------------------------
(* Theorems *)

LEMMA InitInv == Init => Inv
  <1> SUFFICES ASSUME Init PROVE Inv
    OBVIOUS
  <1>1. FirstUser \in UserRow /\ FirstUser.fails < LockoutAfter
    BY LockoutAssumption DEF FirstUser, UserRow
  <1>2. codes \in Seq(CodeRow) /\ Len(codes) = 0
    BY DEF Init
  <1>3. TypeOK
    <2>1. /\ pc \in [Requests -> Ended \cup InFlight]
          /\ row \in [Requests -> UserRow]
          /\ openedUnder \in [Requests -> Nat]
      BY <1>1 DEF Init, Ended
    <2>2. call \in [Requests -> LoginCall \cup VerifyCall \cup ChallengeCall \cup PasskeyCall
                                \cup ResetCall \cup {NoCall}]
      BY DEF Init
    <2>3. judged \in [Requests -> 0..Len(codes)]
      BY <1>2 DEF Init
    <2> QED
      BY <1>1, <1>2, <2>1, <2>2, <2>3 DEF Init, TypeOK
  <1>4. \A r \in Requests : pc[r] = "idle" /\ call[r].kind = "none"
    BY DEF Init, NoCall
  <1>5. \A r \in Requests : OnRoute(r) /\ Begun(r) /\ ShownBy(r)
    BY <1>4 DEF OnRoute, Begun, ShownBy, InFlight, Admitted, Judged
  <1>6. sessions = {}
    BY DEF Init
  <1> QED
    BY <1>3, <1>5, <1>6 DEF Inv, OldSessionsEnd

LEMMA InvariantHolds == Spec => []Inv
  <1>1. Inv /\ [Next]_vars => Inv'
    BY TypeStep, ShownStep, PasswordStep DEF Inv, Shown
  <1> QED
    BY InitInv, <1>1, PTL DEF Spec

LEMMA InitRest == Init => Telltale /\ Alone
  <1> SUFFICES ASSUME Init PROVE Telltale /\ Alone
    OBVIOUS
  <1>1. \A r \in Requests : pc[r] = "idle" /\ openedUnder[r] = 0
    BY DEF Init
  <1>2. devices = {} /\ sessions = {}
    BY DEF Init
  <1> QED
    BY <1>1, <1>2 DEF Telltale, Alone, Opened, OneSessionPerSignIn, ChallengesAreSingleUse,
       InFlight, Spent, Admitted

LEMMA RestHolds == Spec => [](Telltale /\ Alone)
  <1>1. Inv /\ Telltale /\ Alone /\ [Next]_vars => (Telltale /\ Alone)'
    BY TellStep, AloneStep
  <1> QED
    BY InitRest, InvariantHolds, <1>1, PTL DEF Spec

\* The tables, the dict and the threads keep their types; a failure counter stays
\* below the lockout threshold whatever stale rows are written back.
THEOREM TypeCorrect == Spec => []TypeOK
  BY InvariantHolds, PTL DEF Inv

\* Every session opened behind a password rests on two factors of one sign-in.
THEOREM TwoFactorsHolds == Spec => []TwoFactors
  <1>1. Inv => TwoFactors
    BY DEF Inv, Opener, TwoFactors, BehindPassword
  <1> QED
    BY <1>1, InvariantHolds, PTL

\* Unless a reset died half-way, no session opened under an older password is left.
THEOREM OldSessionsEndHolds == Spec => []OldSessionsEnd
  BY InvariantHolds, PTL DEF Inv

\* When all is quiet and nobody died, the owner was told of every device with a
\* session, or a passkey sign-in had registered it.
THEOREM NewDevicesAreAnnouncedHolds == Spec => []NewDevicesAreAnnounced
  <1>1. TypeOK /\ Telltale => NewDevicesAreAnnounced
    BY DEF TypeOK, Telltale, NewDevicesAreAnnounced, Quiet, Telling, InFlight
  <1> QED
    BY <1>1, InvariantHolds, RestHolds, PTL DEF Inv

\* As long as no two calls have overlapped, a sign-in opens one session.
THEOREM OneSessionPerSignInHolds == Spec => []OneSessionPerSignIn
  <1>1. Alone => OneSessionPerSignIn
    BY DEF Alone, OneSessionPerSignIn
  <1> QED
    BY <1>1, RestHolds, PTL

\* As long as no two calls have overlapped, no guess lifts a lock.
THEOREM LockHoldsHolds == Spec => LockHolds
  <1> DEFINE Lifts ==
        user.locked /\ ~user'.locked =>
            overlapped \/ LockEnds \/ \E r \in Requests : ChangePassword(r)
  <1>1. ASSUME Alone, [Next]_vars PROVE [Lifts]_vars
    <2> SUFFICES ASSUME user.locked, ~user'.locked, ~overlapped,
                        ~LockEnds, \A r \in Requests : ~ChangePassword(r)
                 PROVE  FALSE
      BY DEF Lifts
    <2>1. \A r \in Requests : pc[r] # "checking"
      BY <1>1 DEF Alone
    <2>2. user' # user
      OBVIOUS
    <2> QED
      BY <1>1, <2>1, <2>2
         DEF Next, Begin, ReadUser, WrongPassword, RightPassword, RiskBlocks, NewChallenge,
             Supersede, InsertCode, CheckChallenge, CheckLive, ReadCode, NoUsableCode,
             CloseCode, SpendRecoveryCode, PopChallenge, CheckPasskey, LookUpDevice,
             InsertDevice, Announce, OpenSession, LogOutEverywhere, Die, ChallengeExpires,
             SessionEnds, Restart, vars, tables
  <1> QED
    BY <1>1, RestHolds, PTL DEF Spec, LockHolds
=============================================================================
