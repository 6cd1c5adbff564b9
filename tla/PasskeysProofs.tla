---------------------------- MODULE PasskeysProofs ----------------------------
(***************************************************************************)
(* Theorems about Passkeys, for any number of requests, accounts,          *)
(* authenticators, keys and ceremonies, whatever answers are posted with   *)
(* whatever handles, and whenever the server is restarted.                 *)
(***************************************************************************)
EXTENDS Passkeys, SequenceTheorems, FiniteSetTheorems, TLAPS

(* Types *)

\* A request is at work; it has read the passkey's row.
Working == Stages \ {"idle", "over", "dead"}
Judging == {"counting", "warning", "admitting", "opening"}

\* TypeOK without what it says of single requests.
StoreTypes ==
    /\ ceremonies \in Seq(Ceremony) /\ Len(ceremonies) <= MaxCeremonies
    /\ open \subseteq Issued
    /\ counter \in [Authenticators -> 0..MaxCount]
    /\ answers \subseteq Answer
    /\ rows \subseteq Row /\ lastId \in Nat
    /\ sessions \subseteq [account : Accounts, key : Keys, handle : Handles, by : Requests]
    /\ alerts \subseteq [id : Nat, by : Requests] /\ notices \subseteq Nat
    /\ registered \subseteq [id : Nat, account : Accounts, key : Keys, handle : Handles,
                             by : Requests]
    /\ accepted \in Seq([id : Nat, count : 0..MaxCount, warned : BOOLEAN, by : Requests])
    /\ overtaken \subseteq Nat

\* What a request has in hand where it stands; who registers is signed in.
Has(r) ==
    /\ pc[r] \in Working => /\ call[r] \in Call /\ call[r].handle \in Issued
                            /\ call[r].kind = "create" => call[r].account \in Accounts
    /\ pc[r] \in {"looking", "inserting", "telling"} => call[r].kind = "create"
    /\ pc[r] \in Judging => row[r] \in Row

LocalTypes ==
    /\ pc \in [Requests -> Stages]
    /\ call \in [Requests -> Call \cup {NoCall}]
    /\ row \in [Requests -> Row \cup {NoRow}]
    /\ \A r \in Requests : Has(r)

TypeInv == StoreTypes /\ LocalTypes

LEMMA TypeInit == Init => TypeInv
  <1> SUFFICES ASSUME Init PROVE TypeInv
    OBVIOUS
  <1>1. /\ <<>> \in Seq(Ceremony) /\ Len(<<>>) = 0
        /\ <<>> \in Seq([id : Nat, count : 0..MaxCount, warned : BOOLEAN, by : Requests])
    BY EmptySeq
  <1>2. Cardinality(Enrolled) \in Nat
    BY FS_CardinalityType, EnrolledAssumption
  <1>3. 0 \in 0..MaxCount
    BY BoundAssumption
  <1>4. StoreTypes
    BY <1>1, <1>2, <1>3, EnrolledAssumption, BoundAssumption DEF Init, StoreTypes
  <1>5. LocalTypes
    BY DEF Init, LocalTypes, Has, Working, Judging, Stages
  <1> QED
    BY <1>4, <1>5 DEF TypeInv

\* One request moves and has what its new position requires.
LEMMA LocalStep ==
    ASSUME TypeInv, ceremonies' \in Seq(Ceremony), Len(ceremonies) <= Len(ceremonies'),
           NEW r \in Requests,
           /\ pc' \in [Requests -> Stages]
           /\ call' \in [Requests -> Call \cup {NoCall}]
           /\ row' \in [Requests -> Row \cup {NoRow}],
           \A q \in Requests \ {r} : pc'[q] = pc[q] /\ call'[q] = call[q] /\ row'[q] = row[q],
           Has(r)'
    PROVE  LocalTypes'
  <1>1. Issued \subseteq Issued'
    <2>1. Len(ceremonies) \in Nat /\ Len(ceremonies') \in Nat
      BY LenProperties DEF TypeInv, StoreTypes
    <2> QED
      BY <2>1 DEF Issued
  <1>2. ASSUME NEW q \in Requests, q # r PROVE Has(q)'
    <2>1. Has(q) /\ pc'[q] = pc[q] /\ call'[q] = call[q] /\ row'[q] = row[q]
      BY <1>2 DEF TypeInv, LocalTypes
    <2> QED
      BY <1>1, <2>1 DEF Has
  <1>3. \A q \in Requests : Has(q)'
    BY <1>2
  <1> QED
    BY <1>3 DEF LocalTypes

LEMMA Leaves ==
    ASSUME TypeInv, UNCHANGED ceremonies, NEW r \in Requests, NEW where \in {"over", "dead"},
           Leave(r, where)
    PROVE  LocalTypes'
  <1>1. /\ ceremonies' \in Seq(Ceremony) /\ Len(ceremonies) <= Len(ceremonies')
    BY LenProperties DEF TypeInv, StoreTypes
  <1>2. /\ pc' \in [Requests -> Stages]
        /\ call' \in [Requests -> Call \cup {NoCall}]
        /\ row' \in [Requests -> Row \cup {NoRow}]
        /\ \A q \in Requests \ {r} : pc'[q] = pc[q] /\ call'[q] = call[q] /\ row'[q] = row[q]
        /\ pc'[r] = where
    BY DEF Leave, GoTo, TypeInv, LocalTypes, Stages
  <1>3. Has(r)'
    BY <1>2 DEF Has, Working, Judging
  <1> QED
    BY <1>1, <1>2, <1>3, LocalStep

LEMMA Proceeds ==
    ASSUME TypeInv, UNCHANGED ceremonies, NEW r \in Requests, NEW where \in Working,
           pc[r] \in Working, Proceed(r, where),
           where \in {"looking", "inserting", "telling"} => call[r].kind = "create",
           where \in Judging => row[r] \in Row
    PROVE  LocalTypes'
  <1>1. /\ ceremonies' \in Seq(Ceremony) /\ Len(ceremonies) <= Len(ceremonies')
    BY LenProperties DEF TypeInv, StoreTypes
  <1>2. /\ pc' \in [Requests -> Stages]
        /\ call' = call /\ row' = row /\ pc'[r] = where
        /\ \A q \in Requests \ {r} : pc'[q] = pc[q]
    BY DEF Proceed, GoTo, locals, TypeInv, LocalTypes, Working
  <1>3. Has(r) /\ Issued' = Issued
    BY DEF TypeInv, LocalTypes, Issued
  <1>4. Has(r)'
    BY <1>2, <1>3 DEF Has
  <1> QED
    BY <1>1, <1>2, <1>4, LocalStep DEF TypeInv, LocalTypes

LEMMA StoreStays ==
    ASSUME TypeInv, UNCHANGED <<outside, ceremonies, store, history>>
    PROVE  StoreTypes'
  BY DEF TypeInv, StoreTypes, outside, store, history, Issued, Ceremony, Answer, Row, Handles,
         Kinds

LEMMA NewChallengeTypes ==
    ASSUME TypeInv, NEW kind \in Kinds, NEW a \in Accounts \cup {Nobody},
           NewChallenge(kind, a)
    PROVE  TypeInv'
  <1>1. Len(ceremonies) \in Nat /\ ceremonies \in Seq(Ceremony)
    BY LenProperties DEF TypeInv, StoreTypes
  <1>2. [kind |-> kind, account |-> a] \in Ceremony
    BY DEF Ceremony
  <1>3. ceremonies' \in Seq(Ceremony) /\ Len(ceremonies') = Len(ceremonies) + 1
    BY <1>1, <1>2, AppendProperties DEF NewChallenge
  <1>4. open' \subseteq Issued' /\ Issued \subseteq Issued' /\ Len(ceremonies') <= MaxCeremonies
    <2>1. /\ open' = open \cup {Len(ceremonies) + 1} /\ Len(ceremonies) < MaxCeremonies
          /\ open \subseteq Issued
      BY DEF NewChallenge, TypeInv, StoreTypes
    <2>2. Issued \subseteq Issued' /\ Len(ceremonies) + 1 \in Issued'
      BY <1>1, <1>3 DEF Issued
    <2> QED
      BY <1>1, <1>3, <2>1, <2>2, BoundAssumption
  <1>5. StoreTypes'
    BY <1>3, <1>4 DEF NewChallenge, outside, history, TypeInv, StoreTypes, Handles
  <1>6. \A r \in Requests : Has(r)'
    BY <1>4 DEF NewChallenge, locals, TypeInv, LocalTypes, Has
  <1> QED
    BY <1>5, <1>6 DEF NewChallenge, locals, TypeInv, LocalTypes

LEMMA HandleIsOne == TypeInv => Issued \subseteq Handles
  BY LenProperties, BoundAssumption DEF TypeInv, StoreTypes, Issued, Handles

LEMMA SignTypes ==
    ASSUME TypeInv, NEW d \in Authenticators, NEW h \in Issued, Sign(d, h)
    PROVE  TypeInv'
  <1> DEFINE count == IF d \in Counting THEN counter[d] + 1 ELSE 0
             answer == [handle |-> h, kind |-> ceremonies[h].kind, key |-> KeyOf[d],
                        count |-> count]
  <1>1. counter \in [Authenticators -> 0..MaxCount] /\ count <= MaxCount
    BY DEF TypeInv, StoreTypes, Sign
  <1>2. count \in 0..MaxCount
    <2>1. counter[d] \in 0..MaxCount
      BY <1>1
    <2> QED
      BY <1>1, <2>1, BoundAssumption
  <1>3. ceremonies[h].kind \in Kinds /\ h \in Handles /\ KeyOf[d] \in Keys
    <2>1. ceremonies[h] \in Ceremony
      BY ElementOfSeq DEF TypeInv, StoreTypes, Issued
    <2> QED
      BY <2>1, HandleIsOne, KeyAssumption DEF Ceremony
  <1> HIDE DEF count
  <1>4. answer \in Answer
    BY <1>2, <1>3 DEF Answer
  <1>5. counter' = [counter EXCEPT ![d] = count] /\ answers' = answers \cup {answer}
    BY DEF Sign, count
  <1>6. counter' \in [Authenticators -> 0..MaxCount] /\ answers' \subseteq Answer
    BY <1>1, <1>2, <1>4, <1>5 DEF TypeInv, StoreTypes
  <1>7. UNCHANGED <<ceremonies, store, pc, locals, history>>
    BY DEF Sign
  <1>8. StoreTypes'
    BY <1>6, <1>7 DEF store, history, TypeInv, StoreTypes, Issued
  <1>9. LocalTypes'
    BY <1>7 DEF locals, TypeInv, LocalTypes, Has, Issued
  <1> QED
    BY <1>8, <1>9 DEF TypeInv

LEMMA BeginTypes ==
    ASSUME TypeInv, NEW r \in Requests, NEW kind \in Kinds, NEW h \in Issued,
           NEW a \in Accounts \cup {Nobody}, NEW answer \in answers,
           Begin(r, kind, h, a, answer)
    PROVE  TypeInv'
  <1> DEFINE c == [kind |-> kind, handle |-> h, account |-> a, answer |-> answer]
  <1>1. c \in Call /\ c.handle \in Issued /\ (c.kind = "create" => c.account \in Accounts)
    BY HandleIsOne, NobodyAssumption DEF Call, TypeInv, StoreTypes, Begin
  <1>2. /\ call' = [call EXCEPT ![r] = c] /\ pc' = [pc EXCEPT ![r] = "taking"]
        /\ row' = row /\ UNCHANGED <<outside, ceremonies, store, history>>
    BY DEF Begin, GoTo
  <1> HIDE DEF c
  <1>3. /\ pc' \in [Requests -> Stages]
        /\ call' \in [Requests -> Call \cup {NoCall}]
        /\ row' \in [Requests -> Row \cup {NoRow}]
        /\ \A q \in Requests \ {r} : pc'[q] = pc[q] /\ call'[q] = call[q] /\ row'[q] = row[q]
        /\ pc'[r] = "taking" /\ call'[r] = c /\ Issued' = Issued
    BY <1>1, <1>2 DEF TypeInv, LocalTypes, Stages, Issued
  <1>4. Has(r)'
    BY <1>1, <1>3 DEF Has, Working, Judging
  <1>5. ceremonies' \in Seq(Ceremony) /\ Len(ceremonies) <= Len(ceremonies')
    BY <1>2, LenProperties DEF TypeInv, StoreTypes
  <1> QED
    BY <1>2, <1>3, <1>4, <1>5, LocalStep, StoreStays DEF TypeInv

\* Most steps of a request change nothing but where it stands.
LEMMA LocalWork ==
    ASSUME TypeInv, NEW r \in Requests,
           TakeChallenge(r) \/ LookForPasskey(r) \/ ReadPasskey(r) \/ Admit(r) \/ Die(r)
    PROVE  TypeInv'
  <1>1. CASE TakeChallenge(r)
    <2>1. /\ open' \subseteq open
          /\ UNCHANGED <<outside, ceremonies, rows, lastId, sessions, alerts, notices, history>>
      BY <1>1 DEF TakeChallenge, Pop
    <2>2. StoreTypes'
      BY <2>1 DEF outside, history, TypeInv, StoreTypes, Issued
    <2>3. LocalTypes'
      BY <1>1, <2>1, Leaves, Proceeds DEF TakeChallenge, TakenFor, Working, Stages, Judging
    <2> QED
      BY <2>2, <2>3 DEF TypeInv
  <1>2. CASE LookForPasskey(r)
    <2>1. Has(r)
      BY DEF TypeInv, LocalTypes
    <2>2. LocalTypes'
      BY <1>2, <2>1, Leaves, Proceeds DEF LookForPasskey, Working, Stages, Judging, Has
    <2> QED
      BY <1>2, <2>2, StoreStays DEF LookForPasskey, TypeInv
  <1>3. CASE ReadPasskey(r)
    <2>1. UNCHANGED <<outside, ceremonies, store, history>>
      BY <1>3 DEF ReadPasskey
    <2>2. ASSUME NEW x \in rows, row' = [row EXCEPT ![r] = x], GoTo(r, "counting"),
                 UNCHANGED call
          PROVE  LocalTypes'
      <3>1. /\ pc' \in [Requests -> Stages]
            /\ call' \in [Requests -> Call \cup {NoCall}]
            /\ row' \in [Requests -> Row \cup {NoRow}]
            /\ \A q \in Requests \ {r} :
                 pc'[q] = pc[q] /\ call'[q] = call[q] /\ row'[q] = row[q]
            /\ pc'[r] = "counting" /\ row'[r] \in Row /\ call'[r] = call[r] /\ Issued' = Issued
        BY <2>1, <2>2 DEF GoTo, TypeInv, StoreTypes, LocalTypes, Stages, Issued
      <3>2. pc[r] \in Working /\ Has(r)
        BY <1>3 DEF ReadPasskey, Working, Stages, TypeInv, LocalTypes
      <3>3. Has(r)'
        BY <3>1, <3>2 DEF Has
      <3>4. ceremonies' \in Seq(Ceremony) /\ Len(ceremonies) <= Len(ceremonies')
        BY <2>1, LenProperties DEF TypeInv, StoreTypes
      <3> QED
        BY <3>1, <3>3, <3>4, LocalStep
    <2>3. LocalTypes'
      BY <1>3, <2>1, <2>2, Leaves DEF ReadPasskey
    <2> QED
      BY <2>1, <2>3, StoreStays DEF TypeInv
  <1>4. CASE Admit(r)
    <2>1. Has(r)
      BY DEF TypeInv, LocalTypes
    <2>2. LocalTypes'
      BY <1>4, <2>1, Leaves, Proceeds DEF Admit, Working, Stages, Judging, Has
    <2> QED
      BY <1>4, <2>2, StoreStays DEF Admit, TypeInv
  <1>5. CASE Die(r)
    BY <1>5, Leaves, StoreStays DEF Die, TypeInv
  <1> QED
    BY <1>1, <1>2, <1>3, <1>4, <1>5

LEMMA InsertTypes ==
    ASSUME TypeInv, NEW r \in Requests, InsertPasskey(r)
    PROVE  TypeInv'
  <1> DEFINE id == lastId + 1
             new == [id |-> id, account |-> call[r].account, key |-> call[r].answer.key,
                     count |-> call[r].answer.count]
             entry == [id |-> id, account |-> call[r].account, key |-> call[r].answer.key,
                       handle |-> call[r].handle, by |-> r]
             first == [id |-> id, count |-> call[r].answer.count, warned |-> FALSE, by |-> r]
  <1>1. Has(r) /\ pc[r] = "inserting" /\ pc[r] \in Working
    BY DEF InsertPasskey, TypeInv, LocalTypes, Working, Stages
  <1>2. /\ call[r].account \in Accounts /\ call[r].handle \in Handles
        /\ call[r].answer.key \in Keys /\ call[r].answer.count \in 0..MaxCount
        /\ call[r].kind = "create"
    BY <1>1 DEF Has, Call, Answer
  <1>3. id \in Nat /\ lastId \in Nat
    BY DEF TypeInv, StoreTypes
  <1>4. UNCHANGED <<outside, ceremonies, open, sessions, alerts, notices, overtaken>>
    BY DEF InsertPasskey
  <1>5. CASE Leave(r, "over") /\ UNCHANGED <<rows, lastId, registered, accepted>>
    <2>1. UNCHANGED <<outside, ceremonies, store, history>>
      BY <1>4, <1>5 DEF store, history
    <2> QED
      BY <1>5, <2>1, Leaves, StoreStays DEF TypeInv
  <1>6. CASE /\ rows' = rows \cup {new} /\ lastId' = id
             /\ registered' = registered \cup {entry}
             /\ accepted' = Append(accepted, first) /\ Proceed(r, "telling")
    <2>1. /\ new \in Row
          /\ entry \in [id : Nat, account : Accounts, key : Keys, handle : Handles,
                        by : Requests]
          /\ first \in [id : Nat, count : 0..MaxCount, warned : BOOLEAN, by : Requests]
      BY <1>2, <1>3 DEF Row
    <2> HIDE DEF id, new, entry, first
    <2>2. accepted' \in Seq([id : Nat, count : 0..MaxCount, warned : BOOLEAN, by : Requests])
      BY <1>6, <2>1, AppendProperties DEF TypeInv, StoreTypes
    <2>3. StoreTypes'
      BY <1>3, <1>4, <1>6, <2>1, <2>2 DEF outside, TypeInv, StoreTypes, Issued
    <2>4. LocalTypes'
      BY <1>1, <1>2, <1>4, <1>6, Proceeds DEF Working, Stages, Judging
    <2> QED
      BY <2>3, <2>4 DEF TypeInv
  <1> QED
    BY <1>5, <1>6 DEF InsertPasskey

LEMMA WriteTypes ==
    ASSUME TypeInv, NEW r \in Requests, WriteCounter(r)
    PROVE  TypeInv'
  <1> DEFINE seen == row[r].count
             count == call[r].answer.count
             newest == IF count >= seen THEN count ELSE seen
             where == IF Suspicious(seen, count) THEN "warning" ELSE "admitting"
             entry == [id |-> row[r].id, count |-> count, warned |-> Suspicious(seen, count),
                       by |-> r]
  <1>1. Has(r) /\ pc[r] \in Working /\ pc[r] \in Judging
    BY DEF WriteCounter, TypeInv, LocalTypes, Working, Stages, Judging
  <1>2. row[r] \in Row /\ call[r].answer \in Answer
    BY <1>1 DEF Has, Call
  <1>3. /\ row[r].id \in Nat /\ seen \in 0..MaxCount /\ count \in 0..MaxCount
        /\ newest \in 0..MaxCount
    BY <1>2 DEF Row, Answer
  <1>4. Suspicious(seen, count) \in BOOLEAN
    BY DEF Suspicious
  <1>5. entry \in [id : Nat, count : 0..MaxCount, warned : BOOLEAN, by : Requests]
    BY <1>3, <1>4, Zenon
  <1>6. /\ rows' = {IF x.id = row[r].id THEN [x EXCEPT !.count = newest] ELSE x : x \in rows}
        /\ overtaken' \subseteq overtaken \cup {row[r].id}
        /\ accepted' = Append(accepted, entry) /\ Proceed(r, where)
        /\ UNCHANGED <<outside, ceremonies, open, lastId, sessions, alerts, notices,
                       registered>>
    BY DEF WriteCounter
  <1>7. where \in Working /\ where \notin {"looking", "inserting", "telling"}
    BY DEF Working, Stages
  <1> HIDE DEF newest, entry, where, seen, count
  <1>8. rows' \subseteq Row
    <2>1. \A x \in Row : [x EXCEPT !.count = newest] \in Row
      BY <1>3 DEF Row
    <2>2. rows \subseteq Row
      BY DEF TypeInv, StoreTypes
    <2> QED
      BY <1>6, <2>1, <2>2
  <1>9. accepted' \in Seq([id : Nat, count : 0..MaxCount, warned : BOOLEAN, by : Requests])
    BY <1>5, <1>6, AppendProperties DEF TypeInv, StoreTypes
  <1>10. StoreTypes'
    BY <1>3, <1>6, <1>8, <1>9 DEF outside, TypeInv, StoreTypes, Issued
  <1>11. LocalTypes'
    BY <1>1, <1>2, <1>6, <1>7, Proceeds
  <1> QED
    BY <1>10, <1>11 DEF TypeInv

LEMMA MessageTypes ==
    ASSUME TypeInv, NEW r \in Requests, TellOwner(r) \/ Warn(r) \/ OpenSession(r)
    PROVE  TypeInv'
  <1>0. Has(r)
    BY DEF TypeInv, LocalTypes
  <1>1. CASE TellOwner(r)
    <2>1. \A y \in registered : y.id \in Nat
      BY DEF TypeInv, StoreTypes
    <2>2. notices' \subseteq Nat
      BY <1>1, <2>1 DEF TellOwner, TypeInv, StoreTypes
    <2>3. StoreTypes'
      BY <1>1, <2>2 DEF TellOwner, outside, history, TypeInv, StoreTypes, Issued
    <2> QED
      BY <1>1, <2>3, Leaves DEF TellOwner, TypeInv
  <1>2. CASE Warn(r)
    <2>1. row[r] \in Row /\ row[r].id \in Nat
      BY <1>0, <1>2 DEF Warn, Has, Judging, Row
    <2>2. [id |-> row[r].id, by |-> r] \in [id : Nat, by : Requests]
      BY <2>1
    <2>3. StoreTypes'
      BY <1>2, <2>2 DEF Warn, outside, history, TypeInv, StoreTypes, Issued
    <2>4. LocalTypes'
      BY <1>2, <2>1, Proceeds DEF Warn, Working, Stages
    <2> QED
      BY <2>3, <2>4 DEF TypeInv
  <1>3. CASE OpenSession(r)
    <2>1. row[r] \in Row /\ call[r] \in Call
      BY <1>0, <1>3 DEF OpenSession, Has, Judging, Working, Stages
    <2>2. [account |-> row[r].account, key |-> row[r].key, handle |-> call[r].handle, by |-> r]
            \in [account : Accounts, key : Keys, handle : Handles, by : Requests]
      BY <2>1 DEF Row, Call
    <2>3. StoreTypes'
      BY <1>3, <2>2 DEF OpenSession, outside, history, TypeInv, StoreTypes, Issued
    <2> QED
      BY <1>3, <2>3, Leaves DEF OpenSession, TypeInv
  <1> QED
    BY <1>1, <1>2, <1>3

LEMMA AsideTypes ==
    ASSUME TypeInv, (\E a \in Accounts : DeletePasskey(a)) \/ (\E h \in open : Expire(h))
    PROVE  TypeInv'
  <1>1. /\ rows' \subseteq rows /\ open' \subseteq open
        /\ UNCHANGED <<outside, ceremonies, lastId, sessions, alerts, notices, pc, locals,
                       history>>
    BY DEF DeletePasskey, Expire
  <1>2. StoreTypes'
    BY <1>1 DEF outside, history, TypeInv, StoreTypes, Issued
  <1>3. LocalTypes'
    BY <1>1 DEF locals, TypeInv, LocalTypes, Has, Issued
  <1> QED
    BY <1>2, <1>3 DEF TypeInv

LEMMA RestartTypes ==
    ASSUME TypeInv, Restart
    PROVE  TypeInv'
  <1>1. /\ pc' = [r \in Requests |-> IF InFlight(r) THEN "dead" ELSE pc[r]]
        /\ pc \in [Requests -> Stages]
    BY DEF Restart, TypeInv, LocalTypes
  <1>2. pc' \in [Requests -> Stages] /\ \A r \in Requests : pc'[r] \notin Working
    BY <1>1 DEF Stages, InFlight, Working
  <1>3. LocalTypes'
    BY <1>2 DEF Restart, LocalTypes, Has, Working, Judging, Stages
  <1>4. StoreTypes'
    BY DEF Restart, outside, history, TypeInv, StoreTypes, Issued
  <1> QED
    BY <1>3, <1>4 DEF TypeInv

\* Type correctness of Passkeys: tables, challenges and history keep their shape,
\* and a request has a call and, once it has read one, a row in hand.
THEOREM TypeCorrect == Spec => []TypeOK
  <1>1. ASSUME TypeInv, [Next]_vars PROVE TypeInv'
    <2>1. CASE UNCHANGED vars
      BY <1>1, <2>1, StoreStays
         DEF vars, locals, TypeInv, LocalTypes, Has, Issued
    <2>2. CASE \E a \in Accounts : RegistrationOptions(a)
      BY <1>1, <2>2, NewChallengeTypes DEF RegistrationOptions, Kinds
    <2>3. CASE \E a \in Accounts \cup {Nobody} : AuthenticationOptions(a)
      BY <1>1, <2>3, NewChallengeTypes DEF AuthenticationOptions, Kinds
    <2>4. ASSUME NEW r \in Requests, Work(r) PROVE TypeInv'
      BY <1>1, <2>4, LocalWork, InsertTypes, WriteTypes, MessageTypes DEF Work
    <2> QED
      BY <1>1, <2>1, <2>2, <2>3, <2>4, SignTypes, BeginTypes, AsideTypes, RestartTypes DEF Next
  <1>2. TypeInv => TypeOK
    BY DEF TypeInv, StoreTypes, LocalTypes, Has, TypeOK, Working, Judging
  <1> QED
    BY <1>1, <1>2, TypeInit, PTL DEF Spec
-----------------------------------------------------------------------------
(* Challenges *)

\* A request has taken its challenge and has not left.
Getting == {"reading", "counting", "warning", "admitting", "opening"}
Holding == {"looking", "inserting", "telling"} \cup Getting

\* Everything that was ever got for a challenge.
Gains == sessions \cup registered

\* What the invariant needs of the types.
KeyTypes ==
    /\ ceremonies \in Seq(Ceremony)
    /\ open \subseteq Issued
    /\ pc \in [Requests -> Stages]
    /\ \A r \in Requests : pc[r] \in Holding => call[r].handle \in Issued
    /\ \A g \in Gains : g.handle \in Issued
    /\ call = [r \in Requests |-> call[r]] /\ row = [r \in Requests |-> row[r]]
    /\ \A r \in Requests : pc[r] = "taking" => call[r].handle \in Issued

\* A challenge that is open was not taken, one that was taken is held by one
\* request, and while something can still be got for it nothing was.
Sole ==
    /\ \A r \in Requests : pc[r] \in Holding => call[r].handle \notin open
    /\ \A r, q \in Requests :
         pc[r] \in Holding /\ pc[q] \in Holding /\ r # q => call[r].handle # call[q].handle
    /\ \A g \in Gains : g.handle \notin open
    /\ \A r \in Requests : \A g \in Gains :
         pc[r] \in Holding \ {"telling"} => g.handle # call[r].handle

UseInv == KeyTypes /\ Sole /\ OneUsePerChallenge

\* Most steps take nothing and get nothing: they move a request along or let it
\* leave, and close challenges at most.
Plain(r) ==
    /\ UNCHANGED <<ceremonies, sessions, registered>>
    /\ open' \subseteq open
    /\ pc' \in [Requests -> Stages]
    /\ call' = [q \in Requests |-> call'[q]] /\ row' = [q \in Requests |-> row'[q]]
    /\ \A q \in Requests \ {r} : pc'[q] = pc[q] /\ call'[q] = call[q]
    /\ \/ pc'[r] \in {"over", "dead"}
       \/ pc[r] \in Holding /\ pc'[r] \in Holding \ {"telling"} /\ call'[r] = call[r]
          /\ pc[r] # "telling"
       \/ pc'[r] = "taking" /\ call'[r].handle \in Issued

LEMMA PlainStep ==
    ASSUME UseInv, NEW r \in Requests, Plain(r)
    PROVE  UseInv'
  <1> USE DEF UseInv
  <1>1. Issued' = Issued /\ Gains' = Gains
    BY DEF Issued, Gains, Plain
  <1>2. KeyTypes'
    BY <1>1 DEF KeyTypes, Plain, Holding, Getting
  <1>3. Sole'
    BY <1>1 DEF Sole, Plain, Holding, Getting
  <1>4. OneUsePerChallenge'
    BY DEF OneUsePerChallenge, Plain
  <1> QED
    BY <1>2, <1>3, <1>4

\* The steps of a request that are plain.
LEMMA WorkPlain ==
    ASSUME UseInv, NEW r \in Requests,
           \/ LookForPasskey(r) \/ TellOwner(r) \/ ReadPasskey(r) \/ WriteCounter(r)
           \/ Warn(r) \/ Admit(r) \/ Die(r)
    PROVE  Plain(r)
  <1> USE DEF Holding, Getting, Stages
  <1>0. KeyTypes
    BY DEF UseInv
  <1>1. CASE LookForPasskey(r)
    BY <1>1, <1>0 DEF LookForPasskey, Leave, Proceed, GoTo, KeyTypes, Plain, store, locals, history
  <1>2. CASE TellOwner(r)
    BY <1>2, <1>0 DEF TellOwner, Leave, GoTo, KeyTypes, Plain, history
  <1>3. CASE ReadPasskey(r)
    BY <1>3, <1>0 DEF ReadPasskey, Leave, GoTo, KeyTypes, Plain, store, history
  <1>4. CASE WriteCounter(r)
    BY <1>4, <1>0 DEF WriteCounter, Proceed, GoTo, KeyTypes, Plain, locals
  <1>5. CASE Warn(r)
    BY <1>5, <1>0 DEF Warn, Proceed, GoTo, KeyTypes, Plain, locals, history
  <1>6. CASE Admit(r)
    BY <1>6, <1>0 DEF Admit, Leave, Proceed, GoTo, KeyTypes, Plain, store, locals, history
  <1>7. CASE Die(r)
    BY <1>7, <1>0 DEF Die, Leave, GoTo, KeyTypes, Plain, store, history
  <1> QED
    BY <1>1, <1>2, <1>3, <1>4, <1>5, <1>6, <1>7

\* A new challenge has a handle that nothing refers to.
LEMMA NewChallengeStep ==
    ASSUME UseInv, NEW kind \in Kinds, NEW account \in Accounts \cup {Nobody},
           NewChallenge(kind, account)
    PROVE  UseInv'
  <1> DEFINE h == Len(ceremonies) + 1
  <1> USE DEF UseInv
  <1>1. /\ ceremonies' \in Seq(Ceremony)
        /\ Len(ceremonies') = h /\ Len(ceremonies) \in Nat
    BY DEF NewChallenge, KeyTypes, Ceremony
  <1>2. Issued' = Issued \cup {h} /\ h \notin Issued
    BY <1>1 DEF Issued
  <1>3. UNCHANGED <<sessions, registered, pc, call, row>> /\ open' = open \cup {h}
    BY DEF NewChallenge, locals, history
  <1>4. Gains' = Gains
    BY <1>3 DEF Gains
  <1>5. KeyTypes'
    BY <1>1, <1>2, <1>3, <1>4 DEF KeyTypes
  <1>6. Sole'
    BY <1>2, <1>3, <1>4 DEF Sole, KeyTypes
  <1> QED
    BY <1>3, <1>5, <1>6 DEF OneUsePerChallenge

\* The challenge leaves the store as it is taken, so nobody else takes it.
LEMMA TakeStep ==
    ASSUME UseInv, NEW r \in Requests, TakeChallenge(r)
    PROVE  UseInv'
  <1> USE DEF UseInv
  <1>1. CASE Leave(r, "over")
    <2>1. Plain(r)
      BY <1>1 DEF TakeChallenge, Pop, Leave, GoTo, KeyTypes, Plain, history, Stages
    <2> QED
      BY <2>1, PlainStep
  <1>2. CASE ~Leave(r, "over")
    <2>1. /\ call[r].handle \in open /\ open' = open \ {call[r].handle}
          /\ UNCHANGED <<ceremonies, sessions, registered, call, row>>
          /\ pc[r] = "taking"
      BY <1>2 DEF TakeChallenge, TakenFor, Pop, Proceed, locals, history
    <2>2. /\ pc' \in [Requests -> Stages] /\ pc'[r] \in {"reading", "looking"}
          /\ \A q \in Requests \ {r} : pc'[q] = pc[q]
      BY <1>2 DEF TakeChallenge, Proceed, GoTo, KeyTypes, Stages
    <2>3. Issued' = Issued /\ Gains' = Gains
      BY <2>1 DEF Issued, Gains
    <2>4. KeyTypes'
      BY <2>1, <2>2, <2>3 DEF KeyTypes, Holding, Getting
    <2>5. Sole'
      BY <2>1, <2>2, <2>3 DEF Sole, KeyTypes, Holding, Getting
    <2> QED
      BY <2>1, <2>4, <2>5 DEF OneUsePerChallenge
  <1> QED
    BY <1>1, <1>2

\* The one request that holds the challenge gets its passkey or its session.
LEMMA GainStep ==
    ASSUME UseInv, NEW r \in Requests, InsertPasskey(r) \/ OpenSession(r)
    PROVE  UseInv'
  <1> USE DEF UseInv
  <1> DEFINE h == call[r].handle
  <1>1. CASE InsertPasskey(r) /\ Leave(r, "over")
    <2>1. Plain(r)
      BY <1>1 DEF InsertPasskey, Leave, GoTo, KeyTypes, Plain, Stages, Proceed, locals
    <2> QED
      BY <2>1, PlainStep
  <1>2. CASE InsertPasskey(r) /\ ~Leave(r, "over")
    <2>1. PICK x : x.handle = h /\ registered' = registered \cup {x}
      BY <1>2 DEF InsertPasskey
    <2>2. /\ UNCHANGED <<ceremonies, open, sessions, call, row>>
          /\ pc[r] = "inserting" /\ pc' = [pc EXCEPT ![r] = "telling"]
      BY <1>2 DEF InsertPasskey, Proceed, GoTo, locals
    <2>3. Issued' = Issued /\ Gains' = Gains \cup {x}
      BY <2>1, <2>2 DEF Issued, Gains
    <2>4. KeyTypes'
      BY <2>1, <2>2, <2>3 DEF KeyTypes, Holding, Getting, Stages
    <2>5. Sole'
      BY <2>1, <2>2, <2>3 DEF Sole, KeyTypes, Holding, Getting
    <2>6. OneUsePerChallenge'
      BY <2>1, <2>2 DEF OneUsePerChallenge, Sole, Gains, Holding, Getting
    <2> QED
      BY <2>4, <2>5, <2>6
  <1>3. CASE OpenSession(r)
    <2>1. PICK x : x.handle = h /\ sessions' = sessions \cup {x}
      BY <1>3 DEF OpenSession
    <2>2. /\ UNCHANGED <<ceremonies, open, registered>>
          /\ pc[r] = "opening" /\ pc' = [pc EXCEPT ![r] = "over"]
          /\ call' = [call EXCEPT ![r] = NoCall] /\ row' = [row EXCEPT ![r] = NoRow]
      BY <1>3 DEF OpenSession, Leave, GoTo, history
    <2>3. Issued' = Issued /\ Gains' = Gains \cup {x}
      BY <2>1, <2>2 DEF Issued, Gains
    <2>4. KeyTypes'
      BY <2>1, <2>2, <2>3 DEF KeyTypes, Holding, Getting, Stages
    <2>5. Sole'
      BY <2>1, <2>2, <2>3 DEF Sole, KeyTypes, Holding, Getting
    <2>6. OneUsePerChallenge'
      BY <2>1, <2>2 DEF OneUsePerChallenge, Sole, Gains, Holding, Getting
    <2> QED
      BY <2>4, <2>5, <2>6
  <1> QED
    BY <1>1, <1>2, <1>3

\* A restart closes every challenge and ends every request.
LEMMA RestartStep ==
    ASSUME UseInv, Restart
    PROVE  UseInv'
  <1> USE DEF UseInv
  <1>1. UNCHANGED <<ceremonies, sessions, registered>> /\ open' = {}
    BY DEF Restart, history
  <1>2. Issued' = Issued /\ Gains' = Gains
    BY <1>1 DEF Issued, Gains
  <1>3. /\ pc' \in [Requests -> Stages]
        /\ \A r \in Requests : pc'[r] \in {"idle", "over", "dead"}
    BY DEF Restart, InFlight, KeyTypes, Stages
  <1>4. KeyTypes'
    BY <1>1, <1>2, <1>3 DEF KeyTypes, Holding, Getting, Restart
  <1>5. Sole'
    BY <1>1, <1>2, <1>3 DEF Sole, Holding, Getting
  <1> QED
    BY <1>1, <1>4, <1>5 DEF OneUsePerChallenge

\* UseInv holds at the start and is preserved by every step.
LEMMA UseInvHolds == Spec => []UseInv
  <1>1. Init => UseInv
    BY DEF Init, UseInv, KeyTypes, Sole, OneUsePerChallenge, Gains, Holding, Getting, Stages,
           Issued
  <1>2. UseInv /\ [Next]_vars => UseInv'
    <2> SUFFICES ASSUME UseInv, [Next]_vars
                 PROVE  UseInv'
      OBVIOUS
    <2>1. ASSUME NEW a \in Accounts, RegistrationOptions(a)
          PROVE  UseInv'
      BY <2>1, NewChallengeStep DEF RegistrationOptions, Kinds
    <2>2. ASSUME NEW a \in Accounts \cup {Nobody}, AuthenticationOptions(a)
          PROVE  UseInv'
      BY <2>2, NewChallengeStep DEF AuthenticationOptions, Kinds
    <2>3. ASSUME NEW d \in Authenticators, NEW h \in Issued, Sign(d, h)
          PROVE  UseInv'
      BY <2>3 DEF Sign, store, locals, history, UseInv, KeyTypes, Sole, OneUsePerChallenge,
                  Gains, Issued
    <2>4. ASSUME NEW r \in Requests, NEW kind \in Kinds, NEW h \in Issued,
                 NEW a \in Accounts \cup {Nobody}, NEW answer \in answers,
                 Begin(r, kind, h, a, answer)
          PROVE  UseInv'
      <3>1. Plain(r)
        BY <2>4 DEF Begin, GoTo, store, history, UseInv, KeyTypes, Plain, Stages
      <3> QED
        BY <3>1, PlainStep
    <2>5. ASSUME NEW r \in Requests, Work(r)
          PROVE  UseInv'
      BY <2>5, WorkPlain, PlainStep, TakeStep, GainStep DEF Work
    <2>6. ASSUME NEW a \in Accounts, DeletePasskey(a)
          PROVE  UseInv'
      BY <2>6 DEF DeletePasskey, locals, history, UseInv, KeyTypes, Sole, OneUsePerChallenge,
                  Gains, Issued
    <2>7. ASSUME NEW h \in open, Expire(h)
          PROVE  UseInv'
      BY <2>7 DEF Expire, locals, history, UseInv, KeyTypes, Sole, OneUsePerChallenge,
                  Gains, Issued
    <2>8. CASE Restart
      BY <2>8, RestartStep
    <2>9. CASE UNCHANGED vars
      BY <2>9 DEF vars, store, locals, history, UseInv, KeyTypes, Sole, OneUsePerChallenge,
                  Gains, Issued
    <2> QED
      BY <2>1, <2>2, <2>3, <2>4, <2>5, <2>6, <2>7, <2>8, <2>9 DEF Next
  <1> QED
    BY <1>1, <1>2, PTL DEF Spec

\* However many requests post a challenge, and whatever they post with it, it
\* buys one passkey or one session at most, once.
THEOREM OneUsePerChallengeHolds == Spec => []OneUsePerChallenge
  <1>1. UseInv => OneUsePerChallenge
    BY DEF UseInv
  <1> QED
    BY <1>1, UseInvHolds, PTL

-----------------------------------------------------------------------------
(* Sessions and passkeys rest on answers of their ceremonies *)

\* What a request has shown by the time it stands where it is.
Shown(r) ==
    /\ pc[r] \in Holding \cup {"taking"} => call[r].answer \in answers
    /\ pc[r] \in Getting =>
         call[r].kind = "get" /\ ceremonies[call[r].handle].kind = "get"
    /\ pc[r] \in {"looking", "inserting"} =>
         /\ call[r].kind = "create" /\ Fits(r)
         /\ ceremonies[call[r].handle].kind = "create"
         /\ ceremonies[call[r].handle].account = call[r].account
    /\ pc[r] \in Getting \ {"reading"} =>
         /\ Fits(r) /\ row[r].key = call[r].answer.key
         /\ ForAccount(call[r].handle, row[r].account)
         /\ Owns(row[r].account, row[r].key)

\* Every passkey in the table came to its account in one of the ways there are.
RowsOwned ==
    \A x \in rows :
        /\ x = [id |-> x.id, account |-> x.account, key |-> x.key, count |-> x.count]
        /\ Owns(x.account, x.key)

SignedInv == KeyTypes /\ (\A r \in Requests : Shown(r)) /\ RowsOwned /\ SessionsAreSigned

\* No step takes a ceremony, an answer or a registration back.
Grows ==
    /\ \A h \in Issued : ceremonies'[h] = ceremonies[h]
    /\ answers \subseteq answers' /\ registered \subseteq registered'

LEMMA ShownStays ==
    ASSUME KeyTypes, NEW r \in Requests, Shown(r), Grows,
           pc'[r] = pc[r], call'[r] = call[r], row'[r] = row[r]
    PROVE  Shown(r)'
  BY DEF KeyTypes, Shown, Grows, Fits, ForAccount, Owns, Holding, Getting

\* Steps that leave the sessions, the passkeys and their table alone.
LEMMA NothingGained ==
    ASSUME KeyTypes, RowsOwned, SessionsAreSigned, Grows, rows' \subseteq rows,
           UNCHANGED <<sessions, registered>>
    PROVE  RowsOwned' /\ SessionsAreSigned'
  <1>1. RowsOwned'
    BY DEF RowsOwned, Owns
  <1>2. SessionsAreSigned'
    BY DEF SessionsAreSigned, KeyTypes, Gains, Grows, Owns
  <1> QED
    BY <1>1, <1>2

\* A step of one request: the others have shown what they had.
LEMMA RequestStep ==
    ASSUME SignedInv, NEW r \in Requests, KeyTypes', Grows, Shown(r)',
           \A q \in Requests \ {r} : pc'[q] = pc[q] /\ call'[q] = call[q] /\ row'[q] = row[q],
           RowsOwned', SessionsAreSigned'
    PROVE  SignedInv'
  <1>1. ASSUME NEW q \in Requests, q # r
        PROVE  Shown(q)'
    BY <1>1, ShownStays DEF SignedInv
  <1> QED
    BY <1>1 DEF SignedInv

\* The steps of a request that gain nothing.
LEMMA LookingStep ==
    ASSUME SignedInv, KeyTypes', NEW r \in Requests,
           \/ TakeChallenge(r) \/ LookForPasskey(r) \/ TellOwner(r) \/ ReadPasskey(r)
           \/ Warn(r) \/ Admit(r) \/ Die(r)
    PROVE  SignedInv'
  <1> USE DEF Holding, Getting, store, outside, locals, history
  <1>0. KeyTypes /\ Shown(r) /\ RowsOwned /\ SessionsAreSigned
    BY DEF SignedInv
  <1>1. /\ UNCHANGED <<ceremonies, answers, rows, sessions, registered>>
        /\ \A q \in Requests \ {r} : pc'[q] = pc[q] /\ call'[q] = call[q] /\ row'[q] = row[q]
    BY <1>0 DEF TakeChallenge, LookForPasskey, TellOwner, ReadPasskey, Warn, Admit, Die,
                Leave, Proceed, GoTo, KeyTypes
  <1>2. Grows
    BY <1>1 DEF Grows
  <1>3. RowsOwned' /\ SessionsAreSigned'
    BY <1>0, <1>1, <1>2, NothingGained
  <1>4. Shown(r)'
    <2>1. CASE pc'[r] \in {"over", "dead"}
      BY <2>1 DEF Shown
    <2>2. CASE TakeChallenge(r) /\ pc'[r] \notin {"over", "dead"}
      BY <2>2, <1>0, <1>1 DEF TakeChallenge, TakenFor, Leave, Proceed, GoTo, KeyTypes, Shown, Fits
    <2>3. CASE LookForPasskey(r) /\ pc'[r] \notin {"over", "dead"}
      BY <2>3, <1>0, <1>1 DEF LookForPasskey, Leave, Proceed, GoTo, KeyTypes, Shown, Fits
    <2>4. CASE ReadPasskey(r) /\ pc'[r] \notin {"over", "dead"}
      <3>1. PICK x \in rows : /\ Answers(r, x) /\ row' = [row EXCEPT ![r] = x]
                              /\ pc' = [pc EXCEPT ![r] = "counting"] /\ call' = call
                              /\ pc[r] = "reading"
        BY <2>4, <1>0 DEF ReadPasskey, Leave, GoTo, KeyTypes
      <3>2. Owns(x.account, x.key)'
        BY <1>0, <1>1 DEF RowsOwned, Owns
      <3> QED
        BY <3>1, <3>2, <1>0, <1>1 DEF Answers, KeyTypes, Shown, Fits, ForAccount, Owns
    <2>5. CASE (Warn(r) \/ Admit(r)) /\ pc'[r] \notin {"over", "dead"}
      BY <2>5, <1>0, <1>1
      DEF Warn, Admit, Leave, Proceed, GoTo, KeyTypes, Shown, Fits, ForAccount, Owns
    <2>6. CASE TellOwner(r) \/ Die(r)
      BY <2>6, <1>0 DEF TellOwner, Die, Leave, GoTo, KeyTypes, Shown
    <2> QED
      BY <2>1, <2>2, <2>3, <2>4, <2>5, <2>6
  <1> QED
    BY <1>1, <1>2, <1>3, <1>4, RequestStep

\* Writing a counter back changes neither whose passkey it is nor its key.
LEMMA CounterStep ==
    ASSUME SignedInv, KeyTypes', NEW r \in Requests, WriteCounter(r)
    PROVE  SignedInv'
  <1> USE DEF Holding, Getting, outside, locals
  <1>0. KeyTypes /\ Shown(r) /\ RowsOwned /\ SessionsAreSigned
    BY DEF SignedInv
  <1>1. /\ UNCHANGED <<ceremonies, answers, sessions, registered, call, row>>
        /\ pc'[r] \in {"warning", "admitting"} /\ pc[r] = "counting"
        /\ \A q \in Requests \ {r} : pc'[q] = pc[q]
    BY <1>0 DEF WriteCounter, Proceed, GoTo, KeyTypes
  <1>2. Grows
    BY <1>1 DEF Grows
  <1>3. RowsOwned'
    <2> SUFFICES ASSUME NEW y \in rows'
                 PROVE  /\ y = [id |-> y.id, account |-> y.account, key |-> y.key,
                                count |-> y.count]
                        /\ Owns(y.account, y.key)'
      BY DEF RowsOwned
    <2>1. PICK x \in rows : y = x \/ \E n : y = [x EXCEPT !.count = n]
      BY DEF WriteCounter
    <2>2. x = [id |-> x.id, account |-> x.account, key |-> x.key, count |-> x.count]
      BY <1>0 DEF RowsOwned
    <2>3. y = x \/ \E n : y = [id |-> x.id, account |-> x.account, key |-> x.key, count |-> n]
      BY <2>1, <2>2
    <2>4. Owns(x.account, x.key)'
      BY <1>0, <1>1 DEF RowsOwned, Owns
    <2> QED
      BY <2>2, <2>3, <2>4
  <1>4. SessionsAreSigned'
    BY <1>0, <1>1 DEF SessionsAreSigned, Owns
  <1>5. Shown(r)'
    BY <1>0, <1>1 DEF Shown, Fits, ForAccount, Owns
  <1> QED
    BY <1>1, <1>2, <1>3, <1>4, <1>5, RequestStep

\* What the request has shown becomes a passkey, or a session.
LEMMA SignedGainStep ==
    ASSUME SignedInv, KeyTypes', NEW r \in Requests, InsertPasskey(r) \/ OpenSession(r)
    PROVE  SignedInv'
  <1> USE DEF Holding, Getting, outside, locals, history
  <1>0. KeyTypes /\ Shown(r) /\ RowsOwned /\ SessionsAreSigned
    BY DEF SignedInv
  <1>1. CASE InsertPasskey(r)
    <2>1. /\ UNCHANGED <<ceremonies, answers, sessions>> /\ registered \subseteq registered'
          /\ \A q \in Requests \ {r} : pc'[q] = pc[q] /\ call'[q] = call[q] /\ row'[q] = row[q]
          /\ pc'[r] \in {"over", "telling"}
      BY <1>0, <1>1 DEF InsertPasskey, Leave, Proceed, GoTo, KeyTypes
    <2>2. Grows
      BY <2>1 DEF Grows
    <2>3. Shown(r)'
      <3>1. CASE pc'[r] = "over"
        BY <3>1 DEF Shown
      <3>2. CASE pc'[r] = "telling"
        BY <3>2, <2>1, <1>0, <1>1
        DEF InsertPasskey, Leave, Proceed, GoTo, KeyTypes, Shown
      <3> QED
        BY <2>1, <3>1, <3>2
    <2>4. CASE UNCHANGED <<rows, registered>>
      <3>1. RowsOwned' /\ SessionsAreSigned'
        BY <2>4, <2>1, <2>2, <1>0, NothingGained
      <3> QED
        BY <3>1, <2>1, <2>2, <2>3, RequestStep
    <2>5. CASE ~UNCHANGED <<rows, registered>>
      <3> DEFINE new == [id |-> lastId + 1, account |-> call[r].account,
                         key |-> call[r].answer.key, handle |-> call[r].handle, by |-> r]
      <3>1. /\ registered' = registered \cup {new}
            /\ rows' = rows \cup {[id |-> lastId + 1, account |-> call[r].account,
                                   key |-> call[r].answer.key, count |-> call[r].answer.count]}
            /\ pc[r] = "inserting"
        BY <1>1, <2>5 DEF InsertPasskey
      <3>2. RowsOwned'
        <4> SUFFICES ASSUME NEW y \in rows'
                     PROVE  /\ y = [id |-> y.id, account |-> y.account, key |-> y.key,
                                    count |-> y.count]
                            /\ Owns(y.account, y.key)'
          BY DEF RowsOwned
        <4>1. CASE y \in rows
          BY <4>1, <3>1, <1>0 DEF RowsOwned, Owns
        <4>2. CASE y \notin rows
          <5>1. y = [id |-> lastId + 1, account |-> new.account, key |-> new.key,
                     count |-> call[r].answer.count]
            BY <4>2, <3>1
          <5>2. new \in registered'
            BY <3>1
          <5> QED
            BY <5>1, <5>2 DEF Owns
        <4> QED
          BY <4>1, <4>2
      <3>3. SessionsAreSigned'
        <4>1. ASSUME NEW s \in sessions'
              PROVE  /\ ceremonies'[s.handle].kind = "get"
                     /\ ceremonies'[s.handle].account \in {Nobody, s.account}
                     /\ \E x \in answers' : x.kind = "get" /\ x.handle = s.handle /\ x.key = s.key
                     /\ Owns(s.account, s.key)'
          BY <4>1, <2>1, <1>0 DEF SessionsAreSigned, Owns
        <4>2. ASSUME NEW x \in registered'
              PROVE  /\ ceremonies'[x.handle].kind = "create"
                     /\ ceremonies'[x.handle].account = x.account
                     /\ \E y \in answers' :
                          y.kind = "create" /\ y.handle = x.handle /\ y.key = x.key
          <5>1. CASE x \in registered
            BY <5>1, <2>1, <1>0 DEF SessionsAreSigned
          <5>2. CASE x = new
            BY <5>2, <3>1, <2>1, <1>0 DEF Shown, Fits
          <5> QED
            BY <5>1, <5>2, <3>1
        <4> QED
          BY <4>1, <4>2 DEF SessionsAreSigned
      <3> QED
        BY <3>2, <3>3, <2>1, <2>2, <2>3, RequestStep
    <2> QED
      BY <2>4, <2>5
  <1>2. CASE OpenSession(r)
    <2> DEFINE new == [account |-> row[r].account, key |-> row[r].key,
                       handle |-> call[r].handle, by |-> r]
    <2>1. /\ UNCHANGED <<ceremonies, answers, rows, registered>> /\ pc[r] = "opening"
          /\ sessions' = sessions \cup {new}
          /\ \A q \in Requests \ {r} : pc'[q] = pc[q] /\ call'[q] = call[q] /\ row'[q] = row[q]
          /\ pc'[r] = "over"
      BY <1>0, <1>2 DEF OpenSession, Leave, GoTo, KeyTypes
    <2>2. Grows
      BY <2>1 DEF Grows
    <2>3. Shown(r)'
      BY <2>1 DEF Shown
    <2>4. RowsOwned'
      BY <2>1, <1>0 DEF RowsOwned, Owns
    <2>5. SessionsAreSigned'
      <3>1. ASSUME NEW s \in sessions'
            PROVE  /\ ceremonies'[s.handle].kind = "get"
                   /\ ceremonies'[s.handle].account \in {Nobody, s.account}
                   /\ \E x \in answers' : x.kind = "get" /\ x.handle = s.handle /\ x.key = s.key
                   /\ Owns(s.account, s.key)'
        <4>1. CASE s \in sessions
          BY <4>1, <2>1, <1>0 DEF SessionsAreSigned, Owns
        <4>2. CASE s = new
          BY <4>2, <2>1, <1>0 DEF Shown, Fits, ForAccount, Owns
        <4> QED
          BY <4>1, <4>2, <2>1
      <3> QED
        BY <3>1, <2>1, <1>0 DEF SessionsAreSigned
    <2> QED
      BY <2>1, <2>2, <2>3, <2>4, <2>5, RequestStep
  <1> QED
    BY <1>1, <1>2

\* SignedInv holds at the start and is preserved by every step.
LEMMA SignedInvHolds == Spec => []SignedInv
  <1>1. Init => SignedInv
    BY EnrolledAssumption
    DEF Init, SignedInv, KeyTypes, Shown, RowsOwned, SessionsAreSigned, Owns, Gains, Holding,
        Getting, Stages, Issued, Row
  <1>2. SignedInv /\ KeyTypes' /\ [Next]_vars => SignedInv'
    <2> SUFFICES ASSUME SignedInv, KeyTypes', [Next]_vars
                 PROVE  SignedInv'
      OBVIOUS
    <2>0. KeyTypes /\ RowsOwned /\ SessionsAreSigned /\ \A r \in Requests : Shown(r)
      BY DEF SignedInv
    <2>1. ASSUME Grows, rows' \subseteq rows, UNCHANGED <<sessions, registered>>,
                 UNCHANGED <<pc, call, row>>
          PROVE  SignedInv'
      BY <2>0, <2>1, NothingGained, ShownStays DEF SignedInv
    <2>2. ASSUME NEW kind \in Kinds, NEW account \in Accounts \cup {Nobody},
                 NewChallenge(kind, account)
          PROVE  SignedInv'
      <3>1. Grows
        BY <2>0, <2>2 DEF NewChallenge, Grows, KeyTypes, Issued, Ceremony, outside, history
      <3> QED
        BY <3>1, <2>1, <2>2 DEF NewChallenge, locals, history
    <2>3. ASSUME NEW d \in Authenticators, NEW h \in Issued, Sign(d, h)
          PROVE  SignedInv'
      BY <2>1, <2>3 DEF Sign, Grows, store, locals, history
    <2>4. ASSUME NEW r \in Requests, NEW kind \in Kinds, NEW h \in Issued,
                 NEW a \in Accounts \cup {Nobody}, NEW answer \in answers,
                 Begin(r, kind, h, a, answer)
          PROVE  SignedInv'
      <3>1. Grows /\ UNCHANGED <<rows, sessions, registered>>
        BY <2>4 DEF Begin, Grows, outside, store, history
      <3>2. RowsOwned' /\ SessionsAreSigned'
        BY <3>1, <2>0, NothingGained
      <3>3. Shown(r)'
        BY <2>0, <2>4 DEF Begin, GoTo, KeyTypes, Shown, Holding, Getting, outside
      <3>4. \A q \in Requests \ {r} : pc'[q] = pc[q] /\ call'[q] = call[q] /\ row'[q] = row[q]
        BY <2>0, <2>4 DEF Begin, GoTo, KeyTypes
      <3> QED
        BY <3>1, <3>2, <3>3, <3>4, RequestStep
    <2>5. ASSUME NEW r \in Requests, Work(r)
          PROVE  SignedInv'
      BY <2>5, LookingStep, CounterStep, SignedGainStep DEF Work
    <2>6. ASSUME NEW a \in Accounts, DeletePasskey(a)
          PROVE  SignedInv'
      BY <2>1, <2>6 DEF DeletePasskey, Grows, outside, locals, history
    <2>7. ASSUME NEW h \in open, Expire(h)
          PROVE  SignedInv'
      BY <2>1, <2>7 DEF Expire, Grows, outside, locals, history
    <2>8. CASE Restart
      <3>1. Grows /\ UNCHANGED <<rows, sessions, registered>>
        BY <2>8 DEF Restart, Grows, outside, history
      <3>2. RowsOwned' /\ SessionsAreSigned'
        BY <3>1, <2>0, NothingGained
      <3>3. ASSUME NEW r \in Requests
            PROVE  Shown(r)'
        <4>1. pc'[r] \in {"idle", "over", "dead"}
          BY <2>0, <2>8 DEF Restart, InFlight, KeyTypes
        <4> QED
          BY <4>1 DEF Shown, Holding, Getting
      <3> QED
        BY <3>2, <3>3 DEF SignedInv
    <2>9. CASE UNCHANGED vars
      BY <2>1, <2>9 DEF vars, Grows, outside, store, locals, history
    <2> QED
      BY <2>2, <2>3, <2>4, <2>5, <2>6, <2>7, <2>8, <2>9
      DEF Next, RegistrationOptions, AuthenticationOptions, Kinds
  <1>3. UseInv => KeyTypes
    BY DEF UseInv
  <1> QED
    BY <1>1, <1>2, <1>3, UseInvHolds, PTL DEF Spec

\* Whatever is posted with whatever handle, sessions and passkeys rest on an
\* answer, by a key of their account, to a ceremony that was open to it.
THEOREM SessionsAreSignedHolds == Spec => []SessionsAreSigned
  <1>1. SignedInv => SessionsAreSigned
    BY DEF SignedInv
  <1> QED
    BY <1>1, SignedInvHolds, PTL

-----------------------------------------------------------------------------
(* Owners hear of new passkeys, and of counters that did not advance *)

\* Stages at which nothing has been accepted of a request yet.
Early == {"idle", "taking", "looking", "inserting", "reading", "counting"}

Took == [id : Nat, count : Nat, warned : BOOLEAN, by : Requests]

\* Counters are numbers, and row ids are never ahead of the table's sequence.
CountTypes ==
    /\ counter \in [Authenticators -> Nat]
    /\ \A a \in answers : a.count \in Nat
    /\ lastId \in Nat
    /\ \A x \in rows : x.id \in 1..lastId /\ x.count \in Nat
    /\ \A r \in Requests : pc[r] \in Getting \ {"reading"} =>
         row[r].id \in 1..lastId /\ row[r].count \in Nat
    /\ accepted \in Seq(Took)
    /\ \A i \in 1..Len(accepted) : accepted[i].id <= lastId
    /\ \A x \in registered : x.by \in Requests

\* A request writes a counter once, and warns of the row it wrote.
Once(r) ==
    \A i \in 1..Len(accepted) : accepted[i].by = r =>
        /\ pc[r] \notin Early
        /\ pc[r] = "warning" => accepted[i].id = row[r].id

\* Unless it was overtaken, a row holds the highest counter accepted for it.
Highest ==
    \A x \in rows : \A i \in 1..Len(accepted) :
        accepted[i].id = x.id /\ x.id \notin overtaken => accepted[i].count <= x.count

\* The two parts of OwnersAreTold, of a passkey and of two counters.
Noticed(x) == x.id \in notices \/ pc[x.by] \in {"telling", "dead"}
Watched(i, j) ==
    /\ i < j /\ accepted[i].id = accepted[j].id
    /\ accepted[i].count > 0 /\ accepted[j].count <= accepted[i].count
    => \/ accepted[j].id \in overtaken
       \/ [id |-> accepted[j].id, by |-> accepted[j].by] \in alerts
       \/ pc[accepted[j].by] \in {"warning", "dead"}

TellInv ==
    /\ CountTypes /\ Highest
    /\ \A r \in Requests : Once(r)
    /\ \A x \in registered : Noticed(x)
    /\ \A i, j \in 1..Len(accepted) : Watched(i, j)

\* Most steps of a request accept no counter and register nothing.
Silent(r) ==
    /\ UNCHANGED <<outside, lastId, registered, accepted, overtaken>>
    /\ rows' \subseteq rows /\ alerts \subseteq alerts' /\ notices \subseteq notices'
    /\ \A q \in Requests \ {r} : pc'[q] = pc[q] /\ row'[q] = row[q]
    /\ \/ pc'[r] = "dead"
       \/ pc[r] \notin {"telling", "warning", "dead"} /\ pc'[r] = "over"
       \/ pc[r] \in Early /\ pc'[r] \in Early /\ (pc'[r] = "counting" => row'[r] \in rows)
       \/ pc[r] = "admitting" /\ pc'[r] = "opening" /\ row'[r] = row[r]

LEMMA TookIs ==
    ASSUME NEW e \in Took
    PROVE  e.id \in Nat /\ e.count \in Nat /\ e.by \in Requests
  BY Zenon DEF Took

\* Who still owes the owner a message goes on owing it, or is dead.
LEMMA StillOwes ==
    ASSUME NEW r \in Requests, Silent(r), NEW q \in Requests
    PROVE  /\ pc[q] \in {"warning", "dead"} => pc'[q] \in {"warning", "dead"}
           /\ pc[q] \in {"telling", "dead"} => pc'[q] \in {"telling", "dead"}
  <1>1. CASE q # r
    BY <1>1 DEF Silent
  <1>2. CASE q = r
    BY <1>2 DEF Silent, Early
  <1> QED
    BY <1>1, <1>2

LEMMA SilentStep ==
    ASSUME TellInv, NEW r \in Requests, Silent(r)
    PROVE  TellInv'
  <1>0. CountTypes /\ Highest
    BY DEF TellInv
  <1>1. CountTypes'
    BY <1>0 DEF CountTypes, Silent, Getting, Early, outside
  <1>2. Highest'
    BY <1>0 DEF Highest, Silent
  <1>3. ASSUME NEW q \in Requests
        PROVE  Once(q)'
    <2>1. Once(q)
      BY DEF TellInv
    <2> QED
      BY <2>1 DEF Once, Silent, Early
  <1>4. ASSUME NEW x \in registered
        PROVE  Noticed(x)'
    <2>1. Noticed(x) /\ x.by \in Requests
      BY <1>0 DEF TellInv, CountTypes
    <2> QED
      BY <2>1, StillOwes DEF Noticed, Silent
  <1>5. ASSUME NEW i \in 1..Len(accepted), NEW j \in 1..Len(accepted)
        PROVE  Watched(i, j)'
    <2>1. Watched(i, j)
      BY DEF TellInv
    <2>2. accepted[j].by \in Requests
      BY <1>0, TookIs DEF CountTypes
    <2>3. pc[accepted[j].by] \in {"warning", "dead"} =>
              pc'[accepted[j].by] \in {"warning", "dead"}
      BY <2>2, StillOwes
    <2>4. UNCHANGED <<accepted, overtaken>> /\ alerts \subseteq alerts'
      BY DEF Silent
    <2> QED
      BY <2>1, <2>3, <2>4 DEF Watched
  <1>6. registered' = registered /\ accepted' = accepted
    BY DEF Silent
  <1> QED
    BY <1>1, <1>2, <1>3, <1>4, <1>5, <1>6 DEF TellInv

\* The steps of a request that are silent.
LEMMA WorkSilent ==
    ASSUME SignedInv, NEW r \in Requests,
           \/ TakeChallenge(r) \/ LookForPasskey(r) \/ ReadPasskey(r) \/ Admit(r)
           \/ OpenSession(r) \/ Die(r)
    PROVE  Silent(r)
  <1> USE DEF outside, store, locals, history, Early
  <1>0. KeyTypes
    BY DEF SignedInv
  <1>1. CASE TakeChallenge(r)
    BY <1>1, <1>0 DEF TakeChallenge, Leave, Proceed, GoTo, KeyTypes, Silent
  <1>2. CASE LookForPasskey(r)
    BY <1>2, <1>0 DEF LookForPasskey, Leave, Proceed, GoTo, KeyTypes, Silent
  <1>3. CASE ReadPasskey(r)
    BY <1>3, <1>0 DEF ReadPasskey, Leave, GoTo, KeyTypes, Silent
  <1>4. CASE Admit(r)
    BY <1>4, <1>0 DEF Admit, Leave, Proceed, GoTo, KeyTypes, Silent
  <1>5. CASE OpenSession(r)
    BY <1>5, <1>0 DEF OpenSession, Leave, GoTo, KeyTypes, Silent
  <1>6. CASE Die(r)
    BY <1>6, <1>0 DEF Die, Leave, GoTo, KeyTypes, Silent
  <1> QED
    BY <1>1, <1>2, <1>3, <1>4, <1>5, <1>6

\* What a counter appended to the accepted ones leaves of the earlier ones.
LEMMA Accepting ==
    ASSUME NEW s \in Seq(Took), NEW e \in Took
    PROVE  /\ Append(s, e) \in Seq(Took) /\ Len(Append(s, e)) = Len(s) + 1 /\ Len(s) \in Nat
           /\ Append(s, e)[Len(s) + 1] = e
           /\ \A i \in 1..Len(s) : Append(s, e)[i] = s[i]
  OBVIOUS

\* A step that accepts a counter of r: the earlier ones are watched as they were.
LEMMA EarlierWatched ==
    ASSUME TellInv, NEW r \in Requests, pc[r] \in Early, NEW e \in Took, e.by = r,
           accepted' = Append(accepted, e), overtaken \subseteq overtaken',
           UNCHANGED alerts, \A q \in Requests \ {r} : pc'[q] = pc[q]
    PROVE  \A i, j \in 1..Len(accepted) : Watched(i, j)'
  <1> SUFFICES ASSUME NEW i \in 1..Len(accepted), NEW j \in 1..Len(accepted)
               PROVE  Watched(i, j)'
    OBVIOUS
  <1>0. CountTypes /\ Once(r) /\ Watched(i, j)
    BY DEF TellInv
  <1>1. accepted'[i] = accepted[i] /\ accepted'[j] = accepted[j]
    BY <1>0, Accepting DEF CountTypes
  <1>2. accepted[j].by \in Requests \ {r}
    <2>1. accepted[j] \in Took
      BY <1>0 DEF CountTypes
    <2>2. accepted[j].by # r
      BY <1>0 DEF Once
    <2> QED
      BY <2>1, <2>2, TookIs
  <1> QED
    BY <1>0, <1>1, <1>2 DEF Watched

\* A passkey gets an id nobody had, with its first counter.
LEMMA InsertStep ==
    ASSUME SignedInv, TellInv, NEW r \in Requests, InsertPasskey(r)
    PROVE  TellInv'
  <1> USE DEF outside, locals, history
  <1>0. KeyTypes /\ CountTypes /\ Highest /\ Shown(r)
    BY DEF SignedInv, TellInv
  <1>1. CASE Leave(r, "over") /\ UNCHANGED <<rows, lastId, registered, accepted>>
    <2>1. Silent(r)
      BY <1>0, <1>1 DEF InsertPasskey, Leave, GoTo, KeyTypes, Silent, Early
    <2> QED
      BY <2>1, SilentStep
  <1>2. CASE ~(Leave(r, "over") /\ UNCHANGED <<rows, lastId, registered, accepted>>)
    <2> DEFINE id == lastId + 1
               count == call[r].answer.count
               x == [id |-> id, account |-> call[r].account, key |-> call[r].answer.key,
                     count |-> count]
               e == [id |-> id, count |-> count, warned |-> FALSE, by |-> r]
    <2>1. /\ pc[r] = "inserting" /\ pc' = [pc EXCEPT ![r] = "telling"]
          /\ rows' = rows \cup {x} /\ lastId' = id
          /\ accepted' = Append(accepted, e)
          /\ UNCHANGED <<counter, answers, call, row, alerts, notices, overtaken>>
      BY <1>2 DEF InsertPasskey, Proceed, GoTo
    <2>2. PICK g : /\ g.by = r /\ registered' = registered \cup {g}
      BY <1>2 DEF InsertPasskey
    <2>3. id \in Nat /\ count \in Nat /\ id \notin 1..lastId /\ id \in 1..id
      BY <1>0, <2>1 DEF CountTypes, Shown, Holding
    <2>4. e \in Took /\ e.by = r /\ e.id = id /\ e.count = count
      BY <2>3 DEF Took
    <2>5. x.id = id /\ x.count = count
      OBVIOUS
    <2>6. /\ accepted \in Seq(Took) /\ accepted' \in Seq(Took)
          /\ Len(accepted') = Len(accepted) + 1 /\ Len(accepted) \in Nat
          /\ accepted'[Len(accepted) + 1] = e
          /\ \A i \in 1..Len(accepted) : accepted'[i] = accepted[i]
      BY <1>0, <2>1, <2>4, Accepting DEF CountTypes
    <2>7. pc' \in [Requests -> Stages] /\ pc'[r] = "telling"
          /\ \A q \in Requests \ {r} : pc'[q] = pc[q]
      BY <1>0, <2>1 DEF KeyTypes, Stages
    <2> HIDE DEF e, x, id, count
    <2>8. \A i \in 1..Len(accepted) : accepted[i].id \in 1..lastId \/ accepted[i].id = 0
      BY <1>0, <2>6, TookIs DEF CountTypes
    <2>9. CountTypes'
      <3>1. \A y \in rows' : y.id \in 1..lastId' /\ y.count \in Nat
        BY <1>0, <2>1, <2>3, <2>5 DEF CountTypes, id
      <3>2. \A q \in Requests : pc'[q] \in Getting \ {"reading"} =>
              row'[q].id \in 1..lastId' /\ row'[q].count \in Nat
        BY <1>0, <2>1, <2>3, <2>7 DEF CountTypes, id, Getting
      <3>3. \A i \in 1..Len(accepted') : accepted'[i].id <= lastId'
        BY <1>0, <2>1, <2>3, <2>4, <2>6, <2>8 DEF CountTypes, id
      <3> QED
        BY <1>0, <2>1, <2>2, <2>3, <2>6, <3>1, <3>2, <3>3 DEF CountTypes
    <2>10. Highest'
      <3> SUFFICES ASSUME NEW y \in rows', NEW i \in 1..Len(accepted'),
                          accepted'[i].id = y.id, y.id \notin overtaken'
                   PROVE  accepted'[i].count <= y.count
        BY DEF Highest
      <3>1. CASE y = x /\ i = Len(accepted) + 1
        BY <3>1, <2>3, <2>4, <2>5, <2>6
      <3>2. CASE y = x /\ i \in 1..Len(accepted)
        BY <3>2, <2>3, <2>5, <2>6, <2>8, <1>0 DEF CountTypes, id
      <3>3. CASE y \in rows /\ i = Len(accepted) + 1
        BY <3>3, <2>3, <2>4, <2>6, <1>0 DEF CountTypes
      <3>4. CASE y \in rows /\ i \in 1..Len(accepted)
        BY <3>4, <2>1, <2>6, <1>0 DEF Highest
      <3> QED
        BY <3>1, <3>2, <3>3, <3>4, <2>1, <2>6
    <2>11. \A q \in Requests : Once(q)'
      BY <2>1, <2>4, <2>6, <2>7 DEF Once, TellInv, Early
    <2>12. \A y \in registered' : Noticed(y)'
      BY <1>0, <2>1, <2>2, <2>7 DEF Noticed, TellInv, CountTypes
    <2>13. \A i, j \in 1..Len(accepted') : Watched(i, j)'
      <3>1. \A i, j \in 1..Len(accepted) : Watched(i, j)'
        BY <2>1, <2>4, <2>7, EarlierWatched DEF Early
      <3>2. \A i \in 1..Len(accepted) : accepted'[i].id # id
        BY <2>3, <2>6, <2>8, <1>0 DEF id, CountTypes
      <3>3. ASSUME NEW i \in 1..Len(accepted'), NEW j \in 1..Len(accepted'),
                   i = Len(accepted) + 1 \/ j = Len(accepted) + 1
            PROVE  Watched(i, j)'
        BY <3>2, <3>3, <2>4, <2>6 DEF Watched
      <3> QED
        BY <3>1, <3>3, <2>6
    <2> QED
      BY <2>9, <2>10, <2>11, <2>12, <2>13 DEF TellInv
  <1> QED
    BY <1>1, <1>2

\* The owner is told of every passkey the request registered, or warned.
LEMMA MessageStep ==
    ASSUME SignedInv, TellInv, NEW r \in Requests, TellOwner(r) \/ Warn(r)
    PROVE  TellInv'
  <1> USE DEF outside, locals, history
  <1>0. KeyTypes /\ CountTypes /\ Highest
    BY DEF SignedInv, TellInv
  <1>1. /\ UNCHANGED <<counter, answers, rows, lastId, registered, accepted, overtaken>>
        /\ notices \subseteq notices' /\ alerts \subseteq alerts'
        /\ \A q \in Requests \ {r} : pc'[q] = pc[q] /\ row'[q] = row[q]
    BY <1>0 DEF TellOwner, Warn, Leave, Proceed, GoTo, KeyTypes
  <1>2. \/ pc[r] = "telling" /\ pc'[r] = "over"
        \/ pc[r] = "warning" /\ pc'[r] = "admitting" /\ row'[r] = row[r]
    BY <1>0 DEF TellOwner, Warn, Leave, Proceed, GoTo, KeyTypes
  <1>3. CountTypes'
    BY <1>0, <1>1, <1>2 DEF CountTypes, Getting
  <1>4. Highest'
    BY <1>0, <1>1 DEF Highest
  <1>5. \A q \in Requests : Once(q)'
    BY <1>1, <1>2 DEF Once, TellInv, Early
  <1>6. ASSUME NEW x \in registered
        PROVE  Noticed(x)'
    <2>1. Noticed(x) /\ x.by \in Requests
      BY <1>0 DEF TellInv, CountTypes
    <2>2. pc[r] = "telling" /\ x.by = r => x.id \in notices'
      BY DEF TellOwner, Warn
    <2> QED
      BY <2>1, <2>2, <1>1, <1>2 DEF Noticed
  <1>7. ASSUME NEW i \in 1..Len(accepted), NEW j \in 1..Len(accepted)
        PROVE  Watched(i, j)'
    <2>1. Watched(i, j) /\ Once(r) /\ accepted[j].by \in Requests
      BY <1>0, TookIs DEF TellInv, CountTypes
    <2>2. pc[r] = "warning" /\ accepted[j].by = r =>
            [id |-> accepted[j].id, by |-> accepted[j].by] \in alerts'
      BY <2>1 DEF TellOwner, Warn, Once
    <2> QED
      BY <2>1, <2>2, <1>1, <1>2 DEF Watched
  <1> QED
    BY <1>1, <1>3, <1>4, <1>5, <1>6, <1>7 DEF TellInv

\* A counter is written back over the row as it was read: if that is how the row
\* still stands, one that did not advance is seen; if not, it is overtaken.
LEMMA WriteStep ==
    ASSUME SignedInv, TellInv, NEW r \in Requests, WriteCounter(r)
    PROVE  TellInv'
  <1> USE DEF outside, locals
  <1>0. KeyTypes /\ CountTypes /\ Highest /\ Shown(r) /\ RowsOwned
    BY DEF SignedInv, TellInv
  <1> DEFINE id == row[r].id
             seen == row[r].count
             count == call[r].answer.count
             newest == IF count >= seen THEN count ELSE seen
             w == Suspicious(seen, count)
             e == [id |-> id, count |-> count, warned |-> w, by |-> r]
             Written(x) == IF x.id = id THEN [x EXCEPT !.count = newest] ELSE x
  <1>1. /\ pc[r] = "counting"
        /\ UNCHANGED <<counter, answers, call, row, lastId, alerts, notices, registered>>
    <2>1. /\ pc[r] = "counting" /\ UNCHANGED <<call, row>>
          /\ UNCHANGED <<outside, ceremonies, open, lastId, sessions, alerts, notices, registered>>
      BY Zenon DEF WriteCounter, Proceed
    <2> QED
      BY <2>1
  <1>overtaken. overtaken' = IF row[r] \in rows THEN overtaken ELSE overtaken \cup {id}
    BY Zenon DEF WriteCounter
  <1>accepted. accepted' = Append(accepted, e)
    BY Zenon DEF WriteCounter
  <1>rows. rows' = {Written(x) : x \in rows}
    BY DEF WriteCounter
  <1>2. /\ id \in 1..lastId /\ seen \in Nat /\ count \in Nat
        /\ newest \in Nat /\ newest >= count /\ newest >= seen
    BY <1>0, <1>1 DEF CountTypes, Shown, Holding, Getting
  <1>3. /\ pc' \in [Requests -> Stages] /\ \A q \in Requests \ {r} : pc'[q] = pc[q]
        /\ pc'[r] \in {"warning", "admitting"} /\ (w => pc'[r] = "warning")
    BY <1>0 DEF WriteCounter, Proceed, GoTo, KeyTypes, Stages
  <1>4. w <=> (count > 0 \/ seen > 0) /\ count <= seen
    BY DEF Suspicious
  <1>5. w \in BOOLEAN
    BY <1>4, Zenon DEF Suspicious
  <1>6. e \in Took /\ e.by = r /\ e.id = id /\ e.count = count
    <2>1. id \in Nat
      BY <1>0, <1>2 DEF CountTypes
    <2> HIDE DEF id, count, w
    <2> QED
      BY <2>1, <1>2, <1>5, Zenon DEF Took
  <1>7. ASSUME NEW y \in rows'
        PROVE  \E x \in rows : y.id = x.id /\ y.count = IF x.id = id THEN newest ELSE x.count
    <2>1. PICK x \in rows : y = Written(x)
      BY <1>rows
    <2>2. x = [id |-> x.id, account |-> x.account, key |-> x.key, count |-> x.count]
      BY <1>0 DEF RowsOwned
    <2>3. Written(x).id = x.id /\ Written(x).count = IF x.id = id THEN newest ELSE x.count
      BY <2>2
    <2> QED
      BY <2>1, <2>3
  <1> HIDE DEF e, Written, newest, w
  <1>8. /\ accepted \in Seq(Took) /\ accepted' \in Seq(Took)
        /\ Len(accepted') = Len(accepted) + 1 /\ Len(accepted) \in Nat
        /\ accepted'[Len(accepted) + 1] = e
        /\ \A i \in 1..Len(accepted) : accepted'[i] = accepted[i]
    BY <1>0, <1>accepted, <1>6, Accepting DEF CountTypes
  <1>9. \A i \in 1..Len(accepted) : accepted[i].id \in Nat /\ accepted[i].count \in Nat
    BY <1>8, TookIs
  <1>10. overtaken \subseteq overtaken' /\ (row[r] \notin rows => id \in overtaken')
    BY <1>overtaken
  <1>11. CountTypes'
    <2>1. \A y \in rows' : y.id \in 1..lastId' /\ y.count \in Nat
      BY <1>0, <1>1, <1>2, <1>7 DEF CountTypes
    <2>2. \A q \in Requests : pc'[q] \in Getting \ {"reading"} =>
            row'[q].id \in 1..lastId' /\ row'[q].count \in Nat
      BY <1>0, <1>1, <1>2, <1>3 DEF CountTypes, Getting
    <2>3. \A i \in 1..Len(accepted') : accepted'[i].id <= lastId'
      BY <1>0, <1>1, <1>2, <1>6, <1>8 DEF CountTypes
    <2> QED
      BY <1>0, <1>1, <1>8, <2>1, <2>2, <2>3 DEF CountTypes
  <1>12. Highest'
    <2> SUFFICES ASSUME NEW y \in rows', NEW i \in 1..Len(accepted'),
                        accepted'[i].id = y.id, y.id \notin overtaken'
                 PROVE  accepted'[i].count <= y.count
      BY DEF Highest
    <2>1. PICK x \in rows : y.id = x.id /\ y.count = IF x.id = id THEN newest ELSE x.count
      BY <1>7
    <2>2. CASE i = Len(accepted) + 1
      BY <2>1, <2>2, <1>2, <1>6, <1>8
    <2>3. CASE i \in 1..Len(accepted) /\ x.id # id
      BY <2>1, <2>3, <1>0, <1>8, <1>10 DEF Highest
    <2>4. CASE i \in 1..Len(accepted) /\ x.id = id
      <3>1. row[r] \in rows
        BY <2>1, <2>4, <1>10
      <3>2. accepted[i].count <= seen
        BY <2>1, <2>4, <3>1, <1>0, <1>8, <1>10 DEF Highest
      <3> QED
        BY <2>1, <2>4, <3>2, <1>2, <1>8, <1>9
    <2> QED
      BY <2>2, <2>3, <2>4, <1>8
  <1>13. \A q \in Requests : Once(q)'
    BY <1>1, <1>3, <1>6, <1>8 DEF Once, TellInv, Early
  <1>14. \A x \in registered' : Noticed(x)'
    BY <1>0, <1>1, <1>3 DEF Noticed, TellInv, CountTypes
  <1>15. \A i, j \in 1..Len(accepted') : Watched(i, j)'
    <2>1. \A i, j \in 1..Len(accepted) : Watched(i, j)'
      BY <1>1, <1>3, <1>6, <1>10, <1>accepted, EarlierWatched DEF Early
    <2>2. ASSUME NEW i \in 1..Len(accepted), accepted[i].id = id,
                 accepted[i].count > 0, count <= accepted[i].count
          PROVE  id \in overtaken' \/ pc'[r] = "warning"
      <3>1. CASE row[r] \in rows /\ id \notin overtaken
        <4>1. accepted[i].count <= seen
          BY <2>2, <3>1, <1>0 DEF Highest
        <4> QED
          BY <2>2, <4>1, <1>2, <1>3, <1>4, <1>9
      <3> QED
        BY <3>1, <1>10
    <2>3. ASSUME NEW i \in 1..Len(accepted'), NEW j \in 1..Len(accepted'),
                 j = Len(accepted) + 1
          PROVE  Watched(i, j)'
      BY <2>2, <2>3, <1>6, <1>8 DEF Watched
    <2>4. ASSUME NEW i \in 1..Len(accepted'), NEW j \in 1..Len(accepted'),
                 i = Len(accepted) + 1
          PROVE  Watched(i, j)'
      BY <2>4, <1>8 DEF Watched
    <2> QED
      BY <2>1, <2>3, <2>4, <1>8
  <1> QED
    BY <1>11, <1>12, <1>13, <1>14, <1>15 DEF TellInv

\* Steps that leave the requests and the counters alone.
LEMMA AsideStep ==
    ASSUME TellInv, UNCHANGED <<lastId, registered, accepted, overtaken, alerts, notices, pc, row>>,
           rows' \subseteq rows, counter' \in [Authenticators -> Nat],
           \A a \in answers' : a.count \in Nat
    PROVE  TellInv'
  <1>1. CountTypes'
    BY DEF TellInv, CountTypes
  <1>2. Highest'
    BY DEF TellInv, Highest
  <1>3. \A r \in Requests : Once(r)'
    BY DEF TellInv, Once
  <1>4. \A x \in registered' : Noticed(x)'
    BY DEF TellInv, Noticed
  <1>5. \A i, j \in 1..Len(accepted') : Watched(i, j)'
    BY DEF TellInv, Watched
  <1> QED
    BY <1>1, <1>2, <1>3, <1>4, <1>5 DEF TellInv

\* A restart ends every request: what was owed is left to those that are dead.
LEMMA RestartTells ==
    ASSUME SignedInv, TellInv, Restart
    PROVE  TellInv'
  <1> USE DEF outside, history
  <1>0. KeyTypes /\ CountTypes /\ Highest
    BY DEF SignedInv, TellInv
  <1>1. UNCHANGED <<counter, answers, rows, lastId, registered, accepted, overtaken, alerts, notices>>
    BY DEF Restart
  <1>2. \A r \in Requests : pc'[r] = IF InFlight(r) THEN "dead" ELSE pc[r]
    BY DEF Restart
  <1>3. \A r \in Requests :
            /\ pc'[r] \in {"idle", "over", "dead"}
            /\ pc[r] \notin Early => pc'[r] \notin Early
            /\ pc[r] \in {"telling", "warning", "dead"} => pc'[r] = "dead"
    BY <1>0, <1>2 DEF InFlight, KeyTypes, Stages, Early
  <1>4. CountTypes'
    BY <1>0, <1>1, <1>3 DEF CountTypes, Getting
  <1>5. Highest'
    BY <1>0, <1>1 DEF Highest
  <1>6. \A r \in Requests : Once(r)'
    BY <1>1, <1>3 DEF TellInv, Once
  <1>7. \A x \in registered' : Noticed(x)'
    BY <1>0, <1>1, <1>3 DEF TellInv, Noticed, CountTypes
  <1>8. \A i, j \in 1..Len(accepted') : Watched(i, j)'
    <2> SUFFICES ASSUME NEW i \in 1..Len(accepted), NEW j \in 1..Len(accepted)
                 PROVE  Watched(i, j)'
      BY <1>1
    <2>1. Watched(i, j) /\ accepted[j].by \in Requests
      BY <1>0, TookIs DEF TellInv, CountTypes
    <2> QED
      BY <2>1, <1>1, <1>3 DEF Watched
  <1> QED
    BY <1>4, <1>5, <1>6, <1>7, <1>8 DEF TellInv

\* TellInv holds at the start and is preserved by every step.
LEMMA TellInvHolds == Spec => []TellInv
  <1>1. Init => TellInv
    <2> SUFFICES ASSUME Init
                 PROVE  TellInv
      OBVIOUS
    <2>1. Cardinality(Enrolled) \in Nat
      BY EnrolledAssumption, FS_CardinalityType
    <2>2. \A x \in rows : x.id \in 1..lastId /\ x.count \in Nat
      BY EnrolledAssumption, BoundAssumption DEF Init, Row
    <2>3. CountTypes
      BY <2>1, <2>2 DEF Init, CountTypes, Getting
    <2> QED
      BY <2>3 DEF Init, TellInv, Highest, Once
  <1>2. SignedInv /\ TellInv /\ [Next]_vars => TellInv'
    <2> SUFFICES ASSUME SignedInv, TellInv, [Next]_vars
                 PROVE  TellInv'
      OBVIOUS
    <2> USE DEF outside, store, locals, history
    <2>0. CountTypes /\ KeyTypes
      BY DEF TellInv, SignedInv
    <2>1. counter \in [Authenticators -> Nat] /\ \A a \in answers : a.count \in Nat
      BY <2>0 DEF CountTypes
    <2>2. ASSUME NEW kind \in Kinds, NEW account \in Accounts \cup {Nobody},
                 NewChallenge(kind, account)
          PROVE  TellInv'
      BY <2>1, <2>2, AsideStep DEF NewChallenge
    <2>3. ASSUME NEW d \in Authenticators, NEW h \in Issued, Sign(d, h)
          PROVE  TellInv'
      <3> DEFINE n == IF d \in Counting THEN counter[d] + 1 ELSE 0
                 a == [handle |-> h, kind |-> ceremonies[h].kind, key |-> KeyOf[d], count |-> n]
      <3>1. n \in Nat /\ counter' = [counter EXCEPT ![d] = n] /\ answers' = answers \cup {a}
        BY <2>1, <2>3 DEF Sign
      <3> HIDE DEF n
      <3>2. counter' \in [Authenticators -> Nat] /\ \A b \in answers' : b.count \in Nat
        BY <3>1, <2>1
      <3> QED
        BY <3>2, <2>3, AsideStep DEF Sign
    <2>4. ASSUME NEW r \in Requests, NEW kind \in Kinds, NEW h \in Issued,
                 NEW a \in Accounts \cup {Nobody}, NEW answer \in answers,
                 Begin(r, kind, h, a, answer)
          PROVE  TellInv'
      <3>1. Silent(r)
        BY <2>4, <2>0 DEF Begin, GoTo, KeyTypes, Silent, Early
      <3> QED
        BY <3>1, SilentStep
    <2>5. ASSUME NEW r \in Requests, Work(r)
          PROVE  TellInv'
      BY <2>5, WorkSilent, SilentStep, InsertStep, MessageStep, WriteStep DEF Work
    <2>6. ASSUME NEW a \in Accounts, DeletePasskey(a)
          PROVE  TellInv'
      BY <2>1, <2>6, AsideStep DEF DeletePasskey
    <2>7. ASSUME NEW h \in open, Expire(h)
          PROVE  TellInv'
      BY <2>1, <2>7, AsideStep DEF Expire
    <2>8. CASE Restart
      BY <2>8, RestartTells
    <2>9. CASE UNCHANGED vars
      BY <2>1, <2>9, AsideStep DEF vars
    <2> QED
      BY <2>2, <2>3, <2>4, <2>5, <2>6, <2>7, <2>8, <2>9
      DEF Next, RegistrationOptions, AuthenticationOptions, Kinds
  <1> QED
    BY <1>1, <1>2, SignedInvHolds, PTL DEF Spec

\* Unless its request is not over or was stopped, the owner hears of every new
\* passkey, and of every counter of a passkey that did not advance on one the
\* server took before, as long as no two sign-ins wrote over each other.
THEOREM OwnersAreToldHolds == Spec => []OwnersAreTold
  <1>1. TellInv => OwnersAreTold
    BY DEF TellInv, OwnersAreTold, Noticed, Watched
  <1> QED
    BY <1>1, TellInvHolds, PTL
=============================================================================
