---------------------------- MODULE RecoveryCodes ----------------------------
(***************************************************************************)
(* engine/recovery_codes.py for one subscriber, with the two routes that   *)
(* change the table: POST /recovery-codes replaces the sheet of codes,     *)
(* POST /recovery-login spends one.  Both do so in one BEGIN IMMEDIATE     *)
(* block; the session is created in later statements.  A code is its own   *)
(* name: two draws of 100 bits never coincide.  The sign-in challenge the  *)
(* login also needs is checked before and is not modelled here.            *)
(***************************************************************************)
EXTENDS Threads, Naturals, FiniteSets

CONSTANTS
    Codes,      \* every code that may ever be drawn
    SetSize     \* CODE_COUNT

ASSUME SetSizeAssumption == SetSize \in Nat \ {0}

VARIABLES
    table,      \* recovery_codes: "absent", "unused" or "used", by code
    sheet,      \* history: the newest set of codes issued
    drawn,      \* history: every code ever issued
    entered,    \* the code a sign-in was given, or NoCode
    spent,      \* history: <<r, c>> when consume told r that c was valid
    sessions    \* sign-ins that got their session

recovery == <<table, sheet, drawn, pc, entered, spent, sessions>>
drawing == <<sheet, drawn>>

NoCode == "none"
ASSUME NoCodeAssumption == NoCode \notin Codes

\* The table, the requests and the history keep their shape.
RecoveryTypeOK ==
    /\ table \in [Codes -> {"absent", "unused", "used"}]
    /\ sheet \subseteq Codes /\ drawn \subseteq Codes
    /\ pc \in [Requests -> {"idle", "generating", "replaced", "claiming", "claimed",
                            "done", "refused", "dead"}]
    /\ entered \in [Requests -> Codes \cup {NoCode}]
    /\ spent \subseteq Requests \X Codes
    /\ sessions \subseteq Requests

RecoveryInit ==
    /\ table = [c \in Codes |-> "absent"]
    /\ sheet = {} /\ drawn = {}
    /\ pc = [r \in Requests |-> "idle"]
    /\ entered = [r \in Requests |-> NoCode]
    /\ spent = {} /\ sessions = {}

-----------------------------------------------------------------------------
BeginGenerate(r) ==
    /\ pc[r] = "idle"
    /\ GoTo(r, "generating")
    /\ UNCHANGED <<table, drawing, entered, spent, sessions>>

BeginLogin(r, c) ==
    /\ pc[r] = "idle"
    /\ entered' = [entered EXCEPT ![r] = c]
    /\ GoTo(r, "claiming")
    /\ UNCHANGED <<table, drawing, spent, sessions>>

\* Faulty variant: the previous set is left in the table.
Replaced_KeepsOld(fresh) == [c \in Codes |-> IF c \in fresh THEN "unused" ELSE table[c]]

\* DELETE of the user's rows and INSERT of the new ones.
Replaced(fresh) == [c \in Codes |-> IF c \in fresh THEN "unused" ELSE "absent"]

\* generate_for_user.
Generate(r, fresh) ==
    /\ pc[r] = "generating"
    /\ fresh \subseteq Codes \ drawn /\ Cardinality(fresh) = SetSize
    /\ table' = Replaced(fresh)
    /\ sheet' = fresh /\ drawn' = drawn \cup fresh
    /\ GoTo(r, "replaced")
    /\ UNCHANGED <<entered, spent, sessions>>

\* The only response that ever shows the codes.
ShowCodes(r) ==
    /\ pc[r] = "replaced"
    /\ GoTo(r, "done")
    /\ UNCHANGED <<table, drawing, entered, spent, sessions>>

\* Faulty variant: `AND used_at IS NULL` is missing.
Unspent_Any(c) == c \in Codes /\ table[c] # "absent"

\* The rows consume looks at: `used_at IS NULL`.
Unspent(c) == c \in Codes /\ table[c] = "unused"

\* consume: find the row and mark it, under the write lock.
Claim(r) ==
    /\ pc[r] = "claiming" /\ Unspent(entered[r])
    /\ table' = [table EXCEPT ![entered[r]] = "used"]
    /\ spent' = spent \cup {<<r, entered[r]>>}
    /\ GoTo(r, "claimed")
    /\ UNCHANGED <<drawing, entered, sessions>>

\* consume finds no row: wrong, spent and replaced codes look the same.
Refuse(r) ==
    /\ pc[r] = "claiming" /\ ~Unspent(entered[r])
    /\ GoTo(r, "refused")
    /\ UNCHANGED <<table, drawing, entered, spent, sessions>>

\* Faulty variant: the session is created before the code is claimed.
OpenSession_Early(r) ==
    /\ pc[r] \in {"claiming", "claimed"}
    /\ sessions' = sessions \cup {r}
    /\ GoTo(r, IF pc[r] = "claimed" THEN "done" ELSE "claiming")
    /\ UNCHANGED <<table, drawing, entered, spent>>

\* register_device, create_session and the notification.
OpenSession(r) ==
    /\ pc[r] = "claimed"
    /\ sessions' = sessions \cup {r}
    /\ GoTo(r, "done")
    /\ UNCHANGED <<table, drawing, entered, spent>>

RecoveryDie(r) ==
    /\ pc[r] \in {"generating", "replaced", "claiming", "claimed"}
    /\ GoTo(r, "dead")
    /\ UNCHANGED <<table, drawing, entered, spent, sessions>>

\* enforce_retention deletes rows spent audit_log_days ago.
PurgeSpent(c) ==
    /\ table[c] = "used"
    /\ table' = [table EXCEPT ![c] = "absent"]
    /\ UNCHANGED <<drawing, pc, entered, spent, sessions>>

RecoveryNext ==
    \/ \E r \in Requests :
           \/ BeginGenerate(r)
           \/ \E c \in Codes \cup {NoCode} : BeginLogin(r, c)
           \/ \E fresh \in SUBSET Codes : Generate(r, fresh)
           \/ ShowCodes(r) \/ Claim(r) \/ Refuse(r) \/ OpenSession(r) \/ RecoveryDie(r)
    \/ \E c \in Codes : PurgeSpent(c)

RecoverySpec == RecoveryInit /\ [][RecoveryNext]_recovery

-----------------------------------------------------------------------------
(* Properties *)

\* recovery_codes.py:124-126: of all requests racing with one code, at most one
\* is ever told that it was valid, also after retention forgot the row.
SpentOnce ==
    \A s, t \in spent : s[2] = t[2] => s = t

\* Generating a sheet voids the previous one at once, whatever sign-ins are in
\* flight: a code is only accepted off the newest sheet (recovery_codes.py:84).
OldSheetIsVoid ==
    [][\A s \in spent' \ spent : s[2] \in sheet]_recovery

\* A session rests on a code of its own: no two sign-ins share one, and a
\* sign-in whose code was refused or is still being claimed has none.
SessionsArePaidFor ==
    /\ \A r \in sessions : <<r, entered[r]>> \in spent
    /\ \A q, r \in sessions : entered[q] = entered[r] => q = r

\* A code that left the sheet never comes back to it: neither a late claim nor
\* retention nor a new sheet makes a drawn code usable again.
NeverUsableAgain ==
    [][\A c \in drawn : table[c] # "unused" => table'[c] # "unused"]_recovery
=============================================================================
