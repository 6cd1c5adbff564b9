------------------------------ MODULE MCAwareness ------------------------------
(***************************************************************************)
(* A small instance of Awareness, with the study in front, for TLC.        *)
(***************************************************************************)
EXTENDS Awareness, TLC

CONSTANTS r1, r2, r3

MCSubmissions ==
    {[kind |-> "submit", consented |-> c, valid |-> TRUE, comment |-> c] : c \in BOOLEAN}
MCExports == [kind : {"export"}, dir : Dirs]
MCWorth == [e \in {"study_completed", "chatbot_question", "checklist_item", "reviewed_alert"} |->
                IF e = "study_completed" THEN 50 ELSE IF e = "chatbot_question" THEN 5 ELSE 10]
MCThreshold == [b \in Badges |-> 50]
MCCap == [e \in {"chatbot_question"} |-> 1]
Claim(kind, event) == [kind |-> kind, event |-> event, about |-> "account"]
Dashboard(frozen, other) ==
    [kind |-> "dashboard", event |-> "none", about |-> "account", frozen |-> frozen, other |-> other]
MCClaims ==
    {Claim("claim", "study_completed"), Claim("question", "chatbot_question"),
     Claim("checklist", "checklist_item"), Claim("swap", "none"),
     Dashboard(FALSE, 0), Dashboard(TRUE, 0)}
Symmetry == Permutations(Requests)
=============================================================================
