----------------------------- MODULE TimeTravel -----------------------------
(***************************************************************************)
(* What a replay session promises its client: every run_to(seq) is         *)
(* answered, and what may be answered depends on seq alone, not on where   *)
(* the session was before nor on which checkpoints it holds.               *)
(***************************************************************************)
CONSTANTS
    Target,     \* the positions a client may ask for
    Lands,      \* position asked for -> positions where the session may then be
    None

VARIABLES
    req,        \* the request being served, or None
    at          \* the position last answered, None before the first answer

Init == req = None /\ at = None

Ask == req = None /\ req' \in Target /\ UNCHANGED at

Answer == req # None /\ at' \in Lands[req] /\ req' = None

Next == Ask \/ Answer

Safety == Init /\ [][Next]_<<req, at>>

Spec == Safety /\ WF_<<req, at>>(Answer)
=============================================================================
