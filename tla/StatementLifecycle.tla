------------------------- MODULE StatementLifecycle -------------------------
(***************************************************************************)
(* What a user can rely on about one uploaded statement: it appears with   *)
(* its file, is settled at most once and together with its transactions,   *)
(* loses its file only on the way to its deletion, and never comes back.   *)
(* How many requests upload and delete it at the same time, in how many    *)
(* commits, and which of them crash is left to module Statements.          *)
(***************************************************************************)
CONSTANTS Statement

VARIABLES state,     \* state[s]: the life of statement s
          kept,      \* kept[s]: its file can be had
          listed     \* listed[s]: it has transactions

lifecycleVars == <<state, kept, listed>>

Listing == {"parsed_clean", "parsed_with_warnings"}

Init ==
    /\ state = [s \in Statement |-> "unborn"]
    /\ kept = [s \in Statement |-> FALSE]
    /\ listed = [s \in Statement |-> FALSE]

Appear(s) ==
    /\ state[s] = "unborn"
    /\ state' = [state EXCEPT ![s] = "pending"]
    /\ kept' = [kept EXCEPT ![s] = TRUE]
    /\ UNCHANGED listed

Settle(s, status) ==
    /\ state[s] = "pending"
    /\ state' = [state EXCEPT ![s] = status]
    /\ listed' = [listed EXCEPT ![s] = status \in Listing]
    /\ UNCHANGED kept

LoseFile(s) ==
    /\ state[s] \notin {"unborn", "deleted"} /\ kept[s]
    /\ kept' = [kept EXCEPT ![s] = FALSE]
    /\ UNCHANGED <<state, listed>>

Remove(s) ==
    /\ state[s] \notin {"unborn", "deleted"} /\ ~kept[s]
    /\ state' = [state EXCEPT ![s] = "deleted"]
    /\ listed' = [listed EXCEPT ![s] = FALSE]
    /\ UNCHANGED kept

Next ==
    \E s \in Statement :
        \/ Appear(s) \/ LoseFile(s) \/ Remove(s)
        \/ \E status \in Listing \cup {"failed_needs_manual"} : Settle(s, status)

Spec == Init /\ [][Next]_lifecycleVars
=============================================================================
