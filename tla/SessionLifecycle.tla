-------------------------- MODULE SessionLifecycle --------------------------
(***************************************************************************)
(* What the refresh-token chains of services/auth_service.py promise about *)
(* one login session ("family"): it is opened once, by one user, and once  *)
(* it is closed nothing opens it again.  How a family stays open - by      *)
(* rotating one token into the next - and how it is closed - by logging    *)
(* out, by revoking it, by presenting a consumed token, by expiry or by a  *)
(* rotation that dies half way - is left to module Sessions.               *)
(***************************************************************************)
CONSTANTS User, Family, NoUser

VARIABLES status,    \* status[f]: the life of family f
          owner      \* owner[f]: the user who opened it, NoUser before that

lifecycleVars == <<status, owner>>

Init ==
    /\ status = [f \in Family |-> "unopened"]
    /\ owner = [f \in Family |-> NoUser]

Open(f, u) ==
    /\ status[f] = "unopened"
    /\ status' = [status EXCEPT ![f] = "open"]
    /\ owner' = [owner EXCEPT ![f] = u]

Close(f) ==
    /\ status[f] = "open"
    /\ status' = [status EXCEPT ![f] = "closed"]
    /\ UNCHANGED owner

Next ==
    \E f \in Family :
        \/ \E u \in User : Open(f, u)
        \/ Close(f)

Spec == Init /\ [][Next]_lifecycleVars
=============================================================================
