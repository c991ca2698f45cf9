-------------------------- MODULE ManagementSession --------------------------
(***************************************************************************)
(* What a session with a management server promises.  The server is        *)
(* trusted or not after each of its messages; commands are executed only   *)
(* while it is trusted; it is not refused more than Limit times in a row,  *)
(* and once it has rejected the client more than Tolerated times in a row  *)
(* no message of it is taken; the session ends by itself, and with         *)
(* "auth_fail" only after one of the two sides was refused more than       *)
(* Tolerated times in a row.  The bounds are parameters: a comment of the  *)
(* code sets them lower than the code does.                                *)
(***************************************************************************)
EXTENDS Naturals

CONSTANTS Tolerated,  \* refusals of one side that a session survives
          Limit       \* refusals of the server in a row, at most

VARIABLES
    open,      \* a session is under way
    trusted,   \* the server's last message was authenticated
    executed,  \* commands of that message have been executed
    refusals,  \* messages of the server refused in a row
    rejected,  \* messages of the client rejected in a row
    result     \* of the last session

vars == <<open, trusted, executed, refusals, rejected, result>>

Results == {"none", "success", "fail", "auth_fail"}

Init == /\ ~open /\ ~trusted /\ ~executed
        /\ refusals = 0 /\ rejected = 0 /\ result = "none"

Begin == /\ ~open /\ open' /\ ~trusted' /\ ~executed'
         /\ refusals' = 0 /\ rejected' = 0 /\ result' = "none"

\* A message of the server whose credentials are accepted, or are not.
Accept == /\ open /\ rejected <= Tolerated /\ trusted' /\ ~executed' /\ refusals' = 0
          /\ UNCHANGED <<open, rejected, result>>

Refuse == /\ open /\ rejected <= Tolerated /\ ~trusted' /\ ~executed'
          /\ refusals < Limit /\ refusals' = refusals + 1
          /\ UNCHANGED <<open, rejected, result>>

\* The server's verdict on the client's credentials.
Verdict == /\ open /\ rejected' \in {0, rejected + 1, Tolerated + 1}
           /\ UNCHANGED <<open, trusted, executed, refusals, result>>

Execute == /\ open /\ trusted /\ executed'
           /\ UNCHANGED <<open, trusted, refusals, rejected, result>>

\* The session returns, or the process dies (result "none").
End == /\ open /\ ~open' /\ ~trusted' /\ ~executed'
       /\ result' \in Results
       /\ result' = "auth_fail" => refusals > Tolerated \/ rejected > Tolerated
       /\ refusals' = 0 /\ rejected' = 0

Next == Begin \/ Accept \/ Refuse \/ Verdict \/ Execute \/ End

Spec == Init /\ [][Next]_vars
=============================================================================
