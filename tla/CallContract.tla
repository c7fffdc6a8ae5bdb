------------------------------ MODULE CallContract ------------------------------
(***************************************************************************)
(* What a caller of rosbridge.Client.CallService may rely on, whatever the *)
(* connection does meanwhile.  A call that finds no connection returns at  *)
(* once and reaches no one.  A call that has begun gets at most one verdict*)
(* from rosbridge_server, and returns once: with that verdict, with the    *)
(* news that it failed, after which no verdict on it is ever taken in, or  *)
(* with a timeout, which says nothing about the verdict.                   *)
(***************************************************************************)
CONSTANT Calls

VARIABLES begun,    \* calls that have got an id
          verdict,  \* rosbridge_server's answer to each call, once taken in
          returned  \* what each call has returned

vars == <<begun, verdict, returned>>

Init ==
    /\ begun = {}
    /\ verdict = [k \in Calls |-> "none"]
    /\ returned = [k \in Calls |-> "none"]

Pending(k) == k \in begun /\ returned[k] = "none"

Refuse(k) ==
    /\ k \notin begun /\ returned[k] = "none"
    /\ returned' = [returned EXCEPT ![k] = "notConnected"]
    /\ UNCHANGED <<begun, verdict>>

Begin(k) ==
    /\ k \notin begun /\ returned[k] = "none"
    /\ begun' = begun \cup {k}
    /\ UNCHANGED <<verdict, returned>>

\* Only a timeout may leave an answer that is still taken in.
Answer(k) ==
    /\ k \in begun /\ verdict[k] = "none" /\ returned[k] \in {"none", "timeout"}
    /\ \E v \in {"ok", "failed"} : verdict' = [verdict EXCEPT ![k] = v]
    /\ UNCHANGED <<begun, returned>>

ReturnVerdict(k) ==
    /\ Pending(k) /\ verdict[k] # "none"
    /\ returned' = [returned EXCEPT ![k] = verdict[k]]
    /\ UNCHANGED <<begun, verdict>>

Fail(k) ==
    /\ Pending(k) /\ verdict[k] = "none"
    /\ \E why \in {"sendFailed", "closed"} : returned' = [returned EXCEPT ![k] = why]
    /\ UNCHANGED <<begun, verdict>>

Timeout(k) ==
    /\ Pending(k)
    /\ returned' = [returned EXCEPT ![k] = "timeout"]
    /\ UNCHANGED <<begun, verdict>>

Next == \E k \in Calls :
    Refuse(k) \/ Begin(k) \/ Answer(k) \/ ReturnVerdict(k) \/ Fail(k) \/ Timeout(k)

Spec == Init /\ [][Next]_vars
=============================================================================
