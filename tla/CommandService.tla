----------------------------- MODULE CommandService -----------------------------
(***************************************************************************)
(* What the backend promises of the commands of one user, whatever the     *)
(* hub, the pipeline and the bridge do in between: each command is taken   *)
(* up at most once, a connection has at most one command in hand, and the  *)
(* command ends in exactly one outcome.                                    *)
(***************************************************************************)
CONSTANTS Cmds,   \* commands
          Conns   \* connections of terminal UIs

VARIABLES inHand,    \* the commands each connection has in hand
          outcome    \* how each command ended, or "open"

vars == <<inHand, outcome>>

\* The robot ran the recipe and the UI was sent it; the UI was sent a reason;
\* nothing was sent, as the command was cancelled or out of time.
Outcomes == {"executed", "declined", "abandoned"}

Init ==
    /\ inHand = [s \in Conns |-> {}]
    /\ outcome = [c \in Cmds |-> "open"]

Accept(s, c) ==
    /\ inHand[s] = {} /\ outcome[c] = "open"
    /\ \A t \in Conns : c \notin inHand[t]
    /\ inHand' = [inHand EXCEPT ![s] = {c}]
    /\ UNCHANGED outcome

Conclude(s, c) ==
    /\ c \in inHand[s]
    /\ inHand' = [inHand EXCEPT ![s] = {}]
    /\ \E o \in Outcomes : outcome' = [outcome EXCEPT ![c] = o]

Next == \E s \in Conns, c \in Cmds : Accept(s, c) \/ Conclude(s, c)

Spec == Init /\ [][Next]_vars
=============================================================================
