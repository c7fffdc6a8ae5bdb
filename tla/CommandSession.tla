----------------------------- MODULE CommandSession -----------------------------
(***************************************************************************)
(* A user's commands from Enter to result: the terminal UI that locks its  *)
(* input while a command is in flight (tui/internal/app/model.go), the hub *)
(* that takes one command per connection (websocket/hub.go), the goroutine *)
(* that handles the command (pipeline/ws_handler.go) and the middleware    *)
(* that runs the recipe.  The UI may be restarted and the connection lost  *)
(* at any time; the middleware never stops a recipe it has begun.          *)
(*                                                                         *)
(* Admission to the hub's slot is atomic here (its races are in Hub), and  *)
(* so is Run (its control is in RecipePipeline): it returns a recipe, a    *)
(* refusal or an error.  status_update messages do not touch the lock.     *)
(***************************************************************************)
EXTENDS Naturals, Sequences, FiniteSets, SequencesExt

CONSTANTS MaxCmds,    \* commands the user submits, in all
          MaxConns    \* connections the terminal UI makes, in all

ASSUME BoundsAssumption == MaxCmds \in Nat \ {0} /\ MaxConns \in Nat \ {0}

Cmds  == 1 .. MaxCmds
Conns == 1 .. MaxConns

VARIABLES
    inFlight,   \* m.inFlight: Enter does nothing
    current,    \* the command that m.promptSentAt belongs to, 0 if none
    timers,     \* commands whose promptTimeoutMsg has not fired
    lastResponse, \* the command that m.lastResponse is about, 0 while it is empty
    hasty,      \* current was submitted before the last message of an earlier command
    conn,       \* the UI's connection, 0 while it has none
    toTui,      \* messages on their way to the UI, in order
    client,     \* h.client, 0 when nil
    serve,      \* where ServeClient stands for each connection
    busy,       \* isBusy of each connection
    toHub,      \* prompts on their way to the hub
    stage,      \* where each command stands
    home,       \* the connection that took the command up, 0 before
    cancelled,  \* the context of the command is done
    said,       \* the kinds of message the command's goroutine has sent
    robot,      \* the recipes the middleware is running
    verdict     \* the middleware's answer to the recipe

tuiVars   == <<inFlight, current, timers, lastResponse, hasty>>
hubVars   == <<client, serve, busy>>
robotVars == <<robot, verdict>>
cmdVars   == <<stage, home, cancelled, said>>
vars == <<tuiVars, conn, toTui, hubVars, toHub, cmdVars, robotVars>>

Kinds == {"recipe", "info", "error", "refusal", "rejection"}

\* The command's goroutine exists and has not run its deferred reset.
ActiveStages == {"start", "run", "call", "exec", "sayRecipe", "sayInfo", "sayError",
                 "sayRefusal", "finish"}
Active(c) == stage[c] \in ActiveStages

TypeOK ==
    /\ inFlight \in BOOLEAN /\ current \in 0 .. MaxCmds /\ timers \subseteq Cmds
    /\ lastResponse \in 0 .. MaxCmds /\ hasty \in BOOLEAN
    /\ conn \in 0 .. MaxConns /\ client \in 0 .. MaxConns
    /\ toTui \in Seq([kind : Kinds, cmd : Cmds])
    /\ serve \in [Conns -> {"none", "reading", "closing", "left"}]
    /\ busy \in [Conns -> BOOLEAN]
    /\ toHub \in [Conns -> Seq(Cmds)]
    /\ stage \in [Cmds -> {"unsent", "sent", "rejected", "lost", "done"} \cup ActiveStages]
    /\ home \in [Cmds -> 0 .. MaxConns]
    /\ cancelled \in [Cmds -> BOOLEAN]
    /\ said \in [Cmds -> Seq(Kinds)]
    /\ robot \subseteq Cmds
    /\ verdict \in [Cmds -> {"none", "ok", "failed"}]

Init ==
    /\ inFlight = FALSE /\ current = 0 /\ timers = {}
    /\ lastResponse = 0 /\ hasty = FALSE
    /\ conn = 0 /\ toTui = <<>>
    /\ client = 0
    /\ serve = [s \in Conns |-> "none"]
    /\ busy = [s \in Conns |-> FALSE]
    /\ toHub = [s \in Conns |-> <<>>]
    /\ stage = [c \in Cmds |-> "unsent"]
    /\ home = [c \in Cmds |-> 0]
    /\ cancelled = [c \in Cmds |-> FALSE]
    /\ said = [c \in Cmds |-> <<>>]
    /\ robot = {}
    /\ verdict = [c \in Cmds |-> "none"]

-----------------------------------------------------------------------------
(* The terminal UI.                                                        *)

\* A message about d can still reach the UI.
Unheard(d) == stage[d] = "sent" \/ Active(d) \/ \E i \in DOMAIN toTui : toTui[i].cmd = d

\* Mutant: the answer to the command before stays what is copied.
SubmitKeepsResponse(c) ==
    /\ ~inFlight /\ conn # 0
    /\ stage[c] = "unsent" /\ \A d \in Cmds : d < c => stage[d] # "unsent"
    /\ stage' = [stage EXCEPT ![c] = "sent"]
    /\ toHub' = [toHub EXCEPT ![conn] = Append(@, c)]
    /\ inFlight' = TRUE /\ current' = c /\ timers' = timers \cup {c}
    /\ UNCHANGED lastResponse
    /\ hasty' = \E d \in Cmds \ {c} : Unheard(d)
    /\ UNCHANGED <<conn, toTui, hubVars, home, cancelled, said, robotVars>>

\* submitPrompt.  With no connection SendPrompt fails and nothing changes.
Submit(c) ==
    /\ ~inFlight /\ conn # 0
    /\ stage[c] = "unsent" /\ \A d \in Cmds : d < c => stage[d] # "unsent"
    /\ stage' = [stage EXCEPT ![c] = "sent"]
    /\ toHub' = [toHub EXCEPT ![conn] = Append(@, c)]
    /\ inFlight' = TRUE /\ current' = c /\ timers' = timers \cup {c}
    /\ lastResponse' = 0
    /\ hasty' = \E d \in Cmds \ {c} : Unheard(d)
    /\ UNCHANGED <<conn, toTui, hubVars, home, cancelled, said, robotVars>>

\* handleEnvelope: an action_recipe and every log_event unlock the input,
\* whichever command they belong to.  A log_event is the answer to copy only
\* if the input was locked.
Receive ==
    /\ toTui # <<>>
    /\ toTui' = Tail(toTui)
    /\ inFlight' = FALSE
    /\ lastResponse' = IF Head(toTui).kind = "recipe" \/ inFlight THEN Head(toTui).cmd ELSE lastResponse
    /\ UNCHANGED <<current, timers, hasty, conn, hubVars, toHub, cmdVars, robotVars>>

\* Mutant: the tick clears only the lock of an older command.
TimerFiresOnOthers(c) ==
    /\ c \in timers
    /\ timers' = timers \ {c}
    /\ inFlight' = (inFlight /\ current = c)
    /\ UNCHANGED <<current, lastResponse, hasty, conn, toTui, hubVars, toHub, cmdVars, robotVars>>

\* promptTimeoutMsg, which counts only for the latest prompt.
TimerFires(c) ==
    /\ c \in timers
    /\ timers' = timers \ {c}
    /\ inFlight' = (inFlight /\ current # c)
    /\ UNCHANGED <<current, lastResponse, hasty, conn, toTui, hubVars, toHub, cmdVars, robotVars>>

\* Ctrl+C, and the user starts the program again.
Restart ==
    /\ inFlight' = FALSE /\ current' = 0 /\ timers' = {}
    /\ lastResponse' = 0 /\ hasty' = FALSE
    /\ conn' = 0 /\ toTui' = <<>>
    /\ UNCHANGED <<hubVars, toHub, cmdVars, robotVars>>

\* The UI keeps inFlight when it loses its connection; the messages that have
\* not reached it are lost.
LoseConnection ==
    /\ conn # 0
    /\ conn' = 0
    /\ \E n \in 0 .. Len(toTui) : toTui' = SubSeq(toTui, 1, n)
    /\ UNCHANGED <<tuiVars, hubVars, toHub, cmdVars, robotVars>>

-----------------------------------------------------------------------------
(* The hub.                                                                *)

\* connectLoop dials until the hub has a free slot.
Connect(s) ==
    /\ conn = 0 /\ client = 0
    /\ serve[s] = "none" /\ \A t \in Conns : t < s => serve[t] # "none"
    /\ conn' = s /\ client' = s
    /\ serve' = [serve EXCEPT ![s] = "reading"]
    /\ UNCHANGED <<tuiVars, toTui, busy, toHub, cmdVars, robotVars>>

\* SendToClient: to whichever client is registered now, if its UI is there.
SendToClient(kind, c) ==
    toTui' = IF client # 0 /\ conn = client
             THEN Append(toTui, [kind |-> kind, cmd |-> c]) ELSE toTui

\* Mutant: prompt_submit is taken up without a look at isBusy.
ReadPromptAlways(s) ==
    /\ serve[s] = "reading" /\ toHub[s] # <<>>
    /\ toHub' = [toHub EXCEPT ![s] = Tail(@)]
    /\ busy' = [busy EXCEPT ![s] = TRUE]
    /\ stage' = [stage EXCEPT ![Head(toHub[s])] = "start"]
    /\ home' = [home EXCEPT ![Head(toHub[s])] = s]
    /\ UNCHANGED <<tuiVars, conn, toTui, client, serve, cancelled, said, robotVars>>

\* The read loop takes a prompt_submit: a second command is rejected.
ReadPrompt(s) ==
    /\ serve[s] = "reading" /\ toHub[s] # <<>>
    /\ toHub' = [toHub EXCEPT ![s] = Tail(@)]
    /\ LET c == Head(toHub[s]) IN
         \/ /\ ~busy[s]
            /\ busy' = [busy EXCEPT ![s] = TRUE]
            /\ stage' = [stage EXCEPT ![c] = "start"]
            /\ home' = [home EXCEPT ![c] = s]
            /\ UNCHANGED toTui
         \/ /\ busy[s]
            /\ stage' = [stage EXCEPT ![c] = "rejected"]
            /\ SendToClient("rejection", c)
            /\ UNCHANGED <<busy, home>>
    /\ UNCHANGED <<tuiVars, conn, client, serve, cancelled, said, robotVars>>

\* Mutant: the teardown does not cancel the command it leaves behind.
EndServeUncancelled(s) ==
    /\ serve[s] = "reading" /\ conn # s
    /\ serve' = [serve EXCEPT ![s] = "closing"]
    /\ stage' = [c \in Cmds |-> IF Contains(toHub[s], c) THEN "lost" ELSE stage[c]]
    /\ toHub' = [toHub EXCEPT ![s] = <<>>]
    /\ UNCHANGED <<tuiVars, conn, toTui, client, busy, home, cancelled, said, robotVars>>

\* ReadJSON fails on the lost connection: the contexts of its command are
\* cancelled.  Nobody waits for the goroutine.
EndServe(s) ==
    /\ serve[s] = "reading" /\ conn # s
    /\ serve' = [serve EXCEPT ![s] = "closing"]
    /\ cancelled' = [c \in Cmds |-> cancelled[c] \/ (Active(c) /\ home[c] = s)]
    /\ stage' = [c \in Cmds |-> IF Contains(toHub[s], c) THEN "lost" ELSE stage[c]]
    /\ toHub' = [toHub EXCEPT ![s] = <<>>]
    /\ UNCHANGED <<tuiVars, conn, toTui, client, busy, home, said, robotVars>>

\* Then the slot is freed.
FreeSlot(s) ==
    /\ serve[s] = "closing"
    /\ client' = IF client = s THEN 0 ELSE client
    /\ serve' = [serve EXCEPT ![s] = "left"]
    /\ UNCHANGED <<tuiVars, conn, toTui, busy, toHub, cmdVars, robotVars>>

-----------------------------------------------------------------------------
(* HandlePrompt, on the goroutine of command c.                            *)

Goto(c, where) == stage' = [stage EXCEPT ![c] = where]

Say(c, from, kind, where) ==
    /\ stage[c] = from
    /\ SendToClient(kind, c)
    /\ said' = [said EXCEPT ![c] = Append(@, kind)]
    /\ Goto(c, where)
    /\ UNCHANGED <<tuiVars, conn, hubVars, toHub, home, cancelled, robotVars>>

\* IsConnected, then the refresh of the scene, whose failure is no error.
CheckBridge(c) ==
    /\ stage[c] = "start"
    /\ \E where \in {"run", "sayError"} : Goto(c, where)
    /\ UNCHANGED <<tuiVars, conn, toTui, hubVars, toHub, home, cancelled, said, robotVars>>

\* Run returns.  Once the context of the command is done its result is dropped
\* without a word; otherwise it is an error, a refusal or a recipe.
RunReturns(c) ==
    /\ stage[c] = "run"
    /\ IF cancelled[c]
       THEN Goto(c, "finish")
       ELSE \E where \in {"sayError", "sayRefusal", "call"} : Goto(c, where)
    /\ UNCHANGED <<tuiVars, conn, toTui, hubVars, toHub, home, cancelled, said, robotVars>>

\* Mutant: the call is not accounted for in any later step.
CallRobotForgotten(c) ==
    /\ stage[c] = "call"
    /\ Goto(c, "waiting")
    /\ UNCHANGED <<tuiVars, conn, toTui, hubVars, toHub, home, cancelled, said, robotVars>>

\* ExecuteRecipe: CallService sends without a look at the context, or fails.
CallRobot(c) ==
    /\ stage[c] = "call"
    /\ \/ /\ robot' = robot \cup {c}
          /\ Goto(c, "exec")
       \/ /\ Goto(c, "sayError")
          /\ UNCHANGED robot
    /\ UNCHANGED <<tuiVars, conn, toTui, hubVars, toHub, home, cancelled, said, verdict>>

\* Mutant: the success field of the middleware's answer is not looked at.
AnswerTakenAsSuccess(c) ==
    /\ stage[c] = "exec" /\ verdict[c] # "none"
    /\ Goto(c, "sayRecipe")
    /\ UNCHANGED <<tuiVars, conn, toTui, hubVars, toHub, home, cancelled, said, robotVars>>

RobotAnswered(c) ==
    /\ stage[c] = "exec" /\ verdict[c] # "none"
    /\ Goto(c, IF verdict[c] = "ok" THEN "sayRecipe" ELSE "sayError")
    /\ UNCHANGED <<tuiVars, conn, toTui, hubVars, toHub, home, cancelled, said, robotVars>>

\* Mutant: ExecuteRecipe has no time limit of its own.
StopWaitingOnCancelOnly(c) ==
    /\ stage[c] = "exec" /\ cancelled[c]
    /\ Goto(c, "sayError")
    /\ UNCHANGED <<tuiVars, conn, toTui, hubVars, toHub, home, cancelled, said, robotVars>>

\* The context is done, execution_timeout_seconds are over, or the bridge was
\* lost: the goroutine stops waiting and the recipe goes on.
StopWaiting(c) ==
    /\ stage[c] = "exec"
    /\ Goto(c, "sayError")
    /\ UNCHANGED <<tuiVars, conn, toTui, hubVars, toHub, home, cancelled, said, robotVars>>

SayError(c)   == Say(c, "sayError", "error", "finish")
SayRefusal(c) == Say(c, "sayRefusal", "refusal", "finish")
SayRecipe(c)  == Say(c, "sayRecipe", "recipe", "sayInfo")
SayInfo(c)    == Say(c, "sayInfo", "info", "finish")

Finish(c) ==
    /\ stage[c] = "finish"
    /\ busy' = [busy EXCEPT ![home[c]] = FALSE]
    /\ Goto(c, "done")
    /\ UNCHANGED <<tuiVars, conn, toTui, client, serve, toHub, home, cancelled, said, robotVars>>

-----------------------------------------------------------------------------
(* The middleware and the clock.                                           *)

RobotEnds(c) ==
    /\ c \in robot
    /\ robot' = robot \ {c}
    /\ \E v \in {"ok", "failed"} : verdict' = [verdict EXCEPT ![c] = v]
    /\ UNCHANGED <<tuiVars, conn, toTui, hubVars, toHub, cmdVars>>

\* The five minutes of the command are over.
Expire(c) ==
    /\ Active(c) /\ ~cancelled[c]
    /\ cancelled' = [cancelled EXCEPT ![c] = TRUE]
    /\ UNCHANGED <<tuiVars, conn, toTui, hubVars, toHub, stage, home, said, robotVars>>

-----------------------------------------------------------------------------
Tui == Receive \/ Restart \/ LoseConnection \/ \E c \in Cmds : Submit(c) \/ TimerFires(c)

HubStep(s) == Connect(s) \/ ReadPrompt(s) \/ EndServe(s) \/ FreeSlot(s)

Handle(c) ==
    \/ CheckBridge(c) \/ RunReturns(c) \/ CallRobot(c)
    \/ RobotAnswered(c) \/ StopWaiting(c)
    \/ SayError(c) \/ SayRefusal(c) \/ SayRecipe(c) \/ SayInfo(c) \/ Finish(c)

Next ==
    \/ Tui
    \/ \E s \in Conns : HubStep(s)
    \/ \E c \in Cmds : Handle(c) \/ RobotEnds(c) \/ Expire(c)

Spec == Init /\ [][Next]_vars

\* Each goroutine is scheduled and each wait in it has a time limit (60 s for
\* the model, the execution timeout for the robot); the UI's timer and event
\* loop run.  No message, robot answer or reconnection is assumed.
Fairness ==
    /\ WF_vars(Receive)
    /\ \A c \in Cmds : WF_vars(Handle(c)) /\ WF_vars(TimerFires(c))
    /\ \A s \in Conns : WF_vars(ReadPrompt(s) \/ EndServe(s)) /\ WF_vars(FreeSlot(s))

FairSpec == Spec /\ Fairness

-----------------------------------------------------------------------------
(* What the system promises.                                               *)

\* "Copies the last command and its answer" (docs/user-guide/terminal-ui.md:80)
\* holds for a command that was submitted after the last message of the earlier
\* ones.  The recipe unlocks the input before the info message that follows it:
\* a command submitted in between may be copied with the info message of the
\* one before, which also unlocks the input (model.go:346-363, 396-402).
CopiedAnswerIsOwn == current # 0 => lastResponse \in {0, current} \/ hasty

\* Of all commands in the backend at most one is not cancelled: isBusy holds
\* per connection only, and the teardown cancels before it frees the slot
\* (hub.go:179-191, 219-232).
OneLiveCommand ==
    \A c, d \in Cmds :
        Active(c) /\ Active(d) /\ ~cancelled[c] /\ ~cancelled[d] => c = d

\* The UI is sent a recipe only when the middleware has run it to its end
\* (docs/technical/interfaces.md:61).
RecipeMeansExecuted ==
    \A c \in Cmds : Contains(said[c], "recipe") => verdict[c] = "ok" /\ c \notin robot

\* Every command that the backend takes up comes to an end.
CommandsFinish == \A c \in Cmds : Active(c) ~> ~Active(c)

\* However the connection fares, the input is unlocked in the end.
InputUnlocks == inFlight ~> ~inFlight

\* What a connection has in hand, and how each finished command ended.  "A
\* recipe that ran is followed by an action_recipe message and a log_event
\* message with the level info. A refusal or an error is followed by one
\* log_event message." (docs/technical/interfaces.md:79): any other sequence of
\* messages is no outcome, and so is silence unless the context is done.  (A
\* message is taken to be one that can be encoded; PromptAndAnswer!RefusalIsTold
\* is about those that cannot.)
InHand == [s \in Conns |-> {c \in Cmds : Active(c) /\ home[c] = s}]
Ending(c) ==
    IF stage[c] # "done" THEN "open"
    ELSE CASE said[c] = <<"recipe", "info">>           -> "executed"
           [] said[c] \in {<<"error">>, <<"refusal">>} -> "declined"
           [] said[c] = <<>> /\ cancelled[c]           -> "abandoned"
           [] OTHER                                    -> "garbled"
Outcome == [c \in Cmds |-> Ending(c)]

Service == INSTANCE CommandService WITH inHand <- InHand, outcome <- Outcome

\* The session keeps the promise of CommandService: however the terminal UI,
\* the connections and the robot fare, a command is taken up at most once, a
\* connection has at most one in hand, and each ends in exactly one outcome,
\* which is sent in full or, when the command was cancelled, not at all
\* (ServeClient's read loop and HandlePrompt).
ServiceSpec == Service!Spec

\* "One command runs at a time. [...] the backend refuses a second command."
\* (docs/user-guide/terminal-ui.md:62)
OneRecipeRuns == Cardinality(robot) <= 1
=============================================================================
