--------------------------- MODULE CommandSessionProofs ---------------------------
(***************************************************************************)
(* Proofs about CommandSession, for any number of commands and of          *)
(* connections: one command at a time is live, a recipe that is shown has  *)
(* been executed, the answer that is copied is the answer of its command,  *)
(* the session implements CommandService, and nothing is left locked or    *)
(* busy behind the one step that frees it.                                 *)
(***************************************************************************)
EXTENDS CommandSession, SequenceTheorems, TLAPS

\* A prompt that is on its way to the hub is there once.
QueueInv ==
    /\ \A s \in Conns : \A i \in 1 .. Len(toHub[s]) : stage[toHub[s][i]] = "sent"
    /\ \A s, t \in Conns : \A i \in 1 .. Len(toHub[s]), j \in 1 .. Len(toHub[t]) :
         toHub[s][i] = toHub[t][j] => s = t /\ i = j

\* Who is served, or has not given up the slot yet, holds it.
SlotInv == \A s \in Conns : serve[s] \in {"reading", "closing"} => client = s

\* A command in hand keeps its connection busy, alone, and lives on beyond the
\* connection only when it is cancelled.
HomeInv ==
    /\ \A c \in Cmds : Active(c) =>
         /\ home[c] \in Conns /\ busy[home[c]]
         /\ serve[home[c]] = "reading" \/ cancelled[c]
    /\ \A c, d \in Cmds : Active(c) /\ Active(d) /\ home[c] = home[d] => c = d

\* What a command has said and what the robot made of it, at each stage.
SaidSoFar(c) ==
    /\ stage[c] \notin {"sayInfo", "finish", "done"} => said[c] = <<>>
    /\ stage[c] = "sayInfo" => said[c] = <<"recipe">>
    /\ stage[c] \in {"finish", "done"} =>
         \/ said[c] = <<>> /\ cancelled[c]
         \/ said[c] \in {<<"error">>, <<"refusal">>, <<"recipe", "info">>}
RobotSoFar(c) ==
    /\ stage[c] \in {"unsent", "sent", "rejected", "lost", "start", "run", "call"} =>
         verdict[c] = "none" /\ c \notin robot
    /\ c \in robot => verdict[c] = "none"
    /\ stage[c] \in {"sayRecipe", "sayInfo"} \/ said[c] = <<"recipe", "info">> =>
         verdict[c] = "ok"
SaidInv == \A c \in Cmds : SaidSoFar(c) /\ RobotSoFar(c)

\* Of what the UI may still hear, all is about the current command, unless the
\* user was hasty.
HeardInv ==
    current # 0 /\ ~hasty =>
        /\ \A d \in Cmds : Unheard(d) => d = current
        /\ lastResponse \in {0, current}

IInv == TypeOK /\ QueueInv /\ SlotInv /\ HomeInv /\ SaidInv /\ HeardInv

Msgs == [kind : Kinds, cmd : Cmds]

\* What a step of a command's goroutine may do, but for the robot and the
\* record of what was said: Finish aside, it goes on to another stage of its own
\* and sends at most one message, which is about the command.
Advance(c) ==
    /\ Active(c) /\ \E where \in ActiveStages : Goto(c, where)
    /\ UNCHANGED <<tuiVars, conn, hubVars, toHub, home, cancelled>>
    /\ \/ UNCHANGED toTui
       \/ \E kind \in Kinds : toTui' = Append(toTui, [kind |-> kind, cmd |-> c])

-----------------------------------------------------------------------------
(* Sequences.                                                              *)

\* Short records of what was said.
LEMMA Sayings ==
    /\ \A x : Append(<<>>, x) = <<x>>
    /\ \A x, y : Append(<<x>>, y) = <<x, y>>
    /\ ~Contains(<<>>, "recipe")
    /\ \A x : Contains(<<x>>, "recipe") => x = "recipe"
<1>1. \A x : Append(<<>>, x) = <<x>>
  OBVIOUS
<1>2. ASSUME NEW x, NEW y PROVE Append(<<x>>, y) = <<x, y>>
  <2>1. <<x>> \in Seq({x, y}) /\ <<x, y>> \in Seq({x, y})
    OBVIOUS
  <2>2. Append(<<x>>, y) \in Seq({x, y}) /\ Len(Append(<<x>>, y)) = Len(<<x, y>>)
    BY <2>1
  <2>3. ASSUME NEW i \in 1 .. Len(<<x, y>>) PROVE Append(<<x>>, y)[i] = <<x, y>>[i]
    BY <2>1
  <2>4. QED
    BY <2>1, <2>2, <2>3, SeqEqual
<1>3. ~Contains(<<>>, "recipe")
  BY DEF Contains
<1>4. \A x : Contains(<<x>>, "recipe") => x = "recipe"
  BY DEF Contains
<1>5. QED
  BY <1>1, <1>2, <1>3, <1>4

\* What is left of a queue is what came after its head.
LEMMA TailOf ==
    ASSUME NEW S, NEW q \in Seq(S), q # <<>>
    PROVE  /\ Head(q) \in S /\ Tail(q) \in Seq(S) /\ Len(q) \in Nat /\ Len(q) > 0
           /\ Head(q) = q[1] /\ Len(Tail(q)) = Len(q) - 1
           /\ \A i \in 1 .. Len(Tail(q)) : Tail(q)[i] = q[i + 1] /\ i + 1 \in 1 .. Len(q)
OBVIOUS

\* A message at the end of a queue is the only new one.
LEMMA AppendedTo ==
    ASSUME NEW S, NEW q \in Seq(S), NEW x \in S
    PROVE  /\ Append(q, x) \in Seq(S) /\ Len(Append(q, x)) = Len(q) + 1 /\ Len(q) \in Nat
           /\ Append(q, x)[Len(q) + 1] = x
           /\ \A i \in 1 .. Len(q) : Append(q, x)[i] = q[i]
           /\ \A i \in DOMAIN Append(q, x) :
                Append(q, x)[i] = x \/ \E j \in DOMAIN q : Append(q, x)[i] = q[j]
OBVIOUS

\* A lost connection leaves the beginning of the messages that were on the way.
LEMMA BeginningOf ==
    ASSUME NEW S, NEW q \in Seq(S), NEW n \in 0 .. Len(q)
    PROVE  /\ SubSeq(q, 1, n) \in Seq(S)
           /\ \A i \in DOMAIN SubSeq(q, 1, n) : \E j \in DOMAIN q : SubSeq(q, 1, n)[i] = q[j]
OBVIOUS
-----------------------------------------------------------------------------
(* The steps of a command's goroutine.                                     *)

\* A message about c, sent or dropped.
LEMMA Sent ==
    ASSUME NEW c \in Cmds, NEW kind \in Kinds, toTui \in Seq(Msgs), SendToClient(kind, c)
    PROVE  /\ toTui' \in Seq(Msgs)
           /\ \A i \in DOMAIN toTui' : toTui'[i].cmd = c \/ \E j \in DOMAIN toTui : toTui'[i] = toTui[j]
           /\ UNCHANGED toTui \/ \E k \in Kinds : toTui' = Append(toTui, [kind |-> k, cmd |-> c])
<1>1. [kind |-> kind, cmd |-> c] \in Msgs /\ [kind |-> kind, cmd |-> c].cmd = c
  BY DEF Msgs
<1>2. CASE toTui' = toTui
  BY <1>2
<1>3. CASE toTui' = Append(toTui, [kind |-> kind, cmd |-> c])
  BY <1>1, <1>3, AppendedTo
<1>4. QED
  BY <1>2, <1>3 DEF SendToClient

\* The handler's steps before the deferred reset only go on.
LEMMA Speaking ==
    ASSUME NEW c \in Cmds, NEW from \in ActiveStages, NEW kind \in Kinds, NEW where \in ActiveStages,
           TypeOK, Say(c, from, kind, where)
    PROVE  Advance(c)
<1>1. toTui \in Seq(Msgs)
  BY DEF TypeOK, Msgs
<1>2. UNCHANGED toTui \/ \E k \in Kinds : toTui' = Append(toTui, [kind |-> k, cmd |-> c])
  BY <1>1, Sent DEF Say
<1>3. QED
  BY <1>2 DEF Say, Advance, Active, Goto

\* What each step of the handler does, Finish aside.
LEMMA Advances ==
    ASSUME NEW c \in Cmds, TypeOK, Handle(c), ~Finish(c)
    PROVE  Advance(c)
<1>1. CASE CheckBridge(c)
  BY <1>1 DEF CheckBridge, Advance, Active, ActiveStages, Goto
<1>2. CASE RunReturns(c)
  BY <1>2 DEF RunReturns, Advance, Active, ActiveStages, Goto
<1>3. CASE CallRobot(c)
  BY <1>3 DEF CallRobot, Advance, Active, ActiveStages, Goto
<1>4. CASE RobotAnswered(c)
  BY <1>4 DEF RobotAnswered, Advance, Active, ActiveStages, Goto
<1>5. CASE StopWaiting(c)
  BY <1>5 DEF StopWaiting, Advance, Active, ActiveStages, Goto
<1>6. CASE SayError(c)
  BY <1>6, Speaking DEF SayError, ActiveStages, Kinds
<1>7. CASE SayRefusal(c)
  BY <1>7, Speaking DEF SayRefusal, ActiveStages, Kinds
<1>8. CASE SayRecipe(c)
  BY <1>8, Speaking DEF SayRecipe, ActiveStages, Kinds
<1>9. CASE SayInfo(c)
  BY <1>9, Speaking DEF SayInfo, ActiveStages, Kinds
<1>10. QED
  BY <1>1, <1>2, <1>3, <1>4, <1>5, <1>6, <1>7, <1>8, <1>9 DEF Handle

\* Going on leaves the queues, the slot and the homes as they are, and can only
\* send what the UI could hear of anyway.
LEMMA AdvanceKeeps ==
    ASSUME NEW c \in Cmds, IInv, Advance(c)
    PROVE  /\ QueueInv' /\ SlotInv' /\ HomeInv' /\ HeardInv'
           /\ toTui' \in Seq(Msgs)
           /\ stage' \in [Cmds -> {"unsent", "sent", "rejected", "lost", "done"} \cup ActiveStages]
<1> USE DEF IInv
<1>1. stage' \in [Cmds -> {"unsent", "sent", "rejected", "lost", "done"} \cup ActiveStages]
  BY DEF Advance, Goto, TypeOK
<1>2. \A d \in Cmds : Active(d)' = Active(d) /\ (stage'[d] = "sent" <=> stage[d] = "sent")
  BY DEF Advance, Goto, TypeOK, Active, ActiveStages
<1>3. toTui \in Seq(Msgs)
  BY DEF TypeOK, Msgs
<1>4. /\ toTui' \in Seq(Msgs)
      /\ \A i \in DOMAIN toTui' : toTui'[i].cmd = c \/ \E j \in DOMAIN toTui : toTui'[i] = toTui[j]
  <2>1. CASE UNCHANGED toTui
    BY <1>3, <2>1
  <2>2. CASE \E kind \in Kinds : toTui' = Append(toTui, [kind |-> kind, cmd |-> c])
    <3>1. PICK kind \in Kinds : toTui' = Append(toTui, [kind |-> kind, cmd |-> c])
      BY <2>2
    <3>2. [kind |-> kind, cmd |-> c] \in Msgs /\ [kind |-> kind, cmd |-> c].cmd = c
      BY DEF Msgs
    <3>3. QED
      BY <1>3, <3>1, <3>2, AppendedTo
  <2>3. QED
    BY <2>1, <2>2 DEF Advance
<1>5. QueueInv'
  <2>1. \A s \in Conns : \A i \in 1 .. Len(toHub[s]) : toHub[s][i] \in Cmds
    BY DEF TypeOK
  <2>2. QED
    BY <1>2, <2>1 DEF QueueInv, Advance
<1>6. SlotInv'
  BY DEF SlotInv, Advance, hubVars
<1>7. HomeInv'
  BY <1>2 DEF HomeInv, Advance, hubVars
<1>8. HeardInv'
  <2>1. \A d \in Cmds : Unheard(d)' => Unheard(d)
    BY <1>2, <1>4 DEF Unheard, Advance
  <2>2. QED
    BY <2>1 DEF HeardInv, Advance, tuiVars
<1>9. QED
  BY <1>1, <1>4, <1>5, <1>6, <1>7, <1>8

-----------------------------------------------------------------------------
(* What was said, and what the robot made of it.                           *)

\* Prompts that a lost connection has not delivered are lost.
LEMMA Strays ==
    ASSUME NEW s \in Conns, EndServe(s), QueueInv
    PROVE  \A c \in Cmds : stage'[c] = stage[c] \/ (stage[c] = "sent" /\ stage'[c] = "lost")
<1>1. ASSUME NEW c \in Cmds, Contains(toHub[s], c) PROVE stage[c] = "sent"
  BY <1>1 DEF Contains, QueueInv
<1>2. stage' = [c \in Cmds |-> IF Contains(toHub[s], c) THEN "lost" ELSE stage[c]]
  BY DEF EndServe
<1>3. ASSUME NEW c \in Cmds PROVE stage'[c] = stage[c] \/ (stage[c] = "sent" /\ stage'[c] = "lost")
  <2>1. CASE Contains(toHub[s], c)
    BY <1>1, <1>2, <2>1
  <2>2. CASE ~Contains(toHub[s], c)
    BY <1>2, <2>2
  <2>3. QED
    BY <2>1, <2>2
<1>4. QED
  BY <1>3

\* Each step of the command or of the robot moves what is known of both.
LEMMA SaidStep ==
    ASSUME IInv, [Next]_vars
    PROVE  SaidInv'
<1> USE DEF IInv, SaidInv, SaidSoFar, RobotSoFar
<1> stage \in [Cmds -> {"unsent", "sent", "rejected", "lost", "done"} \cup ActiveStages]
  BY DEF TypeOK
<1>a. cancelled \in [Cmds -> BOOLEAN] /\ said \in [Cmds -> Seq(Kinds)] /\ verdict \in [Cmds -> {"none", "ok", "failed"}]
  BY DEF TypeOK
<1>1. CASE Receive
  BY <1>1 DEF Receive, cmdVars, robotVars
<1>2. CASE Restart
  BY <1>2 DEF Restart, cmdVars, robotVars
<1>3. CASE LoseConnection
  BY <1>3 DEF LoseConnection, cmdVars, robotVars
<1>4. ASSUME NEW c \in Cmds, Submit(c) PROVE SaidInv'
  BY <1>4 DEF Submit, robotVars
<1>5. ASSUME NEW c \in Cmds, TimerFires(c) PROVE SaidInv'
  BY <1>5 DEF TimerFires, cmdVars, robotVars
<1>6. ASSUME NEW s \in Conns, Connect(s) PROVE SaidInv'
  BY <1>6 DEF Connect, cmdVars, robotVars
<1>7. ASSUME NEW s \in Conns, ReadPrompt(s) PROVE SaidInv'
  <2>1. toHub[s] \in Seq(Cmds) /\ toHub[s] # <<>>
    BY <1>7 DEF TypeOK, ReadPrompt
  <2>2. Head(toHub[s]) \in Cmds /\ stage[Head(toHub[s])] = "sent"
    BY <2>1, TailOf DEF QueueInv
  <2>3. QED
    BY <1>7, <2>2 DEF ReadPrompt, robotVars
<1>8. ASSUME NEW s \in Conns, EndServe(s) PROVE SaidInv'
  <2>1. \A c \in Cmds : stage'[c] = stage[c] \/ (stage[c] = "sent" /\ stage'[c] = "lost")
    BY <1>8, Strays
  <2>2. \A c \in Cmds : cancelled[c] => cancelled'[c]
    BY <1>8 DEF EndServe
  <2>3. QED
    BY <1>8, <2>1, <2>2 DEF EndServe, robotVars
<1>9. ASSUME NEW s \in Conns, FreeSlot(s) PROVE SaidInv'
  BY <1>9 DEF FreeSlot, cmdVars, robotVars
<1>10. ASSUME NEW c \in Cmds, CheckBridge(c) PROVE SaidInv'
  BY <1>10 DEF CheckBridge, Goto, robotVars
<1>11. ASSUME NEW c \in Cmds, RunReturns(c) PROVE SaidInv'
  BY <1>11 DEF RunReturns, Goto, robotVars
<1>12. ASSUME NEW c \in Cmds, CallRobot(c) PROVE SaidInv'
  BY <1>12 DEF CallRobot, Goto
<1>13. ASSUME NEW c \in Cmds, RobotAnswered(c) PROVE SaidInv'
  BY <1>13, <1>a DEF RobotAnswered, Goto, robotVars
<1>14. ASSUME NEW c \in Cmds, StopWaiting(c) PROVE SaidInv'
  BY <1>14 DEF StopWaiting, Goto, robotVars
<1>15. ASSUME NEW c \in Cmds, SayError(c) PROVE SaidInv'
  <2>1. stage[c] = "sayError" /\ said[c] = <<>>
    BY <1>15 DEF SayError, Say
  <2>2. said' = [said EXCEPT ![c] = <<"error">>] /\ stage' = [stage EXCEPT ![c] = "finish"]
    BY <1>15, <2>1, Sayings DEF SayError, Say, Goto
  <2>3. <<"error">> # <<"recipe", "info">>
    OBVIOUS
  <2>4. QED
    BY <1>15, <1>a, <2>1, <2>2, <2>3 DEF SayError, Say, robotVars
<1>16. ASSUME NEW c \in Cmds, SayRefusal(c) PROVE SaidInv'
  <2>1. stage[c] = "sayRefusal" /\ said[c] = <<>>
    BY <1>16 DEF SayRefusal, Say
  <2>2. said' = [said EXCEPT ![c] = <<"refusal">>] /\ stage' = [stage EXCEPT ![c] = "finish"]
    BY <1>16, <2>1, Sayings DEF SayRefusal, Say, Goto
  <2>3. <<"refusal">> # <<"recipe", "info">>
    OBVIOUS
  <2>4. QED
    BY <1>16, <1>a, <2>1, <2>2, <2>3 DEF SayRefusal, Say, robotVars
<1>17. ASSUME NEW c \in Cmds, SayRecipe(c) PROVE SaidInv'
  BY <1>17, <1>a, Sayings DEF SayRecipe, Say, Goto, robotVars
<1>18. ASSUME NEW c \in Cmds, SayInfo(c) PROVE SaidInv'
  <2>1. stage[c] = "sayInfo" /\ said[c] = <<"recipe">>
    BY <1>18 DEF SayInfo, Say
  <2>2. said' = [said EXCEPT ![c] = <<"recipe", "info">>] /\ stage' = [stage EXCEPT ![c] = "finish"]
    BY <1>18, <2>1, Sayings DEF SayInfo, Say, Goto
  <2>3. QED
    BY <1>18, <1>a, <2>1, <2>2 DEF SayInfo, Say, robotVars
<1>19. ASSUME NEW c \in Cmds, Finish(c) PROVE SaidInv'
  BY <1>19 DEF Finish, Goto, robotVars
<1>20. ASSUME NEW c \in Cmds, RobotEnds(c) PROVE SaidInv'
  BY <1>20, <1>a DEF RobotEnds, cmdVars
<1>21. ASSUME NEW c \in Cmds, Expire(c) PROVE SaidInv'
  BY <1>21, <1>a DEF Expire, robotVars
<1>22. CASE UNCHANGED vars
  BY <1>22 DEF vars, cmdVars, robotVars
<1>23. QED
  BY <1>1, <1>2, <1>3, <1>4, <1>5, <1>6, <1>7, <1>8, <1>9, <1>10, <1>11, <1>12, <1>13, <1>14,
     <1>15, <1>16, <1>17, <1>18, <1>19, <1>20, <1>21, <1>22 DEF Next, Tui, HubStep, Handle

-----------------------------------------------------------------------------
(* Types.                                                                  *)

\* Every step keeps the types.
LEMMA TypeStep ==
    ASSUME IInv, [Next]_vars
    PROVE  TypeOK'
<1> USE DEF IInv
<1>a. toTui \in Seq(Msgs) /\ \A s \in Conns : toHub[s] \in Seq(Cmds)
  BY DEF TypeOK, Msgs
<1>1. CASE Receive
  <2>1. Head(toTui) \in Msgs /\ Tail(toTui) \in Seq(Msgs)
    BY <1>1, <1>a, TailOf DEF Receive
  <2>2. toTui' \in Seq(Msgs) /\ Head(toTui).cmd \in Cmds
    BY <1>1, <2>1 DEF Receive, Msgs
  <2>3. lastResponse' \in 0 .. MaxCmds
    BY <1>1, <2>2 DEF Receive, TypeOK, Cmds
  <2>4. QED
    BY <1>1, <2>2, <2>3 DEF Receive, TypeOK, Msgs, hubVars, cmdVars, robotVars
<1>2. CASE Restart
  <2>1. 0 \in 0 .. MaxCmds /\ 0 \in 0 .. MaxConns
    BY BoundsAssumption
  <2>2. <<>> \in Seq([kind : Kinds, cmd : Cmds])
    OBVIOUS
  <2>3. QED
    BY <1>2, <2>1, <2>2 DEF Restart, TypeOK, hubVars, cmdVars, robotVars
<1>3. CASE LoseConnection
  <2>1. toTui' \in Seq(Msgs)
    BY <1>3, <1>a, BeginningOf DEF LoseConnection
  <2>2. QED
    BY <1>3, <2>1, BoundsAssumption DEF LoseConnection, TypeOK, Msgs, tuiVars, hubVars, cmdVars, robotVars
<1>4. ASSUME NEW c \in Cmds, Submit(c) PROVE TypeOK'
  <2>1. conn \in Conns
    BY <1>4 DEF Submit, TypeOK, Conns
  <2>2. Append(toHub[conn], c) \in Seq(Cmds)
    BY <1>a, <2>1
  <2>3. toHub' \in [Conns -> Seq(Cmds)]
    BY <1>4, <2>1, <2>2 DEF Submit, TypeOK
  <2>4. QED
    BY <1>4, <2>3, BoundsAssumption DEF Submit, TypeOK, Cmds, hubVars, robotVars
<1>5. ASSUME NEW c \in Cmds, TimerFires(c) PROVE TypeOK'
  BY <1>5 DEF TimerFires, TypeOK, hubVars, cmdVars, robotVars
<1>6. ASSUME NEW s \in Conns, Connect(s) PROVE TypeOK'
  BY <1>6 DEF Connect, TypeOK, Conns, tuiVars, cmdVars, robotVars
<1>7. ASSUME NEW s \in Conns, ReadPrompt(s) PROVE TypeOK'
  <2>1. Head(toHub[s]) \in Cmds /\ Tail(toHub[s]) \in Seq(Cmds)
    BY <1>7, <1>a, TailOf DEF ReadPrompt
  <2>2. toHub' \in [Conns -> Seq(Cmds)]
    BY <1>7, <2>1 DEF ReadPrompt, TypeOK
  <2>3. toTui' \in Seq(Msgs)
    BY <1>7, <1>a, <2>1, Sent DEF ReadPrompt, Kinds
  <2>4. home' \in [Cmds -> 0 .. MaxConns]
    <3>1. s \in 0 .. MaxConns
      BY BoundsAssumption DEF Conns
    <3>2. home' = home \/ home' = [home EXCEPT ![Head(toHub[s])] = s]
      BY <1>7 DEF ReadPrompt
    <3>3. QED
      BY <2>1, <3>1, <3>2 DEF TypeOK
  <2>5. QED
    BY <1>7, <2>1, <2>2, <2>3, <2>4 DEF ReadPrompt, TypeOK, Msgs, ActiveStages, tuiVars, robotVars
<1>8. ASSUME NEW s \in Conns, EndServe(s) PROVE TypeOK'
  <2>1. toHub' \in [Conns -> Seq(Cmds)]
    BY <1>8 DEF EndServe, TypeOK
  <2>2. cancelled' \in [Cmds -> BOOLEAN]
    BY <1>8 DEF EndServe
  <2>3. QED
    BY <1>8, <2>1, <2>2 DEF EndServe, TypeOK, tuiVars, robotVars
<1>9. ASSUME NEW s \in Conns, FreeSlot(s) PROVE TypeOK'
  BY <1>9, BoundsAssumption DEF FreeSlot, TypeOK, tuiVars, cmdVars, robotVars
<1>10. ASSUME NEW c \in Cmds, Handle(c), ~Finish(c) PROVE TypeOK'
  <2>1. Advance(c)
    BY <1>10, Advances
  <2>2. /\ toTui' \in Seq(Msgs)
        /\ stage' \in [Cmds -> {"unsent", "sent", "rejected", "lost", "done"} \cup ActiveStages]
    BY <2>1, AdvanceKeeps
  <2>3. said' \in [Cmds -> Seq(Kinds)]
    <3>1. ASSUME NEW kind \in Kinds, said' = [said EXCEPT ![c] = Append(@, kind)]
          PROVE  said' \in [Cmds -> Seq(Kinds)]
      BY <3>1 DEF TypeOK
    <3>2. UNCHANGED said \/ \E kind \in Kinds : said' = [said EXCEPT ![c] = Append(@, kind)]
      BY <1>10 DEF Handle, CheckBridge, RunReturns, CallRobot, RobotAnswered, StopWaiting,
                   SayError, SayRefusal, SayRecipe, SayInfo, Say, Kinds
    <3>3. QED
      BY <3>1, <3>2 DEF TypeOK
  <2>4. robot' \subseteq Cmds /\ verdict' = verdict
    BY <1>10 DEF Handle, CheckBridge, RunReturns, CallRobot, RobotAnswered, StopWaiting,
                 SayError, SayRefusal, SayRecipe, SayInfo, Say, TypeOK, robotVars
  <2>5. QED
    BY <2>1, <2>2, <2>3, <2>4 DEF Advance, TypeOK, Msgs, tuiVars, hubVars
<1>11. ASSUME NEW c \in Cmds, Finish(c) PROVE TypeOK'
  BY <1>11 DEF Finish, Goto, TypeOK, tuiVars, robotVars
<1>12. ASSUME NEW c \in Cmds, RobotEnds(c) PROVE TypeOK'
  BY <1>12 DEF RobotEnds, TypeOK, tuiVars, hubVars, cmdVars
<1>13. ASSUME NEW c \in Cmds, Expire(c) PROVE TypeOK'
  BY <1>13 DEF Expire, TypeOK, tuiVars, hubVars, robotVars
<1>14. CASE UNCHANGED vars
  BY <1>14 DEF vars, TypeOK, tuiVars, hubVars, cmdVars, robotVars
<1>15. QED
  BY <1>1, <1>2, <1>3, <1>4, <1>5, <1>6, <1>7, <1>8, <1>9, <1>10, <1>11, <1>12, <1>13, <1>14
     DEF Next, Tui, HubStep

-----------------------------------------------------------------------------
(* The queues, the slot and the homes.                                     *)

\* Every step keeps each prompt in one place of one queue.
LEMMA QueueStep ==
    ASSUME IInv, [Next]_vars
    PROVE  QueueInv'
<1> USE DEF IInv
<1>a. \A s \in Conns : toHub[s] \in Seq(Cmds) /\ \A i \in 1 .. Len(toHub[s]) : toHub[s][i] \in Cmds
  BY DEF TypeOK
<1>b. ASSUME UNCHANGED toHub, \A c \in Cmds : stage[c] = "sent" => stage'[c] = "sent" PROVE QueueInv'
  BY <1>a, <1>b DEF QueueInv
<1>1. CASE Receive \/ Restart \/ LoseConnection
  BY <1>1, <1>b DEF Receive, Restart, LoseConnection, cmdVars
<1>2. ASSUME NEW c \in Cmds, Submit(c) PROVE QueueInv'
  <2>1. conn \in Conns /\ toHub' = [toHub EXCEPT ![conn] = Append(toHub[conn], c)]
    BY <1>2 DEF Submit, TypeOK, Conns
  <2>2. stage[c] = "unsent" /\ stage' = [stage EXCEPT ![c] = "sent"]
    BY <1>2 DEF Submit
  <2>3. /\ Len(Append(toHub[conn], c)) = Len(toHub[conn]) + 1 /\ Len(toHub[conn]) \in Nat
        /\ Append(toHub[conn], c)[Len(toHub[conn]) + 1] = c
        /\ \A i \in 1 .. Len(toHub[conn]) : Append(toHub[conn], c)[i] = toHub[conn][i]
    BY <1>a, <2>1, AppendedTo
  <2>4. \A s \in Conns : \A i \in 1 .. Len(toHub'[s]) :
          \/ i \in 1 .. Len(toHub[s]) /\ toHub'[s][i] = toHub[s][i] /\ toHub[s][i] # c
          \/ s = conn /\ i = Len(toHub[conn]) + 1 /\ toHub'[s][i] = c
    <3>1. \A s \in Conns : \A i \in 1 .. Len(toHub[s]) : toHub[s][i] # c
      BY <2>2 DEF QueueInv
    <3>2. \A s \in Conns : s # conn => toHub'[s] = toHub[s]
      BY <2>1 DEF TypeOK
    <3>3. toHub'[conn] = Append(toHub[conn], c)
      BY <2>1 DEF TypeOK
    <3>4. QED
      BY <2>3, <3>1, <3>2, <3>3
  <2>5. \A s \in Conns : \A i \in 1 .. Len(toHub'[s]) : stage'[toHub'[s][i]] = "sent"
    <3>1. stage' = [d \in Cmds |-> IF d = c THEN "sent" ELSE stage[d]]
      BY <2>2 DEF TypeOK
    <3>2. \A s \in Conns : \A i \in 1 .. Len(toHub[s]) : toHub[s][i] \in Cmds /\ stage[toHub[s][i]] = "sent"
      BY <1>a DEF QueueInv
    <3>3. QED
      BY <2>4, <3>1, <3>2
  <2>6. ASSUME NEW s \in Conns, NEW t \in Conns, NEW i \in 1 .. Len(toHub'[s]), NEW j \in 1 .. Len(toHub'[t]),
               toHub'[s][i] = toHub'[t][j]
        PROVE  s = t /\ i = j
    <3>1. CASE toHub'[s][i] = c
      BY <2>4, <2>6, <3>1
    <3>2. CASE toHub'[s][i] # c
      <4>1. i \in 1 .. Len(toHub[s]) /\ toHub'[s][i] = toHub[s][i]
        BY <2>4, <3>2
      <4>2. j \in 1 .. Len(toHub[t]) /\ toHub'[t][j] = toHub[t][j]
        BY <2>4, <2>6, <3>2
      <4>3. toHub[s][i] = toHub[t][j]
        BY <2>6, <4>1, <4>2
      <4>4. QED
        BY <4>1, <4>2, <4>3 DEF QueueInv
    <3>3. QED
      BY <3>1, <3>2
  <2>7. QED
    BY <2>5, <2>6 DEF QueueInv
<1>3. ASSUME NEW c \in Cmds, TimerFires(c) PROVE QueueInv'
  BY <1>3, <1>b DEF TimerFires, cmdVars
<1>4. ASSUME NEW s \in Conns, Connect(s) \/ FreeSlot(s) PROVE QueueInv'
  BY <1>4, <1>b DEF Connect, FreeSlot, cmdVars
<1>5. ASSUME NEW s \in Conns, ReadPrompt(s) PROVE QueueInv'
  <2>1. /\ toHub[s] # <<>> /\ toHub' = [toHub EXCEPT ![s] = Tail(toHub[s])]
        /\ \A c \in Cmds : c # Head(toHub[s]) => stage'[c] = stage[c]
    BY <1>5 DEF ReadPrompt, TypeOK
  <2>2. /\ Head(toHub[s]) = toHub[s][1] /\ 1 \in 1 .. Len(toHub[s]) /\ Len(toHub[s]) \in Nat
        /\ \A i \in 1 .. Len(Tail(toHub[s])) :
             Tail(toHub[s])[i] = toHub[s][i + 1] /\ i + 1 \in 1 .. Len(toHub[s])
    BY <1>a, <2>1, TailOf
  <2>3. \A t \in Conns : \A i \in 1 .. Len(toHub'[t]) :
          IF t = s THEN i + 1 \in 1 .. Len(toHub[t]) /\ toHub'[t][i] = toHub[t][i + 1]
          ELSE i \in 1 .. Len(toHub[t]) /\ toHub'[t][i] = toHub[t][i]
    BY <2>1, <2>2 DEF TypeOK
  <2>4. \A t \in Conns : \A i \in 1 .. Len(toHub'[t]) : toHub'[t][i] # Head(toHub[s])
    BY <2>2, <2>3, SMTT(30) DEF QueueInv
  <2>5. \A t \in Conns : \A i \in 1 .. Len(toHub'[t]) : stage'[toHub'[t][i]] = "sent"
    BY <1>a, <2>1, <2>3, <2>4 DEF QueueInv
  <2>6. \A t, u \in Conns : \A i \in 1 .. Len(toHub'[t]), j \in 1 .. Len(toHub'[u]) :
          toHub'[t][i] = toHub'[u][j] => t = u /\ i = j
    BY <2>3 DEF QueueInv
  <2>7. QED
    BY <2>5, <2>6 DEF QueueInv
<1>6. ASSUME NEW s \in Conns, EndServe(s) PROVE QueueInv'
  <2>1. toHub' = [toHub EXCEPT ![s] = <<>>]
    BY <1>6 DEF EndServe
  <2>2. \A t \in Conns : \A i \in 1 .. Len(toHub'[t]) : t # s /\ toHub'[t] = toHub[t]
    BY <2>1 DEF TypeOK
  <2>3. \A t \in Conns \ {s} : \A i \in 1 .. Len(toHub[t]) : ~Contains(toHub[s], toHub[t][i])
    BY DEF Contains, QueueInv
  <2>4. stage' = [c \in Cmds |-> IF Contains(toHub[s], c) THEN "lost" ELSE stage[c]]
    BY <1>6 DEF EndServe
  <2>5. \A t \in Conns : \A i \in 1 .. Len(toHub'[t]) : stage'[toHub'[t][i]] = stage[toHub[t][i]]
    BY <1>a, <2>2, <2>3, <2>4
  <2>6. QED
    BY <2>2, <2>5 DEF QueueInv
<1>7. ASSUME NEW c \in Cmds, Handle(c), ~Finish(c) PROVE QueueInv'
  BY <1>7, Advances, AdvanceKeeps
<1>8. ASSUME NEW c \in Cmds, Finish(c) PROVE QueueInv'
  BY <1>8, <1>b DEF Finish, Goto, TypeOK
<1>9. ASSUME NEW c \in Cmds, RobotEnds(c) \/ Expire(c) PROVE QueueInv'
  BY <1>9, <1>b DEF RobotEnds, Expire, cmdVars
<1>10. CASE UNCHANGED vars
  BY <1>10, <1>b DEF vars, cmdVars
<1>11. QED
  BY <1>1, <1>2, <1>3, <1>4, <1>5, <1>6, <1>7, <1>8, <1>9, <1>10 DEF Next, Tui, HubStep

\* Every step leaves the slot with whom it serves.
LEMMA SlotStep ==
    ASSUME IInv, [Next]_vars
    PROVE  SlotInv'
<1> USE DEF IInv, SlotInv
<1>1. CASE Tui
  BY <1>1 DEF Tui, Receive, Restart, LoseConnection, Submit, TimerFires, hubVars
<1>2. ASSUME NEW s \in Conns, Connect(s) PROVE SlotInv'
  BY <1>2 DEF Connect, Conns, TypeOK
<1>3. ASSUME NEW s \in Conns, ReadPrompt(s) \/ EndServe(s) \/ FreeSlot(s) PROVE SlotInv'
  BY <1>3 DEF ReadPrompt, EndServe, FreeSlot, TypeOK
<1>4. ASSUME NEW c \in Cmds, Handle(c), ~Finish(c) PROVE SlotInv'
  BY <1>4, Advances, AdvanceKeeps
<1>5. ASSUME NEW c \in Cmds, Finish(c) \/ RobotEnds(c) \/ Expire(c) PROVE SlotInv'
  BY <1>5 DEF Finish, RobotEnds, Expire, hubVars
<1>6. CASE UNCHANGED vars
  BY <1>6 DEF vars, hubVars
<1>7. QED
  BY <1>1, <1>2, <1>3, <1>4, <1>5, <1>6 DEF Next, HubStep

\* Every step keeps a command alone on a busy connection, and cancelled once the
\* connection is gone.
LEMMA HomeStep ==
    ASSUME IInv, [Next]_vars
    PROVE  HomeInv'
<1> USE DEF IInv
<1>a. ASSUME \A c \in Cmds : Active(c)' => Active(c), UNCHANGED <<home, busy, serve>>,
             \A c \in Cmds : cancelled[c] => cancelled'[c]
      PROVE  HomeInv'
  BY <1>a DEF HomeInv
<1>1. CASE Receive \/ Restart \/ LoseConnection
  BY <1>1, <1>a DEF Receive, Restart, LoseConnection, cmdVars, hubVars, Active
<1>2. ASSUME NEW c \in Cmds, Submit(c) PROVE HomeInv'
  BY <1>2, <1>a DEF Submit, hubVars, Active, ActiveStages, TypeOK
<1>3. ASSUME NEW c \in Cmds, TimerFires(c) PROVE HomeInv'
  BY <1>3, <1>a DEF TimerFires, cmdVars, hubVars, Active
<1>4. ASSUME NEW s \in Conns, Connect(s) PROVE HomeInv'
  BY <1>4 DEF Connect, HomeInv, cmdVars, Active, TypeOK
<1>5. ASSUME NEW s \in Conns, ReadPrompt(s) PROVE HomeInv'
  <2>1. Head(toHub[s]) \in Cmds /\ stage[Head(toHub[s])] = "sent"
    <3>1. toHub[s] \in Seq(Cmds) /\ toHub[s] # <<>>
      BY <1>5 DEF ReadPrompt, TypeOK
    <3>2. QED
      BY <3>1, TailOf DEF QueueInv
  <2>2. CASE busy[s]
    <3>1. stage' = [stage EXCEPT ![Head(toHub[s])] = "rejected"] /\ UNCHANGED <<home, busy, serve, cancelled>>
      BY <1>5, <2>2 DEF ReadPrompt
    <3>2. \A c \in Cmds : Active(c)' => Active(c)
      BY <2>1, <3>1 DEF Active, ActiveStages, TypeOK
    <3>3. QED
      BY <1>a, <3>1, <3>2
  <2>3. CASE ~busy[s]
    <3> DEFINE h == Head(toHub[s])
    <3> HIDE DEF h
    <3>1. /\ stage' = [stage EXCEPT ![h] = "start"] /\ home' = [home EXCEPT ![h] = s]
          /\ busy' = [busy EXCEPT ![s] = TRUE] /\ UNCHANGED <<serve, cancelled>>
          /\ serve[s] = "reading" /\ h \in Cmds
      BY <1>5, <2>1, <2>3 DEF ReadPrompt, h
    <3>2. \A c \in Cmds : Active(c) => home[c] \in Conns \ {s}
      BY <2>3 DEF HomeInv
    <3>3. \A c \in Cmds \ {h} : Active(c)' = Active(c) /\ home'[c] = home[c]
      BY <3>1 DEF Active, TypeOK
    <3>4. home'[h] = s /\ busy'[s] /\ \A t \in Conns \ {s} : busy'[t] = busy[t]
      BY <3>1 DEF TypeOK
    <3>5. \A c \in Cmds : Active(c)' => /\ home'[c] \in Conns /\ busy'[home'[c]]
                                        /\ serve'[home'[c]] = "reading" \/ cancelled'[c]
      BY <3>1, <3>2, <3>3, <3>4 DEF HomeInv
    <3>6. \A c, d \in Cmds : Active(c)' /\ Active(d)' /\ home'[c] = home'[d] => c = d
      BY <3>2, <3>3, <3>4 DEF HomeInv
    <3>7. QED
      BY <3>5, <3>6 DEF HomeInv
  <2>4. QED
    BY <2>2, <2>3
<1>6. ASSUME NEW s \in Conns, EndServe(s) PROVE HomeInv'
  <2>1. \A c \in Cmds : Active(c)' => Active(c)
    BY <1>6, Strays DEF Active, ActiveStages
  <2>2. /\ cancelled' = [c \in Cmds |-> cancelled[c] \/ (Active(c) /\ home[c] = s)]
        /\ serve' = [serve EXCEPT ![s] = "closing"] /\ UNCHANGED <<busy, home>>
    BY <1>6 DEF EndServe
  <2>3. \A c \in Cmds : Active(c)' => /\ home'[c] \in Conns /\ busy'[home'[c]]
                                      /\ serve'[home'[c]] = "reading" \/ cancelled'[c]
    <3>1. SUFFICES ASSUME NEW c \in Cmds, Active(c)
                   PROVE  /\ home[c] \in Conns /\ busy[home[c]]
                          /\ serve'[home[c]] = "reading" \/ cancelled'[c]
      BY <2>1, <2>2
    <3>2. CASE home[c] = s
      BY <2>2, <3>1, <3>2 DEF HomeInv
    <3>3. CASE home[c] # s
      BY <2>2, <3>1, <3>3 DEF HomeInv, TypeOK
    <3>4. QED
      BY <3>2, <3>3
  <2>4. QED
    BY <2>1, <2>2, <2>3 DEF HomeInv
<1>7. ASSUME NEW s \in Conns, FreeSlot(s) PROVE HomeInv'
  BY <1>7 DEF FreeSlot, HomeInv, cmdVars, Active, TypeOK
<1>8. ASSUME NEW c \in Cmds, Handle(c), ~Finish(c) PROVE HomeInv'
  BY <1>8, Advances, AdvanceKeeps
<1>9. ASSUME NEW c \in Cmds, Finish(c) PROVE HomeInv'
  <2>1. Active(c) /\ ~Active(c)' /\ \A d \in Cmds \ {c} : stage'[d] = stage[d]
    BY <1>9 DEF Finish, Goto, Active, ActiveStages, TypeOK
  <2>2. \A d \in Cmds \ {c} : Active(d) => home[d] # home[c] /\ busy'[home[d]] = busy[home[d]]
    BY <1>9, <2>1 DEF Finish, HomeInv, TypeOK
  <2>3. QED
    BY <1>9, <2>1, <2>2 DEF Finish, HomeInv, Active
<1>10. ASSUME NEW c \in Cmds, RobotEnds(c) PROVE HomeInv'
  BY <1>10, <1>a DEF RobotEnds, cmdVars, hubVars, Active
<1>11. ASSUME NEW c \in Cmds, Expire(c) PROVE HomeInv'
  BY <1>11, <1>a DEF Expire, hubVars, Active, TypeOK
<1>12. CASE UNCHANGED vars
  BY <1>12, <1>a DEF vars, cmdVars, hubVars, Active
<1>13. QED
  BY <1>1, <1>2, <1>3, <1>4, <1>5, <1>6, <1>7, <1>8, <1>9, <1>10, <1>11, <1>12
     DEF Next, Tui, HubStep

-----------------------------------------------------------------------------
(* What the UI may still hear.                                             *)

\* Every step keeps what the UI may hear to the current command, unless the user
\* was hasty.
LEMMA HeardStep ==
    ASSUME IInv, [Next]_vars
    PROVE  HeardInv'
<1> USE DEF IInv
<1>a. toTui \in Seq(Msgs) /\ current \in 0 .. MaxCmds
  BY DEF TypeOK, Msgs
<1>b. ASSUME UNCHANGED <<current, hasty, lastResponse>>, \A d \in Cmds : Unheard(d)' => Unheard(d)
      PROVE  HeardInv'
  BY <1>b DEF HeardInv
<1>c. ASSUME UNCHANGED tuiVars, UNCHANGED <<stage, toTui>> PROVE HeardInv'
  BY <1>b, <1>c DEF tuiVars, Unheard, Active
<1>1. CASE Receive
  <2>1. /\ toTui # <<>> /\ toTui' = Tail(toTui) /\ UNCHANGED <<current, hasty, stage>>
        /\ lastResponse' = lastResponse \/ lastResponse' = Head(toTui).cmd
    BY <1>1 DEF Receive, cmdVars
  <2>2. /\ Head(toTui) = toTui[1] /\ 1 \in DOMAIN toTui /\ Head(toTui).cmd \in Cmds
        /\ \A i \in DOMAIN toTui' : \E j \in DOMAIN toTui : toTui'[i] = toTui[j]
    <3>1. /\ Head(toTui) \in Msgs /\ Head(toTui) = toTui[1] /\ 1 \in DOMAIN toTui
          /\ Tail(toTui) \in Seq(Msgs)
          /\ \A i \in 1 .. Len(Tail(toTui)) : Tail(toTui)[i] = toTui[i + 1] /\ i + 1 \in 1 .. Len(toTui)
      BY <1>a, <2>1, TailOf
    <3>2. DOMAIN toTui' = 1 .. Len(Tail(toTui)) /\ DOMAIN toTui = 1 .. Len(toTui)
      BY <1>a, <2>1, <3>1
    <3>3. Head(toTui).cmd \in Cmds
      BY <3>1 DEF Msgs
    <3>4. QED
      BY <2>1, <3>1, <3>2, <3>3
  <2>3. Unheard(Head(toTui).cmd) /\ \A d \in Cmds : Unheard(d)' => Unheard(d)
    BY <2>1, <2>2 DEF Unheard, Active
  <2>4. QED
    BY <2>1, <2>2, <2>3 DEF HeardInv
<1>2. CASE Restart
  BY <1>2 DEF Restart, HeardInv
<1>3. CASE LoseConnection
  <2>1. \A i \in DOMAIN toTui' : \E j \in DOMAIN toTui : toTui'[i] = toTui[j]
    BY <1>3, <1>a, BeginningOf DEF LoseConnection
  <2>2. \A d \in Cmds : Unheard(d)' => Unheard(d)
    BY <1>3, <2>1 DEF LoseConnection, Unheard, Active, cmdVars
  <2>3. QED
    BY <1>3, <1>b, <2>2 DEF LoseConnection, tuiVars
<1>4. ASSUME NEW c \in Cmds, Submit(c) PROVE HeardInv'
  <2>1. /\ current' = c /\ lastResponse' = 0 /\ toTui' = toTui
        /\ hasty' = \E d \in Cmds \ {c} : Unheard(d)
    BY <1>4 DEF Submit
  <2>2. \A d \in Cmds \ {c} : Unheard(d)' => Unheard(d)
    BY <1>4, <2>1 DEF Submit, Unheard, Active, TypeOK
  <2>3. QED
    BY <2>1, <2>2 DEF HeardInv
<1>5. ASSUME NEW c \in Cmds, TimerFires(c) PROVE HeardInv'
  BY <1>5, <1>b DEF TimerFires, cmdVars, Unheard, Active
<1>6. ASSUME NEW s \in Conns, Connect(s) \/ FreeSlot(s) PROVE HeardInv'
  BY <1>6, <1>c DEF Connect, FreeSlot, cmdVars
<1>7. ASSUME NEW s \in Conns, ReadPrompt(s) PROVE HeardInv'
  <2> DEFINE h == Head(toHub[s])
  <2>1. h \in Cmds /\ stage[h] = "sent"
    <3>1. toHub[s] \in Seq(Cmds) /\ toHub[s] # <<>>
      BY <1>7 DEF ReadPrompt, TypeOK
    <3>2. QED
      BY <3>1, TailOf DEF QueueInv
  <2>2. \A i \in DOMAIN toTui' : toTui'[i].cmd = h \/ \E j \in DOMAIN toTui : toTui'[i] = toTui[j]
    <3>1. toTui' = toTui \/ SendToClient("rejection", h)
      BY <1>7 DEF ReadPrompt
    <3>2. CASE toTui' = toTui
      BY <3>2
    <3>3. CASE SendToClient("rejection", h)
      BY <1>a, <2>1, <3>3, Sent DEF Kinds
    <3>4. QED
      BY <3>1, <3>2, <3>3
  <2>3. \A d \in Cmds : d # h => stage'[d] = stage[d]
    BY <1>7 DEF ReadPrompt, TypeOK
  <2> HIDE DEF h
  <2>4. \A d \in Cmds : Unheard(d)' => Unheard(d)
    BY <2>1, <2>2, <2>3 DEF Unheard, Active
  <2>5. QED
    BY <1>7, <1>b, <2>4 DEF ReadPrompt, tuiVars
<1>8. ASSUME NEW s \in Conns, EndServe(s) PROVE HeardInv'
  <2>1. \A d \in Cmds : Unheard(d)' => Unheard(d)
    <3>1. \A d \in Cmds : stage'[d] = stage[d] \/ (stage[d] = "sent" /\ stage'[d] = "lost")
      BY <1>8, Strays
    <3>2. QED
      BY <1>8, <3>1 DEF EndServe, Unheard, Active, ActiveStages
  <2>2. QED
    BY <1>8, <1>b, <2>1 DEF EndServe, tuiVars
<1>9. ASSUME NEW c \in Cmds, Handle(c), ~Finish(c) PROVE HeardInv'
  BY <1>9, Advances, AdvanceKeeps
<1>10. ASSUME NEW c \in Cmds, Finish(c) PROVE HeardInv'
  <2>1. \A d \in Cmds : Unheard(d)' => Unheard(d)
    BY <1>10 DEF Finish, Goto, Unheard, Active, ActiveStages, TypeOK
  <2>2. QED
    BY <1>10, <1>b, <2>1 DEF Finish, tuiVars
<1>11. ASSUME NEW c \in Cmds, RobotEnds(c) \/ Expire(c) PROVE HeardInv'
  BY <1>11, <1>c DEF RobotEnds, Expire, cmdVars
<1>12. CASE UNCHANGED vars
  BY <1>12, <1>c DEF vars, cmdVars
<1>13. QED
  BY <1>1, <1>2, <1>3, <1>4, <1>5, <1>6, <1>7, <1>8, <1>9, <1>10, <1>11, <1>12
     DEF Next, Tui, HubStep

-----------------------------------------------------------------------------
(* The theorems.                                                           *)

\* The strengthened invariant of the session, for any number of commands and of
\* connections.
THEOREM Inductive == Spec => []IInv
<1>1. Init => IInv
  <2> SUFFICES ASSUME Init PROVE IInv
    OBVIOUS
  <2>1. TypeOK
    <3>1. 0 \in 0 .. MaxCmds /\ 0 \in 0 .. MaxConns /\ <<>> \in Seq([kind : Kinds, cmd : Cmds])
      BY BoundsAssumption
    <3>2. <<>> \in Seq(Cmds) /\ <<>> \in Seq(Kinds)
      OBVIOUS
    <3>3. QED
      BY <3>1, <3>2 DEF Init, TypeOK
  <2>2. QueueInv /\ SlotInv
    BY DEF Init, QueueInv, SlotInv
  <2>3. HomeInv /\ HeardInv
    BY DEF Init, HomeInv, HeardInv, Active, ActiveStages
  <2>4. SaidInv
    <3>1. <<>> # <<"recipe", "info">>
      OBVIOUS
    <3>2. QED
      BY <3>1 DEF Init, SaidInv, SaidSoFar, RobotSoFar
  <2>5. QED
    BY <2>1, <2>2, <2>3, <2>4 DEF IInv
<1>2. IInv /\ [Next]_vars => IInv'
  BY TypeStep, QueueStep, SlotStep, HomeStep, SaidStep, HeardStep DEF IInv
<1>3. QED
  BY <1>1, <1>2, PTL DEF Spec

\* Type correctness of the session.
THEOREM Typing == Spec => []TypeOK
<1>1. IInv => TypeOK
  BY DEF IInv
<1>2. QED
  BY <1>1, Inductive, PTL

\* Of all commands in the backend at most one is not cancelled: the slot passes on
\* only after the read loop has cancelled what it leaves behind (hub.go:179-191).
THEOREM OneIsLive == Spec => []OneLiveCommand
<1>1. IInv => OneLiveCommand
  <2> SUFFICES ASSUME IInv, NEW c \in Cmds, NEW d \in Cmds,
                      Active(c), Active(d), ~cancelled[c], ~cancelled[d]
               PROVE  c = d
    BY DEF OneLiveCommand
  <2>1. home[c] \in Conns /\ home[d] \in Conns /\ serve[home[c]] = "reading" /\ serve[home[d]] = "reading"
    BY DEF IInv, HomeInv
  <2>2. home[c] = client /\ home[d] = client
    BY <2>1 DEF IInv, SlotInv
  <2>3. QED
    BY <2>2 DEF IInv, HomeInv
<1>2. QED
  BY <1>1, Inductive, PTL

\* A recipe that the UI is sent was executed to its end and with success.
THEOREM ShownIsExecuted == Spec => []RecipeMeansExecuted
<1>1. IInv => RecipeMeansExecuted
  <2> SUFFICES ASSUME IInv, NEW c \in Cmds, Contains(said[c], "recipe")
               PROVE  verdict[c] = "ok" /\ c \notin robot
    BY DEF RecipeMeansExecuted
  <2>1. said[c] \notin {<<>>, <<"error">>, <<"refusal">>}
    BY Sayings
  <2>2. SaidSoFar(c) /\ RobotSoFar(c)
    BY DEF IInv, SaidInv
  <2>3. verdict[c] = "ok"
    BY <2>1, <2>2 DEF SaidSoFar, RobotSoFar
  <2>4. QED
    BY <2>2, <2>3 DEF RobotSoFar
<1>2. QED
  BY <1>1, Inductive, PTL

\* What /copy takes belongs to the current command, or the user did not wait for
\* the last message of an earlier one (model.go:346-363, 396-402).
THEOREM CopiedIsOwn == Spec => []CopiedAnswerIsOwn
<1>1. IInv => CopiedAnswerIsOwn
  BY DEF IInv, HeardInv, CopiedAnswerIsOwn
<1>2. QED
  BY <1>1, Inductive, PTL

-----------------------------------------------------------------------------
(* The session implements CommandService.                                  *)

\* A step that takes nothing in hand and ends nothing is none of the service's.
LEMMA Stutters ==
    ASSUME \A c \in Cmds : /\ Active(c)' = Active(c)
                           /\ Active(c) => home'[c] = home[c]
                           /\ stage'[c] = "done" <=> stage[c] = "done"
                           /\ stage[c] = "done" => said'[c] = said[c] /\ cancelled'[c] = cancelled[c]
    PROVE  UNCHANGED Service!vars
<1>1. InHand' = InHand
  BY DEF InHand
<1>2. \A c \in Cmds : Ending(c)' = Ending(c)
  <2>1. SUFFICES ASSUME NEW c \in Cmds PROVE Ending(c)' = Ending(c)
    OBVIOUS
  <2>2. CASE stage[c] = "done"
    BY <2>2 DEF Ending
  <2>3. CASE stage[c] # "done"
    BY <2>3 DEF Ending
  <2>4. QED
    BY <2>2, <2>3
<1>3. Outcome' = Outcome
  BY <1>2 DEF Outcome
<1>4. QED
  BY <1>1, <1>3 DEF Service!vars

\* The read loop of an idle connection accepts a command.
LEMMA Accepts ==
    ASSUME IInv, NEW s \in Conns, ReadPrompt(s), ~busy[s]
    PROVE  \E c \in Cmds : Service!Accept(s, c)
<1>1. PICK h \in Cmds : h = Head(toHub[s]) /\ stage[h] = "sent"
  <2>1. toHub[s] \in Seq(Cmds) /\ toHub[s] # <<>>
    BY DEF ReadPrompt, IInv, TypeOK
  <2>2. QED
    BY <2>1, TailOf DEF IInv, QueueInv
<1>2. /\ stage' = [stage EXCEPT ![h] = "start"] /\ home' = [home EXCEPT ![h] = s]
      /\ UNCHANGED <<said, cancelled>>
  BY <1>1 DEF ReadPrompt
<1>3. /\ Active(h)' /\ ~Active(h) /\ home'[h] = s
      /\ \A c \in Cmds \ {h} : Active(c)' = Active(c) /\ home'[c] = home[c]
  <2>1. /\ stage' = [c \in Cmds |-> IF c = h THEN "start" ELSE stage[c]]
        /\ home' = [c \in Cmds |-> IF c = h THEN s ELSE home[c]]
    BY <1>2 DEF IInv, TypeOK
  <2>2. QED
    BY <1>1, <2>1 DEF Active, ActiveStages
<1>4. \A c \in Cmds : ~(Active(c) /\ home[c] = s)
  BY DEF IInv, HomeInv
<1>5. InHand[s] = {} /\ \A t \in Conns : h \notin InHand[t]
  BY <1>3, <1>4 DEF InHand
<1>6. InHand' = [InHand EXCEPT ![s] = {h}]
  <2>1. ASSUME NEW t \in Conns PROVE InHand'[t] = IF t = s THEN {h} ELSE InHand[t]
    BY <1>1, <1>3, <1>4 DEF InHand
  <2>2. QED
    BY <2>1 DEF InHand
<1>7. Outcome[h] = "open" /\ Outcome' = Outcome
  <2>1. stage' = [c \in Cmds |-> IF c = h THEN "start" ELSE stage[c]]
    BY <1>2 DEF IInv, TypeOK
  <2>2. Ending(h) = "open" /\ \A c \in Cmds \ {h} : Ending(c)' = Ending(c)
    BY <1>1, <1>2, <2>1 DEF Ending
  <2>3. Ending(h)' = "open"
    BY <1>1, <2>1 DEF Ending
  <2>4. QED
    BY <1>1, <2>2, <2>3 DEF Outcome
<1>8. QED
  BY <1>1, <1>5, <1>6, <1>7 DEF Service!Accept

\* The deferred reset concludes the command, with one of the three outcomes.
LEMMA Concludes ==
    ASSUME IInv, NEW c \in Cmds, Finish(c)
    PROVE  \E s \in Conns : Service!Conclude(s, c)
<1>1. /\ stage[c] = "finish" /\ stage' = [stage EXCEPT ![c] = "done"]
      /\ UNCHANGED <<home, said, cancelled>>
  BY DEF Finish, Goto
<1>2. Active(c) /\ home[c] \in Conns
  BY <1>1 DEF Active, ActiveStages, IInv, HomeInv
<1>3. ~Active(c)' /\ \A d \in Cmds \ {c} : Active(d)' = Active(d)
  BY <1>1 DEF Active, ActiveStages, IInv, TypeOK
<1>4. c \in InHand[home[c]] /\ InHand' = [InHand EXCEPT ![home[c]] = {}]
  <2>1. \A d \in Cmds : Active(d) /\ home[d] = home[c] => d = c
    BY <1>2 DEF IInv, HomeInv
  <2>2. QED
    BY <1>1, <1>2, <1>3, <2>1 DEF InHand
<1>5. \E o \in {"executed", "declined", "abandoned"} : Outcome' = [Outcome EXCEPT ![c] = o]
  <2>1. stage' = [d \in Cmds |-> IF d = c THEN "done" ELSE stage[d]]
    BY <1>1 DEF IInv, TypeOK
  <2>2. \/ said[c] = <<>> /\ cancelled[c]
        \/ said[c] \in {<<"error">>, <<"refusal">>, <<"recipe", "info">>}
    BY <1>1 DEF IInv, SaidInv, SaidSoFar
  <2>3. Ending(c)' \in {"executed", "declined", "abandoned"}
    BY <1>1, <2>1, <2>2 DEF Ending
  <2>4. \A d \in Cmds \ {c} : Ending(d)' = Ending(d)
    BY <1>1, <2>1 DEF Ending
  <2>5. Outcome' = [Outcome EXCEPT ![c] = Ending(c)']
    BY <2>4 DEF Outcome
  <2>6. QED
    BY <2>3, <2>5
<1>6. QED
  BY <1>2, <1>4, <1>5 DEF Service!Conclude, Service!Outcomes

\* Every step of the session is one of the service or changes nothing in it.
LEMMA ServiceStep ==
    ASSUME IInv, [Next]_vars
    PROVE  [Service!Next]_(Service!vars)
<1>a. stage \in [Cmds -> {"unsent", "sent", "rejected", "lost", "done"} \cup ActiveStages]
  BY DEF IInv, TypeOK
<1>1. CASE Receive \/ Restart \/ LoseConnection
  BY <1>1, Stutters DEF Receive, Restart, LoseConnection, cmdVars, Active
<1>2. ASSUME NEW c \in Cmds, Submit(c) PROVE UNCHANGED Service!vars
  BY <1>2, <1>a, Stutters DEF Submit, Active, ActiveStages
<1>3. ASSUME NEW c \in Cmds, TimerFires(c) PROVE UNCHANGED Service!vars
  BY <1>3, Stutters DEF TimerFires, cmdVars, Active
<1>4. ASSUME NEW s \in Conns, Connect(s) \/ FreeSlot(s) PROVE UNCHANGED Service!vars
  BY <1>4, Stutters DEF Connect, FreeSlot, cmdVars, Active
<1>5. ASSUME NEW s \in Conns, ReadPrompt(s), busy[s] PROVE UNCHANGED Service!vars
  <2>1. Head(toHub[s]) \in Cmds /\ stage[Head(toHub[s])] = "sent"
    <3>1. toHub[s] \in Seq(Cmds) /\ toHub[s] # <<>>
      BY <1>5 DEF ReadPrompt, IInv, TypeOK
    <3>2. QED
      BY <3>1, TailOf DEF IInv, QueueInv
  <2>2. stage' = [stage EXCEPT ![Head(toHub[s])] = "rejected"] /\ UNCHANGED <<home, said, cancelled>>
    BY <1>5 DEF ReadPrompt
  <2>3. QED
    BY <1>a, <2>1, <2>2, Stutters DEF Active, ActiveStages
<1>6. ASSUME NEW s \in Conns, ReadPrompt(s), ~busy[s] PROVE Service!Next
  BY <1>6, Accepts DEF Service!Next
<1>7. ASSUME NEW s \in Conns, EndServe(s) PROVE UNCHANGED Service!vars
  <2>1. \A c \in Cmds : stage'[c] = stage[c] \/ (stage[c] = "sent" /\ stage'[c] = "lost")
    BY <1>7, Strays DEF IInv
  <2>2. \A c \in Cmds : ~Active(c) => cancelled'[c] = cancelled[c]
    BY <1>7 DEF EndServe, IInv, TypeOK
  <2>3. UNCHANGED <<home, said>>
    BY <1>7 DEF EndServe
  <2>4. \A c \in Cmds : Active(c)' = Active(c) /\ (stage[c] = "done" => ~Active(c))
    BY <2>1 DEF Active, ActiveStages
  <2>5. QED
    BY <2>1, <2>2, <2>3, <2>4, Stutters
<1>8. ASSUME NEW c \in Cmds, Handle(c), ~Finish(c) PROVE UNCHANGED Service!vars
  <2>1. Advance(c)
    BY <1>8, Advances DEF IInv
  <2>2. \A d \in Cmds : Active(d)' = Active(d) /\ (stage'[d] = "done" <=> stage[d] = "done")
    BY <1>a, <2>1 DEF Advance, Goto, Active, ActiveStages
  <2>3. \A d \in Cmds : stage[d] = "done" => said'[d] = said[d]
    <3>1. stage[c] # "done"
      BY <2>1 DEF Advance, Active, ActiveStages
    <3>2. UNCHANGED said \/ \E kind \in Kinds : said' = [said EXCEPT ![c] = Append(@, kind)]
      BY <1>8 DEF Handle, CheckBridge, RunReturns, CallRobot, RobotAnswered, StopWaiting,
                  SayError, SayRefusal, SayRecipe, SayInfo, Say, Kinds
    <3>3. QED
      BY <3>1, <3>2 DEF IInv, TypeOK
  <2>4. QED
    BY <2>1, <2>2, <2>3, Stutters DEF Advance
<1>9. ASSUME NEW c \in Cmds, Finish(c) PROVE Service!Next
  BY <1>9, Concludes DEF Service!Next
<1>10. ASSUME NEW c \in Cmds, RobotEnds(c) PROVE UNCHANGED Service!vars
  BY <1>10, Stutters DEF RobotEnds, cmdVars, Active
<1>11. ASSUME NEW c \in Cmds, Expire(c) PROVE UNCHANGED Service!vars
  <2>1. /\ UNCHANGED <<stage, home, said>> /\ cancelled' = [cancelled EXCEPT ![c] = TRUE]
        /\ stage[c] # "done"
    BY <1>11 DEF Expire, Active, ActiveStages
  <2>2. QED
    BY <2>1, Stutters DEF Active, IInv, TypeOK
<1>12. CASE UNCHANGED vars
  BY <1>12, Stutters DEF vars, cmdVars, Active
<1>13. QED
  BY <1>1, <1>2, <1>3, <1>4, <1>5, <1>6, <1>7, <1>8, <1>9, <1>10, <1>11, <1>12
     DEF Next, Tui, HubStep

\* However the terminal UI, the connections and the robot fare, the session keeps
\* the promise of CommandService.
THEOREM ImplementsService == Spec => ServiceSpec
<1>1. Init => Service!Init
  <2> SUFFICES ASSUME Init PROVE Service!Init
    OBVIOUS
  <2>1. InHand = [s \in Conns |-> {}]
    BY DEF Init, InHand, Active, ActiveStages
  <2>2. Outcome = [c \in Cmds |-> "open"]
    BY DEF Init, Outcome, Ending
  <2>3. QED
    BY <2>1, <2>2 DEF Service!Init
<1>2. IInv /\ [Next]_vars => [Service!Next]_(Service!vars)
  BY ServiceStep
<1>3. QED
  BY <1>1, <1>2, Inductive, PTL DEF Spec, Service!Spec, ServiceSpec

-----------------------------------------------------------------------------
(* The safe half of progress: nothing is left locked or busy behind the    *)
(* one step that frees it, and a command never goes back.                  *)

\* The input is locked only as long as the timer that unlocks it is set
\* (model.go:396-402).
LockIsTimed == inFlight => current \in timers

\* A connection is busy only while a command is in hand, whose deferred reset
\* has not run (hub.go:219-242).
BusyInHand == \A s \in Conns : busy[s] => \E c \in Cmds : Active(c) /\ home[c] = s

\* How many steps a command has at most to its end.
StepsLeft ==
    [unsent |-> 9, sent |-> 8, start |-> 7, run |-> 6, call |-> 5, exec |-> 4,
     sayRecipe |-> 3, sayInfo |-> 2, sayError |-> 2, sayRefusal |-> 2, finish |-> 1,
     done |-> 0, rejected |-> 0, lost |-> 0]
Nearer(c) == StepsLeft[stage'[c]] < StepsLeft[stage[c]]

\* No step of anybody takes a command back, and each step of its goroutine brings
\* it nearer to its end (ws_handler.go: HandlePrompt has no loop).
GetsOn ==
    \A c \in Cmds : /\ stage'[c] = stage[c] \/ Nearer(c)
                    /\ Handle(c) => Nearer(c)
CommandsGetOn == [][GetsOn]_vars

\* A command's own step takes it on and leaves the others where they are.
LEMMA HandleMoves ==
    ASSUME NEW c \in Cmds, TypeOK, Handle(c)
    PROVE  Nearer(c) /\ \A d \in Cmds \ {c} : stage'[d] = stage[d]
<1> USE DEF Goto, Nearer, StepsLeft, TypeOK
<1>1. CASE CheckBridge(c)
  BY <1>1 DEF CheckBridge
<1>2. CASE RunReturns(c)
  BY <1>2 DEF RunReturns
<1>3. CASE CallRobot(c)
  BY <1>3 DEF CallRobot
<1>4. CASE RobotAnswered(c)
  BY <1>4 DEF RobotAnswered
<1>5. CASE StopWaiting(c)
  BY <1>5 DEF StopWaiting
<1>6. CASE SayError(c) \/ SayRefusal(c) \/ SayRecipe(c) \/ SayInfo(c)
  BY <1>6 DEF SayError, SayRefusal, SayRecipe, SayInfo, Say
<1>7. CASE Finish(c)
  BY <1>7 DEF Finish
<1>8. QED
  BY <1>1, <1>2, <1>3, <1>4, <1>5, <1>6, <1>7 DEF Handle

\* Each step leaves a command where it is or takes it on.
LEMMA GetsOnStep ==
    ASSUME IInv, [Next]_vars
    PROVE  GetsOn \/ UNCHANGED vars
<1> SUFFICES ASSUME Next PROVE GetsOn
  OBVIOUS
<1>a. TypeOK /\ QueueInv
  BY DEF IInv
<1>b. \A c \in Cmds : Handle(c) => Nearer(c)
  BY <1>a, HandleMoves
<1> SUFFICES ASSUME NEW c \in Cmds PROVE stage'[c] = stage[c] \/ Nearer(c)
  BY <1>b DEF GetsOn
<1>1. CASE Receive \/ Restart \/ LoseConnection
  BY <1>1 DEF Receive, Restart, LoseConnection, cmdVars
<1>2. ASSUME NEW d \in Cmds, Submit(d) PROVE stage'[c] = stage[c] \/ Nearer(c)
  BY <1>a, <1>2 DEF Submit, Nearer, StepsLeft, TypeOK
<1>3. ASSUME NEW d \in Cmds, TimerFires(d) PROVE stage'[c] = stage[c]
  BY <1>3 DEF TimerFires, cmdVars
<1>4. ASSUME NEW s \in Conns, Connect(s) \/ FreeSlot(s) PROVE stage'[c] = stage[c]
  BY <1>4 DEF Connect, FreeSlot, cmdVars
<1>5. ASSUME NEW s \in Conns, ReadPrompt(s) PROVE stage'[c] = stage[c] \/ Nearer(c)
  <2> DEFINE h == Head(toHub[s])
  <2>1. h \in Cmds /\ stage[h] = "sent"
    <3>1. toHub[s] \in Seq(Cmds) /\ toHub[s] # <<>>
      BY <1>a, <1>5 DEF ReadPrompt, TypeOK
    <3>2. QED
      BY <1>a, <3>1, TailOf DEF QueueInv
  <2>2. stage' = [stage EXCEPT ![h] = "start"] \/ stage' = [stage EXCEPT ![h] = "rejected"]
    BY <1>5 DEF ReadPrompt
  <2> HIDE DEF h
  <2>3. QED
    BY <1>a, <2>1, <2>2 DEF Nearer, StepsLeft, TypeOK
<1>6. ASSUME NEW s \in Conns, EndServe(s) PROVE stage'[c] = stage[c] \/ Nearer(c)
  BY <1>a, <1>6, Strays DEF Nearer, StepsLeft
<1>7. ASSUME NEW d \in Cmds, Handle(d) PROVE stage'[c] = stage[c] \/ Nearer(c)
  BY <1>a, <1>7, HandleMoves
<1>8. ASSUME NEW d \in Cmds, RobotEnds(d) \/ Expire(d) PROVE stage'[c] = stage[c]
  BY <1>8 DEF RobotEnds, Expire, cmdVars
<1>9. QED
  BY <1>1, <1>2, <1>3, <1>4, <1>5, <1>6, <1>7, <1>8 DEF Next, Tui, HubStep

\* Each step leaves a busy connection its command, or ends both.
LEMMA BusyStep ==
    ASSUME IInv, BusyInHand, [Next]_vars
    PROVE  BusyInHand'
<1> USE DEF IInv
<1>a. ASSUME UNCHANGED <<home, busy>>, \A c \in Cmds : Active(c) => Active(c)' PROVE BusyInHand'
  BY <1>a DEF BusyInHand
<1>b. ASSUME UNCHANGED <<home, busy, stage>> PROVE BusyInHand'
  BY <1>a, <1>b DEF Active
<1>1. CASE Receive \/ Restart \/ LoseConnection
  BY <1>1, <1>b DEF Receive, Restart, LoseConnection, cmdVars, hubVars
<1>2. ASSUME NEW c \in Cmds, Submit(c) PROVE BusyInHand'
  BY <1>2, <1>a DEF Submit, hubVars, Active, ActiveStages, TypeOK
<1>3. ASSUME NEW c \in Cmds, TimerFires(c) \/ RobotEnds(c) \/ Expire(c) PROVE BusyInHand'
  BY <1>3, <1>b DEF TimerFires, RobotEnds, Expire, cmdVars, hubVars
<1>4. ASSUME NEW s \in Conns, Connect(s) \/ FreeSlot(s) PROVE BusyInHand'
  BY <1>4, <1>b DEF Connect, FreeSlot, cmdVars
<1>5. ASSUME NEW s \in Conns, ReadPrompt(s) PROVE BusyInHand'
  <2>1. PICK h \in Cmds : h = Head(toHub[s]) /\ stage[h] = "sent"
    <3>1. toHub[s] \in Seq(Cmds) /\ toHub[s] # <<>>
      BY <1>5 DEF ReadPrompt, TypeOK
    <3>2. QED
      BY <3>1, TailOf DEF QueueInv
  <2>2. CASE busy[s]
    <3>1. stage' = [stage EXCEPT ![h] = "rejected"] /\ UNCHANGED <<home, busy>>
      BY <1>5, <2>1, <2>2 DEF ReadPrompt
    <3>2. \A c \in Cmds : Active(c) => Active(c)'
      BY <2>1, <3>1 DEF Active, ActiveStages, TypeOK
    <3>3. QED
      BY <1>a, <3>1, <3>2
  <2>3. CASE ~busy[s]
    <3>1. /\ stage' = [stage EXCEPT ![h] = "start"] /\ home' = [home EXCEPT ![h] = s]
          /\ busy' = [busy EXCEPT ![s] = TRUE]
      BY <1>5, <2>1, <2>3 DEF ReadPrompt
    <3>2. stage'[h] = "start" /\ home'[h] = s
      BY <2>1, <3>1 DEF TypeOK
    <3>3. Active(h)' /\ ~Active(h)
      BY <2>1, <3>2 DEF Active, ActiveStages
    <3>4. \A c \in Cmds \ {h} : stage'[c] = stage[c] /\ home'[c] = home[c]
      BY <3>1 DEF TypeOK
    <3>5. \A c \in Cmds : Active(c) => Active(c)' /\ home'[c] = home[c]
      BY <3>3, <3>4 DEF Active
    <3>6. \A t \in Conns \ {s} : busy'[t] = busy[t]
      BY <3>1 DEF TypeOK
    <3>7. ASSUME NEW t \in Conns, busy'[t] PROVE \E c \in Cmds : Active(c)' /\ home'[c] = t
      <4>1. CASE t = s
        BY <2>1, <3>2, <3>3, <4>1
      <4>2. CASE t # s
        <5>1. PICK c \in Cmds : Active(c) /\ home[c] = t
          BY <3>6, <3>7, <4>2 DEF BusyInHand
        <5>2. QED
          BY <3>5, <5>1
      <4>3. QED
        BY <4>1, <4>2
    <3>8. QED
      BY <3>7 DEF BusyInHand
  <2>4. QED
    BY <2>2, <2>3
<1>6. ASSUME NEW s \in Conns, EndServe(s) PROVE BusyInHand'
  <2>1. \A c \in Cmds : Active(c) => Active(c)'
    BY <1>6, Strays DEF Active, ActiveStages
  <2>2. QED
    BY <1>6, <1>a, <2>1 DEF EndServe
<1>7. ASSUME NEW c \in Cmds, Handle(c), ~Finish(c) PROVE BusyInHand'
  <2>1. Advance(c)
    BY <1>7, Advances
  <2>2. \A d \in Cmds : Active(d) => Active(d)'
    BY <2>1 DEF Advance, Goto, TypeOK, Active
  <2>3. QED
    BY <1>a, <2>1, <2>2 DEF Advance, hubVars
<1>8. ASSUME NEW c \in Cmds, Finish(c) PROVE BusyInHand'
  <2>1. Active(c) /\ home[c] \in Conns
    BY <1>8 DEF Finish, Active, ActiveStages, HomeInv
  <2>2. busy' = [busy EXCEPT ![home[c]] = FALSE] /\ home' = home /\ stage' = [stage EXCEPT ![c] = "done"]
    BY <1>8 DEF Finish, Goto
  <2>3. ASSUME NEW s \in Conns, busy'[s] PROVE \E d \in Cmds : Active(d)' /\ home'[d] = s
    <3>1. s # home[c] /\ busy[s]
      BY <2>1, <2>2, <2>3 DEF TypeOK
    <3>2. PICK d \in Cmds : Active(d) /\ home[d] = s
      BY <3>1 DEF BusyInHand
    <3>3. Active(d)' /\ home'[d] = s
      BY <2>2, <3>1, <3>2 DEF Active, TypeOK
    <3>4. QED
      BY <3>3
  <2>4. QED
    BY <2>3 DEF BusyInHand
<1>9. CASE UNCHANGED vars
  BY <1>9, <1>b DEF vars, cmdVars, hubVars
<1>10. QED
  BY <1>1, <1>2, <1>3, <1>4, <1>5, <1>6, <1>7, <1>8, <1>9 DEF Next, Tui, HubStep

\* The UI never holds its input locked without the timer of the command it waits
\* for, in any order of answers, ticks and lost connections.
THEOREM LockHasTimer == Spec => []LockIsTimed
<1>1. Init => LockIsTimed
  BY DEF Init, LockIsTimed
<1>2. ASSUME LockIsTimed, [Next]_vars PROVE LockIsTimed'
  <2> USE <1>2 DEF LockIsTimed
  <2>1. CASE Receive \/ Restart
    BY <2>1 DEF Receive, Restart
  <2>2. CASE LoseConnection
    BY <2>2 DEF LoseConnection, tuiVars
  <2>3. ASSUME NEW c \in Cmds, Submit(c) PROVE LockIsTimed'
    BY <2>3 DEF Submit
  <2>4. ASSUME NEW c \in Cmds, TimerFires(c) PROVE LockIsTimed'
    <3>1. timers' = timers \ {c} /\ current' = current
      BY <2>4 DEF TimerFires
    <3>2. inFlight' => inFlight /\ current # c
      BY <2>4 DEF TimerFires
    <3>3. QED
      BY <3>1, <3>2
  <2>5. ASSUME NEW s \in Conns, HubStep(s) PROVE UNCHANGED tuiVars
    BY <2>5 DEF HubStep, Connect, ReadPrompt, EndServe, FreeSlot
  <2>6. ASSUME NEW c \in Cmds, Handle(c) PROVE UNCHANGED tuiVars
    BY <2>6 DEF Handle, CheckBridge, RunReturns, CallRobot, RobotAnswered, StopWaiting,
                SayError, SayRefusal, SayRecipe, SayInfo, Say, Finish
  <2>7. ASSUME NEW c \in Cmds, RobotEnds(c) \/ Expire(c) PROVE UNCHANGED tuiVars
    BY <2>7 DEF RobotEnds, Expire
  <2>8. CASE UNCHANGED tuiVars
    BY <2>8 DEF tuiVars
  <2>9. QED
    BY <2>1, <2>2, <2>3, <2>4, <2>5, <2>6, <2>7, <2>8 DEF Next, Tui, vars
<1>3. QED
  BY <1>1, <1>2, PTL DEF Spec

\* No connection stays busy without a command whose goroutine will reset it,
\* however it lost its UI.
THEOREM BusyHasCommand == Spec => []BusyInHand
<1>1. Init => BusyInHand
  BY DEF Init, BusyInHand
<1>2. IInv /\ BusyInHand /\ [Next]_vars => BusyInHand'
  BY BusyStep
<1>3. QED
  BY <1>1, <1>2, Inductive, PTL DEF Spec

\* From Enter to its end a command takes at most nine steps, whatever the others do
\* in between: the measure behind the liveness of the session.
THEOREM NoCommandGoesBack == Spec => CommandsGetOn
<1>1. IInv /\ [Next]_vars => [GetsOn]_vars
  BY GetsOnStep
<1>2. QED
  BY <1>1, Inductive, PTL DEF Spec, CommandsGetOn
=============================================================================
