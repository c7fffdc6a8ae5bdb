---------------------------- MODULE TerminalUIProofs ----------------------------
(***************************************************************************)
(* Proofs about TerminalUI, for any number of connections, any channel and *)
(* any texts: prompts go to the connection that is served, a line begun    *)
(* outside the history comes back, and the header follows the story.       *)
(***************************************************************************)
EXTENDS TerminalUI, SequenceTheorems, TLAPS

\* Where connectLoop uses a connection, and where it holds an envelope.
LoopInv ==
    /\ loop \in Using => sock # 0
    /\ loop = "holding" => envelope \in Kinds

\* Outside the history no line is still to come back; inside it the line that is
\* shown was not begun outside, whatever was recalled, erased or typed, so that
\* the arrow keys have no other line to store than the draft.
DraftInv ==
    /\ historyIndex = -1 => unfinished = Blank
    /\ historyIndex # -1 => begun # "outside"
    /\ unfinished # Blank => historyDraft = unfinished

\* Before its place i, the story s spoke of connection c last.
Tells(s, i, c) ==
    \E j \in 1 .. i - 1 :
        /\ s[j].kind \notin Kinds /\ s[j].of = c
        /\ \A k \in j + 1 .. i - 1 : s[k].kind \in Kinds

\* Each envelope of a story comes from the connection it spoke of last.
Coherent(s) == \A i \in 2 .. Len(s) : s[i].kind \in Kinds => Tells(s, i, s[i].of)

\* The header shows what was handled last, and at its end the story speaks of
\* the connection that connectLoop has announced and not yet reported lost.
StoryInv ==
    /\ connMsg = "connected" <=> current # 0
    /\ Coherent(Story)
    /\ loop \in {"reading", "holding", "lost"} => Tells(Story, Len(Story) + 1, sock)
    /\ loop = "losing" => \E c \in 1 .. MaxConns : Tells(Story, Len(Story) + 1, c)
    /\ loop \in {"check", "dialing", "refused", "asleep", "opened", "announcing"}
           => Tells(Story, Len(Story) + 1, 0)

IInv == TypeOK /\ LoopInv /\ SendsToLiveSocket /\ DraftInv /\ StoryInv

-----------------------------------------------------------------------------
(* Types, and where the client stands.                                     *)

\* Sending a message of the client keeps the channel within its capacity.
LEMMA TellType ==
    ASSUME TypeOK, NEW kind, NEW of, [kind |-> kind, of |-> of] \in Messages, Tell(kind, of)
    PROVE  msgChan' \in Seq(Messages) /\ Len(msgChan') <= Capacity
BY BoundsArePositive DEF Tell, TypeOK, WSTypeOK

\* Every step of connectLoop keeps the types.
LEMMA LoopType == TypeOK /\ LoopInv /\ Loop => TypeOK'
<1> SUFFICES ASSUME TypeOK, LoopInv, Loop PROVE TypeOK'
  OBVIOUS
<1> USE BoundsArePositive DEF Using
<1>1. UNCHANGED <<lineVars, headerVars, taken, inFlight>>
  BY DEF Loop
<1>2. TypeOK' <=> WSTypeOK'
  BY <1>1 DEF TypeOK, lineVars, headerVars, Texts
<1>3. CASE CheckClosed \/ DialFails \/ SleepStopped \/ ReadFails
  BY <1>2, <1>3 DEF CheckClosed, DialFails, SleepStopped, ReadFails, sharedVars, wireVars, TypeOK, WSTypeOK
<1>4. CASE DialSucceeds
  <2>1. dials' \in 0 .. MaxConns /\ 0 .. dials \subseteq 0 .. dials' /\ 1 .. dials \subseteq 1 .. dials' /\ sock' \in 0 .. dials'
    BY <1>4 DEF DialSucceeds, TypeOK, WSTypeOK
  <2>2. delay' \in reconnectBaseDelay .. reconnectMaxDelay
    BY <1>4 DEF DialSucceeds, reconnectBaseDelay, reconnectMaxDelay
  <2>3. QED
    BY <1>2, <1>4, <2>1, <2>2 DEF DialSucceeds, sharedVars, TypeOK, WSTypeOK
<1>5. CASE SleepOver
  <2>1. delay' \in reconnectBaseDelay .. reconnectMaxDelay
    BY <1>5 DEF SleepOver, nextBackoff, reconnectBaseDelay, reconnectMaxDelay, TypeOK, WSTypeOK
  <2>2. QED
    BY <1>2, <1>5, <2>1 DEF SleepOver, sharedVars, wireVars, TypeOK, WSTypeOK
<1>6. CASE SetConn
  BY <1>2, <1>6 DEF SetConn, wireVars, TypeOK, WSTypeOK
<1>7. CASE ReadEnvelope
  BY <1>2, <1>7 DEF ReadEnvelope, sharedVars, wireVars, TypeOK, WSTypeOK
<1>8. CASE ClearConn
  BY <1>2, <1>8 DEF ClearConn, wireVars, TypeOK, WSTypeOK
<1>9. CASE ReportRefused \/ ReportLost
  <2>1. [kind |-> "Disconnected", of |-> 0] \in Messages
    BY DEF Messages
  <2>2. msgChan' \in Seq(Messages) /\ Len(msgChan') <= Capacity
    BY <1>9, <2>1, TellType DEF ReportRefused, ReportLost
  <2>3. QED
    BY <1>2, <1>9, <2>2 DEF ReportRefused, ReportLost, sharedVars, wireVars, TypeOK, WSTypeOK
<1>10. CASE Announce \/ Forward
  <2>1. sock \in 1 .. MaxConns
    BY <1>10 DEF Announce, Forward, LoopInv, TypeOK, WSTypeOK
  <2>2. [kind |-> "Connected", of |-> sock] \in Messages
    BY <2>1 DEF Messages
  <2>3. Forward => [kind |-> envelope, of |-> sock] \in Messages
    BY <2>1 DEF Forward, LoopInv, Messages
  <2>4. msgChan' \in Seq(Messages) /\ Len(msgChan') <= Capacity
    BY <1>10, <2>2, <2>3, TellType DEF Announce, Forward
  <2>5. QED
    BY <1>2, <1>10, <2>4 DEF Announce, Forward, sharedVars, wireVars, TypeOK, WSTypeOK
<1>11. QED
  BY <1>3, <1>4, <1>5, <1>6, <1>7, <1>8, <1>9, <1>10 DEF Loop, connectLoop

\* What the types say of the history.
LEMMA HistoryType ==
    ASSUME TypeOK
    PROVE  /\ history \in Seq(Prompts) /\ Len(history) \in Nat /\ Len(history) <= MaxHistory
           /\ MaxHistory \in Nat
           /\ historyIndex \in Int /\ -1 <= historyIndex /\ historyIndex + 1 <= Len(history)
<1>1. history \in Seq(Prompts) /\ Len(history) <= MaxHistory /\ historyIndex \in -1 .. Len(history) - 1
  BY DEF TypeOK
<1>2. Len(history) \in Nat
  BY <1>1, LenProperties
<1>3. QED
  BY <1>1, <1>2, TextsDiffer

\* The types of the input line, after a step that leaves the rest alone.
LEMMA LineType ==
    ASSUME TypeOK, UNCHANGED <<wsVars, headerVars, taken>>,
           inFlight' \in BOOLEAN, begun' \in {"outside", "inside", "recalled"},
           input' \in Texts, historyDraft' \in Texts, unfinished' \in Texts,
           history' \in Seq(Prompts), Len(history') <= MaxHistory,
           historyIndex' \in -1 .. Len(history') - 1
    PROVE  TypeOK'
BY DEF TypeOK, WSTypeOK, wsVars, sharedVars, wireVars, headerVars, Texts, Messages

\* The history after a submit.
LEMMA RememberType ==
    ASSUME TypeOK, Remember
    PROVE  /\ history' \in Seq(Prompts) /\ Len(history') <= MaxHistory
           /\ historyIndex' \in -1 .. Len(history') - 1
           /\ historyDraft' \in Texts /\ unfinished' \in Texts /\ begun' = "outside"
<1>1. history' = <<input>> \o history /\ input \in Prompts /\ Len(history) < MaxHistory
  BY DEF Remember
<1>2. history' \in Seq(Prompts) /\ Len(history') = 1 + Len(history)
  BY <1>1, HistoryType, ConcatProperties
<1>3. Len(history') <= MaxHistory /\ -1 \in -1 .. Len(history') - 1
  BY <1>1, <1>2, HistoryType
<1>4. Blank \in Texts
  BY DEF Texts
<1>5. QED
  BY <1>2, <1>3, <1>4 DEF Remember

\* Every step of the terminal UI keeps the types.
LEMMA UIType ==
    ASSUME TypeOK,
           Network \/ Take \/ Handle \/ PromptTimeout \/ Type \/ SubmitCommand
             \/ SubmitPrompt \/ SubmitFails \/ KeyUp \/ KeyDown \/ Quit
    PROVE  TypeOK'
<1>1. CASE Network
  BY <1>1 DEF Network, LinkBreaks, sharedVars, lineVars, headerVars, TypeOK, WSTypeOK, Texts, Messages
<1>2. CASE Take
  <2>1. /\ Head(msgChan) \in Messages /\ Tail(msgChan) \in Seq(Messages)
        /\ Len(Tail(msgChan)) <= Capacity
    BY <1>2, BoundsArePositive, HeadTailProperties DEF Take, TypeOK, WSTypeOK
  <2>2. QED
    BY <1>2, <2>1 DEF Take, lineVars, headerVars, sharedVars, wireVars, TypeOK, WSTypeOK, Texts
<1>3. CASE Handle
  <2>1. taken[1] \in Messages
    BY <1>3 DEF Handle, TypeOK
  <2>2. connMsg' \in {"connecting", "connected", "disconnected"}
    BY <1>3 DEF Handle, TypeOK
  <2>3. current' \in 0 .. MaxConns
    BY <1>3, <2>1, BoundsArePositive DEF Handle, Messages, TypeOK
  <2>4. inFlight' \in BOOLEAN
    BY <1>3 DEF Handle, TypeOK
  <2>5. QED
    BY <1>3, <2>2, <2>3, <2>4 DEF Handle, wsVars, sharedVars, wireVars, lineVars, TypeOK, WSTypeOK, Texts
<1>4. CASE PromptTimeout
  BY <1>4, LineType DEF PromptTimeout, lineVars, TypeOK
<1>5. CASE Type
  BY <1>5, LineType DEF Type, Place, TypeOK
<1>6. CASE SubmitCommand
  <2>1. Blank \in Texts
    BY DEF Texts
  <2>2. QED
    BY <1>6, <2>1, LineType DEF SubmitCommand, TypeOK
<1>7. CASE SubmitPrompt
  BY <1>7, RememberType, LineType DEF SubmitPrompt, Texts
<1>8. CASE SubmitFails
  BY <1>8, RememberType, LineType DEF SubmitFails, TypeOK
<1>9. CASE KeyUp
  <2>1. historyIndex \in -1 .. Len(history) - 1 /\ historyDraft \in Texts /\ input \in Texts
        /\ unfinished \in Texts /\ begun \in {"outside", "inside", "recalled"}
    BY DEF TypeOK
  <2>2. historyIndex + 1 < Len(history) =>
          history[historyIndex + 2] \in Texts /\ historyIndex + 1 \in -1 .. Len(history) - 1
    <3>1. historyIndex + 1 < Len(history) =>
            historyIndex + 2 \in 1 .. Len(history) /\ historyIndex + 1 \in -1 .. Len(history) - 1
      BY HistoryType
    <3>2. QED
      BY <3>1, HistoryType, ElementOfSeq DEF Texts
  <2>3. input' \in Texts /\ historyIndex' \in -1 .. Len(history) - 1
        /\ unfinished' \in Texts /\ begun' \in {"outside", "inside", "recalled"} /\ historyDraft' \in Texts
    BY <1>9, <2>1, <2>2 DEF KeyUp, Show
  <2>4. QED
    BY <1>9, <2>3, HistoryType, LineType DEF KeyUp, TypeOK
<1>10. CASE KeyDown
  <2>1. historyIndex # -1 /\ historyDraft \in Texts /\ input \in Texts /\ unfinished \in Texts
    BY <1>10 DEF KeyDown, TypeOK
  <2>2. historyIndex - 1 \in -1 .. Len(history) - 1
        /\ (historyIndex # 0 => historyIndex \in 1 .. Len(history))
    BY <2>1, HistoryType
  <2>3. historyIndex # 0 => history[historyIndex] \in Texts
    BY <2>2, HistoryType, ElementOfSeq DEF Texts
  <2>4. input' \in Texts /\ unfinished' \in Texts /\ begun' \in {"outside", "inside", "recalled"}
    <3>1. CASE historyIndex = 0
      BY <1>10, <2>1, <3>1 DEF KeyDown, Texts
    <3>2. CASE historyIndex # 0
      BY <1>10, <2>1, <2>3, <3>2 DEF KeyDown, Show
    <3>3. QED
      BY <3>1, <3>2
  <2>5. historyIndex' \in -1 .. Len(history) - 1
    BY <1>10, <2>2 DEF KeyDown
  <2>6. QED
    BY <1>10, <2>4, <2>5, HistoryType, LineType DEF KeyDown, TypeOK
<1>11. CASE Quit
  BY <1>11 DEF Quit, Close, lineVars, headerVars, TypeOK, WSTypeOK, Texts, Messages
<1>12. QED
  BY <1>1, <1>2, <1>3, <1>4, <1>5, <1>6, <1>7, <1>8, <1>9, <1>10, <1>11

\* The steps of connectLoop keep its stages, and the pointer of the connection
\* with the one that is read.
LEMMA LoopStage == LoopInv /\ SendsToLiveSocket /\ TypeOK /\ Loop => LoopInv' /\ SendsToLiveSocket'
<1> SUFFICES ASSUME LoopInv, SendsToLiveSocket, TypeOK, Loop PROVE LoopInv' /\ SendsToLiveSocket'
  OBVIOUS
<1> USE DEF LoopInv, SendsToLiveSocket, Using, sharedVars
<1>1. CASE CheckClosed \/ DialFails \/ ReportRefused \/ SleepOver \/ SleepStopped \/ ReportLost
  BY <1>1 DEF CheckClosed, DialFails, ReportRefused, SleepOver, SleepStopped, ReportLost
<1>2. CASE DialSucceeds
  BY <1>2 DEF DialSucceeds, TypeOK, WSTypeOK
<1>3. CASE SetConn \/ Announce \/ ReadEnvelope \/ Forward \/ ReadFails \/ ClearConn
  BY <1>3 DEF SetConn, Announce, ReadEnvelope, Forward, ReadFails, ClearConn
<1>4. QED
  BY <1>1, <1>2, <1>3 DEF Loop, connectLoop

\* So do all other steps: of these only Close touches the pointer.
LEMMA UIStage ==
    LoopInv /\ SendsToLiveSocket
      /\ (Network \/ Take \/ Handle \/ PromptTimeout \/ Type \/ SubmitCommand \/ SubmitPrompt
          \/ SubmitFails \/ KeyUp \/ KeyDown \/ Quit) => LoopInv' /\ SendsToLiveSocket'
BY DEF LoopInv, SendsToLiveSocket, Network, LinkBreaks, Take, Handle, PromptTimeout, Type, SubmitCommand,
       SubmitPrompt, SubmitFails, KeyUp, KeyDown, Quit, Close, wsVars, sharedVars

-----------------------------------------------------------------------------
(* The line that the arrow keys leave.                                     *)

\* Every step keeps the draft.
LEMMA DraftStep == TypeOK /\ DraftInv /\ [Next]_vars => DraftInv'
<1> SUFFICES ASSUME TypeOK, DraftInv, [Next]_vars PROVE DraftInv'
  OBVIOUS
<1> USE DEF DraftInv
<1>1. CASE UNCHANGED lineVars
  BY <1>1 DEF lineVars
<1>2. CASE Type
  BY <1>2 DEF Type, Place
<1>3. CASE SubmitCommand
  BY <1>3 DEF SubmitCommand
<1>4. CASE SubmitPrompt \/ SubmitFails
  BY <1>4 DEF SubmitPrompt, SubmitFails, Remember
<1>5. CASE KeyUp
  <2>1. historyIndex + 1 < Len(history) => historyIndex + 1 # -1
    BY HistoryType
  <2>2. historyIndex = -1 => historyIndex + 1 < Len(history)
    BY <1>5, HistoryType, EmptySeq DEF KeyUp, TypeOK
  <2>3. CASE historyIndex + 1 < Len(history)
    <3>1. historyIndex' # -1 /\ begun' = "recalled"
      BY <1>5, <2>1, <2>3 DEF KeyUp, Show
    <3>2. CASE historyIndex = -1
      <4>1. historyDraft' = input /\ unfinished' \in {input, Blank}
        BY <1>5, <2>3, <3>2 DEF KeyUp, Show
      <4>2. QED
        BY <3>1, <3>2, <4>1
    <3>3. CASE historyIndex # -1
      <4>1. historyDraft' = historyDraft /\ unfinished' = unfinished
        BY <1>5, <2>3, <3>3 DEF KeyUp, Show
      <4>2. QED
        BY <3>1, <3>3, <4>1
    <3>4. QED
      BY <3>2, <3>3
  <2>4. CASE ~(historyIndex + 1 < Len(history))
    <3>1. UNCHANGED <<historyIndex, historyDraft, begun, unfinished>>
      BY <1>5, <2>2, <2>4 DEF KeyUp
    <3>2. QED
      BY <3>1
  <2>5. QED
    BY <2>3, <2>4
<1>6. CASE KeyDown
  <2>1. historyIndex # -1 /\ historyDraft' = historyDraft
    BY <1>6 DEF KeyDown
  <2>2. CASE historyIndex = 0
    <3>1. historyIndex' = -1
      BY <1>6, <2>2 DEF KeyDown
    <3>2. unfinished' = Blank
      BY <1>6, <2>1, <2>2 DEF KeyDown
    <3>3. QED
      BY <2>1, <3>1, <3>2
  <2>3. CASE historyIndex # 0
    <3>1. historyIndex' # -1
      BY <1>6, <2>3, HistoryType DEF KeyDown
    <3>2. begun' = "recalled" /\ unfinished' = unfinished
      BY <1>6, <2>1, <2>3 DEF KeyDown, Show
    <3>3. QED
      BY <2>1, <3>1, <3>2
  <2>4. QED
    BY <2>2, <2>3
<1>7. QED
  BY <1>1, <1>2, <1>3, <1>4, <1>5, <1>6
     DEF Next, vars, Loop, Network, Take, Handle, PromptTimeout, Quit

-----------------------------------------------------------------------------
(* Stories.                                                                *)

Entries == [kind : {"Connected", "Disconnected"} \cup Kinds, of : 0 .. MaxConns]

\* What a story is put together from.
LEMMA Joined ==
    ASSUME NEW S, NEW a \in S, NEW b \in Seq(S), NEW c \in Seq(S)
    PROVE  /\ <<a>> \o b \o c \in Seq(S)
           /\ Len(<<a>> \o b \o c) = 1 + Len(b) + Len(c)
           /\ (<<a>> \o b \o c)[1] = a
           /\ \A i \in 1 .. Len(b) : (<<a>> \o b \o c)[i + 1] = b[i]
           /\ \A i \in 1 .. Len(c) : (<<a>> \o b \o c)[i + 1 + Len(b)] = c[i]
<1> DEFINE ab == <<a>> \o b
<1>1. <<a>> \in Seq(S) /\ Len(<<a>>) = 1 /\ <<a>>[1] = a
  OBVIOUS
<1>2. Len(b) \in Nat /\ Len(c) \in Nat
  BY LenProperties
<1>3. /\ ab \in Seq(S) /\ Len(ab) = 1 + Len(b)
      /\ \A i \in 1 .. 1 + Len(b) : ab[i] = IF i <= 1 THEN <<a>>[i] ELSE b[i - 1]
  BY <1>1, ConcatProperties
<1>4. ab[1] = a /\ \A i \in 1 .. Len(b) : ab[i + 1] = b[i]
  <2>1. ab[1] = a
    BY <1>1, <1>2, <1>3
  <2>2. ASSUME NEW i \in 1 .. Len(b) PROVE ab[i + 1] = b[i]
    <3>1. i + 1 \in 1 .. 1 + Len(b) /\ ~(i + 1 <= 1) /\ (i + 1) - 1 = i
      BY <1>2
    <3>2. QED
      BY <1>3, <3>1
  <2>3. QED
    BY <2>1, <2>2
<1> HIDE DEF ab
<1>5. /\ ab \o c \in Seq(S) /\ Len(ab \o c) = 1 + Len(b) + Len(c)
      /\ \A i \in 1 .. 1 + Len(b) + Len(c) :
           (ab \o c)[i] = IF i <= 1 + Len(b) THEN ab[i] ELSE c[i - (1 + Len(b))]
  <2>1. /\ ab \o c \in Seq(S) /\ Len(ab \o c) = Len(ab) + Len(c)
        /\ \A i \in 1 .. Len(ab) + Len(c) :
             (ab \o c)[i] = IF i <= Len(ab) THEN ab[i] ELSE c[i - Len(ab)]
    BY <1>3, ConcatProperties
  <2>2. QED
    BY <1>3, <2>1
<1>6. (ab \o c)[1] = a
  <2>1. 1 \in 1 .. 1 + Len(b) + Len(c) /\ 1 <= 1 + Len(b)
    BY <1>2
  <2>2. QED
    BY <1>4, <1>5, <2>1
<1>7. ASSUME NEW i \in 1 .. Len(b) PROVE (ab \o c)[i + 1] = b[i]
  <2>1. i + 1 \in 1 .. 1 + Len(b) + Len(c) /\ i + 1 <= 1 + Len(b)
    BY <1>2
  <2>2. QED
    BY <1>4, <1>5, <2>1
<1>8. ASSUME NEW i \in 1 .. Len(c) PROVE (ab \o c)[i + 1 + Len(b)] = c[i]
  <2>1. /\ i + 1 + Len(b) \in 1 .. 1 + Len(b) + Len(c) /\ ~(i + 1 + Len(b) <= 1 + Len(b))
        /\ (i + 1 + Len(b)) - (1 + Len(b)) = i
    BY <1>2
  <2>2. QED
    BY <1>5, <2>1
<1>9. QED
  BY <1>5, <1>6, <1>7, <1>8 DEF ab

\* A message sent stands at the end of the story.
LEMMA JoinedAppend ==
    ASSUME NEW S, NEW a \in S, NEW b \in Seq(S), NEW c \in Seq(S), NEW m \in S
    PROVE  <<a>> \o b \o Append(c, m) = Append(<<a>> \o b \o c, m)
<1> DEFINE ab == <<a>> \o b
<1>1. <<a>> \in Seq(S) /\ <<m>> \in Seq(S)
  OBVIOUS
<1>2. ab \in Seq(S)
  BY <1>1, ConcatProperties
<1> HIDE DEF ab
<1>3. Append(c, m) = c \o <<m>>
  BY AppendIsConcat
<1>4. ab \o c \in Seq(S)
  BY <1>2, ConcatProperties
<1>5. Append(ab \o c, m) = (ab \o c) \o <<m>>
  BY <1>4, AppendIsConcat
<1>6. (ab \o c) \o <<m>> = ab \o (c \o <<m>>)
  BY <1>1, <1>2, ConcatAssociative
<1>7. QED
  BY <1>3, <1>5, <1>6 DEF ab

\* The receive moves the head of the channel to the front of the rest.
LEMMA JoinedTake ==
    ASSUME NEW S, NEW a \in S, NEW c \in Seq(S), c # <<>>
    PROVE  <<a>> \o <<Head(c)>> \o Tail(c) = <<a>> \o <<>> \o c
<1>1. Head(c) \in S /\ Tail(c) \in Seq(S)
  BY HeadTailProperties
<1>2. <<a>> \in Seq(S) /\ <<Head(c)>> \in Seq(S)
  BY <1>1
<1>3. <<Head(c)>> \o Tail(c) = c
  <2>1. Len(c) \in Nat \ {0}
    BY EmptySeq
  <2>2. /\ Head(c) = c[1] /\ Len(Tail(c)) = Len(c) - 1
        /\ \A i \in 1 .. Len(Tail(c)) : Tail(c)[i] = c[i + 1]
    BY HeadTailProperties
  <2>3. /\ <<Head(c)>> \o Tail(c) \in Seq(S) /\ Len(<<Head(c)>> \o Tail(c)) = Len(c)
        /\ \A i \in 1 .. Len(c) :
             (<<Head(c)>> \o Tail(c))[i] = IF i <= 1 THEN <<Head(c)>>[i] ELSE Tail(c)[i - 1]
    <3>1. Len(<<Head(c)>>) = 1 /\ 1 + Len(Tail(c)) = Len(c)
      BY <2>1, <2>2
    <3>2. QED
      BY <1>1, <1>2, <3>1, ConcatProperties
  <2>4. ASSUME NEW i \in 1 .. Len(c) PROVE (<<Head(c)>> \o Tail(c))[i] = c[i]
    <3>1. CASE i = 1
      BY <2>2, <2>3, <3>1
    <3>2. CASE i # 1
      <4>1. i - 1 \in 1 .. Len(Tail(c)) /\ (i - 1) + 1 = i /\ ~(i <= 1)
        BY <2>1, <2>2, <3>2
      <4>2. QED
        BY <2>2, <2>3, <4>1
    <3>3. QED
      BY <3>1, <3>2
  <2>5. QED
    BY <2>3, <2>4, SeqEqual
<1>4. (<<a>> \o <<Head(c)>>) \o Tail(c) = <<a>> \o c
  BY <1>1, <1>2, <1>3, ConcatAssociative
<1>5. <<a>> \o <<>> = <<a>>
  BY <1>2, ConcatEmptySeq
<1>6. QED
  BY <1>4, <1>5

\* Along a longer story nothing changes before its end; after a message of the
\* client the story speaks of its connection, after an envelope of the same one.
LEMMA Appended ==
    ASSUME NEW s \in Seq(Entries), NEW m \in Entries
    PROVE  LET t == Append(s, m) IN
           /\ \A i \in 1 .. Len(s) + 1 : \A c : Tells(s, i, c) => Tells(t, i, c)
           /\ m.kind \notin Kinds => Tells(t, Len(t) + 1, m.of)
           /\ \A c : m.kind \in Kinds /\ Tells(s, Len(s) + 1, c) => Tells(t, Len(t) + 1, c)
           /\ Coherent(s) /\ (m.kind \in Kinds => Tells(s, Len(s) + 1, m.of)) => Coherent(t)
<1> DEFINE t == Append(s, m)
<1>1. /\ Len(s) \in Nat /\ Len(t) = Len(s) + 1 /\ t[Len(s) + 1] = m
      /\ \A i \in 1 .. Len(s) : t[i] = s[i]
  BY AppendProperties, LenProperties
<1> HIDE DEF t
<1>2. ASSUME NEW i \in 1 .. Len(s) + 1, NEW c, Tells(s, i, c) PROVE Tells(t, i, c)
  <2>1. PICK j \in 1 .. i - 1 : /\ s[j].kind \notin Kinds /\ s[j].of = c
                                /\ \A k \in j + 1 .. i - 1 : s[k].kind \in Kinds
    BY <1>2 DEF Tells
  <2>2. \A k \in 1 .. i - 1 : t[k] = s[k]
    BY <1>1
  <2>3. \A k \in j + 1 .. i - 1 : k \in 1 .. i - 1
    BY <1>1
  <2>4. QED
    BY <2>1, <2>2, <2>3 DEF Tells
<1>3. ASSUME m.kind \notin Kinds PROVE Tells(t, Len(t) + 1, m.of)
  <2>1. Len(s) + 1 \in 1 .. (Len(t) + 1) - 1 /\ (Len(s) + 1) + 1 .. (Len(t) + 1) - 1 = {}
    BY <1>1
  <2>2. QED
    BY <1>1, <1>3, <2>1 DEF Tells
<1>4. ASSUME NEW c, m.kind \in Kinds, Tells(s, Len(s) + 1, c) PROVE Tells(t, Len(t) + 1, c)
  <2>1. PICK j \in 1 .. Len(s) : /\ t[j].kind \notin Kinds /\ t[j].of = c
                                 /\ \A k \in j + 1 .. Len(s) : t[k].kind \in Kinds
    <3>1. Tells(t, Len(s) + 1, c) /\ (Len(s) + 1) - 1 = Len(s)
      BY <1>1, <1>2, <1>4
    <3>2. QED
      BY <3>1 DEF Tells
  <2>2. j \in 1 .. (Len(t) + 1) - 1
    BY <1>1
  <2>3. ASSUME NEW k \in j + 1 .. (Len(t) + 1) - 1 PROVE t[k].kind \in Kinds
    <3>1. k \in j + 1 .. Len(s) \/ k = Len(s) + 1
      BY <1>1
    <3>2. QED
      BY <1>1, <1>4, <2>1, <3>1
  <2>4. QED
    BY <2>1, <2>2, <2>3 DEF Tells
<1>5. ASSUME Coherent(s), m.kind \in Kinds => Tells(s, Len(s) + 1, m.of) PROVE Coherent(t)
  <2>1. SUFFICES ASSUME NEW i \in 2 .. Len(t), t[i].kind \in Kinds PROVE Tells(t, i, t[i].of)
    BY DEF Coherent
  <2>2. i \in 1 .. Len(s) + 1
    BY <1>1
  <2>3. CASE i = Len(s) + 1
    BY <1>1, <1>2, <1>5, <2>1, <2>2, <2>3
  <2>4. CASE i # Len(s) + 1
    <3>1. i \in 2 .. Len(s) /\ i \in 1 .. Len(s)
      BY <1>1, <2>4
    <3>2. Tells(s, i, s[i].of)
      BY <1>1, <1>5, <2>1, <3>1 DEF Coherent
    <3>3. QED
      BY <1>1, <1>2, <2>2, <3>1, <3>2
  <2>5. QED
    BY <2>3, <2>4
<1>6. QED
  BY <1>2, <1>3, <1>4, <1>5 DEF t

\* Handling the second entry of a story s leaves a story t that tells the same.
LEMMA Handled ==
    ASSUME NEW s \in Seq(Entries), NEW t \in Seq(Entries), Len(s) >= 2, Len(t) = Len(s) - 1,
           \A i \in 2 .. Len(t) : t[i] = s[i + 1],
           s[1].kind \notin Kinds, t[1].kind \notin Kinds,
           t[1].of = IF s[2].kind \in Kinds THEN s[1].of ELSE s[2].of
    PROVE  /\ \A i \in 2 .. Len(t) + 1 : \A c : Tells(s, i + 1, c) => Tells(t, i, c)
           /\ Coherent(s) => Coherent(t)
<1>1. Len(s) \in Nat /\ Len(t) \in Nat
  BY LenProperties
<1>2. ASSUME NEW i \in 2 .. Len(t) + 1, NEW c, Tells(s, i + 1, c) PROVE Tells(t, i, c)
  <2>1. PICK j \in 1 .. i : /\ s[j].kind \notin Kinds /\ s[j].of = c
                            /\ \A k \in j + 1 .. i : s[k].kind \in Kinds
    <3>1. (i + 1) - 1 = i
      OBVIOUS
    <3>2. QED
      BY <1>2, <3>1 DEF Tells
  <2>2. ASSUME NEW k \in 2 .. i - 1 PROVE t[k] = s[k + 1] /\ k + 1 \in 3 .. i
    <3>1. k + 1 \in 3 .. i
      BY <1>1
    <3>2. k \in 2 .. Len(t)
      <4>1. i <= Len(t) + 1 /\ k <= i - 1 /\ 2 <= k /\ i \in Int /\ k \in Int
        BY <1>1
      <4>2. QED
        BY <1>1, <4>1
    <3>3. t[k] = s[k + 1]
      BY <3>2
    <3>4. QED
      BY <3>1, <3>3
  <2>3. CASE j <= 2
    <3>1. t[1].of = c
      <4>1. CASE j = 2
        BY <2>1, <4>1
      <4>2. CASE j = 1
        <5>1. 2 \in j + 1 .. i
          BY <4>2
        <5>2. QED
          BY <2>1, <4>2, <5>1
      <4>3. QED
        BY <2>3, <4>1, <4>2
    <3>2. ASSUME NEW k \in 1 + 1 .. i - 1 PROVE t[k].kind \in Kinds
      <4>1. k \in 2 .. i - 1
        OBVIOUS
      <4>2. k + 1 \in j + 1 .. i
        BY <2>3, <4>1
      <4>3. QED
        BY <2>1, <2>2, <4>1, <4>2
    <3>3. 1 \in 1 .. i - 1
      OBVIOUS
    <3>4. QED
      BY <3>1, <3>2, <3>3 DEF Tells
  <2>4. CASE ~(j <= 2)
    <3>1. j - 1 \in 2 .. i - 1 /\ j - 1 \in 1 .. i - 1 /\ (j - 1) + 1 = j
      BY <2>4
    <3>2. t[j - 1] = s[j]
      BY <2>2, <3>1
    <3>3. ASSUME NEW k \in (j - 1) + 1 .. i - 1 PROVE t[k].kind \in Kinds
      <4>1. k \in 2 .. i - 1 /\ k + 1 \in j + 1 .. i
        BY <2>4
      <4>2. QED
        BY <2>1, <2>2, <4>1
    <3>4. QED
      BY <2>1, <3>1, <3>2, <3>3 DEF Tells
  <2>5. QED
    BY <2>3, <2>4
<1>3. ASSUME Coherent(s) PROVE Coherent(t)
  <2>1. SUFFICES ASSUME NEW i \in 2 .. Len(t), t[i].kind \in Kinds PROVE Tells(t, i, t[i].of)
    BY DEF Coherent
  <2>2. i + 1 \in 2 .. Len(s) /\ i \in 2 .. Len(t) + 1
    BY <1>1
  <2>3. Tells(s, i + 1, s[i + 1].of)
    BY <1>3, <2>1, <2>2 DEF Coherent
  <2>4. QED
    BY <1>2, <2>1, <2>2, <2>3
<1>4. QED
  BY <1>2, <1>3

-----------------------------------------------------------------------------
(* The header and the story.                                               *)

\* The parts of the story of a state are entries.
LEMMA StoryType ==
    ASSUME TypeOK
    PROVE  /\ Messages \subseteq Entries
           /\ [kind |-> "Connected", of |-> current] \in Entries
           /\ taken \in Seq(Entries) /\ msgChan \in Seq(Entries)
           /\ Story \in Seq(Entries) /\ Len(Story) \in Nat
<1>1. Messages \subseteq Entries
  BY BoundsArePositive DEF Messages, Entries
<1>2. [kind |-> "Connected", of |-> current] \in Entries
  BY DEF TypeOK, Entries
<1>3. msgChan \in Seq(Entries)
  BY <1>1, SeqMonotonic DEF TypeOK, WSTypeOK
<1>4. taken \in Seq(Entries)
  <2>1. CASE taken = <<>>
    BY <2>1
  <2>2. CASE taken # <<>>
    <3>1. PICK m \in Messages : taken = <<m>>
      BY <2>2 DEF TypeOK
    <3>2. m \in Entries
      BY <1>1
    <3>3. QED
      BY <3>1, <3>2
  <2>3. QED
    BY <2>1, <2>2
<1>5. Story \in Seq(Entries)
  BY <1>2, <1>3, <1>4, Joined DEF Story
<1>6. QED
  BY <1>1, <1>2, <1>3, <1>4, <1>5, LenProperties

\* A message of the client is added to the story.
LEMMA StoryTell ==
    ASSUME TypeOK, NEW kind, NEW of, [kind |-> kind, of |-> of] \in Messages,
           Tell(kind, of), UNCHANGED <<taken, current>>
    PROVE  Story' = Append(Story, [kind |-> kind, of |-> of])
<1> DEFINE m == [kind |-> kind, of |-> of]
           h == [kind |-> "Connected", of |-> current]
<1>1. Story = <<h>> \o taken \o msgChan /\ Story' = <<h>> \o taken \o Append(msgChan, m)
  BY DEF Story, Tell
<1>2. h \in Entries /\ m \in Entries /\ taken \in Seq(Entries) /\ msgChan \in Seq(Entries)
  BY StoryType
<1> HIDE DEF h, m
<1>3. Story' = Append(Story, m)
  BY <1>1, <1>2, JoinedAppend
<1>4. QED
  BY <1>3 DEF m

\* The steps of connectLoop tell a story that fits where it stands.
LEMMA StoryLoop == TypeOK /\ LoopInv /\ StoryInv /\ Loop => StoryInv'
<1> SUFFICES ASSUME TypeOK, LoopInv, StoryInv, Loop PROVE StoryInv'
  OBVIOUS
<1>1. UNCHANGED <<connMsg, current, taken>>
  BY DEF Loop, headerVars
<1>2. CASE UNCHANGED msgChan
  <2>1. Story' = Story
    BY <1>1, <1>2 DEF Story
  <2>2. Coherent(Story') /\ (connMsg' = "connected" <=> current' # 0)
    BY <1>1, <2>1 DEF StoryInv
  <2>3. Len(Story') = Len(Story)
    BY <2>1
  <2>4. CASE CheckClosed \/ DialFails \/ SleepOver \/ SleepStopped \/ DialSucceeds \/ SetConn
    BY <2>1, <2>2, <2>4 DEF StoryInv, CheckClosed, DialFails, SleepOver, SleepStopped, DialSucceeds, SetConn
  <2>5. CASE ReadEnvelope \/ ReadFails
    BY <2>1, <2>2, <2>5 DEF StoryInv, ReadEnvelope, ReadFails
  <2>6. CASE ClearConn
    <3>1. sock \in 1 .. MaxConns
      BY <2>6, BoundsArePositive DEF ClearConn, LoopInv, Using, TypeOK, WSTypeOK
    <3>2. Tells(Story', Len(Story') + 1, sock)
      BY <2>1, <2>6 DEF StoryInv, ClearConn
    <3>3. loop' \in {"ended", "losing"}
      BY <2>6 DEF ClearConn
    <3>4. QED
      BY <2>2, <3>1, <3>2, <3>3 DEF StoryInv
  <2>7. CASE ReportRefused \/ Announce \/ Forward \/ ReportLost
    <3>1. Len(msgChan) \in Nat /\ msgChan \in Seq(Entries)
      BY StoryType, LenProperties
    <3>2. PICK m : msgChan' = Append(msgChan, m)
      BY <2>7 DEF ReportRefused, Announce, Forward, ReportLost, Tell
    <3>3. Len(Append(msgChan, m)) = Len(msgChan) + 1
      BY <3>1
    <3>4. QED
      BY <1>2, <3>1, <3>2, <3>3
  <2>8. QED
    BY <2>4, <2>5, <2>6, <2>7 DEF Loop, connectLoop
<1>3. CASE ReportRefused \/ ReportLost
  <2> DEFINE m == [kind |-> "Disconnected", of |-> 0]
  <2>1. m \in Messages
    BY DEF Messages
  <2>2. Story' = Append(Story, m) /\ m \in Entries /\ Story \in Seq(Entries)
    BY <1>1, <1>3, <2>1, StoryTell, StoryType DEF ReportRefused, ReportLost
  <2>3. m.kind \notin Kinds /\ m.of = 0
    BY KindsAreOfEnvelopes
  <2> HIDE DEF m
  <2>4. Coherent(Story') /\ Tells(Story', Len(Story') + 1, 0)
    BY <2>2, <2>3, Appended DEF StoryInv
  <2>5. loop' \in {"asleep", "check"}
    BY <1>3 DEF ReportRefused, ReportLost
  <2>6. QED
    BY <1>1, <2>4, <2>5 DEF StoryInv
<1>4. CASE Announce
  <2> DEFINE m == [kind |-> "Connected", of |-> sock]
  <2>1. m \in Messages
    <3>1. sock \in 1 .. MaxConns
      BY <1>4, BoundsArePositive DEF Announce, LoopInv, Using, TypeOK, WSTypeOK
    <3>2. QED
      BY <1>4, <3>1 DEF Announce, LoopInv, Messages
  <2>2. Story' = Append(Story, m) /\ m \in Entries /\ Story \in Seq(Entries)
    BY <1>1, <1>4, <2>1, StoryTell, StoryType DEF Announce
  <2>3. m.kind \notin Kinds /\ m.of = sock
    BY KindsAreOfEnvelopes
  <2> HIDE DEF m
  <2>4. Coherent(Story') /\ Tells(Story', Len(Story') + 1, sock)
    BY <2>2, <2>3, Appended DEF StoryInv
  <2>5. loop' = "reading" /\ sock' = sock
    BY <1>4 DEF Announce
  <2>6. QED
    BY <1>1, <2>4, <2>5 DEF StoryInv
<1>5. CASE Forward
  <2> DEFINE m == [kind |-> envelope, of |-> sock]
  <2>1. m \in Messages
    <3>1. sock \in 1 .. MaxConns
      BY <1>5, BoundsArePositive DEF Forward, LoopInv, Using, TypeOK, WSTypeOK
    <3>2. QED
      BY <1>5, <3>1 DEF Forward, LoopInv, Messages
  <2>2. Story' = Append(Story, m) /\ m \in Entries /\ Story \in Seq(Entries)
    BY <1>1, <1>5, <2>1, StoryTell, StoryType DEF Forward
  <2>3. m.kind \in Kinds /\ m.of = sock
    BY <1>5 DEF Forward, LoopInv
  <2> HIDE DEF m
  <2>4. Tells(Story, Len(Story) + 1, sock)
    BY <1>5 DEF Forward, StoryInv
  <2>5. Coherent(Story') /\ Tells(Story', Len(Story') + 1, sock)
    BY <2>2, <2>3, <2>4, Appended DEF StoryInv
  <2>6. loop' = "reading" /\ sock' = sock
    BY <1>5 DEF Forward
  <2>7. QED
    BY <1>1, <2>5, <2>6 DEF StoryInv
<1>6. QED
  <2>1. UNCHANGED msgChan \/ ReportRefused \/ ReportLost \/ Announce \/ Forward
    BY DEF Loop, connectLoop, CheckClosed, DialFails, SleepOver, SleepStopped, DialSucceeds, SetConn,
           ReadEnvelope, ReadFails, ClearConn
  <2>2. QED
    BY <2>1, <1>2, <1>3, <1>4, <1>5

\* The steps of the terminal UI leave the story, or handle its second entry.
LEMMA StoryUI ==
    ASSUME TypeOK, TypeOK', StoryInv,
           Network \/ Take \/ Handle \/ PromptTimeout \/ Type \/ SubmitCommand
             \/ SubmitPrompt \/ SubmitFails \/ KeyUp \/ KeyDown \/ Quit
    PROVE  StoryInv'
<1>1. CASE UNCHANGED <<loop, sock, connMsg, current>> /\ Story' = Story
  BY <1>1 DEF StoryInv
<1>2. CASE Network \/ PromptTimeout \/ Type \/ SubmitCommand \/ SubmitPrompt \/ SubmitFails \/ KeyUp \/ KeyDown \/ Quit
  <2>1. UNCHANGED <<loop, sock, connMsg, current, taken, msgChan>>
    BY <1>2 DEF Network, LinkBreaks, PromptTimeout, Type, SubmitCommand, SubmitPrompt, SubmitFails, KeyUp, KeyDown,
                Quit, Close, wsVars, headerVars
  <2>2. QED
    BY <1>1, <2>1 DEF Story
<1>3. CASE Take
  <2> DEFINE h == [kind |-> "Connected", of |-> current]
  <2>1. h \in Entries /\ msgChan \in Seq(Entries) /\ msgChan # <<>>
    BY <1>3, StoryType DEF Take
  <2>2. Story = <<h>> \o <<>> \o msgChan /\ Story' = <<h>> \o <<Head(msgChan)>> \o Tail(msgChan)
    BY <1>3 DEF Take, Story, headerVars
  <2> HIDE DEF h
  <2>3. Story' = Story
    BY <2>1, <2>2, JoinedTake
  <2>4. UNCHANGED <<loop, sock, connMsg, current>>
    BY <1>3 DEF Take, headerVars
  <2>5. QED
    BY <1>1, <2>3, <2>4
<1>4. CASE Handle
  <2> DEFINE h == [kind |-> "Connected", of |-> current]
             g == [kind |-> "Connected", of |-> current']
  <2>1. PICK m \in Messages : taken = <<m>>
    BY <1>4 DEF Handle, TypeOK
  <2>2. UNCHANGED <<loop, sock, msgChan>> /\ taken' = <<>> /\ taken[1] = m
    BY <1>4, <2>1 DEF Handle, wsVars
  <2>3. current' = IF m.kind \in Kinds THEN current ELSE m.of
    BY <1>4, <2>2 DEF Handle
  <2>4. connMsg' = CASE m.kind = "Connected" -> "connected" [] m.kind = "Disconnected" -> "disconnected"
                     [] OTHER -> connMsg
    BY <1>4, <2>2 DEF Handle
  <2>5. h \in Entries /\ g \in Entries /\ m \in Entries /\ <<m>> \in Seq(Entries) /\ <<>> \in Seq(Entries)
    BY <2>1, StoryType DEF TypeOK, Entries
  <2>6. h.kind \notin Kinds /\ g.kind \notin Kinds /\ h.of = current /\ g.of = current'
    BY KindsAreOfEnvelopes
  <2>7. Story = <<h>> \o <<m>> \o msgChan /\ Story' = <<g>> \o <<>> \o msgChan
    BY <2>1, <2>2 DEF Story
  <2> HIDE DEF h, g
  <2>8. msgChan \in Seq(Entries) /\ Len(msgChan) \in Nat /\ Len(<<m>>) = 1 /\ <<m>>[1] = m /\ Len(<<>>) = 0
    BY StoryType, LenProperties, EmptySeq
  <2>9. /\ Story \in Seq(Entries) /\ Len(Story) = 2 + Len(msgChan)
        /\ Story[1] = h /\ Story[2] = m /\ \A i \in 1 .. Len(msgChan) : Story[i + 2] = msgChan[i]
    <3>1. /\ Story \in Seq(Entries) /\ Len(Story) = 1 + Len(<<m>>) + Len(msgChan) /\ Story[1] = h
          /\ \A i \in 1 .. Len(<<m>>) : Story[i + 1] = <<m>>[i]
          /\ \A i \in 1 .. Len(msgChan) : Story[i + 1 + Len(<<m>>)] = msgChan[i]
      BY <2>5, <2>7, <2>8, Joined
    <3>2. QED
      BY <2>8, <3>1
  <2>10. /\ Story' \in Seq(Entries) /\ Len(Story') = 1 + Len(msgChan)
         /\ Story'[1] = g /\ \A i \in 1 .. Len(msgChan) : Story'[i + 1] = msgChan[i]
    <3>1. /\ Story' \in Seq(Entries) /\ Len(Story') = 1 + Len(<<>>) + Len(msgChan) /\ Story'[1] = g
          /\ \A i \in 1 .. Len(msgChan) : Story'[i + 1 + Len(<<>>)] = msgChan[i]
      BY <2>5, <2>7, <2>8, Joined
    <3>2. QED
      BY <2>8, <3>1
  <2>11. ASSUME NEW i \in 2 .. Len(Story') PROVE Story'[i] = Story[i + 1]
    <3>1. i - 1 \in 1 .. Len(msgChan) /\ (i - 1) + 1 = i /\ (i - 1) + 2 = i + 1
      BY <2>8, <2>10
    <3>2. QED
      BY <2>9, <2>10, <3>1
  <2>12. Len(Story) >= 2 /\ Len(Story') = Len(Story) - 1
    BY <2>8, <2>9, <2>10
  <2>13. /\ \A i \in 2 .. Len(Story') + 1 : \A c : Tells(Story, i + 1, c) => Tells(Story', i, c)
         /\ Coherent(Story) => Coherent(Story')
    BY <2>3, <2>6, <2>9, <2>10, <2>11, <2>12, Handled
  <2>14. \A c : Tells(Story, Len(Story) + 1, c) => Tells(Story', Len(Story') + 1, c)
    <3>1. Len(Story') + 1 \in 2 .. Len(Story') + 1 /\ (Len(Story') + 1) + 1 = Len(Story) + 1
      BY <2>8, <2>9, <2>10
    <3>2. QED
      BY <2>13, <3>1
  <2>15. connMsg' = "connected" <=> current' # 0
    <3>1. CASE m.kind = "Connected"
      BY <2>1, <2>3, <2>4, <3>1, KindsAreOfEnvelopes DEF Messages
    <3>2. CASE m.kind = "Disconnected"
      BY <2>1, <2>3, <2>4, <3>2, KindsAreOfEnvelopes DEF Messages
    <3>3. CASE m.kind \in Kinds
      BY <2>3, <2>4, <3>3, KindsAreOfEnvelopes DEF StoryInv
    <3>4. QED
      BY <2>1, <3>1, <3>2, <3>3 DEF Messages
  <2>16. QED
    BY <2>2, <2>13, <2>14, <2>15 DEF StoryInv
<1>5. QED
  BY <1>2, <1>3, <1>4

-----------------------------------------------------------------------------
(* The theorems.                                                           *)

\* IInv holds from the start and every step keeps it.
THEOREM Inductive == Spec => []IInv
<1>1. Init => IInv
  <2> SUFFICES ASSUME Init PROVE IInv
    OBVIOUS
  <2>1. TypeOK
    <3>1. <<>> \in Seq(Messages) /\ <<>> \in Seq(Prompts) /\ Len(<<>>) = 0
      <4>1. <<>> \in Seq(Messages)
        BY EmptySeq
      <4>2. <<>> \in Seq(Prompts)
        BY EmptySeq
      <4>3. Len(<<>>) = 0
        BY EmptySeq
      <4>4. QED
        BY <4>1, <4>2, <4>3
    <3>2. WSTypeOK
      <4>1. msgChan \in Seq(Messages) /\ Len(msgChan) <= Capacity
        BY <3>1, BoundsArePositive DEF Init, WSInit
      <4>2. /\ sock \in 0 .. dials /\ conn \in 0 .. dials /\ dials \in 0 .. MaxConns
            /\ broken \subseteq 1 .. dials /\ shut \subseteq 1 .. dials
        BY BoundsArePositive DEF Init, WSInit
      <4>3. delay \in reconnectBaseDelay .. reconnectMaxDelay
        BY DEF Init, WSInit, reconnectBaseDelay, reconnectMaxDelay
      <4>4. QED
        BY <4>1, <4>2, <4>3 DEF Init, WSInit, WSTypeOK
    <3>3. historyIndex \in -1 .. Len(history) - 1
      <4>1. historyIndex = -1 /\ Len(history) = 0
        BY <3>1 DEF Init
      <4>2. QED
        BY <4>1
    <3>4. history \in Seq(Prompts) /\ Len(history) <= MaxHistory /\ current \in 0 .. MaxConns
      BY <3>1, BoundsArePositive, TextsDiffer DEF Init
    <3>5. QED
      BY <3>2, <3>3, <3>4 DEF Init, TypeOK, Texts
  <2>2. LoopInv /\ SendsToLiveSocket /\ DraftInv
    BY DEF Init, WSInit, LoopInv, Using, SendsToLiveSocket, DraftInv
  <2>3. StoryInv
    <3> DEFINE h == [kind |-> "Connected", of |-> 0]
    <3>1. Story = <<h>> \o <<>> \o <<>> /\ loop = "check" /\ connMsg = "connecting" /\ current = 0
      BY DEF Init, WSInit, Story
    <3>2. h \in Entries /\ <<>> \in Seq(Entries) /\ Len(<<>>) = 0
      BY BoundsArePositive, EmptySeq DEF Entries
    <3>3. h.kind \notin Kinds /\ h.of = 0
      BY KindsAreOfEnvelopes
    <3> HIDE DEF h
    <3>4. Len(Story) = 1 /\ Story[1] = h
      BY <3>1, <3>2, Joined
    <3>5. Tells(Story, 2, 0)
      BY <3>3, <3>4 DEF Tells
    <3>6. Coherent(Story)
      BY <3>4 DEF Coherent
    <3>7. QED
      BY <3>1, <3>4, <3>5, <3>6 DEF StoryInv
  <2>4. QED
    BY <2>1, <2>2, <2>3 DEF IInv
<1>2. IInv /\ [Next]_vars => IInv'
  <2> SUFFICES ASSUME IInv, [Next]_vars PROVE IInv'
    OBVIOUS
  <2>1. CASE UNCHANGED vars
    <3>1. UNCHANGED <<wsVars, lineVars, headerVars, taken, inFlight>>
      BY <2>1 DEF vars
    <3>2. TypeOK'
      BY <3>1 DEF IInv, TypeOK, WSTypeOK, wsVars, sharedVars, wireVars, lineVars, headerVars
    <3>3. LoopInv' /\ SendsToLiveSocket'
      BY <3>1 DEF IInv, LoopInv, SendsToLiveSocket, wsVars, sharedVars
    <3>4. DraftInv'
      BY DraftStep DEF IInv
    <3>5. StoryInv'
      <4>1. Story' = Story /\ UNCHANGED <<loop, sock, connMsg, current>>
        BY <3>1 DEF Story, wsVars, headerVars
      <4>2. QED
        BY <4>1 DEF IInv, StoryInv
    <3>6. QED
      BY <3>2, <3>3, <3>4, <3>5 DEF IInv
  <2>2. CASE Loop
    BY <2>2, LoopType, LoopStage, DraftStep, StoryLoop DEF IInv
  <2>3. CASE Network \/ Take \/ Handle \/ PromptTimeout \/ Type \/ SubmitCommand
               \/ SubmitPrompt \/ SubmitFails \/ KeyUp \/ KeyDown \/ Quit
    <3>1. TypeOK'
      BY <2>3, UIType DEF IInv
    <3>2. LoopInv' /\ SendsToLiveSocket'
      BY <2>3, UIStage DEF IInv
    <3>3. StoryInv'
      BY <2>3, <3>1, StoryUI DEF IInv
    <3>4. QED
      BY <3>1, <3>2, <3>3, DraftStep DEF IInv
  <2>4. QED
    BY <2>1, <2>2, <2>3 DEF Next
<1>3. QED
  BY <1>1, <1>2, PTL DEF Spec

\* The client, the channel and the model keep their types: the channel never holds
\* more than its capacity, the delay stays within its bounds, and the history
\* index always names an entry or none (ws.go:33-40, model.go:394-436).
THEOREM Typing == Spec => []TypeOK
<1>1. IInv => TypeOK
  BY DEF IInv
<1>2. QED
  BY <1>1, Inductive, PTL

\* SendPrompt writes to the connection that connectLoop serves and has not yet
\* cleared, or to none (ws.go:109-114, 163-166, 178-179).
THEOREM PromptsGoToLive == Spec => []SendsToLiveSocket
<1>1. IInv => SendsToLiveSocket
  BY DEF IInv
<1>2. QED
  BY <1>1, Inductive, PTL

\* A line that the user began outside the history, and left for it, comes back
\* after the newest entry, whatever is recalled, typed or sent as a slash command
\* on the way, unless a prompt is submitted first (model.go:519-553).  It is the
\* part of "The unfinished line is kept" (terminal-ui.md:89) that the code keeps: a
\* line begun inside the history is not stored.
THEOREM DraftIsKept == Spec => []DraftKept
<1>1. IInv => DraftKept
  BY DEF IInv, DraftInv, DraftKept
<1>2. QED
  BY <1>1, Inductive, PTL

\* A place that tells one connection is told it.
LEMMA ToldIs ==
    ASSUME TypeOK, NEW i \in 2 .. Len(Story), NEW c, Tells(Story, i, c)
    PROVE  Told(i) = c
<1> DEFINE before == {j \in 1 .. i - 1 : Story[j].kind \notin Kinds}
<1>1. PICK j \in 1 .. i - 1 : /\ Story[j].kind \notin Kinds /\ Story[j].of = c
                              /\ \A k \in j + 1 .. i - 1 : Story[k].kind \in Kinds
  BY DEF Tells
<1>2. j \in before
  BY <1>1
<1>3. ASSUME NEW k \in before PROVE k <= j
  <2>1. k \in 1 .. i - 1 /\ Story[k].kind \notin Kinds
    OBVIOUS
  <2>2. k \notin j + 1 .. i - 1
    BY <1>1, <2>1
  <2>3. QED
    BY <2>1, <2>2
<1>4. ASSUME NEW l \in before, \A k \in before : k <= l PROVE l = j
  <2>1. l \in Int /\ j \in Int /\ l <= j /\ j <= l
    BY <1>2, <1>3, <1>4
  <2>2. QED
    BY <2>1
<1> DEFINE last == CHOOSE l \in before : \A k \in before : k <= l
<1>5. last = j
  <2>1. last \in before /\ \A k \in before : k <= last
    BY <1>2, <1>3
  <2>2. QED
    BY <1>4, <2>1
<1>6. Told(i) = Story[last].of
  BY DEF Told
<1>7. QED
  BY <1>1, <1>5, <1>6

\* Every envelope is handled while the header speaks of its connection, and when
\* all is handled the header says whether there is one (ws.go:100-119,
\* model.go:224-234).
THEOREM HeaderIsRight == Spec => []HeaderTellsStory
<1>1. IInv => HeaderTellsStory
  <2> SUFFICES ASSUME IInv PROVE HeaderTellsStory
    OBVIOUS
  <2>1. ASSUME NEW i \in 2 .. Len(Story), Story[i].kind \in Kinds PROVE Told(i) = Story[i].of
    BY <2>1, ToldIs DEF IInv, StoryInv, Coherent
  <2>2. ASSUME taken = <<>>, msgChan = <<>>
        PROVE  /\ loop \in {"reading", "holding", "lost", "losing"} => connMsg = "connected"
               /\ loop \in {"check", "dialing", "refused", "asleep", "opened", "announcing"}
                      => connMsg # "connected"
    <3> DEFINE h == [kind |-> "Connected", of |-> current]
    <3>1. Story = <<h>> \o <<>> \o <<>> /\ h.of = current
      BY <2>2 DEF Story
    <3>2. h \in Entries /\ <<>> \in Seq(Entries) /\ Len(<<>>) = 0
      BY StoryType, EmptySeq DEF IInv
    <3> HIDE DEF h
    <3>3. Len(Story) = 1 /\ Story[1] = h
      BY <3>1, <3>2, Joined
    <3>4. ASSUME NEW c, Tells(Story, Len(Story) + 1, c) PROVE current = c
      BY <3>1, <3>3, <3>4 DEF Tells
    <3>5. CASE loop \in {"reading", "holding", "lost"}
      BY <3>4, <3>5 DEF IInv, StoryInv, LoopInv, Using
    <3>6. CASE loop = "losing"
      <4>1. PICK c \in 1 .. MaxConns : Tells(Story, Len(Story) + 1, c)
        BY <3>6 DEF IInv, StoryInv
      <4>2. current = c /\ c # 0
        BY <3>4, <4>1
      <4>3. QED
        BY <3>6, <4>2 DEF IInv, StoryInv
    <3>7. CASE loop \in {"check", "dialing", "refused", "asleep", "opened", "announcing"}
      BY <3>4, <3>7 DEF IInv, StoryInv
    <3>8. QED
      BY <3>5, <3>6, <3>7
  <2>3. QED
    BY <2>1, <2>2 DEF HeaderTellsStory
<1>2. QED
  BY <1>1, Inductive, PTL

=============================================================================
