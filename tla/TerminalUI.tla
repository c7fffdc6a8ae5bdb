------------------------------- MODULE TerminalUI ------------------------------
(***************************************************************************)
(* app.Model (tui/internal/app/model.go) over WSClient: the Bubble Tea     *)
(* loop handles one message at a time, a key or what the one outstanding   *)
(* waitForWSMsg took from the channel.  Of the model this module keeps the *)
(* connection header, the input line with its history, and inFlight; what  *)
(* becomes of a command is in CommandSession.                              *)
(***************************************************************************)
EXTENDS WSClient, Integers

CONSTANTS Prompts,     \* texts the user may type
          Commands,    \* texts that begin with "/"
          MaxHistory   \* bound: prompts in the history

\* The empty text.
Blank == ""

ASSUME TextsDiffer ==
    /\ Prompts \cap Commands = {} /\ Blank \notin Prompts \cup Commands
    /\ MaxHistory \in Nat

VARIABLES
    connMsg,       \* the connection header, without the text of the error
    taken,         \* what waitForWSMsg returned and Update has not handled
    inFlight,      \* a command is running, as far as the UI knows
    input,         \* the text of the input line
    history,       \* the submitted prompts, newest first
    historyIndex,  \* the entry that the arrow keys have reached, or -1
    historyDraft,  \* the line that was left for the history
    current,       \* history: the connection whose Connected was handled last
    begun,         \* history: where the user began the line in an empty input,
                   \* or "recalled" for an entry, changed or not
    unfinished     \* history: the line begun outside that has not come back

lineVars == <<input, history, historyIndex, historyDraft, begun, unfinished>>
headerVars == <<connMsg, current>>
vars == <<wsVars, lineVars, headerVars, taken, inFlight>>

Texts == Prompts \cup Commands \cup {Blank}

TypeOK ==
    /\ WSTypeOK
    /\ connMsg \in {"connecting", "connected", "disconnected"}
    /\ taken \in {<<>>} \cup {<<m>> : m \in Messages}
    /\ inFlight \in BOOLEAN /\ begun \in {"outside", "inside", "recalled"}
    /\ input \in Texts /\ historyDraft \in Texts
    /\ history \in Seq(Prompts) /\ Len(history) <= MaxHistory
    /\ historyIndex \in -1..Len(history) - 1
    /\ current \in 0..MaxConns
    /\ unfinished \in Texts

Init ==
    /\ WSInit
    /\ connMsg = "connecting" /\ current = 0
    /\ taken = <<>> /\ inFlight = FALSE
    /\ input = Blank /\ history = <<>> /\ historyIndex = -1 /\ historyDraft = Blank
    /\ begun = "outside" /\ unfinished = Blank

-----------------------------------------------------------------------------
(* The channel.                                                            *)

\* waitForWSMsg: one receive at a time, since Update issues the next one.
Take ==
    /\ ~closed /\ taken = <<>> /\ msgChan # <<>>
    /\ taken' = <<Head(msgChan)>>
    /\ msgChan' = Tail(msgChan)
    /\ UNCHANGED <<loop, delay, sock, envelope, sharedVars, wireVars,
                   lineVars, headerVars, inFlight>>

\* Mutant: the branch for Disconnected returns no command, so nothing receives
\* from the channel any more.
HandleWithoutWaiting ==
    /\ ~closed /\ taken # <<>> /\ taken[1].kind # "Disconnected"
    /\ LET m == taken[1] IN
         /\ connMsg' = IF m.kind = "Connected" THEN "connected" ELSE connMsg
         /\ current' = IF m.kind \in Kinds THEN current ELSE m.of
         /\ inFlight' = (inFlight /\ m.kind \notin Kinds \ {"status_update"})
    /\ taken' = <<>>
    /\ UNCHANGED <<wsVars, lineVars>>

\* Update on Connected, Disconnected and an Envelope: a status_update leaves
\* inFlight alone, every other envelope ends the command.
Handle ==
    /\ ~closed /\ taken # <<>>
    /\ LET m == taken[1] IN
         /\ connMsg' = CASE m.kind = "Connected" -> "connected"
                         [] m.kind = "Disconnected" -> "disconnected"
                         [] OTHER -> connMsg
         /\ current' = IF m.kind \in Kinds THEN current ELSE m.of
         /\ inFlight' = (inFlight /\ m.kind \notin Kinds \ {"status_update"})
    /\ taken' = <<>>
    /\ UNCHANGED <<wsVars, lineVars>>

\* promptTimeoutMsg of the prompt that is in flight; an older one does nothing.
PromptTimeout ==
    /\ ~closed /\ inFlight
    /\ inFlight' = FALSE
    /\ UNCHANGED <<wsVars, lineVars, headerVars, taken>>

-----------------------------------------------------------------------------
(* The keys.                                                               *)

Place == IF historyIndex = -1 THEN "outside" ELSE "inside"

\* The input line takes every other key, also while a command is in flight.
\* What is typed into an empty line begins a new one, wherever historyIndex is
\* and whatever emptied the line.
Type ==
    /\ ~closed
    /\ \E text \in Texts \ {input} : input' = text
    /\ begun' = IF input = Blank THEN Place ELSE begun
    /\ UNCHANGED <<wsVars, history, historyIndex, historyDraft, unfinished,
                   headerVars, taken, inFlight>>

\* submitPrompt on a "/" command: the line is emptied, and nothing else.
SubmitCommand ==
    /\ ~closed /\ ~inFlight /\ input \in Commands
    /\ input' = Blank
    /\ UNCHANGED <<wsVars, history, historyIndex, historyDraft, begun, unfinished,
                   headerVars, taken, inFlight>>

\* What submitPrompt does to the history before it sends: the line, sent or
\* not, stands outside it.
Remember ==
    /\ input \in Prompts /\ Len(history) < MaxHistory
    /\ history' = <<input>> \o history
    /\ historyIndex' = -1 /\ historyDraft' = Blank
    /\ begun' = "outside" /\ unfinished' = Blank

SubmitPrompt ==
    /\ ~closed /\ ~inFlight /\ CanSend
    /\ Remember
    /\ input' = Blank /\ inFlight' = TRUE
    /\ UNCHANGED <<wsVars, headerVars, taken>>

\* The prompt stays in the line, and is in the history all the same.
SubmitFails ==
    /\ ~closed /\ ~inFlight /\ SendMayFail
    /\ Remember
    /\ UNCHANGED <<wsVars, input, headerVars, taken, inFlight>>

Show(text) ==
    /\ input' = text
    /\ begun' = "recalled"
    /\ unfinished' = IF begun = "outside" THEN input ELSE unfinished

\* Mutant: only the first line that the arrow keys leave is stored.
KeyUpFirstDraft ==
    /\ ~closed /\ history # <<>>
    /\ historyDraft' = IF historyIndex = -1 /\ historyDraft = Blank THEN input ELSE historyDraft
    /\ IF historyIndex + 1 < Len(history)
       THEN /\ historyIndex' = historyIndex + 1
            /\ Show(history[historyIndex + 2])
       ELSE UNCHANGED <<historyIndex, input, begun, unfinished>>
    /\ UNCHANGED <<wsVars, history, headerVars, taken, inFlight>>

KeyUp ==
    /\ ~closed /\ history # <<>>
    /\ historyDraft' = IF historyIndex = -1 THEN input ELSE historyDraft
    /\ IF historyIndex + 1 < Len(history)
       THEN /\ historyIndex' = historyIndex + 1
            /\ Show(history[historyIndex + 2])
       ELSE UNCHANGED <<historyIndex, input, begun, unfinished>>
    /\ UNCHANGED <<wsVars, history, headerVars, taken, inFlight>>

\* Past the newest entry the draft is back, and should be the unfinished line.
KeyDown ==
    /\ ~closed /\ history # <<>> /\ historyIndex # -1
    /\ historyIndex' = historyIndex - 1
    /\ IF historyIndex = 0
       THEN /\ input' = historyDraft /\ begun' = "outside"
            /\ unfinished' = IF input' = unfinished THEN Blank ELSE unfinished
       ELSE Show(history[historyIndex])
    /\ UNCHANGED <<wsVars, history, historyDraft, headerVars, taken, inFlight>>

\* Ctrl+C: Close, and the Bubble Tea loop ends.
Quit == Close /\ UNCHANGED <<lineVars, headerVars, taken, inFlight>>

-----------------------------------------------------------------------------
Loop == connectLoop /\ UNCHANGED <<lineVars, headerVars, taken, inFlight>>
Network == LinkBreaks /\ UNCHANGED <<lineVars, headerVars, taken, inFlight>>

Next ==
    \/ Loop \/ Network
    \/ Take \/ Handle \/ PromptTimeout
    \/ Type \/ SubmitCommand \/ SubmitPrompt \/ SubmitFails \/ KeyUp \/ KeyDown \/ Quit

Spec == Init /\ [][Next]_vars

\* The goroutine of the client and the Bubble Tea loop are scheduled; a dial
\* ends, a sleep is over and a read on a broken connection fails.
FairSpec == Spec /\ WF_vars(Loop) /\ WF_vars(Take) /\ WF_vars(Handle)

-----------------------------------------------------------------------------
\* What the terminal UI has still to handle, after what it handled last.
Story == <<[kind |-> "Connected", of |-> current]>> \o taken \o msgChan

\* The connection that the UI will be told about before it handles Story[i].
Told(i) ==
    LET before == {j \in 1..i - 1 : Story[j].kind \notin Kinds}
    IN  Story[CHOOSE j \in before : \A k \in before : k <= j].of

\* The UI handles every envelope while its header speaks of the connection it
\* came from, and once it has handled all there is, the header says connected
\* exactly when the client has a connection it reads (ws.go:100-119,
\* model.go:224-234).
HeaderTellsStory ==
    /\ \A i \in 2..Len(Story) : Story[i].kind \in Kinds => Told(i) = Story[i].of
    /\ taken = <<>> /\ msgChan = <<>> /\ ~closed =>
         /\ loop \in {"reading", "holding", "lost", "losing"} => connMsg = "connected"
         /\ loop \in {"check", "dialing", "refused", "asleep", "opened", "announcing"}
                => connMsg # "connected"

\* A line that the user began outside the history comes back after its newest
\* entry, whatever is recalled, typed, sent as a slash command or answered on the
\* way, unless a prompt is submitted first.  "The unfinished line is kept"
\* (docs/user-guide/terminal-ui.md:89) holds for such lines only: one that the
\* user begins inside the history, where an erased entry or a slash command leaves
\* an empty line, is replaced by the next arrow key and not stored (model.go:526).
DraftKept == unfinished # Blank => historyIndex # -1 /\ historyDraft = unfinished
=============================================================================
