-------------------------------- MODULE WSClient -------------------------------
(***************************************************************************)
(* client.WSClient (tui/internal/client/ws.go): the goroutine of Start     *)
(* that dials the backend, reads what it sends and dials again, the        *)
(* channel on which it tells the terminal UI its story, and SendPrompt and *)
(* Close, which the terminal UI calls on its own goroutine.  A connection  *)
(* is the number of the successful dial that made it; 0 is none.           *)
(***************************************************************************)
EXTENDS Naturals, Sequences, FiniteSets

CONSTANTS MaxConns,  \* bound: successful dials
          Capacity,  \* buffer of msgChan (50 in NewWSClient)
          Kinds      \* what an envelope may be to the terminal UI

ASSUME BoundsArePositive ==
    MaxConns \in Nat \ {0} /\ Capacity \in Nat \ {0} /\ IsFiniteSet(Kinds)
ASSUME KindsAreOfEnvelopes == Kinds \cap {"Connected", "Disconnected"} = {}

VARIABLES
    loop,      \* where connectLoop stands
    delay,     \* its back-off delay, in seconds
    sock,      \* the connection that dial returned to it
    envelope,  \* the kind of the envelope that readLoop holds
    conn,      \* c.conn, guarded by c.mu
    closed,    \* c.closed, guarded by c.mu
    msgChan,   \* the buffered channel to the terminal UI
    dials,     \* successful dials so far
    broken,    \* the connections that the backend or the network ended
    shut       \* the connections that Close has closed

sharedVars == <<conn, closed>>
wireVars == <<dials, broken, shut>>
wsVars == <<loop, delay, sock, envelope, sharedVars, msgChan, wireVars>>

\* connectLoop is past the successful dial and has not ended the connection.
Using == {"opened", "announcing", "reading", "holding", "lost"}

reconnectBaseDelay == 1
reconnectMaxDelay == 30

Messages ==
    [kind : {"Disconnected"}, of : {0}]
        \cup [kind : {"Connected"} \cup Kinds, of : 1..MaxConns]

WSTypeOK ==
    /\ loop \in {"check", "dialing", "refused", "asleep", "losing", "ended"} \cup Using
    /\ delay \in reconnectBaseDelay..reconnectMaxDelay
    /\ sock \in 0..dials /\ conn \in 0..dials
    /\ envelope \in Kinds \cup {"none"}
    /\ closed \in BOOLEAN
    /\ msgChan \in Seq(Messages) /\ Len(msgChan) <= Capacity
    /\ dials \in 0..MaxConns
    /\ broken \subseteq 1..dials /\ shut \subseteq 1..dials

WSInit ==
    /\ loop = "check" /\ delay = reconnectBaseDelay /\ sock = 0 /\ envelope = "none"
    /\ conn = 0 /\ closed = FALSE /\ msgChan = <<>>
    /\ dials = 0 /\ broken = {} /\ shut = {}

-----------------------------------------------------------------------------
(* connectLoop.  A send on msgChan blocks while the buffer is full.        *)

Tell(kind, of) ==
    /\ Len(msgChan) < Capacity
    /\ msgChan' = Append(msgChan, [kind |-> kind, of |-> of])

CheckClosed ==
    /\ loop = "check"
    /\ loop' = IF closed THEN "ended" ELSE "dialing"
    /\ UNCHANGED <<delay, sock, envelope, sharedVars, msgChan, wireVars>>

\* No backend, or the handshake was refused (409 while the slot is taken).
DialFails ==
    /\ loop = "dialing"
    /\ loop' = "refused"
    /\ UNCHANGED <<delay, sock, envelope, sharedVars, msgChan, wireVars>>

DialSucceeds ==
    /\ loop = "dialing" /\ dials < MaxConns
    /\ dials' = dials + 1 /\ sock' = dials + 1
    /\ delay' = reconnectBaseDelay
    /\ loop' = "opened"
    /\ UNCHANGED <<envelope, sharedVars, msgChan, broken, shut>>

ReportRefused ==
    /\ loop = "refused"
    /\ Tell("Disconnected", 0)
    /\ loop' = "asleep"
    /\ UNCHANGED <<delay, sock, envelope, sharedVars, wireVars>>

\* Mutant: the cap is left out.
nextBackoffUncapped(d) == 2 * d

nextBackoff(d) == IF 2 * d > reconnectMaxDelay THEN reconnectMaxDelay ELSE 2 * d

\* The timer of sleepOrStop wins, also against a stop that came meanwhile.
SleepOver ==
    /\ loop = "asleep"
    /\ delay' = nextBackoff(delay)
    /\ loop' = "check"
    /\ UNCHANGED <<sock, envelope, sharedVars, msgChan, wireVars>>

SleepStopped ==
    /\ loop = "asleep" /\ closed
    /\ loop' = "ended"
    /\ UNCHANGED <<delay, sock, envelope, sharedVars, msgChan, wireVars>>

\* setConn(conn): also after a Close that came during the dial.
SetConn ==
    /\ loop = "opened"
    /\ conn' = sock
    /\ loop' = "announcing"
    /\ UNCHANGED <<delay, sock, envelope, closed, msgChan, wireVars>>

Announce ==
    /\ loop = "announcing"
    /\ Tell("Connected", sock)
    /\ loop' = "reading"
    /\ UNCHANGED <<delay, sock, envelope, sharedVars, wireVars>>

\* ReadJSON returns an envelope, and the check that follows ends the loop when
\* the client was closed.
ReadEnvelope ==
    /\ loop = "reading" /\ sock \notin broken \cup shut
    /\ \E kind \in Kinds :
         IF closed THEN loop' = "lost" /\ UNCHANGED envelope
         ELSE loop' = "holding" /\ envelope' = kind
    /\ UNCHANGED <<delay, sock, sharedVars, msgChan, wireVars>>

Forward ==
    /\ loop = "holding"
    /\ Tell(envelope, sock)
    /\ envelope' = "none"
    /\ loop' = "reading"
    /\ UNCHANGED <<delay, sock, sharedVars, wireVars>>

ReadFails ==
    /\ loop = "reading" /\ sock \in broken \cup shut
    /\ loop' = "lost"
    /\ UNCHANGED <<delay, sock, envelope, sharedVars, msgChan, wireVars>>

\* Mutant: the pointer to the lost connection stays.
ClearConnForgotten ==
    /\ loop = "lost"
    /\ sock' = 0
    /\ loop' = IF closed THEN "ended" ELSE "losing"
    /\ UNCHANGED <<delay, envelope, sharedVars, msgChan, wireVars>>

\* setConn(nil) and the check for a closed client.
ClearConn ==
    /\ loop = "lost"
    /\ conn' = 0 /\ sock' = 0
    /\ loop' = IF closed THEN "ended" ELSE "losing"
    /\ UNCHANGED <<delay, envelope, closed, msgChan, wireVars>>

\* Mutant: only a dial that failed is told.
ReportLostSilently ==
    /\ loop = "losing"
    /\ loop' = "check"
    /\ UNCHANGED <<delay, sock, envelope, sharedVars, msgChan, wireVars>>

\* Dials again at once: the back-off is only for dials that failed.
ReportLost ==
    /\ loop = "losing"
    /\ Tell("Disconnected", 0)
    /\ loop' = "check"
    /\ UNCHANGED <<delay, sock, envelope, sharedVars, wireVars>>

connectLoop ==
    \/ CheckClosed \/ DialFails \/ DialSucceeds \/ ReportRefused
    \/ SleepOver \/ SleepStopped \/ SetConn \/ Announce
    \/ ReadEnvelope \/ Forward \/ ReadFails \/ ClearConn \/ ReportLost

-----------------------------------------------------------------------------
(* The calls of the terminal UI, and the network.                          *)

\* A write is taken by the connection that c.conn names at that moment; on one
\* that is broken it may still be buffered, or fail.
CanSend == conn # 0
SendMayFail == conn = 0 \/ conn \in broken

\* A repeated Close returns early.
Close ==
    /\ ~closed
    /\ closed' = TRUE /\ conn' = 0
    /\ shut' = shut \cup ({conn} \ {0})
    /\ UNCHANGED <<loop, delay, sock, envelope, msgChan, dials, broken>>

\* The backend or the network ends a connection.
LinkBreaks ==
    /\ \E c \in 1..dials \ (broken \cup shut) : broken' = broken \cup {c}
    /\ UNCHANGED <<loop, delay, sock, envelope, sharedVars, msgChan, dials, shut>>

-----------------------------------------------------------------------------
\* SendPrompt never writes to a connection that was given up for another one, or
\* was cleared: c.conn is the connection that connectLoop is serving or nothing,
\* whatever Close and the losses did in between.  Between the return of readLoop
\* and clearing ("lost") that is one whose reader has just ended (ws.go:109-114,
\* 163-166, 178-179).
SendsToLiveSocket == conn # 0 => conn = sock /\ loop \in Using

\* Until it is closed, the client neither gives up nor gets stuck: it reads a
\* connection or tries to get one again and again (ws.go:47-51).
KeepsTrying == []<>(closed \/ loop \in {"dialing", "reading"})
=============================================================================
