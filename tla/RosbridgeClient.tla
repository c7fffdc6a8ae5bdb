---------------------------- MODULE RosbridgeClient ----------------------------
(***************************************************************************)
(* The service-call side of rosbridge.Client (backend/internal/rosbridge): *)
(* one goroutine dials rosbridge_server, reads its messages and tears the  *)
(* connection down when a read fails, while any number of other goroutines *)
(* are inside CallService.  They share the socket, the connected flag, the *)
(* map of pending calls and one channel of capacity one per call.          *)
(*                                                                         *)
(* The four caches that the same goroutine fills and clears are left out:  *)
(* no step of a call reads them.  rosbridge_server is external; it answers *)
(* a call_service at most once, in any order, or never.                    *)
(***************************************************************************)
EXTENDS Naturals

CONSTANTS Calls,   \* invocations of CallService, each a goroutine of its own
          None     \* an empty channel slot, or a reader that carries nothing

ASSUME NoneAssumption == None \notin [call : Calls, ok : BOOLEAN]
ASSUME NoneIsNoHand   == None \notin [call : Calls, answer : [call : Calls, ok : BOOLEAN]]

VARIABLES
    link,       \* where the goroutine of run and connectAndServe stands
    ws,         \* c.ws # nil
    up,         \* the socket still reaches rosbridge_server
    connected,  \* c.connected
    ctxDone,    \* the context of run is cancelled
    hand,       \* the response the read loop is about to send on a channel
    reqSeq,     \* c.reqSeq
    pending,    \* c.pending: request id -> the call that owns the channel
    requests,   \* calls that rosbridge_server has received and not answered
    pc,         \* where each call stands in CallService
    id,         \* reqID of each call, 0 before it has one
    chan,       \* respChan of each call
    result      \* what each call has returned

linkVars == <<link, ws, up, connected, ctxDone, hand>>
callVars == <<pc, id, result, reqSeq>>
vars == <<linkVars, callVars, pending, requests, chan>>

Answers  == [call : Calls, ok : BOOLEAN]
Requests == [id : Nat, call : Calls]

TearingDown == {"lower", "close", "sweep"}
Serving     == {"flag", "read", "deliver"}
InCall      == {"registered", "waiting", "cleanup"}

TypeOK ==
    /\ link \in {"dial", "wait", "ended", "opened"} \cup Serving \cup TearingDown
    /\ ws \in BOOLEAN /\ up \in BOOLEAN /\ connected \in BOOLEAN /\ ctxDone \in BOOLEAN
    /\ hand \in [call : Calls, answer : Answers] \cup {None}
    /\ reqSeq \in Nat
    /\ pending \in SUBSET Requests
    /\ requests \in SUBSET Requests
    /\ pc \in [Calls -> {"idle", "checked", "done"} \cup InCall]
    /\ id \in [Calls -> Nat]
    /\ chan \in [Calls -> [buf : Answers \cup {None}, open : BOOLEAN]]
    /\ result \in [Calls -> {"none", "notConnected", "sendFailed", "ok", "failed",
                             "closed", "timeout"}]

Init ==
    /\ link = "dial" /\ ws = FALSE /\ up = FALSE /\ connected = FALSE
    /\ ctxDone = FALSE /\ hand = None
    /\ reqSeq = 0 /\ pending = {} /\ requests = {}
    /\ pc = [k \in Calls |-> "idle"]
    /\ id = [k \in Calls |-> 0]
    /\ chan = [k \in Calls |-> [buf |-> None, open |-> TRUE]]
    /\ result = [k \in Calls |-> "none"]

-----------------------------------------------------------------------------
(* The goroutine of run and connectAndServe.                               *)

\* Mutant: run ends in a state that no other part of the client knows.
AfterErrorUnknown == IF ctxDone THEN "done" ELSE "wait"

\* connectAndServe has returned an error: run waits 2 s, or ends.
AfterError == IF ctxDone THEN "ended" ELSE "wait"

DialSucceeds ==
    /\ link = "dial" /\ ~ctxDone
    /\ link' = "opened" /\ up' = TRUE
    /\ UNCHANGED <<ws, connected, ctxDone, hand, callVars, pending, requests, chan>>

DialFails ==
    /\ link = "dial"
    /\ link' = AfterError
    /\ UNCHANGED <<ws, up, connected, ctxDone, hand, callVars, pending, requests, chan>>

Retry ==
    /\ link = "wait"
    /\ link' = IF ctxDone THEN "ended" ELSE "dial"
    /\ UNCHANGED <<ws, up, connected, ctxDone, hand, callVars, pending, requests, chan>>

InstallSocket ==
    /\ link = "opened"
    /\ link' = "flag" /\ ws' = TRUE
    /\ UNCHANGED <<up, connected, ctxDone, hand, callVars, pending, requests, chan>>

\* connected.Store(true); the subscription and the warm start of the caches
\* that follow touch nothing a call can see.
RaiseFlag ==
    /\ link = "flag"
    /\ link' = "read" /\ connected' = TRUE
    /\ UNCHANGED <<ws, up, ctxDone, hand, callVars, pending, requests, chan>>

\* A service_response arrives and its id is looked up in c.pending: without an
\* entry it is dropped, with one the channel is used after pendingMu is released.
ReadResponse(m, ok) ==
    /\ link = "read" /\ m \in requests
    /\ requests' = requests \ {m}
    /\ \/ /\ \A p \in pending : p.id # m.id
          /\ UNCHANGED <<link, hand>>
       \/ \E p \in pending :
             /\ p.id = m.id
             /\ hand' = [call |-> p.call, answer |-> [call |-> m.call, ok |-> ok]]
             /\ link' = "deliver"
    /\ UNCHANGED <<ws, up, connected, ctxDone, callVars, pending, chan>>

\* ch <- serviceResponse: blocks the read loop while the slot is taken.
Deliver ==
    /\ link = "deliver"
    /\ chan[hand.call].buf = None
    /\ chan' = [chan EXCEPT ![hand.call].buf = hand.answer]
    /\ link' = "read" /\ hand' = None
    /\ UNCHANGED <<ws, up, connected, ctxDone, callVars, pending, requests>>

\* ReadJSON fails: the socket broke, was closed by the server or sent a
\* message that is not JSON.
ReadFails ==
    /\ link = "read"
    /\ link' = "lower"
    /\ UNCHANGED <<ws, up, connected, ctxDone, hand, callVars, pending, requests, chan>>

\* Mutant: the socket is closed but c.ws is not set to nil.
CloseSocketKeepsPointer ==
    /\ link = "close"
    /\ link' = "sweep" /\ up' = FALSE /\ requests' = {}
    /\ UNCHANGED <<ws, connected, ctxDone, hand, callVars, pending, chan>>

\* The deferred teardown, in its order.
LowerFlag ==
    /\ link = "lower"
    /\ link' = "close" /\ connected' = FALSE
    /\ UNCHANGED <<ws, up, ctxDone, hand, callVars, pending, requests, chan>>

CloseSocket ==
    /\ link = "close"
    /\ link' = "sweep" /\ ws' = FALSE /\ up' = FALSE /\ requests' = {}
    /\ UNCHANGED <<connected, ctxDone, hand, callVars, pending, chan>>

\* The channels of the calls that own an entry of pending, closed.
CloseAll(owners) ==
    [k \in Calls |-> [chan[k] EXCEPT !.open = @ /\ \A p \in owners : p.call # k]]

\* Mutant: the entries are deleted and their channels left open.
SweepWithoutClosing ==
    /\ link = "sweep"
    /\ link' = AfterError
    /\ pending' = {}
    /\ UNCHANGED <<ws, up, connected, ctxDone, hand, callVars, requests, chan>>

\* Mutant: the channels are closed and their entries left in the map.
SweepWithoutDeleting ==
    /\ link = "sweep"
    /\ link' = AfterError
    /\ chan' = CloseAll(pending)
    /\ UNCHANGED <<ws, up, connected, ctxDone, hand, callVars, pending, requests>>

SweepPending ==
    /\ link = "sweep"
    /\ link' = AfterError
    /\ chan' = CloseAll(pending)
    /\ pending' = {}
    /\ UNCHANGED <<ws, up, connected, ctxDone, hand, callVars, requests>>

-----------------------------------------------------------------------------
(* CallService.                                                            *)

Return(k, what, where) ==
    /\ result' = [result EXCEPT ![k] = what]
    /\ pc' = [pc EXCEPT ![k] = where]

\* if !c.IsConnected(): the flag is read once, long before the socket is used.
CheckConnected(k) ==
    /\ pc[k] = "idle"
    /\ \/ /\ connected
          /\ pc' = [pc EXCEPT ![k] = "checked"]
          /\ UNCHANGED result
       \/ /\ ~connected
          /\ Return(k, "notConnected", "done")
    /\ UNCHANGED <<linkVars, id, reqSeq, pending, requests, chan>>

\* Mutant: the sequence number is read without being advanced.
RegisterWithoutAdvancing(k) ==
    /\ pc[k] = "checked"
    /\ id' = [id EXCEPT ![k] = reqSeq + 1]
    /\ pending' = {p \in pending : p.id # reqSeq + 1} \cup {[id |-> reqSeq + 1, call |-> k]}
    /\ pc' = [pc EXCEPT ![k] = "registered"]
    /\ UNCHANGED <<linkVars, reqSeq, result, requests, chan>>

\* reqSeq.Add(1), which no other goroutine can tell from the locked store that
\* follows it.
Register(k) ==
    /\ pc[k] = "checked"
    /\ reqSeq' = reqSeq + 1
    /\ id' = [id EXCEPT ![k] = reqSeq']
    /\ pending' = {p \in pending : p.id # reqSeq'} \cup {[id |-> reqSeq', call |-> k]}
    /\ pc' = [pc EXCEPT ![k] = "registered"]
    /\ UNCHANGED <<linkVars, result, requests, chan>>

\* sendJSON under c.mu.  A write to a broken socket fails, or is accepted by
\* the operating system and lost.
SendReaches(k) ==
    /\ pc[k] = "registered" /\ ws /\ up
    /\ requests' = requests \cup {[id |-> id[k], call |-> k]}
    /\ pc' = [pc EXCEPT ![k] = "waiting"]
    /\ UNCHANGED <<linkVars, id, result, reqSeq, pending, chan>>

SendLost(k) ==
    /\ pc[k] = "registered" /\ ws /\ ~up
    /\ pc' = [pc EXCEPT ![k] = "waiting"]
    /\ UNCHANGED <<linkVars, id, result, reqSeq, pending, requests, chan>>

SendFails(k) ==
    /\ pc[k] = "registered" /\ ~(ws /\ up)
    /\ Return(k, "sendFailed", "cleanup")
    /\ UNCHANGED <<linkVars, id, reqSeq, pending, requests, chan>>

\* The select: the channel and the context, in any order when both are ready.
ReceiveAnswer(k) ==
    /\ pc[k] = "waiting" /\ chan[k].buf # None
    /\ Return(k, IF chan[k].buf.ok THEN "ok" ELSE "failed", "cleanup")
    /\ chan' = [chan EXCEPT ![k].buf = None]
    /\ UNCHANGED <<linkVars, id, reqSeq, pending, requests>>

SeeClosed(k) ==
    /\ pc[k] = "waiting" /\ chan[k].buf = None /\ ~chan[k].open
    /\ Return(k, "closed", "cleanup")
    /\ UNCHANGED <<linkVars, id, reqSeq, pending, requests, chan>>

Timeout(k) ==
    /\ pc[k] = "waiting"
    /\ Return(k, "timeout", "cleanup")
    /\ UNCHANGED <<linkVars, id, reqSeq, pending, requests, chan>>

\* Mutant: the entry is deleted only by the call that got its answer.
UnregisterOnSuccess(k) ==
    /\ pc[k] = "cleanup"
    /\ pending' = IF result[k] = "ok" THEN {p \in pending : p.id # id[k]} ELSE pending
    /\ pc' = [pc EXCEPT ![k] = "done"]
    /\ UNCHANGED <<linkVars, id, result, reqSeq, requests, chan>>

\* The deferred delete, on every way out of CallService after Register.
Unregister(k) ==
    /\ pc[k] = "cleanup"
    /\ pending' = {p \in pending : p.id # id[k]}
    /\ pc' = [pc EXCEPT ![k] = "done"]
    /\ UNCHANGED <<linkVars, id, result, reqSeq, requests, chan>>

-----------------------------------------------------------------------------
(* The environment.                                                        *)

LinkDrops ==
    /\ up
    /\ up' = FALSE /\ requests' = {}
    /\ UNCHANGED <<link, ws, connected, ctxDone, hand, callVars, pending, chan>>

Cancel ==
    /\ ~ctxDone
    /\ ctxDone' = TRUE
    /\ UNCHANGED <<link, ws, up, connected, hand, callVars, pending, requests, chan>>

\* The process is shutting down and every call has returned.
Ended ==
    /\ link = "ended" /\ \A k \in Calls : pc[k] = "done"
    /\ UNCHANGED vars

-----------------------------------------------------------------------------
LinkStep ==
    \/ DialSucceeds \/ DialFails \/ Retry \/ InstallSocket \/ RaiseFlag
    \/ (\E m \in requests, ok \in BOOLEAN : ReadResponse(m, ok))
    \/ Deliver \/ ReadFails \/ LowerFlag \/ CloseSocket \/ SweepPending

CallStep(k) ==
    \/ CheckConnected(k) \/ Register(k)
    \/ SendReaches(k) \/ SendLost(k) \/ SendFails(k)
    \/ ReceiveAnswer(k) \/ SeeClosed(k) \/ Timeout(k) \/ Unregister(k)

Next ==
    \/ LinkStep
    \/ \E k \in Calls : CallStep(k)
    \/ LinkDrops \/ Cancel \/ Ended

Spec == Init /\ [][Next]_vars

\* The goroutines are scheduled: a teardown that has begun goes on, a send on a
\* channel that can proceed does, and a select with a ready channel is taken.
\* No answer, no failed read and no timeout is assumed ever to come.
Fairness ==
    /\ WF_vars(InstallSocket) /\ WF_vars(RaiseFlag) /\ WF_vars(Deliver)
    /\ WF_vars(LowerFlag) /\ WF_vars(CloseSocket) /\ WF_vars(SweepPending)
    /\ \A k \in Calls :
         /\ WF_vars(Register(k))
         /\ WF_vars(SendReaches(k) \/ SendLost(k) \/ SendFails(k))
         /\ WF_vars(ReceiveAnswer(k) \/ SeeClosed(k))
         /\ WF_vars(Unregister(k))

FairSpec == Spec /\ Fairness

-----------------------------------------------------------------------------
(* What the client promises.                                               *)

\* A call is only ever handed the answer to its own request, although the ids,
\* the map and the channels of all calls are shared with the read loop
\* (CallService, connectAndServe's read loop).
OwnAnswerOnly ==
    /\ \A k \in Calls : chan[k].buf # None => chan[k].buf.call = k
    /\ hand # None => hand.call = hand.answer.call

\* The read loop releases pendingMu before it sends on the channel it found
\* (client.go:282-288).  The channel is still empty and open there, so that the
\* only reader neither blocks for ever nor panics on a closed channel.
ReaderNeverStuck ==
    link = "deliver" => /\ chan[hand.call].buf = None
                        /\ chan[hand.call].open

\* Nothing can come for k any more over the present connection.
NoAnswerOnItsWay(k) ==
    /\ chan[k].buf = None /\ chan[k].open
    /\ \A m \in requests : m.call # k
    /\ hand # None => hand.call # k

\* A call that waits for an answer that cannot come is registered, and either
\* the teardown that will close its channel has begun or the socket it was
\* sent on is broken: no call that raced with a reconnection is left behind
\* by the sweep (client.go:219-241 against 313-337).
NoStrandedCall ==
    \A k \in Calls : pc[k] = "waiting" /\ NoAnswerOnItsWay(k) =>
        /\ \E p \in pending : p.call = k
        /\ link \in TearingDown \/ (link \in Serving /\ ~up)

\* The map holds only calls that have not returned: neither a timeout nor a
\* sweep between Register and the deferred delete leaves an entry.
PendingAreInCall ==
    \A p \in pending : pc[p.call] \in InCall /\ id[p.call] = p.id

\* connected is raised after the socket is installed and lowered before it is
\* cleared: IsConnected never invites a call to a socket that is nil.
ConnectedHasSocket == connected => ws

\* The answers that the client has taken in and not yet handed to a call, and
\* the verdict on a call, whoever holds it.
Held == {chan[j].buf : j \in {j \in Calls : chan[j].buf # None}}
            \cup IF hand = None THEN {} ELSE {hand.answer}

Verdict(k) ==
    IF result[k] \in {"ok", "failed"} THEN result[k]
    ELSE IF [call |-> k, ok |-> TRUE] \in Held THEN "ok"
    ELSE IF [call |-> k, ok |-> FALSE] \in Held THEN "failed"
    ELSE "none"

Contract == INSTANCE CallContract WITH
    begun    <- {k \in Calls : id[k] # 0},
    verdict  <- [k \in Calls |-> Verdict(k)],
    returned <- result

\* The client keeps its contract with all callers at once: whatever is lost,
\* swept, late or reconnected, a call returns once, with the verdict on its own
\* request or as failed, and a call that failed because its connection closed
\* or its request was not sent is never answered afterwards (CallService).
KeepsContract == Contract!Spec

\* Once a teardown has begun, each waiting call leaves its select, with no
\* help from its own timeout.
LossReleasesCalls ==
    \A k \in Calls : (pc[k] = "waiting" /\ link \in TearingDown) ~> (pc[k] # "waiting")
=============================================================================
