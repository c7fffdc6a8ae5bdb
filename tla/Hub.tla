---------------------------------- MODULE Hub ----------------------------------
(***************************************************************************)
(* websocket.Hub (backend/internal/websocket/hub.go): the one slot for a   *)
(* terminal UI, which ServeClient goroutines compete for, and the state of *)
(* the ROS 2 bridge, which the rosbridge goroutine stores and pushes to    *)
(* whoever holds the slot.  A connection is one GET /ws/client.            *)
(*                                                                         *)
(* Of what is written to a terminal UI only the bridge status is kept, as  *)
(* the value the UI shows: its writes are serialized by conn.mu, and the   *)
(* last one wins.  The commands are in CommandSession.                     *)
(***************************************************************************)
CONSTANTS Conns,   \* connection attempts
          None     \* no connection

ASSUME NoneIsNoConn == None \notin Conns

VARIABLES
    client,    \* h.client
    pc,        \* where the ServeClient goroutine of each connection stands
    loaded,    \* the bridge state each ServeClient has read for its first message
    open,      \* the socket of the connection is open on both sides
    shown,     \* the bridge state the terminal UI shows, or "unknown"
    bridge,    \* h.bridgeConnected
    notify,    \* where OnBridgeConnectionChange stands
    target     \* the client that SendToClient has read

serveVars  == <<client, pc, loaded>>
notifyVars == <<bridge, notify, target>>
vars == <<serveVars, notifyVars, open, shown>>

\* What the header of the terminal UI can say of the bridge, once it was told.
Status == {"connected", "disconnected"}

\* The stages in which a ServeClient goroutine may use the slot.
Holding == {"registered", "greeting", "serving", "closing"}

TypeOK ==
    /\ client \in Conns \cup {None}
    /\ pc \in [Conns -> {"new", "checked", "upgraded", "refused", "left"} \cup Holding]
    /\ loaded \in [Conns -> Status]
    /\ open \in [Conns -> BOOLEAN]
    /\ shown \in [Conns -> Status \cup {"unknown"}]
    /\ bridge \in Status
    /\ notify \in {"idle", "stored", "picked"}
    /\ target \in Conns \cup {None}

Init ==
    /\ client = None
    /\ pc = [c \in Conns |-> "new"]
    /\ loaded = [c \in Conns |-> "disconnected"]
    /\ open = [c \in Conns |-> FALSE]
    /\ shown = [c \in Conns |-> "unknown"]
    /\ bridge = "disconnected" /\ notify = "idle" /\ target = None

-----------------------------------------------------------------------------
(* ServeClient.                                                            *)

MoveTo(c, stage) == pc' = [pc EXCEPT ![c] = stage]

\* A write reaches the UI while the socket is open, and is lost otherwise.
Write(c, value) == shown' = IF open[c] THEN [shown EXCEPT ![c] = value] ELSE shown

\* The check under the read lock: 409 Conflict while the slot is taken.
CheckSlot(c) ==
    /\ pc[c] = "new"
    /\ MoveTo(c, IF client = None THEN "checked" ELSE "refused")
    /\ UNCHANGED <<client, loaded, notifyVars, open, shown>>

\* The handshake, outside any lock, succeeds or fails.
Upgrade(c) ==
    /\ pc[c] = "checked"
    /\ \/ /\ MoveTo(c, "upgraded")
          /\ open' = [open EXCEPT ![c] = TRUE]
       \/ /\ MoveTo(c, "refused")
          /\ UNCHANGED open
    /\ UNCHANGED <<client, loaded, notifyVars, shown>>

\* Mutant: the slot is not checked again after the handshake.
RegisterUnchecked(c) ==
    /\ pc[c] = "upgraded"
    /\ client' = c /\ MoveTo(c, "registered")
    /\ UNCHANGED <<loaded, notifyVars, open, shown>>

\* The second check, under the write lock, and the registration.
Register(c) ==
    /\ pc[c] = "upgraded"
    /\ \/ /\ client = None
          /\ client' = c /\ MoveTo(c, "registered")
          /\ UNCHANGED open
       \/ /\ client # None
          /\ MoveTo(c, "refused")
          /\ open' = [open EXCEPT ![c] = FALSE]
          /\ UNCHANGED client
    /\ UNCHANGED <<loaded, notifyVars, shown>>

\* Mutant: the first message is made up before the bridge state is loaded.
LoadNothing(c) ==
    /\ pc[c] = "registered"
    /\ loaded' = [loaded EXCEPT ![c] = "unknown"]
    /\ MoveTo(c, "greeting")
    /\ UNCHANGED <<client, notifyVars, open, shown>>

\* The bridge state is loaded first and written to the socket later.
LoadBridge(c) ==
    /\ pc[c] = "registered"
    /\ loaded' = [loaded EXCEPT ![c] = bridge]
    /\ MoveTo(c, "greeting")
    /\ UNCHANGED <<client, notifyVars, open, shown>>

\* Mutant: the first message always says that the bridge is up.
GreetConnected(c) ==
    /\ pc[c] = "greeting"
    /\ Write(c, "connected")
    /\ MoveTo(c, "serving")
    /\ UNCHANGED <<client, loaded, notifyVars, open>>

Greet(c) ==
    /\ pc[c] = "greeting"
    /\ Write(c, loaded[c])
    /\ MoveTo(c, "serving")
    /\ UNCHANGED <<client, loaded, notifyVars, open>>

\* ReadJSON fails, because the UI is gone or sent something that is not JSON.
ReadFails(c) ==
    /\ pc[c] = "serving"
    /\ MoveTo(c, "closing")
    /\ UNCHANGED <<client, loaded, notifyVars, open, shown>>

\* Mutant: the teardown closes the socket and keeps the slot.
LeaveRegistered(c) ==
    /\ pc[c] = "closing"
    /\ MoveTo(c, "left")
    /\ open' = [open EXCEPT ![c] = FALSE]
    /\ UNCHANGED <<client, loaded, notifyVars, shown>>

\* The deferred teardown: the slot is freed, then the socket is closed.
Leave(c) ==
    /\ pc[c] = "closing"
    /\ client' = IF client = c THEN None ELSE client
    /\ open' = [open EXCEPT ![c] = FALSE]
    /\ MoveTo(c, "left")
    /\ UNCHANGED <<loaded, notifyVars, shown>>

-----------------------------------------------------------------------------
(* OnBridgeConnectionChange, on the goroutine of the rosbridge client.     *)

StoreBridge ==
    /\ notify = "idle"
    /\ bridge' \in Status \ {bridge}
    /\ notify' = "stored"
    /\ UNCHANGED <<serveVars, target, open, shown>>

\* SendToClient reads h.client under the read lock and writes after it.
PickClient ==
    /\ notify = "stored"
    /\ target' = client
    /\ notify' = IF client = None THEN "idle" ELSE "picked"
    /\ UNCHANGED <<serveVars, bridge, open, shown>>

Push ==
    /\ notify = "picked"
    /\ Write(target, bridge)
    /\ notify' = "idle" /\ target' = None
    /\ UNCHANGED <<serveVars, bridge, open>>

-----------------------------------------------------------------------------
\* The terminal UI quits or the network breaks the connection.
PeerLeaves(c) ==
    /\ open[c]
    /\ open' = [open EXCEPT ![c] = FALSE]
    /\ UNCHANGED <<serveVars, notifyVars, shown>>

Serve(c) ==
    \/ CheckSlot(c) \/ Upgrade(c) \/ Register(c) \/ LoadBridge(c) \/ Greet(c)
    \/ ReadFails(c) \/ Leave(c)

Notify == StoreBridge \/ PickClient \/ Push

Next == Notify \/ \E c \in Conns : Serve(c) \/ PeerLeaves(c)

Spec == Init /\ [][Next]_vars

\* Goroutines are scheduled, a broken socket makes the read fail, and a push
\* that has begun is finished.  The bridge need never change.
Fairness ==
    /\ WF_vars(PickClient) /\ WF_vars(Push)
    /\ \A c \in Conns :
         /\ WF_vars(CheckSlot(c) \/ Upgrade(c) \/ Register(c) \/ LoadBridge(c)
                    \/ Greet(c) \/ Leave(c))
         /\ WF_vars(~open[c] /\ ReadFails(c))

FairSpec == Spec /\ Fairness

-----------------------------------------------------------------------------
\* At most one ServeClient goroutine is past the registration, although the
\* handshakes of several run at once between the two checks (hub.go:138-162).
OneServed ==
    \A c, d \in Conns : pc[c] \in Holding /\ pc[d] \in Holding => c = d

\* The slot is held exactly by the connection that is being served: a refused
\* or ended connection keeps no terminal UI out (hub.go:187-191).
SlotIsServed ==
    \A c \in Conns : client = c <=> pc[c] \in Holding

\* With no push under way, a terminal UI that shows the wrong bridge state was
\* told so by its greeting, which a push overtook; a push is never what leaves
\* it wrong, whatever client SendToClient found when it read the pointer
\* (hub.go:81-84, 264-275).
OnlyGreetingMisleads ==
    \A c \in Conns :
        pc[c] = "serving" /\ open[c] /\ notify = "idle" /\ shown[c] # bridge
            => shown[c] = loaded[c]

\* "While the bridge is down, the header shows bridge: disconnected"
\* (docs/user-guide/running.md:98), once the push of the change is written.
ShownIsBridge ==
    \A c \in Conns :
        pc[c] = "serving" /\ open[c] /\ notify = "idle" => shown[c] = bridge

\* A terminal UI that is gone gives up the slot, so that it can come back.
DeadClientReleasesSlot ==
    \A c \in Conns : (client = c /\ ~open[c]) ~> (client # c)
=============================================================================
