-------------------------------- MODULE HubProofs --------------------------------
(***************************************************************************)
(* Proofs about Hub, for any number of connection attempts: one terminal   *)
(* UI is served at a time, the slot is held exactly by it, what a push of  *)
(* the bridge state can and cannot leave on its screen, and that each      *)
(* connection is served once.                                              *)
(***************************************************************************)
EXTENDS Hub, Naturals, TLAPS

\* While a change of the bridge is written to one client, any other client has
\* registered since, and has read or will read the state that is pushed.
LateComers ==
    \A c \in Conns :
        notify = "picked" /\ c # target /\ pc[c] \in {"greeting", "serving"}
            => loaded[c] = bridge

\* Without a push that is still to come for it, a client shows what its greeting
\* or the last push said.
Shown ==
    \A c \in Conns :
        /\ pc[c] = "serving" /\ open[c]
        /\ notify = "idle" \/ (notify = "picked" /\ target # c)
        => shown[c] \in {loaded[c], bridge}

\* A push that is being written has a client to go to.
TargetInv == notify = "picked" => target \in Conns

IInv == TypeOK /\ SlotIsServed /\ TargetInv /\ LateComers /\ Shown

-----------------------------------------------------------------------------
\* Every step keeps the types.
LEMMA TypeStep == TypeOK /\ TargetInv /\ [Next]_vars => TypeOK'
<1> SUFFICES ASSUME TypeOK /\ TargetInv, [Next]_vars PROVE TypeOK'
  OBVIOUS
<1>1. ASSUME NEW c \in Conns, CheckSlot(c) PROVE TypeOK'
  BY <1>1 DEF CheckSlot, TypeOK, MoveTo, notifyVars
<1>2. ASSUME NEW c \in Conns, Upgrade(c) PROVE TypeOK'
  BY <1>2 DEF Upgrade, TypeOK, MoveTo, notifyVars
<1>3. ASSUME NEW c \in Conns, Register(c) PROVE TypeOK'
  BY <1>3 DEF Register, TypeOK, Holding, MoveTo, notifyVars
<1>4. ASSUME NEW c \in Conns, LoadBridge(c) PROVE TypeOK'
  BY <1>4 DEF LoadBridge, TypeOK, Holding, MoveTo, notifyVars
<1>5. ASSUME NEW c \in Conns, Greet(c) PROVE TypeOK'
  BY <1>5 DEF Greet, TypeOK, Holding, MoveTo, Write, notifyVars
<1>6. ASSUME NEW c \in Conns, ReadFails(c) PROVE TypeOK'
  BY <1>6 DEF ReadFails, TypeOK, Holding, MoveTo, notifyVars
<1>7. ASSUME NEW c \in Conns, Leave(c) PROVE TypeOK'
  BY <1>7 DEF Leave, TypeOK, MoveTo, notifyVars
<1>8. ASSUME NEW c \in Conns, PeerLeaves(c) PROVE TypeOK'
  BY <1>8 DEF PeerLeaves, TypeOK, serveVars, notifyVars
<1>9. CASE StoreBridge
  BY <1>9 DEF StoreBridge, TypeOK, serveVars
<1>10. CASE PickClient
  BY <1>10 DEF PickClient, TypeOK, serveVars
<1>11. CASE Push
  BY <1>11 DEF Push, TypeOK, serveVars, Write
<1>12. CASE UNCHANGED vars
  BY <1>12 DEF vars, serveVars, notifyVars, TypeOK
<1>13. QED
  BY <1>1, <1>2, <1>3, <1>4, <1>5, <1>6, <1>7, <1>8, <1>9, <1>10, <1>11, <1>12 DEF Next,
     Serve, Notify

\* Every step keeps the slot with the connection that is served.
LEMMA SlotStep == TypeOK /\ SlotIsServed /\ [Next]_vars => SlotIsServed'
<1> SUFFICES ASSUME TypeOK /\ SlotIsServed, [Next]_vars PROVE SlotIsServed'
  OBVIOUS
<1>1. ASSUME NEW c \in Conns, CheckSlot(c) PROVE SlotIsServed'
  BY <1>1 DEF CheckSlot, SlotIsServed, Holding, MoveTo
<1>2. ASSUME NEW c \in Conns, Upgrade(c) PROVE SlotIsServed'
  BY <1>2 DEF Upgrade, TypeOK, SlotIsServed, Holding, MoveTo
<1>3. ASSUME NEW c \in Conns, Register(c) PROVE SlotIsServed'
  BY <1>3, NoneIsNoConn DEF Register, TypeOK, SlotIsServed, Holding, MoveTo
<1>4. ASSUME NEW c \in Conns, LoadBridge(c) PROVE SlotIsServed'
  BY <1>4 DEF LoadBridge, SlotIsServed, Holding, MoveTo
<1>5. ASSUME NEW c \in Conns, Greet(c) PROVE SlotIsServed'
  BY <1>5 DEF Greet, SlotIsServed, Holding, MoveTo, Write
<1>6. ASSUME NEW c \in Conns, ReadFails(c) PROVE SlotIsServed'
  BY <1>6 DEF ReadFails, SlotIsServed, Holding, MoveTo
<1>7. ASSUME NEW c \in Conns, Leave(c) PROVE SlotIsServed'
  BY <1>7, NoneIsNoConn DEF Leave, TypeOK, SlotIsServed, Holding, MoveTo
<1>8. ASSUME NEW c \in Conns, PeerLeaves(c) PROVE SlotIsServed'
  BY <1>8 DEF PeerLeaves, SlotIsServed, serveVars
<1>9. CASE StoreBridge
  BY <1>9 DEF StoreBridge, SlotIsServed, serveVars
<1>10. CASE PickClient
  BY <1>10 DEF PickClient, SlotIsServed, serveVars
<1>11. CASE Push
  BY <1>11 DEF Push, SlotIsServed, serveVars, Write
<1>12. CASE UNCHANGED vars
  BY <1>12 DEF vars, serveVars, SlotIsServed
<1>13. QED
  BY <1>1, <1>2, <1>3, <1>4, <1>5, <1>6, <1>7, <1>8, <1>9, <1>10, <1>11, <1>12 DEF Next,
     Serve, Notify

\* Every step keeps a target for the push.
LEMMA TargetStep == TypeOK /\ TargetInv /\ [Next]_vars => TargetInv'
<1> SUFFICES ASSUME TypeOK /\ TargetInv, [Next]_vars PROVE TargetInv'
  OBVIOUS
<1>1. ASSUME NEW c \in Conns, CheckSlot(c) PROVE TargetInv'
  BY <1>1 DEF CheckSlot, TargetInv, notifyVars
<1>2. ASSUME NEW c \in Conns, Upgrade(c) PROVE TargetInv'
  BY <1>2 DEF Upgrade, TargetInv, notifyVars
<1>3. ASSUME NEW c \in Conns, Register(c) PROVE TargetInv'
  BY <1>3 DEF Register, TargetInv, notifyVars
<1>4. ASSUME NEW c \in Conns, LoadBridge(c) PROVE TargetInv'
  BY <1>4 DEF LoadBridge, TargetInv, notifyVars
<1>5. ASSUME NEW c \in Conns, Greet(c) PROVE TargetInv'
  BY <1>5 DEF Greet, TargetInv, Write, notifyVars
<1>6. ASSUME NEW c \in Conns, ReadFails(c) PROVE TargetInv'
  BY <1>6 DEF ReadFails, TargetInv, notifyVars
<1>7. ASSUME NEW c \in Conns, Leave(c) PROVE TargetInv'
  BY <1>7 DEF Leave, TargetInv, notifyVars
<1>8. ASSUME NEW c \in Conns, PeerLeaves(c) PROVE TargetInv'
  BY <1>8 DEF PeerLeaves, TargetInv, notifyVars
<1>9. CASE StoreBridge
  BY <1>9 DEF StoreBridge, TargetInv
<1>10. CASE PickClient
  BY <1>10 DEF PickClient, TypeOK, TargetInv
<1>11. CASE Push
  BY <1>11 DEF Push, TargetInv, Write
<1>12. CASE UNCHANGED vars
  BY <1>12 DEF vars, notifyVars, TargetInv
<1>13. QED
  BY <1>1, <1>2, <1>3, <1>4, <1>5, <1>6, <1>7, <1>8, <1>9, <1>10, <1>11, <1>12 DEF Next,
     Serve, Notify

\* Every step keeps those who came late up to date.
LEMMA LateStep == TypeOK /\ SlotIsServed /\ LateComers /\ [Next]_vars => LateComers'
<1> SUFFICES ASSUME TypeOK /\ SlotIsServed /\ LateComers, [Next]_vars PROVE LateComers'
  OBVIOUS
<1>1. ASSUME NEW c \in Conns, CheckSlot(c) PROVE LateComers'
  BY <1>1 DEF CheckSlot, LateComers, MoveTo, notifyVars
<1>2. ASSUME NEW c \in Conns, Upgrade(c) PROVE LateComers'
  BY <1>2 DEF Upgrade, TypeOK, LateComers, MoveTo, notifyVars
<1>3. ASSUME NEW c \in Conns, Register(c) PROVE LateComers'
  BY <1>3 DEF Register, TypeOK, LateComers, MoveTo, notifyVars
<1>4. ASSUME NEW c \in Conns, LoadBridge(c) PROVE LateComers'
  BY <1>4 DEF LoadBridge, TypeOK, LateComers, MoveTo, notifyVars
<1>5. ASSUME NEW c \in Conns, Greet(c) PROVE LateComers'
  BY <1>5 DEF Greet, LateComers, MoveTo, Write, notifyVars
<1>6. ASSUME NEW c \in Conns, ReadFails(c) PROVE LateComers'
  BY <1>6 DEF ReadFails, LateComers, MoveTo, notifyVars
<1>7. ASSUME NEW c \in Conns, Leave(c) PROVE LateComers'
  BY <1>7 DEF Leave, LateComers, MoveTo, notifyVars
<1>8. ASSUME NEW c \in Conns, PeerLeaves(c) PROVE LateComers'
  BY <1>8 DEF PeerLeaves, LateComers, serveVars, notifyVars
<1>9. CASE StoreBridge
  BY <1>9 DEF StoreBridge, LateComers
<1>10. CASE PickClient
  BY <1>10 DEF PickClient, SlotIsServed, Holding, LateComers, serveVars
<1>11. CASE Push
  BY <1>11 DEF Push, LateComers, Write
<1>12. CASE UNCHANGED vars
  BY <1>12 DEF vars, serveVars, notifyVars, LateComers
<1>13. QED
  BY <1>1, <1>2, <1>3, <1>4, <1>5, <1>6, <1>7, <1>8, <1>9, <1>10, <1>11, <1>12 DEF Next,
     Serve, Notify

\* Every step keeps what the clients show accounted for.
LEMMA ShownStep == TypeOK /\ SlotIsServed /\ TargetInv /\ LateComers /\ Shown /\ [Next]_vars => Shown'
<1> SUFFICES ASSUME TypeOK /\ SlotIsServed /\ TargetInv /\ LateComers /\ Shown, [Next]_vars PROVE Shown'
  OBVIOUS
<1>1. ASSUME NEW c \in Conns, CheckSlot(c) PROVE Shown'
  BY <1>1 DEF CheckSlot, Shown, MoveTo, notifyVars
<1>2. ASSUME NEW c \in Conns, Upgrade(c) PROVE Shown'
  BY <1>2 DEF Upgrade, TypeOK, Shown, MoveTo, notifyVars
<1>3. ASSUME NEW c \in Conns, Register(c) PROVE Shown'
  BY <1>3 DEF Register, TypeOK, Shown, MoveTo, notifyVars
<1>4. ASSUME NEW c \in Conns, LoadBridge(c) PROVE Shown'
  BY <1>4 DEF LoadBridge, Shown, MoveTo, notifyVars
<1>5. ASSUME NEW c \in Conns, Greet(c) PROVE Shown'
  BY <1>5 DEF Greet, TypeOK, SlotIsServed, Shown, MoveTo, Write
<1>6. ASSUME NEW c \in Conns, ReadFails(c) PROVE Shown'
  BY <1>6 DEF ReadFails, Shown, MoveTo, notifyVars
<1>7. ASSUME NEW c \in Conns, Leave(c) PROVE Shown'
  BY <1>7 DEF Leave, Shown, MoveTo, notifyVars
<1>8. ASSUME NEW c \in Conns, PeerLeaves(c) PROVE Shown'
  BY <1>8 DEF PeerLeaves, Shown, serveVars, notifyVars
<1>9. CASE StoreBridge
  BY <1>9 DEF StoreBridge, Shown
<1>10. CASE PickClient
  BY <1>10, NoneIsNoConn DEF PickClient, SlotIsServed, Holding, Shown, serveVars
<1>11. CASE Push
  BY <1>11 DEF Push, TypeOK, Shown, serveVars, Write
<1>12. CASE UNCHANGED vars
  BY <1>12 DEF vars, serveVars, notifyVars, Shown
<1>13. QED
  BY <1>1, <1>2, <1>3, <1>4, <1>5, <1>6, <1>7, <1>8, <1>9, <1>10, <1>11, <1>12 DEF Next,
     Serve, Notify

\* The inductive invariant holds in every reachable state.
THEOREM Inductive == Spec => []IInv
<1>1. Init => IInv
  BY NoneIsNoConn DEF Init, IInv, TypeOK, SlotIsServed, TargetInv, LateComers, Shown,
     Status, Holding
<1>2. IInv /\ [Next]_vars => IInv'
  BY TypeStep, SlotStep, TargetStep, LateStep, ShownStep DEF IInv
<1>3. QED
  BY <1>1, <1>2, PTL DEF Spec

\* Type correctness, for any number of connections.
THEOREM Typing == Spec => []TypeOK
<1>1. IInv => TypeOK
  BY DEF IInv
<1>2. QED
  BY <1>1, Inductive, PTL

\* The slot is the connection that is served, and nobody else's.
THEOREM SlotHeldByServed == Spec => []SlotIsServed
<1>1. IInv => SlotIsServed
  BY DEF IInv
<1>2. QED
  BY <1>1, Inductive, PTL

\* Two handshakes that both passed the first check never both register.
THEOREM OneClient == Spec => []OneServed
<1>1. IInv => OneServed
  BY DEF IInv, SlotIsServed, OneServed
<1>2. QED
  BY <1>1, Inductive, PTL

\* A push never leaves a terminal UI with the wrong state of the bridge.
THEOREM PushIsRight == Spec => []OnlyGreetingMisleads
<1>1. IInv => OnlyGreetingMisleads
  BY DEF IInv, Shown, OnlyGreetingMisleads
<1>2. QED
  BY <1>1, Inductive, PTL

-----------------------------------------------------------------------------
(* A connection is served once.                                            *)

\* How many steps a ServeClient goroutine takes at most to its end.
StepsLeft ==
    [new |-> 7, checked |-> 6, upgraded |-> 5, registered |-> 4, greeting |-> 3,
     serving |-> 2, closing |-> 1, left |-> 0, refused |-> 0]

\* A ServeClient goroutine only goes on, no step but its own moves it, and a
\* socket that was closed after the handshake stays closed, so that its slot is
\* given up and never held again by the same connection (hub.go:138-191).
ServedOnce ==
    \A c \in Conns :
        /\ Serve(c) => StepsLeft[pc'[c]] < StepsLeft[pc[c]]
        /\ ~Serve(c) => pc'[c] = pc[c]
        /\ pc[c] \notin {"new", "checked"} /\ ~open[c] => ~open'[c]
        /\ client = c /\ client' # c => pc'[c] = "left"
ConnectionsServedOnce == [][ServedOnce]_vars

\* A step of ServeClient moves its connection, alone, nearer to its end.
LEMMA ServeMoves ==
    ASSUME NEW c \in Conns, TypeOK, Serve(c)
    PROVE  /\ StepsLeft[pc'[c]] < StepsLeft[pc[c]]
           /\ \A d \in Conns \ {c} : pc'[d] = pc[d] /\ open'[d] = open[d]
           /\ pc[c] \notin {"new", "checked"} /\ ~open[c] => ~open'[c]
<1> USE DEF TypeOK, MoveTo, StepsLeft
<1>1. CASE CheckSlot(c)
  BY <1>1 DEF CheckSlot
<1>2. CASE Upgrade(c)
  BY <1>2 DEF Upgrade
<1>3. CASE Register(c)
  BY <1>3 DEF Register
<1>4. CASE LoadBridge(c) \/ Greet(c) \/ ReadFails(c)
  BY <1>4 DEF LoadBridge, Greet, ReadFails
<1>5. CASE Leave(c)
  BY <1>5 DEF Leave
<1>6. QED
  BY <1>1, <1>2, <1>3, <1>4, <1>5 DEF Serve

\* The slot is given up by the teardown of the connection that holds it.
LEMMA GivenUpByTeardown ==
    ASSUME NEW c \in Conns, NEW d \in Conns, TypeOK, Serve(d), client = c, client' # c
    PROVE  pc'[c] = "left"
<1>1. Register(d) \/ Leave(d)
  BY DEF Serve, CheckSlot, Upgrade, LoadBridge, Greet, ReadFails
<1>2. ~Register(d)
  BY NoneIsNoConn DEF Register
<1>3. Leave(d) /\ d = c
  BY <1>1, <1>2 DEF Leave
<1>4. QED
  BY <1>3 DEF Leave, MoveTo, TypeOK

\* Each GET /ws/client runs once from its check to its end, and gives up the slot
\* at the end only, however its socket was lost and whatever the others do.
THEOREM NoConnectionComesBack == Spec => ConnectionsServedOnce
<1>a. ASSUME TypeOK, UNCHANGED pc PROVE \A c \in Conns : ~Serve(c)
  <2>1. SUFFICES ASSUME NEW c \in Conns, Serve(c) PROVE FALSE
    OBVIOUS
  <2>2. StepsLeft[pc[c]] < StepsLeft[pc[c]]
    BY <1>a, <2>1, ServeMoves
  <2>3. StepsLeft[pc[c]] \in Nat
    BY <1>a DEF TypeOK, StepsLeft, Holding
  <2>4. QED
    BY <2>2, <2>3
<1>1. IInv /\ [Next]_vars => [ServedOnce]_vars
  <2> SUFFICES ASSUME TypeOK, Next PROVE ServedOnce
    BY DEF IInv
  <2>1. ASSUME NEW d \in Conns, Serve(d) PROVE ServedOnce
    <3> SUFFICES ASSUME NEW c \in Conns
                 PROVE  /\ Serve(c) => StepsLeft[pc'[c]] < StepsLeft[pc[c]]
                        /\ ~Serve(c) => pc'[c] = pc[c]
                        /\ pc[c] \notin {"new", "checked"} /\ ~open[c] => ~open'[c]
                        /\ client = c /\ client' # c => pc'[c] = "left"
      BY DEF ServedOnce
    <3>1. Serve(c) => StepsLeft[pc'[c]] < StepsLeft[pc[c]]
      BY ServeMoves
    <3>2. ~Serve(c) => pc'[c] = pc[c]
      BY <2>1, ServeMoves
    <3>3. pc[c] \notin {"new", "checked"} /\ ~open[c] => ~open'[c]
      BY <2>1, ServeMoves
    <3>4. client = c /\ client' # c => pc'[c] = "left"
      BY <2>1, GivenUpByTeardown
    <3>5. QED
      BY <3>1, <3>2, <3>3, <3>4
  <2>2. ASSUME NEW d \in Conns, PeerLeaves(d) PROVE ServedOnce
    <3>1. UNCHANGED <<pc, client>> /\ \A c \in Conns : ~open[c] => ~open'[c]
      BY <2>2 DEF PeerLeaves, serveVars, TypeOK
    <3>2. QED
      BY <1>a, <3>1 DEF ServedOnce
  <2>3. CASE Notify
    <3>1. UNCHANGED <<pc, client, open>>
      BY <2>3 DEF Notify, StoreBridge, PickClient, Push, serveVars
    <3>2. QED
      BY <1>a, <3>1 DEF ServedOnce
  <2>4. QED
    BY <2>1, <2>2, <2>3 DEF Next
<1>2. QED
  BY <1>1, Inductive, PTL DEF Spec, ConnectionsServedOnce
=============================================================================
