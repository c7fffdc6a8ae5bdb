------------------------- MODULE RosbridgeClientProofs -------------------------
(***************************************************************************)
(* Proofs about RosbridgeClient, for any set of calls and any number of    *)
(* reconnections: type correctness, and the safety invariants of the call  *)
(* protocol from one inductive invariant; and that the client implements   *)
(* CallContract: every step of it is a step of the contract or changes     *)
(* nothing in it.                                                          *)
(***************************************************************************)
EXTENDS RosbridgeClient, TLAPS

\* The stages of the connection goroutine determine the socket, the flag and
\* what the read loop carries.
LinkInv ==
    /\ ws <=> link \in {"flag", "read", "deliver", "lower", "close"}
    /\ up => link \in {"opened", "flag", "read", "deliver", "lower", "close"}
    /\ connected => link \in {"read", "deliver", "lower"}
    /\ requests # {} => up /\ ws
    /\ hand # None <=> link = "deliver"

\* Ids come from the sequence number, are never shared, and every entry,
\* request and carried answer bears the id of the call it belongs to.
IdInv ==
    /\ \A k \in Calls : id[k] <= reqSeq
    /\ \A k \in Calls : (pc[k] \in {"idle", "checked"} => id[k] = 0)
                      /\ (pc[k] \in InCall => id[k] # 0)
    /\ \A j, k \in Calls : id[j] = id[k] /\ id[j] # 0 => j = k
    /\ \A p \in pending : id[p.call] = p.id /\ p.id # 0 /\ pc[p.call] \in InCall
    /\ \A m \in requests : id[m.call] = m.id /\ m.id # 0

\* Each call has one request, which is at the middleware, in the hands of the
\* read loop, in the channel, or gone.
TokenInv ==
    /\ \A k \in Calls : chan[k].buf # None => chan[k].buf.call = k
                                           /\ pc[k] \in {"waiting", "cleanup", "done"}
    /\ \A m \in requests : chan[m.call].buf = None /\ pc[m.call] \in {"waiting", "cleanup", "done"}
    /\ hand # None => /\ hand.call = hand.answer.call
                      /\ pc[hand.call] \in {"waiting", "cleanup", "done"}
                      /\ chan[hand.call].buf = None
                      /\ chan[hand.call].open
                      /\ \A m \in requests : m.call # hand.call

\* A channel is open exactly as long as the sweep has not taken its entry.
OpenInv ==
    /\ \A k \in Calls : pc[k] \in {"idle", "checked"} => chan[k].open
    /\ \A p \in pending : chan[p.call].open
    /\ \A k \in Calls : pc[k] \in {"registered", "waiting"} /\ chan[k].open
                            => \E p \in pending : p.call = k

IInv == TypeOK /\ LinkInv /\ IdInv /\ TokenInv /\ OpenInv /\ NoStrandedCall
-----------------------------------------------------------------------------
\* Every step keeps the types.
LEMMA TypeStep == TypeOK /\ LinkInv /\ [Next]_vars => TypeOK'
<1> SUFFICES ASSUME TypeOK /\ LinkInv, [Next]_vars PROVE TypeOK'
  OBVIOUS
<1>1. CASE DialSucceeds
  BY <1>1 DEF DialSucceeds, TypeOK, callVars
<1>2. CASE DialFails
  BY <1>2 DEF DialFails, AfterError, TypeOK, callVars
<1>3. CASE Retry
  BY <1>3 DEF Retry, TypeOK, callVars
<1>4. CASE InstallSocket
  BY <1>4 DEF InstallSocket, TypeOK, Serving, callVars
<1>5. CASE RaiseFlag
  BY <1>5 DEF RaiseFlag, TypeOK, Serving, callVars
<1>6. ASSUME NEW m \in requests, NEW ok \in BOOLEAN, ReadResponse(m, ok) PROVE TypeOK'
  BY <1>6 DEF ReadResponse, TypeOK, Answers, Requests, Serving, callVars
<1>7. CASE Deliver
  BY <1>7 DEF Deliver, TypeOK, Serving, callVars, LinkInv
<1>8. CASE ReadFails
  BY <1>8 DEF ReadFails, TypeOK, TearingDown, callVars
<1>9. CASE LowerFlag
  BY <1>9 DEF LowerFlag, TypeOK, TearingDown, callVars
<1>10. CASE CloseSocket
  BY <1>10 DEF CloseSocket, TypeOK, TearingDown, callVars
<1>11. CASE SweepPending
  BY <1>11 DEF SweepPending, AfterError, CloseAll, TypeOK, callVars
<1>12. ASSUME NEW k \in Calls, CheckConnected(k) PROVE TypeOK'
  BY <1>12 DEF CheckConnected, Return, TypeOK, linkVars
<1>13. ASSUME NEW k \in Calls, Register(k) PROVE TypeOK'
  BY <1>13 DEF Register, TypeOK, Requests, InCall, linkVars
<1>14. ASSUME NEW k \in Calls, SendReaches(k) PROVE TypeOK'
  BY <1>14 DEF SendReaches, TypeOK, Requests, InCall, linkVars
<1>15. ASSUME NEW k \in Calls, SendLost(k) PROVE TypeOK'
  BY <1>15 DEF SendLost, TypeOK, InCall, linkVars
<1>16. ASSUME NEW k \in Calls, SendFails(k) PROVE TypeOK'
  BY <1>16 DEF SendFails, Return, TypeOK, InCall, linkVars
<1>17. ASSUME NEW k \in Calls, ReceiveAnswer(k) PROVE TypeOK'
  BY <1>17 DEF ReceiveAnswer, Return, TypeOK, InCall, linkVars
<1>18. ASSUME NEW k \in Calls, SeeClosed(k) PROVE TypeOK'
  BY <1>18 DEF SeeClosed, Return, TypeOK, InCall, linkVars
<1>19. ASSUME NEW k \in Calls, Timeout(k) PROVE TypeOK'
  BY <1>19 DEF Timeout, Return, TypeOK, InCall, linkVars
<1>20. ASSUME NEW k \in Calls, Unregister(k) PROVE TypeOK'
  BY <1>20 DEF Unregister, TypeOK, linkVars
<1>21. CASE LinkDrops
  BY <1>21 DEF LinkDrops, TypeOK, callVars
<1>22. CASE Cancel
  BY <1>22 DEF Cancel, TypeOK, callVars
<1>23. CASE UNCHANGED vars
  BY <1>23 DEF TypeOK, vars, linkVars, callVars
<1>24. QED
  BY <1>1, <1>2, <1>3, <1>4, <1>5, <1>6, <1>7, <1>8, <1>9, <1>10, <1>11, <1>12, <1>13, <1>14,
     <1>15, <1>16, <1>17, <1>18, <1>19, <1>20, <1>21, <1>22, <1>23 DEF Next, LinkStep, CallStep,
     Ended

\* Every step keeps the stages of the connection goroutine consistent.
LEMMA LinkStepInv == TypeOK /\ LinkInv /\ [Next]_vars => LinkInv'
<1> SUFFICES ASSUME TypeOK /\ LinkInv, [Next]_vars PROVE LinkInv'
  OBVIOUS
<1>1. CASE DialSucceeds
  BY <1>1 DEF DialSucceeds, TypeOK, LinkInv
<1>2. CASE DialFails
  BY <1>2 DEF DialFails, AfterError, TypeOK, LinkInv
<1>3. CASE Retry
  BY <1>3 DEF Retry, TypeOK, LinkInv
<1>4. CASE InstallSocket
  BY <1>4 DEF InstallSocket, TypeOK, LinkInv
<1>5. CASE RaiseFlag
  BY <1>5 DEF RaiseFlag, TypeOK, LinkInv
<1>6. ASSUME NEW m \in requests, NEW ok \in BOOLEAN, ReadResponse(m, ok) PROVE LinkInv'
  BY <1>6, NoneIsNoHand DEF ReadResponse, TypeOK, Requests, LinkInv
<1>7. CASE Deliver
  BY <1>7 DEF Deliver, TypeOK, LinkInv
<1>8. CASE ReadFails
  BY <1>8 DEF ReadFails, TypeOK, LinkInv
<1>9. CASE LowerFlag
  BY <1>9 DEF LowerFlag, TypeOK, LinkInv
<1>10. CASE CloseSocket
  BY <1>10 DEF CloseSocket, TypeOK, LinkInv
<1>11. CASE SweepPending
  BY <1>11 DEF SweepPending, AfterError, CloseAll, TypeOK, LinkInv
<1>12. ASSUME NEW k \in Calls, CheckConnected(k) PROVE LinkInv'
  BY <1>12 DEF CheckConnected, Return, TypeOK, linkVars, LinkInv
<1>13. ASSUME NEW k \in Calls, Register(k) PROVE LinkInv'
  BY <1>13 DEF Register, TypeOK, linkVars, LinkInv
<1>14. ASSUME NEW k \in Calls, SendReaches(k) PROVE LinkInv'
  BY <1>14 DEF SendReaches, TypeOK, linkVars, LinkInv
<1>15. ASSUME NEW k \in Calls, SendLost(k) PROVE LinkInv'
  BY <1>15 DEF SendLost, TypeOK, linkVars, LinkInv
<1>16. ASSUME NEW k \in Calls, SendFails(k) PROVE LinkInv'
  BY <1>16 DEF SendFails, Return, TypeOK, linkVars, LinkInv
<1>17. ASSUME NEW k \in Calls, ReceiveAnswer(k) PROVE LinkInv'
  BY <1>17 DEF ReceiveAnswer, Return, TypeOK, linkVars, LinkInv
<1>18. ASSUME NEW k \in Calls, SeeClosed(k) PROVE LinkInv'
  BY <1>18 DEF SeeClosed, Return, TypeOK, linkVars, LinkInv
<1>19. ASSUME NEW k \in Calls, Timeout(k) PROVE LinkInv'
  BY <1>19 DEF Timeout, Return, TypeOK, linkVars, LinkInv
<1>20. ASSUME NEW k \in Calls, Unregister(k) PROVE LinkInv'
  BY <1>20 DEF Unregister, TypeOK, linkVars, LinkInv
<1>21. CASE LinkDrops
  BY <1>21 DEF LinkDrops, TypeOK, LinkInv
<1>22. CASE Cancel
  BY <1>22 DEF Cancel, TypeOK, LinkInv
<1>23. CASE UNCHANGED vars
  BY <1>23 DEF TypeOK, vars, linkVars, LinkInv
<1>24. QED
  BY <1>1, <1>2, <1>3, <1>4, <1>5, <1>6, <1>7, <1>8, <1>9, <1>10, <1>11, <1>12, <1>13, <1>14,
     <1>15, <1>16, <1>17, <1>18, <1>19, <1>20, <1>21, <1>22, <1>23 DEF Next, LinkStep, CallStep,
     Ended

\* Every step keeps the ids apart.
LEMMA IdStep == TypeOK /\ LinkInv /\ IdInv /\ [Next]_vars => IdInv'
<1> SUFFICES ASSUME TypeOK /\ LinkInv /\ IdInv, [Next]_vars PROVE IdInv'
  OBVIOUS
<1>1. CASE DialSucceeds
  BY <1>1 DEF DialSucceeds, TypeOK, callVars, IdInv
<1>2. CASE DialFails
  BY <1>2 DEF DialFails, AfterError, TypeOK, callVars, IdInv
<1>3. CASE Retry
  BY <1>3 DEF Retry, TypeOK, callVars, IdInv
<1>4. CASE InstallSocket
  BY <1>4 DEF InstallSocket, TypeOK, callVars, IdInv
<1>5. CASE RaiseFlag
  BY <1>5 DEF RaiseFlag, TypeOK, callVars, IdInv
<1>6. ASSUME NEW m \in requests, NEW ok \in BOOLEAN, ReadResponse(m, ok) PROVE IdInv'
  BY <1>6 DEF ReadResponse, TypeOK, callVars, IdInv
<1>7. CASE Deliver
  BY <1>7 DEF Deliver, TypeOK, callVars, IdInv
<1>8. CASE ReadFails
  BY <1>8 DEF ReadFails, TypeOK, callVars, IdInv
<1>9. CASE LowerFlag
  BY <1>9 DEF LowerFlag, TypeOK, callVars, IdInv
<1>10. CASE CloseSocket
  BY <1>10 DEF CloseSocket, TypeOK, callVars, IdInv
<1>11. CASE SweepPending
  BY <1>11 DEF SweepPending, AfterError, CloseAll, TypeOK, callVars, IdInv
<1>12. ASSUME NEW k \in Calls, CheckConnected(k) PROVE IdInv'
  BY <1>12 DEF CheckConnected, Return, TypeOK, Requests, InCall, IdInv
<1>13. ASSUME NEW k \in Calls, Register(k) PROVE IdInv'
  BY <1>13 DEF Register, TypeOK, InCall, IdInv
<1>14. ASSUME NEW k \in Calls, SendReaches(k) PROVE IdInv'
  BY <1>14 DEF SendReaches, TypeOK, InCall, IdInv
<1>15. ASSUME NEW k \in Calls, SendLost(k) PROVE IdInv'
  BY <1>15 DEF SendLost, TypeOK, InCall, IdInv
<1>16. ASSUME NEW k \in Calls, SendFails(k) PROVE IdInv'
  BY <1>16 DEF SendFails, Return, TypeOK, InCall, IdInv
<1>17. ASSUME NEW k \in Calls, ReceiveAnswer(k) PROVE IdInv'
  BY <1>17 DEF ReceiveAnswer, Return, TypeOK, InCall, IdInv
<1>18. ASSUME NEW k \in Calls, SeeClosed(k) PROVE IdInv'
  BY <1>18 DEF SeeClosed, Return, TypeOK, InCall, IdInv
<1>19. ASSUME NEW k \in Calls, Timeout(k) PROVE IdInv'
  BY <1>19 DEF Timeout, Return, TypeOK, InCall, IdInv
<1>20. ASSUME NEW k \in Calls, Unregister(k) PROVE IdInv'
  BY <1>20 DEF Unregister, TypeOK, IdInv
<1>21. CASE LinkDrops
  BY <1>21 DEF LinkDrops, TypeOK, callVars, IdInv
<1>22. CASE Cancel
  BY <1>22 DEF Cancel, TypeOK, callVars, IdInv
<1>23. CASE UNCHANGED vars
  BY <1>23 DEF TypeOK, vars, callVars, IdInv
<1>24. QED
  BY <1>1, <1>2, <1>3, <1>4, <1>5, <1>6, <1>7, <1>8, <1>9, <1>10, <1>11, <1>12, <1>13, <1>14,
     <1>15, <1>16, <1>17, <1>18, <1>19, <1>20, <1>21, <1>22, <1>23 DEF Next, LinkStep, CallStep,
     Ended

\* Every step keeps the one request of each call in one place.
LEMMA TokenStep == TypeOK /\ LinkInv /\ IdInv /\ OpenInv /\ TokenInv /\ [Next]_vars => TokenInv'
<1> SUFFICES ASSUME TypeOK /\ LinkInv /\ IdInv /\ OpenInv /\ TokenInv, [Next]_vars PROVE TokenInv'
  OBVIOUS
<1>1. CASE DialSucceeds
  BY <1>1 DEF DialSucceeds, TypeOK, callVars, TokenInv
<1>2. CASE DialFails
  BY <1>2 DEF DialFails, AfterError, TypeOK, callVars, TokenInv
<1>3. CASE Retry
  BY <1>3 DEF Retry, TypeOK, callVars, TokenInv
<1>4. CASE InstallSocket
  BY <1>4 DEF InstallSocket, TypeOK, callVars, TokenInv
<1>5. CASE RaiseFlag
  BY <1>5 DEF RaiseFlag, TypeOK, callVars, TokenInv
<1>6. ASSUME NEW m \in requests, NEW ok \in BOOLEAN, ReadResponse(m, ok) PROVE TokenInv'
  BY <1>6 DEF ReadResponse, TypeOK, Requests, vars, callVars, IdInv, OpenInv, TokenInv
<1>7. CASE Deliver
  BY <1>7 DEF Deliver, TypeOK, callVars, LinkInv, TokenInv
<1>8. CASE ReadFails
  BY <1>8 DEF ReadFails, TypeOK, callVars, TokenInv
<1>9. CASE LowerFlag
  BY <1>9 DEF LowerFlag, TypeOK, callVars, TokenInv
<1>10. CASE CloseSocket
  BY <1>10 DEF CloseSocket, TypeOK, callVars, TokenInv
<1>11. CASE SweepPending
  BY <1>11 DEF SweepPending, AfterError, CloseAll, TypeOK, callVars, LinkInv, TokenInv
<1>12. ASSUME NEW k \in Calls, CheckConnected(k) PROVE TokenInv'
  BY <1>12 DEF CheckConnected, Return, TypeOK, Answers, Requests, linkVars, TokenInv
<1>13. ASSUME NEW k \in Calls, Register(k) PROVE TokenInv'
  BY <1>13 DEF Register, TypeOK, linkVars, TokenInv
<1>14. ASSUME NEW k \in Calls, SendReaches(k) PROVE TokenInv'
  BY <1>14 DEF SendReaches, TypeOK, linkVars, TokenInv
<1>15. ASSUME NEW k \in Calls, SendLost(k) PROVE TokenInv'
  BY <1>15 DEF SendLost, TypeOK, linkVars, TokenInv
<1>16. ASSUME NEW k \in Calls, SendFails(k) PROVE TokenInv'
  BY <1>16 DEF SendFails, Return, TypeOK, linkVars, TokenInv
<1>17. ASSUME NEW k \in Calls, ReceiveAnswer(k) PROVE TokenInv'
  BY <1>17 DEF ReceiveAnswer, Return, TypeOK, linkVars, TokenInv
<1>18. ASSUME NEW k \in Calls, SeeClosed(k) PROVE TokenInv'
  BY <1>18 DEF SeeClosed, Return, TypeOK, linkVars, TokenInv
<1>19. ASSUME NEW k \in Calls, Timeout(k) PROVE TokenInv'
  BY <1>19 DEF Timeout, Return, TypeOK, linkVars, TokenInv
<1>20. ASSUME NEW k \in Calls, Unregister(k) PROVE TokenInv'
  BY <1>20 DEF Unregister, TypeOK, linkVars, TokenInv
<1>21. CASE LinkDrops
  BY <1>21 DEF LinkDrops, TypeOK, callVars, TokenInv
<1>22. CASE Cancel
  BY <1>22 DEF Cancel, TypeOK, callVars, TokenInv
<1>23. CASE UNCHANGED vars
  BY <1>23 DEF TypeOK, vars, linkVars, callVars, TokenInv
<1>24. QED
  BY <1>1, <1>2, <1>3, <1>4, <1>5, <1>6, <1>7, <1>8, <1>9, <1>10, <1>11, <1>12, <1>13, <1>14,
     <1>15, <1>16, <1>17, <1>18, <1>19, <1>20, <1>21, <1>22, <1>23 DEF Next, LinkStep, CallStep,
     Ended

\* Every step keeps open channels and entries of the map together.
LEMMA OpenStep == TypeOK /\ LinkInv /\ IdInv /\ OpenInv /\ [Next]_vars => OpenInv'
<1> SUFFICES ASSUME TypeOK /\ LinkInv /\ IdInv /\ OpenInv, [Next]_vars PROVE OpenInv'
  OBVIOUS
<1>1. CASE DialSucceeds
  BY <1>1 DEF DialSucceeds, TypeOK, callVars, OpenInv
<1>2. CASE DialFails
  BY <1>2 DEF DialFails, AfterError, TypeOK, callVars, OpenInv
<1>3. CASE Retry
  BY <1>3 DEF Retry, TypeOK, callVars, OpenInv
<1>4. CASE InstallSocket
  BY <1>4 DEF InstallSocket, TypeOK, callVars, OpenInv
<1>5. CASE RaiseFlag
  BY <1>5 DEF RaiseFlag, TypeOK, callVars, OpenInv
<1>6. ASSUME NEW m \in requests, NEW ok \in BOOLEAN, ReadResponse(m, ok) PROVE OpenInv'
  BY <1>6 DEF ReadResponse, TypeOK, callVars, OpenInv
<1>7. CASE Deliver
  BY <1>7 DEF Deliver, TypeOK, callVars, OpenInv
<1>8. CASE ReadFails
  BY <1>8 DEF ReadFails, TypeOK, callVars, OpenInv
<1>9. CASE LowerFlag
  BY <1>9 DEF LowerFlag, TypeOK, callVars, OpenInv
<1>10. CASE CloseSocket
  BY <1>10 DEF CloseSocket, TypeOK, callVars, OpenInv
<1>11. CASE SweepPending
  BY <1>11 DEF SweepPending, AfterError, CloseAll, TypeOK, callVars, LinkInv, IdInv, OpenInv
<1>12. ASSUME NEW k \in Calls, CheckConnected(k) PROVE OpenInv'
  BY <1>12 DEF CheckConnected, Return, TypeOK, OpenInv
<1>13. ASSUME NEW k \in Calls, Register(k) PROVE OpenInv'
  <2>1. \A j \in Calls : pc'[j] \in {"idle", "checked"} => chan'[j].open
    BY <1>13 DEF Register, OpenInv, TypeOK
  <2>2. \A p \in pending' : chan'[p.call].open
    BY <1>13 DEF Register, OpenInv
  <2>3. ASSUME NEW j \in Calls, pc'[j] \in {"registered", "waiting"}, chan'[j].open
        PROVE  \E p \in pending' : p.call = j
    <3>1. CASE j = k
      <4>1. [id |-> reqSeq', call |-> k] \in pending'
        BY <1>13 DEF Register
      <4>2. QED
        BY <4>1, <3>1
    <3>2. CASE j # k
      <4>1. PICK p \in pending : p.call = j
        BY <1>13, <2>3, <3>2 DEF Register, OpenInv, TypeOK
      <4>2. p.id # reqSeq'
        BY <1>13, <4>1 DEF Register, IdInv, TypeOK
      <4>3. QED
        BY <1>13, <4>1, <4>2 DEF Register
    <3>3. QED
      BY <3>1, <3>2
  <2>4. QED
    BY <2>1, <2>2, <2>3 DEF OpenInv
<1>14. ASSUME NEW k \in Calls, SendReaches(k) PROVE OpenInv'
  BY <1>14 DEF SendReaches, TypeOK, OpenInv
<1>15. ASSUME NEW k \in Calls, SendLost(k) PROVE OpenInv'
  BY <1>15 DEF SendLost, TypeOK, OpenInv
<1>16. ASSUME NEW k \in Calls, SendFails(k) PROVE OpenInv'
  BY <1>16 DEF SendFails, Return, TypeOK, OpenInv
<1>17. ASSUME NEW k \in Calls, ReceiveAnswer(k) PROVE OpenInv'
  BY <1>17 DEF ReceiveAnswer, Return, TypeOK, OpenInv
<1>18. ASSUME NEW k \in Calls, SeeClosed(k) PROVE OpenInv'
  BY <1>18 DEF SeeClosed, Return, TypeOK, OpenInv
<1>19. ASSUME NEW k \in Calls, Timeout(k) PROVE OpenInv'
  BY <1>19 DEF Timeout, Return, TypeOK, OpenInv
<1>20. ASSUME NEW k \in Calls, Unregister(k) PROVE OpenInv'
  BY <1>20 DEF Unregister, TypeOK, Requests, IdInv, OpenInv
<1>21. CASE LinkDrops
  BY <1>21 DEF LinkDrops, TypeOK, callVars, OpenInv
<1>22. CASE Cancel
  BY <1>22 DEF Cancel, TypeOK, callVars, OpenInv
<1>23. CASE UNCHANGED vars
  BY <1>23 DEF TypeOK, vars, callVars, OpenInv
<1>24. QED
  BY <1>1, <1>2, <1>3, <1>4, <1>5, <1>6, <1>7, <1>8, <1>9, <1>10, <1>11, <1>12, <1>13, <1>14,
     <1>15, <1>16, <1>17, <1>18, <1>19, <1>20, <1>21, <1>22, <1>23 DEF Next, LinkStep, CallStep,
     Ended

\* No step strands a call.
LEMMA StrandedStep ==
    TypeOK /\ LinkInv /\ IdInv /\ OpenInv /\ TokenInv /\ NoStrandedCall /\ [Next]_vars
        => NoStrandedCall'
<1> SUFFICES ASSUME TypeOK /\ LinkInv /\ IdInv /\ OpenInv /\ TokenInv /\ NoStrandedCall,
                    [Next]_vars
             PROVE  NoStrandedCall'
  OBVIOUS
<1>1. CASE DialSucceeds
  BY <1>1 DEF DialSucceeds, TypeOK, TearingDown, Serving, callVars, NoStrandedCall, NoAnswerOnItsWay
<1>2. CASE DialFails
  BY <1>2 DEF DialFails, AfterError, TypeOK, TearingDown, Serving, callVars, NoStrandedCall,
     NoAnswerOnItsWay
<1>3. CASE Retry
  BY <1>3 DEF Retry, TypeOK, TearingDown, Serving, callVars, NoStrandedCall, NoAnswerOnItsWay
<1>4. CASE InstallSocket
  BY <1>4 DEF InstallSocket, TypeOK, TearingDown, Serving, callVars, NoStrandedCall,
     NoAnswerOnItsWay
<1>5. CASE RaiseFlag
  BY <1>5 DEF RaiseFlag, TypeOK, TearingDown, Serving, callVars, NoStrandedCall, NoAnswerOnItsWay
<1>6. ASSUME NEW m \in requests, NEW ok \in BOOLEAN, ReadResponse(m, ok) PROVE NoStrandedCall'
  BY <1>6, NoneIsNoHand DEF ReadResponse, TypeOK, Requests, TearingDown, callVars, LinkInv,
     IdInv, OpenInv, NoStrandedCall, NoAnswerOnItsWay
<1>7. CASE Deliver
  BY <1>7, NoneAssumption DEF Deliver, TypeOK, Answers, TearingDown, Serving, callVars,
     NoStrandedCall, NoAnswerOnItsWay
<1>8. CASE ReadFails
  BY <1>8 DEF ReadFails, TypeOK, TearingDown, callVars, NoStrandedCall, NoAnswerOnItsWay
<1>9. CASE LowerFlag
  BY <1>9 DEF LowerFlag, TypeOK, TearingDown, callVars, NoStrandedCall, NoAnswerOnItsWay
<1>10. CASE CloseSocket
  BY <1>10 DEF CloseSocket, TypeOK, TearingDown, callVars, OpenInv, NoStrandedCall, NoAnswerOnItsWay
<1>11. CASE SweepPending
  BY <1>11 DEF SweepPending, AfterError, CloseAll, TypeOK, callVars, LinkInv, NoStrandedCall,
     NoAnswerOnItsWay
<1>12. ASSUME NEW k \in Calls, CheckConnected(k) PROVE NoStrandedCall'
  BY <1>12 DEF CheckConnected, Return, TypeOK, linkVars, NoStrandedCall, NoAnswerOnItsWay
<1>13. ASSUME NEW k \in Calls, Register(k) PROVE NoStrandedCall'
  BY <1>13 DEF Register, TypeOK, linkVars, IdInv, NoStrandedCall, NoAnswerOnItsWay
<1>14. ASSUME NEW k \in Calls, SendReaches(k) PROVE NoStrandedCall'
  BY <1>14 DEF SendReaches, TypeOK, Requests, linkVars, IdInv, OpenInv, NoStrandedCall,
     NoAnswerOnItsWay
<1>15. ASSUME NEW k \in Calls, SendLost(k) PROVE NoStrandedCall'
  BY <1>15 DEF SendLost, TypeOK, linkVars, LinkInv, OpenInv, NoStrandedCall, NoAnswerOnItsWay
<1>16. ASSUME NEW k \in Calls, SendFails(k) PROVE NoStrandedCall'
  BY <1>16 DEF SendFails, Return, TypeOK, linkVars, NoStrandedCall, NoAnswerOnItsWay
<1>17. ASSUME NEW k \in Calls, ReceiveAnswer(k) PROVE NoStrandedCall'
  BY <1>17 DEF ReceiveAnswer, Return, TypeOK, linkVars, NoStrandedCall, NoAnswerOnItsWay
<1>18. ASSUME NEW k \in Calls, SeeClosed(k) PROVE NoStrandedCall'
  BY <1>18 DEF SeeClosed, Return, TypeOK, linkVars, NoStrandedCall, NoAnswerOnItsWay
<1>19. ASSUME NEW k \in Calls, Timeout(k) PROVE NoStrandedCall'
  BY <1>19 DEF Timeout, Return, TypeOK, linkVars, NoStrandedCall, NoAnswerOnItsWay
<1>20. ASSUME NEW k \in Calls, Unregister(k) PROVE NoStrandedCall'
  BY <1>20 DEF Unregister, TypeOK, linkVars, IdInv, TokenInv, NoStrandedCall, NoAnswerOnItsWay
<1>21. CASE LinkDrops
  <2> SUFFICES ASSUME NEW k \in Calls, pc'[k] = "waiting", NoAnswerOnItsWay(k)'
               PROVE  /\ \E p \in pending' : p.call = k
                      /\ link' \in TearingDown \/ (link' \in Serving /\ ~up')
    BY DEF NoStrandedCall
  <2>1. \E p \in pending : p.call = k
    BY <1>21 DEF LinkDrops, NoAnswerOnItsWay, OpenInv, callVars
  <2>2. CASE \E m \in requests : m.call = k
    BY <1>21, <2>1, <2>2 DEF LinkDrops, LinkInv, TearingDown, Serving
  <2>3. CASE \A m \in requests : m.call # k
    <3>1. pc[k] = "waiting" /\ NoAnswerOnItsWay(k)
      BY <1>21, <2>3 DEF LinkDrops, NoAnswerOnItsWay, callVars
    <3>2. QED
      BY <1>21, <2>1, <3>1 DEF LinkDrops, NoStrandedCall
  <2>4. QED
    BY <2>2, <2>3
<1>22. CASE Cancel
  BY <1>22 DEF Cancel, TypeOK, callVars, NoStrandedCall, NoAnswerOnItsWay
<1>23. CASE UNCHANGED vars
  BY <1>23 DEF TypeOK, vars, linkVars, callVars, NoStrandedCall, NoAnswerOnItsWay
<1>24. QED
  BY <1>1, <1>2, <1>3, <1>4, <1>5, <1>6, <1>7, <1>8, <1>9, <1>10, <1>11, <1>12, <1>13, <1>14,
     <1>15, <1>16, <1>17, <1>18, <1>19, <1>20, <1>21, <1>22, <1>23 DEF Next, LinkStep, CallStep,
     Ended


\* The inductive invariant holds in every reachable state.
THEOREM Inductive == Spec => []IInv
<1>1. Init => IInv
  <2> SUFFICES ASSUME Init PROVE IInv
    OBVIOUS
  <2>1. TypeOK
    BY DEF Init, TypeOK
  <2>2. LinkInv
    BY DEF Init, LinkInv
  <2>3. IdInv
    BY DEF Init, IdInv, InCall
  <2>4. TokenInv
    BY DEF Init, TokenInv
  <2>5. OpenInv
    BY DEF Init, OpenInv
  <2>6. NoStrandedCall
    BY DEF Init, NoStrandedCall
  <2>7. QED
    BY <2>1, <2>2, <2>3, <2>4, <2>5, <2>6 DEF IInv
<1>2. IInv /\ [Next]_vars => IInv'
  BY TypeStep, LinkStepInv, IdStep, TokenStep, OpenStep, StrandedStep DEF IInv
<1>3. QED
  BY <1>1, <1>2, PTL DEF Spec

\* Type correctness, for every set of calls.
THEOREM Typing == Spec => []TypeOK
<1>1. IInv => TypeOK
  BY DEF IInv
<1>2. QED
  BY <1>1, Inductive, PTL

\* The read loop never blocks on a full channel and never sends on a closed
\* one, although it uses the channel after it has released pendingMu.
THEOREM ReaderSafe == Spec => []ReaderNeverStuck
<1>1. IInv => ReaderNeverStuck
  BY DEF IInv, LinkInv, TokenInv, ReaderNeverStuck
<1>2. QED
  BY <1>1, Inductive, PTL

\* No call is handed the answer to another call's request.
THEOREM AnswersMatch == Spec => []OwnAnswerOnly
<1>1. IInv => OwnAnswerOnly
  BY DEF IInv, TokenInv, OwnAnswerOnly
<1>2. QED
  BY <1>1, Inductive, PTL

\* A call whose answer cannot come any more is always one that the teardown
\* under way, or the one that the broken socket will cause, releases.
THEOREM NoCallStranded == Spec => []NoStrandedCall
<1>1. IInv => NoStrandedCall
  BY DEF IInv
<1>2. QED
  BY <1>1, Inductive, PTL

\* No entry of the map outlives its call.
THEOREM NoLeak == Spec => []PendingAreInCall
<1>1. IInv => PendingAreInCall
  BY DEF IInv, IdInv, PendingAreInCall
<1>2. QED
  BY <1>1, Inductive, PTL

\* IsConnected implies an installed socket.
THEOREM FlagSafe == Spec => []ConnectedHasSocket
<1>1. IInv => ConnectedHasSocket
  BY DEF IInv, LinkInv, ConnectedHasSocket
<1>2. QED
  BY <1>1, Inductive, PTL

-----------------------------------------------------------------------------
(* The client implements CallContract.                                     *)

\* Nothing that could still answer k is anywhere in the system.
Settled(k) ==
    /\ chan[k].buf = None
    /\ \A m \in requests : m.call # k
    /\ hand # None => hand.call # k

\* What a call has returned bounds what can still be in flight for it.
ResultInv ==
    /\ \A k \in Calls : result[k] = "none" <=> pc[k] \in {"idle", "checked", "registered", "waiting"}
    /\ \A k \in Calls : result[k] = "closed" => ~chan[k].open
    /\ \A k \in Calls : result[k] \in {"ok", "failed", "sendFailed", "notConnected"} => Settled(k)

\* The verdict on a call, looked for only where the invariant lets it be.
OwnVerdict(k) ==
    IF result[k] \in {"ok", "failed"} THEN result[k]
    ELSE IF chan[k].buf # None THEN IF chan[k].buf.ok THEN "ok" ELSE "failed"
    ELSE IF hand # None /\ hand.call = k THEN IF hand.answer.ok THEN "ok" ELSE "failed"
    ELSE "none"

Agree == \A k \in Calls : Verdict(k) = OwnVerdict(k)
-----------------------------------------------------------------------------
\* Every step keeps what the results say of the answers in flight.
LEMMA ResultStep == IInv /\ ResultInv /\ [Next]_vars => ResultInv'
<1> SUFFICES ASSUME IInv, ResultInv, [Next]_vars PROVE ResultInv'
  OBVIOUS
<1> USE DEF IInv
<1>1. CASE DialSucceeds
  BY <1>1 DEF DialSucceeds, TypeOK, callVars, ResultInv, Settled
<1>2. CASE DialFails
  BY <1>2 DEF DialFails, AfterError, TypeOK, callVars, ResultInv, Settled
<1>3. CASE Retry
  BY <1>3 DEF Retry, TypeOK, callVars, ResultInv, Settled
<1>4. CASE InstallSocket
  BY <1>4 DEF InstallSocket, TypeOK, callVars, ResultInv, Settled
<1>5. CASE RaiseFlag
  BY <1>5 DEF RaiseFlag, TypeOK, callVars, ResultInv, Settled
<1>6. ASSUME NEW m \in requests, NEW ok \in BOOLEAN, ReadResponse(m, ok) PROVE ResultInv'
  BY <1>6 DEF ReadResponse, TypeOK, Requests, IdInv, callVars, ResultInv, Settled
<1>7. CASE Deliver
  BY <1>7 DEF Deliver, TypeOK, LinkInv, callVars, ResultInv, Settled
<1>8. CASE ReadFails
  BY <1>8 DEF ReadFails, TypeOK, callVars, ResultInv, Settled
<1>9. CASE LowerFlag
  BY <1>9 DEF LowerFlag, TypeOK, callVars, ResultInv, Settled
<1>10. CASE CloseSocket
  BY <1>10 DEF CloseSocket, TypeOK, callVars, ResultInv, Settled
<1>11. CASE SweepPending
  BY <1>11 DEF SweepPending, AfterError, CloseAll, TypeOK, callVars, ResultInv, Settled
<1>12. ASSUME NEW k \in Calls, CheckConnected(k) PROVE ResultInv'
  BY <1>12, SMTT(30) DEF CheckConnected, Return, TypeOK, TokenInv, linkVars, ResultInv, Settled
<1>13. ASSUME NEW k \in Calls, Register(k) PROVE ResultInv'
  BY <1>13 DEF Register, TypeOK, linkVars, ResultInv, Settled
<1>14. ASSUME NEW k \in Calls, SendReaches(k) PROVE ResultInv'
  BY <1>14 DEF SendReaches, TypeOK, Requests, linkVars, ResultInv, Settled
<1>15. ASSUME NEW k \in Calls, SendLost(k) PROVE ResultInv'
  BY <1>15 DEF SendLost, TypeOK, linkVars, ResultInv, Settled
<1>16. ASSUME NEW k \in Calls, SendFails(k) PROVE ResultInv'
  BY <1>16 DEF SendFails, Return, TypeOK, TokenInv, linkVars, ResultInv, Settled
<1>17. ASSUME NEW k \in Calls, ReceiveAnswer(k) PROVE ResultInv'
  BY <1>17 DEF ReceiveAnswer, Return, TypeOK, TokenInv, linkVars, ResultInv, Settled
<1>18. ASSUME NEW k \in Calls, SeeClosed(k) PROVE ResultInv'
  BY <1>18 DEF SeeClosed, Return, TypeOK, linkVars, ResultInv, Settled
<1>19. ASSUME NEW k \in Calls, Timeout(k) PROVE ResultInv'
  BY <1>19 DEF Timeout, Return, TypeOK, linkVars, ResultInv, Settled
<1>20. ASSUME NEW k \in Calls, Unregister(k) PROVE ResultInv'
  BY <1>20 DEF Unregister, TypeOK, InCall, linkVars, ResultInv, Settled
<1>21. CASE LinkDrops
  BY <1>21 DEF LinkDrops, TypeOK, callVars, ResultInv, Settled
<1>22. CASE Cancel
  BY <1>22 DEF Cancel, TypeOK, callVars, ResultInv, Settled
<1>23. CASE UNCHANGED vars
  BY <1>23 DEF TypeOK, vars, linkVars, callVars, ResultInv, Settled
<1>24. QED
  BY <1>1, <1>2, <1>3, <1>4, <1>5, <1>6, <1>7, <1>8, <1>9, <1>10, <1>11, <1>12, <1>13, <1>14, <1>15, <1>16, <1>17, <1>18, <1>19, <1>20, <1>21, <1>22, <1>23
     DEF Next, LinkStep, CallStep, Ended

\* The inductive invariant of the refinement.
THEOREM ResultsInductive == Spec => [](IInv /\ ResultInv)
<1>1. Init => ResultInv
  BY DEF Init, ResultInv, Settled
<1>2. IInv /\ ResultInv /\ [Next]_vars => ResultInv'
  BY ResultStep
<1>3. QED
  BY <1>1, <1>2, Inductive, PTL DEF Spec

\* The invariant leaves one place where the verdict on a call can be.
LEMMA Agreement == IInv => Agree
<1> SUFFICES ASSUME IInv, NEW k \in Calls PROVE Verdict(k) = OwnVerdict(k)
  BY DEF Agree
<1>1. ASSUME NEW j \in Calls, chan[j].buf # None PROVE chan[j].buf \in Answers /\ chan[j].buf.call = j
  BY <1>1 DEF IInv, TypeOK, TokenInv
<1>2. ASSUME hand # None
      PROVE hand.answer \in Answers /\ hand.answer.call = hand.call /\ chan[hand.call].buf = None
  BY <1>2 DEF IInv, TypeOK, TokenInv
<1>3. \A a \in Held : a.call = k <=> (chan[k].buf # None /\ a = chan[k].buf)
                                      \/ (hand # None /\ hand.call = k /\ a = hand.answer)
  BY <1>1, <1>2 DEF Held
<1>4. ASSUME NEW a \in Answers PROVE a = [call |-> a.call, ok |-> a.ok] /\ a.ok \in BOOLEAN
  BY <1>4 DEF Answers
<1>5. CASE chan[k].buf # None
  <2>1. chan[k].buf \in Held
    BY <1>5 DEF Held
  <2>2. hand # None => hand.call # k
    BY <1>2, <1>5
  <2>3. \A v \in BOOLEAN : [call |-> k, ok |-> v] \in Held <=> v = chan[k].buf.ok
    BY <1>1, <1>3, <1>4, <1>5, <2>1, <2>2
  <2>4. QED
    BY <1>1, <1>4, <1>5, <2>3 DEF Verdict, OwnVerdict
<1>6. CASE chan[k].buf = None /\ hand # None /\ hand.call = k
  <2>1. hand.answer \in Held
    BY <1>6 DEF Held
  <2>2. \A v \in BOOLEAN : [call |-> k, ok |-> v] \in Held <=> v = hand.answer.ok
    BY <1>2, <1>3, <1>4, <1>6, <2>1
  <2>3. QED
    BY <1>2, <1>4, <1>6, <2>2 DEF Verdict, OwnVerdict
<1>7. CASE chan[k].buf = None /\ ~(hand # None /\ hand.call = k)
  <2>1. \A v \in BOOLEAN : [call |-> k, ok |-> v] \notin Held
    BY <1>3, <1>7
  <2>2. QED
    BY <1>7, <2>1 DEF Verdict, OwnVerdict
<1>8. QED
  BY <1>5, <1>6, <1>7

\* A step that leaves ids, results and verdicts alone is none of the contract's.
LEMMA Unseen ==
    IInv /\ IInv' /\ id' = id /\ result' = result /\ (\A k \in Calls : OwnVerdict(k)' = OwnVerdict(k))
        => UNCHANGED Contract!vars
<1> SUFFICES ASSUME IInv, IInv', id' = id, result' = result,
                    \A k \in Calls : OwnVerdict(k)' = OwnVerdict(k)
             PROVE  UNCHANGED Contract!vars
  OBVIOUS
<1>1. Agree /\ Agree'
  BY Agreement, PTL
<1>2. \A k \in Calls : Verdict(k)' = Verdict(k)
  BY <1>1 DEF Agree
<1>3. [k \in Calls |-> Verdict(k)]' = [k \in Calls |-> Verdict(k)]
  BY <1>2
<1>4. QED
  BY <1>3 DEF Contract!vars

\* A step that leaves the verdicts where only one call may return them.
LEMMA VerdictsStay ==
    ASSUME IInv, IInv', NEW k \in Calls,
           OwnVerdict(k)' = OwnVerdict(k),
           \A j \in Calls \ {k} : OwnVerdict(j)' = OwnVerdict(j)
    PROVE  /\ UNCHANGED [j \in Calls |-> Verdict(j)]
           /\ [j \in Calls |-> Verdict(j)][k] = OwnVerdict(k)
<1>1. Agree /\ Agree'
  BY Agreement, PTL
<1>2. \A j \in Calls : Verdict(j)' = Verdict(j)
  BY <1>1 DEF Agree
<1>3. QED
  BY <1>1, <1>2 DEF Agree

\* Every step of the client is a step of the contract, or none.
LEMMA ContractStep == IInv /\ IInv' /\ ResultInv /\ [Next]_vars => [Contract!Next]_(Contract!vars)
<1> SUFFICES ASSUME IInv, IInv', ResultInv, [Next]_vars
             PROVE  Contract!Next \/ UNCHANGED Contract!vars
  OBVIOUS
<1>0. TypeOK /\ LinkInv /\ IdInv /\ TokenInv /\ OpenInv
  BY DEF IInv
<1>1. ASSUME UNCHANGED <<id, result, chan, hand>> PROVE UNCHANGED Contract!vars
  BY <1>1, Unseen DEF OwnVerdict
<1>2. ASSUME NEW m \in requests, NEW ok \in BOOLEAN, ReadResponse(m, ok)
      PROVE  Contract!Next \/ UNCHANGED Contract!vars
  <2>1. CASE UNCHANGED hand
    BY <1>1, <1>2, <2>1 DEF ReadResponse, callVars
  <2>2. CASE hand' # hand
    <3>1. PICK p \in pending : p.id = m.id /\ hand' = [call |-> p.call, answer |-> [call |-> m.call, ok |-> ok]]
      BY <1>2, <2>2 DEF ReadResponse
    <3> DEFINE k == m.call
    <3>2. k \in Calls /\ p.call = k /\ id[k] # 0
      BY <1>0, <3>1 DEF TypeOK, Requests, IdInv
    <3>3. hand = None /\ chan[k].buf = None /\ chan[k].open
      BY <1>0, <1>2, <3>2 DEF ReadResponse, LinkInv, TokenInv, OpenInv
    <3>4. result[k] \in {"none", "timeout"}
      BY <1>0, <3>2, <3>3 DEF ResultInv, Settled, TypeOK
    <3>5. Agree /\ Agree'
      BY Agreement, PTL
    <3>6. hand' # None /\ hand'.call = k /\ hand'.answer.ok = ok /\ UNCHANGED <<id, result, chan>>
      BY <1>2, <3>1, <3>2, NoneIsNoHand DEF ReadResponse, callVars
    <3>7. Verdict(k) = "none" /\ Verdict(k)' = IF ok THEN "ok" ELSE "failed"
      BY <3>2, <3>3, <3>4, <3>5, <3>6 DEF Agree, OwnVerdict
    <3>8. \A j \in Calls \ {k} : Verdict(j)' = Verdict(j)
      BY <3>3, <3>5, <3>6 DEF Agree, OwnVerdict
    <3>9. [j \in Calls |-> Verdict(j)]' =
              [[j \in Calls |-> Verdict(j)] EXCEPT ![k] = IF ok THEN "ok" ELSE "failed"]
      BY <3>2, <3>7, <3>8
    <3>10. Contract!Answer(k)
      BY <3>2, <3>4, <3>6, <3>7, <3>9 DEF Contract!Answer
    <3>11. QED
      BY <3>2, <3>10 DEF Contract!Next
  <2>3. QED
    BY <2>1, <2>2
<1>3. CASE Deliver
  <2>1. hand \in [call : Calls, answer : Answers] /\ hand.answer # None
    BY <1>0, <1>3, NoneAssumption DEF Deliver, LinkInv, TypeOK, Answers
  <2>2. /\ chan[hand.call].buf = None /\ hand' = None /\ UNCHANGED <<id, result>>
        /\ chan'[hand.call].buf = hand.answer
        /\ \A j \in Calls : j # hand.call => chan'[j].buf = chan[j].buf
    BY <1>0, <1>3, <2>1 DEF Deliver, TypeOK, callVars
  <2>3. \A j \in Calls : OwnVerdict(j)' = OwnVerdict(j)
    BY <2>1, <2>2, <1>0, <1>3 DEF OwnVerdict, Deliver, LinkInv
  <2>4. QED
    BY <2>2, <2>3, Unseen
<1>4. CASE SweepPending
  <2>1. \A j \in Calls : chan'[j].buf = chan[j].buf
    BY <1>0, <1>4 DEF SweepPending, CloseAll, TypeOK
  <2>2. \A j \in Calls : OwnVerdict(j)' = OwnVerdict(j)
    BY <1>4, <2>1 DEF SweepPending, OwnVerdict, callVars
  <2>3. QED
    BY <1>4, <2>2, Unseen DEF SweepPending, callVars
<1>5. ASSUME NEW k \in Calls, CheckConnected(k) PROVE Contract!Next \/ UNCHANGED Contract!vars
  <2>1. CASE result' = result
    BY <1>1, <1>5, <2>1 DEF CheckConnected, linkVars
  <2>2. CASE result' = [result EXCEPT ![k] = "notConnected"]
    <3>1. result[k] = "none" /\ id[k] = 0 /\ result'[k] = "notConnected" /\ UNCHANGED <<id, chan, hand>>
      BY <1>0, <1>5, <2>2 DEF CheckConnected, linkVars, ResultInv, IdInv, TypeOK
    <3>2. \A j \in Calls : OwnVerdict(j)' = OwnVerdict(j)
      BY <1>0, <2>2, <3>1 DEF OwnVerdict, TypeOK
    <3>3. UNCHANGED [j \in Calls |-> Verdict(j)]
      BY <2>2, <3>1, <3>2, VerdictsStay
    <3>4. Contract!Refuse(k)
      BY <2>2, <3>1, <3>3 DEF Contract!Refuse
    <3>5. QED
      BY <3>4 DEF Contract!Next
  <2>3. QED
    BY <1>5, <2>1, <2>2 DEF CheckConnected, Return
<1>6. ASSUME NEW k \in Calls, Register(k) PROVE Contract!Next \/ UNCHANGED Contract!vars
  <2>1. result[k] = "none" /\ id[k] = 0 /\ UNCHANGED <<result, chan, hand>>
    BY <1>0, <1>6 DEF Register, ResultInv, IdInv, linkVars
  <2>2. {j \in Calls : id'[j] # 0} = {j \in Calls : id[j] # 0} \cup {k}
    BY <1>0, <1>6 DEF Register, TypeOK
  <2>3. \A j \in Calls : OwnVerdict(j)' = OwnVerdict(j)
    BY <2>1 DEF OwnVerdict
  <2>4. Agree /\ Agree'
    BY Agreement, PTL
  <2>5. [j \in Calls |-> Verdict(j)]' = [j \in Calls |-> Verdict(j)]
    BY <2>3, <2>4 DEF Agree
  <2>6. Contract!Begin(k)
    BY <2>1, <2>2, <2>5 DEF Contract!Begin
  <2>7. QED
    BY <2>6 DEF Contract!Next
<1>7. ASSUME NEW k \in Calls, SendFails(k) \/ SeeClosed(k)
      PROVE  Contract!Next \/ UNCHANGED Contract!vars
  <2>1. PICK why \in {"sendFailed", "closed"} : result' = [result EXCEPT ![k] = why]
    BY <1>7 DEF SendFails, SeeClosed, Return
  <2>2. result[k] = "none" /\ id[k] # 0 /\ result'[k] = why /\ UNCHANGED <<id, chan, hand>>
    BY <1>0, <1>7, <2>1 DEF SendFails, SeeClosed, linkVars, ResultInv, IdInv, InCall, TypeOK
  <2>3. chan[k].buf = None /\ (hand # None => hand.call # k)
    BY <1>0, <1>7 DEF SendFails, SeeClosed, TokenInv
  <2>4. \A j \in Calls : OwnVerdict(j)' = OwnVerdict(j)
    BY <1>0, <2>1, <2>2 DEF OwnVerdict, TypeOK
  <2>5. /\ UNCHANGED [j \in Calls |-> Verdict(j)]
        /\ [j \in Calls |-> Verdict(j)][k] = OwnVerdict(k)
    BY <2>1, <2>2, <2>4, VerdictsStay
  <2>6. OwnVerdict(k) = "none"
    BY <2>2, <2>3 DEF OwnVerdict
  <2>7. Contract!Fail(k)
    BY <2>1, <2>2, <2>5, <2>6 DEF Contract!Fail, Contract!Pending
  <2>8. QED
    BY <2>7 DEF Contract!Next
<1>8. ASSUME NEW k \in Calls, Timeout(k) PROVE Contract!Next \/ UNCHANGED Contract!vars
  <2>1. /\ result[k] = "none" /\ id[k] # 0 /\ UNCHANGED <<id, chan, hand>>
        /\ result' = [result EXCEPT ![k] = "timeout"] /\ result'[k] = "timeout"
    BY <1>0, <1>8 DEF Timeout, Return, linkVars, ResultInv, IdInv, InCall, TypeOK
  <2>2. \A j \in Calls : OwnVerdict(j)' = OwnVerdict(j)
    BY <1>0, <2>1 DEF OwnVerdict, TypeOK
  <2>3. UNCHANGED [j \in Calls |-> Verdict(j)]
    BY <2>1, <2>2, VerdictsStay
  <2>4. Contract!Timeout(k)
    BY <2>1, <2>3 DEF Contract!Timeout, Contract!Pending
  <2>5. QED
    BY <2>4 DEF Contract!Next
<1>9. ASSUME NEW k \in Calls, ReceiveAnswer(k) PROVE Contract!Next \/ UNCHANGED Contract!vars
  <2> DEFINE what == IF chan[k].buf.ok THEN "ok" ELSE "failed"
  <2>1. /\ result[k] = "none" /\ id[k] # 0 /\ UNCHANGED <<id, hand>>
        /\ result' = [result EXCEPT ![k] = what] /\ result'[k] = what
        /\ chan[k].buf # None
        /\ \A j \in Calls \ {k} : chan'[j] = chan[j] /\ result'[j] = result[j]
    BY <1>0, <1>9 DEF ReceiveAnswer, Return, linkVars, ResultInv, IdInv, InCall, TypeOK
  <2>2. OwnVerdict(k) = what /\ OwnVerdict(k)' = what
    BY <2>1 DEF OwnVerdict
  <2>3. \A j \in Calls \ {k} : OwnVerdict(j)' = OwnVerdict(j)
    BY <2>1 DEF OwnVerdict
  <2>4. /\ UNCHANGED [j \in Calls |-> Verdict(j)]
        /\ [j \in Calls |-> Verdict(j)][k] = OwnVerdict(k)
    BY <2>1, <2>2, <2>3, VerdictsStay
  <2>5. Contract!ReturnVerdict(k)
    BY <2>1, <2>2, <2>4 DEF Contract!ReturnVerdict, Contract!Pending
  <2>6. QED
    BY <2>5 DEF Contract!Next
<1>10. CASE LinkDrops \/ Cancel \/ DialSucceeds \/ DialFails \/ Retry \/ InstallSocket \/ RaiseFlag
            \/ ReadFails \/ LowerFlag \/ CloseSocket \/ UNCHANGED vars
  BY <1>1, <1>10 DEF LinkDrops, Cancel, DialSucceeds, DialFails, Retry, InstallSocket, RaiseFlag,
     ReadFails, LowerFlag, CloseSocket, vars, linkVars, callVars
<1>11. ASSUME NEW k \in Calls, SendReaches(k) \/ SendLost(k) \/ Unregister(k)
       PROVE  UNCHANGED Contract!vars
  BY <1>1, <1>11 DEF SendReaches, SendLost, Unregister, linkVars
<1>12. QED
  BY <1>2, <1>3, <1>4, <1>5, <1>6, <1>7, <1>8, <1>9, <1>10, <1>11
     DEF Next, LinkStep, CallStep, Ended

\* The client implements the contract: no interleaving of calls, answers,
\* losses and reconnections makes a call return twice, with an answer that is
\* not its own, or as failed while its answer is still taken in.
THEOREM ImplementsContract == Spec => KeepsContract
<1>1. Init => Contract!Init
  <2> SUFFICES ASSUME Init PROVE Contract!Init
    OBVIOUS
  <2>1. Held = {}
    BY DEF Init, Held
  <2>2. \A k \in Calls : Verdict(k) = "none"
    BY <2>1 DEF Init, Verdict
  <2>3. QED
    BY <2>2 DEF Init, Contract!Init
<1>2. IInv /\ IInv' /\ ResultInv /\ [Next]_vars => [Contract!Next]_(Contract!vars)
  BY ContractStep
<1>3. QED
  BY <1>1, <1>2, ResultsInductive, PTL DEF Spec, Contract!Spec, KeepsContract
=============================================================================
