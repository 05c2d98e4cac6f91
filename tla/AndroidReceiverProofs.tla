------------------------- MODULE AndroidReceiverProofs -------------------------
(***************************************************************************)
(* The Android receiver keeps the promise of ReceiverPromise, releases its *)
(* port, and has a timeout only while the link is up, whatever the ground  *)
(* station sends and whatever fails.                                       *)
(***************************************************************************)
EXTENDS AndroidReceiver, TLAPS

\* Without a loop over the socket there is none; the caller of stop only goes
\* on without a thread.
ReceiverInv ==
    /\ TypeOK
    /\ pc \in {"outer", "bind", "sleep", "leave", "dead"} => server = None
    /\ server = REMOTE_COMMAND_TIMEOUT_MS => connected
    /\ stopper = "returned" => pc = "dead"

USE DEF Forever, REMOTE_COMMAND_TIMEOUT_MS

LEMMA ReceiverInit == Init => ReceiverInv
BY NoneAssumption DEF Init, ReceiverInv, TypeOK, ThreadStep

LEMMA ReceiverNext == ReceiverInv /\ [Next]_vars => ReceiverInv'
<1> SUFFICES ASSUME ReceiverInv, [Next]_vars PROVE ReceiverInv'
  OBVIOUS
<1> USE NoneAssumption DEF ReceiverInv, TypeOK, ThreadStep
<1>1. CASE OuterTest
  BY <1>1 DEF OuterTest
<1>2. CASE Bind
  BY <1>2 DEF Bind
<1>3. CASE BindFails
  BY <1>3 DEF BindFails
<1>4. CASE InnerTest
  BY <1>4 DEF InnerTest
<1>5. ASSUME NEW datagram \in Datagrams, Receive(datagram) PROVE ReceiverInv'
  BY <1>5 DEF Receive, Armed
<1>6. CASE Handle
  BY <1>6 DEF Handle
<1>7. CASE TimesOut
  <2>1. server' = 0 /\ ~(0 = 100) /\ pc = "receive" /\ pc' = "inner"
    BY <1>7 DEF TimesOut, Disarmed
  <2>2. TypeOK'
    BY <1>7, <2>1 DEF TimesOut
  <2>3. stopper' = stopper
    BY <1>7 DEF TimesOut
  <2> QED BY <2>1, <2>2, <2>3
<1>8. CASE ReceiveFails
  BY <1>8 DEF ReceiveFails
<1>9. CASE Close
  BY <1>9 DEF Close, Closed
<1>10. CASE Sleep
  BY <1>10 DEF Sleep
<1>11. CASE Leave
  BY <1>11 DEF Leave
<1>12. CASE Stop
  BY <1>12 DEF Stop
<1>13. CASE Interrupt
  BY <1>13 DEF Interrupt
<1>14. CASE WaitEnds
  BY <1>14 DEF WaitEnds
<1>15. CASE StopReturns
  BY <1>15 DEF StopReturns, Waited
<1>16. CASE GcsLeaves
  BY <1>16 DEF GcsLeaves
<1>17. CASE UNCHANGED vars
  BY <1>17 DEF vars
<1> QED
  BY <1>1, <1>2, <1>3, <1>4, <1>5, <1>6, <1>7, <1>8, <1>9, <1>10, <1>11, <1>12,
     <1>13, <1>14, <1>15, <1>16, <1>17
     DEF Next, Thread, Stopper, Listen, Over

LEMMA ReceiverInvariant == Spec => []ReceiverInv
BY ReceiverInit, ReceiverNext, PTL DEF Spec

(***************************************************************************)
(* Theorems.                                                               *)
(***************************************************************************)
\* Every variable keeps its type.
THEOREM ReceiverTyped == Spec => []TypeOK
<1>1. ReceiverInv => TypeOK
  BY DEF ReceiverInv
<1> QED BY <1>1, ReceiverInvariant, PTL

\* Receiver.stop: when it returns, the port is free.
THEOREM PortReleased == Spec => []StopReleases
<1>1. ReceiverInv => StopReleases
  BY DEF ReceiverInv, StopReleases
<1> QED BY <1>1, ReceiverInvariant, PTL

\* ReceiverThread.run: nothing wakes the phone up while no link is up.
THEOREM TimeoutsWhileUp == Spec => []TimeoutOnlyWhileUp
<1>1. ReceiverInv => TimeoutOnlyWhileUp
  BY DEF ReceiverInv, TimeoutOnlyWhileUp
<1> QED BY <1>1, ReceiverInvariant, PTL

\* The receiver implements its promise: one packet at a time, and none any
\* more when stop has returned.
THEOREM PromiseKept == Spec => KeepsPromise
<1>1. Init => Promise!Init
  BY DEF Init, Promise!Init
<1>2. ReceiverInv /\ [Next]_vars => [Promise!Next]_(Promise!vars)
  <2> SUFFICES ASSUME ReceiverInv, [Next]_vars
               PROVE  [Promise!Next]_(Promise!vars)
    OBVIOUS
  <2> USE DEF Promise!vars
  <2>1. CASE OuterTest \/ Bind \/ BindFails \/ InnerTest \/ TimesOut \/ Close
             \/ Sleep \/ ReceiveFails \/ GcsLeaves
    BY <2>1 DEF OuterTest, Bind, BindFails, InnerTest, TimesOut, Close, Sleep,
                ReceiveFails, GcsLeaves
  <2>2. ASSUME NEW datagram \in Datagrams, Receive(datagram)
        PROVE  [Promise!Next]_(Promise!vars)
    BY <2>2 DEF Receive, ReceiverInv, TypeOK, Promise!Next, Promise!TakePacket
  <2>3. CASE Handle
    BY <2>3 DEF Handle, Promise!Next, Promise!PacketDone
  <2>4. CASE Stop
    BY <2>4 DEF Stop, Promise!Next, Promise!Stop
  <2>5. CASE Interrupt \/ WaitEnds \/ Leave
    BY <2>5 DEF Interrupt, WaitEnds, Leave
  <2>6. CASE StopReturns
    BY <2>6 DEF StopReturns, Waited, Promise!Next, Promise!StopReturns
  <2>7. CASE UNCHANGED vars
    BY <2>7 DEF vars
  <2> QED BY <2>1, <2>2, <2>3, <2>4, <2>5, <2>6, <2>7
             DEF Next, Thread, Stopper, Listen, Over
<1> QED BY <1>1, <1>2, ReceiverInvariant, PTL DEF Spec, KeepsPromise, Promise!Spec
=============================================================================
