-------------------------- MODULE AndroidReceiver --------------------------
(***************************************************************************)
(* The Android flight program's Receiver: the thread that listens to the   *)
(* ground station and tells from a timeout of its socket that the link is  *)
(* lost, and stop(), by which FlightService.onDestroy ends it.  The other  *)
(* parts of the program that it hands a packet to are left out; they rely  *)
(* on ReceiverPromise, which is shown to be kept.                          *)
(***************************************************************************)
EXTENDS Naturals

CONSTANTS
    None,      \* no socket
    Datagrams, \* what the ground station may send
    Faults     \* sockets may fail

ASSUME DatagramsAssumption == Datagrams \subseteq {"valid", "invalid"}
ASSUME FaultsAssumption == Faults \in BOOLEAN

\* A socket is known by its timeout.
Forever == 0
REMOTE_COMMAND_TIMEOUT_MS == 100
ASSUME NoneAssumption == None \notin {Forever, REMOTE_COMMAND_TIMEOUT_MS}

VARIABLES
    pc,          \* where the thread is; "dead": `thread' is null
    server,      \* its socket
    connected,   \* the link counts as up
    interrupted, \* the thread's interrupt status
    stopping,    \* the flag that both loops test
    stopper,     \* where the caller of stop is
    gone,        \* the ground station is gone for good
    replaced     \* history: a socket was closed while the link was up

vars == <<pc, server, connected, interrupted, stopping, stopper, gone,
          replaced>>

ThreadStep == {"outer", "bind", "inner", "receive", "handle", "close", "sleep",
               "leave", "dead"}

TypeOK ==
    /\ pc \in ThreadStep
    /\ server \in {None, Forever, REMOTE_COMMAND_TIMEOUT_MS}
    /\ connected \in BOOLEAN
    /\ interrupted \in BOOLEAN
    /\ stopping \in BOOLEAN
    /\ stopper \in {"idle", "test", "waiting", "returned"}
    /\ gone \in BOOLEAN
    /\ replaced \in BOOLEAN

\* FlightService.onCreate has made and started the receiver.
Init ==
    /\ pc = "outer"
    /\ server = None
    /\ connected = FALSE
    /\ interrupted = FALSE
    /\ stopping = FALSE
    /\ stopper = "idle"
    /\ gone = FALSE
    /\ replaced = FALSE

(***************************************************************************)
(* ReceiverThread.run                                                      *)
(***************************************************************************)
StopSeenNever == FALSE
StopSeen == stopping

OuterTest ==
    /\ pc = "outer"
    /\ pc' = IF StopSeen THEN "leave" ELSE "bind"
    /\ UNCHANGED <<server, connected, interrupted, stopping, stopper, gone,
                   replaced>>

Bind ==
    /\ pc = "bind"
    /\ server' = Forever
    /\ pc' = "inner"
    /\ UNCHANGED <<connected, interrupted, stopping, stopper, gone, replaced>>

BindFails ==
    /\ pc = "bind"
    /\ Faults
    /\ pc' = "close"
    /\ UNCHANGED <<server, connected, interrupted, stopping, stopper, gone,
                   replaced>>

InnerTest ==
    /\ pc = "inner"
    /\ pc' = IF StopSeen THEN "close" ELSE "receive"
    /\ UNCHANGED <<server, connected, interrupted, stopping, stopper, gone,
                   replaced>>

\* A datagram brings the link up; one that does not parse is an IOException.
ArmedNever == server
Armed == IF connected THEN server ELSE REMOTE_COMMAND_TIMEOUT_MS
Receive(datagram) ==
    /\ pc = "receive"
    /\ ~gone
    /\ connected' = TRUE
    /\ server' = Armed
    /\ pc' = IF datagram = "valid" THEN "handle" ELSE "close"
    /\ UNCHANGED <<interrupted, stopping, stopper, gone, replaced>>

Handle ==
    /\ pc = "handle"
    /\ pc' = "inner"
    /\ UNCHANGED <<server, connected, interrupted, stopping, stopper, gone,
                   replaced>>

\* InterruptedIOException: nothing received for a long time.
Disarmed == Forever
TimesOut ==
    /\ pc = "receive"
    /\ server = REMOTE_COMMAND_TIMEOUT_MS
    /\ connected' = FALSE
    /\ server' = Disarmed
    /\ pc' = "inner"
    /\ UNCHANGED <<interrupted, stopping, stopper, gone, replaced>>

ReceiveFails ==
    /\ pc = "receive"
    /\ Faults
    /\ pc' = "close"
    /\ UNCHANGED <<server, connected, interrupted, stopping, stopper, gone,
                   replaced>>

ClosedNever == server
Closed == None
Close ==
    /\ pc = "close"
    /\ server' = Closed
    /\ pc' = "sleep"
    /\ replaced' = (replaced \/ connected)
    /\ UNCHANGED <<connected, interrupted, stopping, stopper, gone>>

\* Thread.sleep(1000), before the next attempt and also before the end.
Sleep ==
    /\ pc = "sleep"
    /\ pc' = IF interrupted THEN "leave" ELSE "outer"
    /\ interrupted' = FALSE
    /\ UNCHANGED <<server, connected, stopping, stopper, gone, replaced>>

Leave ==
    /\ pc = "leave"
    /\ pc' = "dead"
    /\ stopper' = IF stopper = "waiting" THEN "test" ELSE stopper
    /\ UNCHANGED <<server, connected, interrupted, stopping, gone, replaced>>

(***************************************************************************)
(* stop, and the ground station.                                           *)
(***************************************************************************)
Stop ==
    /\ stopper = "idle"
    /\ stopper' = "test"
    /\ UNCHANGED <<pc, server, connected, interrupted, stopping, gone,
                   replaced>>

\* DatagramSocket.receive does not look at the interrupt status.
Interrupt ==
    /\ stopper = "test"
    /\ pc # "dead"
    /\ stopping' = TRUE
    /\ interrupted' = TRUE
    /\ stopper' = "waiting"
    /\ UNCHANGED <<pc, server, connected, gone, replaced>>

\* wait(100) has lasted 100 ms.
WaitEnds ==
    /\ stopper = "waiting"
    /\ stopper' = "test"
    /\ UNCHANGED <<pc, server, connected, interrupted, stopping, gone,
                   replaced>>

\* It waits for as long as there is a thread.
WaitedOnce == stopping
Waited == pc = "dead"
StopReturns ==
    /\ stopper = "test"
    /\ Waited
    /\ stopper' = "returned"
    /\ UNCHANGED <<pc, server, connected, interrupted, stopping, gone,
                   replaced>>

GcsLeaves ==
    /\ ~gone
    /\ gone' = TRUE
    /\ UNCHANGED <<pc, server, connected, interrupted, stopping, stopper,
                   replaced>>

Thread ==
    \/ OuterTest
    \/ Bind
    \/ BindFails
    \/ InnerTest
    \/ Handle
    \/ TimesOut
    \/ Close
    \/ Sleep
    \/ Leave

Stopper == Interrupt \/ WaitEnds \/ StopReturns

Listen == \E datagram \in Datagrams : Receive(datagram)

\* After stop has returned, the program is over.
Over ==
    /\ stopper = "returned"
    /\ UNCHANGED vars

Next == Thread \/ Stopper \/ Listen \/ ReceiveFails \/ Stop \/ GcsLeaves \/ Over

Spec == Init /\ [][Next]_vars

\* Threads are scheduled, timeouts elapse, and the ground station sends again
\* and again until it is gone.
FairSpec ==
    /\ Spec
    /\ WF_vars(Thread)
    /\ WF_vars(Stopper)
    /\ WF_vars(Listen)

(***************************************************************************)
(* Properties.                                                             *)
(***************************************************************************)
\* Receiver.stop: when it returns, the port is free again for the receiver of
\* the next service, whatever the thread was doing and whatever has failed.
StopReleases == stopper = "returned" => server = None

\* What the parts that the receiver hands packets to may rely on: one packet at
\* a time, and none any more when stop has returned.
Promise == INSTANCE ReceiverPromise WITH
    life <- CASE stopper = "idle" -> "running"
              [] stopper = "returned" -> "stopped"
              [] OTHER -> "stopping",
    busy <- pc = "handle"
KeepsPromise == Promise!Spec

\* While no link is up, the thread waits without a timeout, so that nothing
\* wakes the phone up.
TimeoutOnlyWhileUp ==
    pc = "receive" /\ server = REMOTE_COMMAND_TIMEOUT_MS => connected

\* Receiver.stop returns, unless the ground station is gone and the thread
\* listens without a timeout.
Deaf == gone /\ pc = "receive" /\ server = Forever
StopsUnlessDeaf == stopper = "test" ~> stopper = "returned" \/ Deaf

\* Receiver.java:43, `Delay without receiving remote command after which we
\* consider the link disconnected': once the ground station is gone, the link
\* counts as down, unless the receiver is stopped ...
LinkLossDetected == gone ~> ~connected \/ stopper # "idle"

\* ... and that is so as long as no socket was given up while the link was up.
LinkLossUnlessReplaced == gone ~> ~connected \/ stopper # "idle" \/ replaced
=============================================================================
