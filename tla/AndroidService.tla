---------------------------- MODULE AndroidService ----------------------------
(***************************************************************************)
(* The Android flight program: FlightService, created and destroyed on the *)
(* main looper, which also runs the sensors' listeners; its telemetry      *)
(* thread; its altitude thread, which shares the serial driver of Teensy   *)
(* with the motors; and its receiver, by ReceiverPromise.                  *)
(*                                                                         *)
(* pc[t] is the place of thread t.  A thread that stop has interrupted is  *)
(* known by the place of the looper: stop interrupts it again every 100 ms *)
(* until it is dead.                                                       *)
(***************************************************************************)
CONSTANT None   \* no driver, no address

ASSUME NoneAssumption ==
    None \notin {"found", "open", "closed", "nowhere", "client"}

Thread == {"looper", "altitude", "telemetry", "receiver"}

\* A call of Teensy.write or Teensy.read, by the looper or the altitude thread.
Caller == {"looper", "altitude"}
Other(t) == IF t = "looper" THEN "altitude" ELSE "looper"
Call == {"test", "find", "open", "use", "close"}

\* The parts of a call that assign Teensy.driver.
Assigning == {"find", "open", "close"}

\* In Controller.setAttitude, whose monitor the receiver needs.
ControllerSection == {"setControl"} \cup Call

VARIABLES
    pc,         \* where each thread is
    instance,   \* FlightService.instance is set
    life, busy, \* the receiver
    target,     \* the address in Telemetry.packet; "nowhere": configured, but
                \* no host was ever known
    driver,     \* Teensy.driver: a driver that is found is not open yet
    overlapped  \* history: the other caller may have assigned the driver
                \* during this call

serviceVars == <<instance, life, busy, target>>
vars == <<pc, serviceVars, driver, overlapped>>

R == INSTANCE ReceiverPromise

LooperPlace == {"idle", "setControl", "setAttitude", "onDestroy",
                "stopTelemetry", "stopSensors", "stopReceiver"} \cup Call
AltitudePlace == {"sleep", "dead", "test", "find", "open", "use"}
TelemetryPlace == {"configure", "wait", "create", "retry", "build", "send",
                   "sleep", "dead"}
ReceiverPlace == {"listen", "setCommand", "resolve"}

TypeOK ==
    /\ pc \in [Thread -> LooperPlace \cup AltitudePlace \cup TelemetryPlace
                              \cup ReceiverPlace]
    /\ pc["looper"] \in LooperPlace
    /\ pc["altitude"] \in AltitudePlace
    /\ pc["telemetry"] \in TelemetryPlace
    /\ pc["receiver"] \in ReceiverPlace
    /\ instance \in BOOLEAN
    /\ life \in {"running", "stopping", "stopped"}
    /\ busy \in BOOLEAN
    /\ target \in {None, "nowhere", "client"}
    /\ driver \in {None, "found", "open", "closed"}
    /\ overlapped \in [Caller -> BOOLEAN]

\* Telemetry's monitor is held while setConfig resolves a name; all else that
\* it protects is done in one step.
MonitorFree == pc["receiver"] # "resolve"

Now(t, l) == pc[t] = l
Goto(t, l) == pc' = [pc EXCEPT ![t] = l]

\* A call of Teensy goes on to l.
CallGoto(t, l) ==
    /\ Goto(t, l)
    /\ overlapped' =
         [u \in Caller |-> pc'[u] \in Call /\ (overlapped[u]
                             \/ pc[Other(u)] \in Assigning
                             \/ pc'[Other(u)] \in Assigning)]

NoThread == [t \in Thread |-> CASE t = "looper" -> "idle"
                                [] t = "receiver" -> "listen"
                                [] OTHER -> "dead"]

Init ==
    /\ pc = NoThread
    /\ instance = FALSE
    /\ life = "stopped"
    /\ busy = FALSE
    /\ target = None
    /\ driver = None
    /\ overlapped = [t \in Caller |-> FALSE]

\* An exception that nobody catches ends the process.
Die ==
    /\ pc' = NoThread
    /\ instance' = FALSE
    /\ life' = "stopped"
    /\ busy' = FALSE
    /\ target' = None
    /\ driver' = None
    /\ overlapped' = [t \in Caller |-> FALSE]

(***************************************************************************)
(* FlightService, on the looper.                                           *)
(***************************************************************************)
\* startService, or Android after the process has died (START_STICKY).
Create ==
    /\ Now("looper", "idle")
    /\ ~instance
    /\ pc' = [NoThread EXCEPT !["telemetry"] = "configure",
                              !["altitude"] = "test"]
    /\ instance' = TRUE
    /\ life' = "running"
    /\ busy' = FALSE
    /\ target' = None
    /\ driver' = None
    /\ UNCHANGED overlapped

OnDestroy ==
    /\ Now("looper", "idle")
    /\ instance
    /\ instance' = FALSE
    /\ Goto("looper", "onDestroy")
    /\ UNCHANGED <<life, busy, target, driver, overlapped>>

StopTelemetry ==
    /\ Now("looper", "onDestroy")
    /\ MonitorFree
    /\ Goto("looper", "stopTelemetry")
    /\ UNCHANGED <<serviceVars, driver, overlapped>>

\* The listeners are unregistered: no sample is handled any more.
StopSensors ==
    /\ Now("looper", "stopTelemetry")
    /\ Now("telemetry", "dead")
    /\ MonitorFree
    /\ Goto("looper", "stopSensors")
    /\ UNCHANGED <<serviceVars, driver, overlapped>>

StopReceiver ==
    /\ Now("looper", "stopSensors")
    /\ Now("altitude", "dead")
    /\ Goto("looper", "stopReceiver")
    /\ R!Stop
    /\ UNCHANGED <<instance, target, driver, overlapped>>

\* Teensy.close closes the driver, if there is one, and keeps it.
ClosedNever == driver
Closed == IF driver = "open" THEN "closed" ELSE driver
Destroyed ==
    /\ Now("looper", "stopReceiver")
    /\ R!StopReturns
    /\ driver' = Closed
    /\ Goto("looper", "idle")
    /\ UNCHANGED <<instance, target, overlapped>>

(***************************************************************************)
(* A sample of the gyroscope: Controller.setAttitude reports the control   *)
(* and drives the motors, then the listener reports the attitude.          *)
(***************************************************************************)
Sample ==
    /\ Now("looper", "idle")
    /\ instance
    /\ Goto("looper", "setControl")
    /\ UNCHANGED <<serviceVars, driver, overlapped>>

SetControl ==
    /\ Now("looper", "setControl")
    /\ MonitorFree
    /\ CallGoto("looper", "test")
    /\ UNCHANGED <<serviceVars, driver>>

SetAttitude ==
    /\ Now("looper", "setAttitude")
    /\ MonitorFree
    /\ Goto("looper", "idle")
    /\ UNCHANGED <<serviceVars, driver, overlapped>>

(***************************************************************************)
(* Teensy.write and Teensy.read, which nothing synchronizes.               *)
(***************************************************************************)
\* Where a call returns to, after a failure.
Failed(t) == IF t = "looper" THEN "setAttitude" ELSE "sleep"

Test(t) ==
    /\ Now(t, "test")
    /\ CallGoto(t, IF driver = None THEN "find" ELSE "use")
    /\ UNCHANGED <<serviceVars, driver>>

\* The Teensy may be on the bus or not, and be unplugged at any time.
Find(t, plugged) ==
    /\ Now(t, "find")
    /\ driver' = IF plugged THEN "found" ELSE None
    /\ CallGoto(t, IF plugged THEN "open" ELSE Failed(t))
    /\ UNCHANGED serviceVars

Open(t) ==
    /\ Now(t, "open")
    /\ driver # None
    /\ driver' = "open"
    /\ CallGoto(t, "use")
    /\ UNCHANGED serviceVars

DroppedNever == driver
Dropped == None
OpenFails(t) ==
    /\ Now(t, "open")
    /\ driver # None
    /\ driver' = Dropped
    /\ CallGoto(t, Failed(t))
    /\ UNCHANGED serviceVars

Write ==
    /\ Now("looper", "use")
    /\ driver = "open"
    /\ CallGoto("looper", "setAttitude")
    /\ UNCHANGED <<serviceVars, driver>>

WriteFails ==
    /\ Now("looper", "use")
    /\ driver = "open"
    /\ CallGoto("looper", "close")
    /\ UNCHANGED <<serviceVars, driver>>

Close ==
    /\ Now("looper", "close")
    /\ driver # None
    /\ driver' = None
    /\ CallGoto("looper", "setAttitude")
    /\ UNCHANGED serviceVars

\* CdcAcmSerialDriver.read returns 0 when nothing comes, and never throws.
Read ==
    /\ Now("altitude", "use")
    /\ driver = "open"
    /\ CallGoto("altitude", "test")
    /\ UNCHANGED <<serviceVars, driver>>

\* NullPointerException: there is no driver to call, or its endpoints are null.
NoDriver(t) ==
    \/ pc[t] \in {"open", "close"} /\ driver = None
    \/ pc[t] = "use" /\ driver # "open"
NullDriver(t) == NoDriver(t) /\ Die

\* Thread.sleep(200), the only place that an interrupt of stop reaches.
SleepAltitude ==
    /\ Now("altitude", "sleep")
    /\ CallGoto("altitude", IF Now("looper", "stopSensors") THEN "dead" ELSE "test")
    /\ UNCHANGED <<serviceVars, driver>>

(***************************************************************************)
(* The receiver's dispatch of a packet.                                    *)
(***************************************************************************)
Receive ==
    /\ R!TakePacket
    /\ Goto("receiver", "setCommand")
    /\ UNCHANGED <<instance, target, driver, overlapped>>

\* Controller.setCommand and setConfig.  A configuration of the telemetry may
\* follow, whose monitor is free: no other thread stays in it.
SetCommand(configures) ==
    /\ Now("receiver", "setCommand")
    /\ pc["looper"] \notin ControllerSection
    /\ IF configures
       THEN Goto("receiver", "resolve") /\ UNCHANGED busy
       ELSE Goto("receiver", "listen") /\ R!PacketDone
    /\ UNCHANGED <<instance, life, target, driver, overlapped>>

\* Telemetry.setConfig resolves the name, which may be unknown, and wakes the
\* thread.
WokenNever == pc["telemetry"]
Woken == IF Now("telemetry", "wait") THEN "configure" ELSE pc["telemetry"]
Resolve(known) ==
    /\ Now("receiver", "resolve")
    /\ target' = IF known THEN "client"
                 ELSE IF target = None THEN "nowhere" ELSE target
    /\ pc' = [pc EXCEPT !["receiver"] = "listen", !["telemetry"] = Woken]
    /\ R!PacketDone
    /\ UNCHANGED <<instance, driver, overlapped>>

(***************************************************************************)
(* TelemetryThread.run                                                     *)
(***************************************************************************)
InterruptedNever == FALSE
Interrupted == Now("looper", "stopTelemetry")
TelemetryGoto(l) ==
    /\ Goto("telemetry", l)
    /\ UNCHANGED <<serviceVars, driver, overlapped>>

Configured ==
    /\ Now("telemetry", "configure")
    /\ MonitorFree
    /\ TelemetryGoto(IF target = None THEN "wait" ELSE "create")

SpuriousWakeup ==
    /\ Now("telemetry", "wait")
    /\ MonitorFree
    /\ ~Interrupted
    /\ TelemetryGoto("configure")

CreateSocket(l) ==
    /\ Now("telemetry", "create")
    /\ TelemetryGoto(l)

Build ==
    /\ Now("telemetry", "build")
    /\ MonitorFree
    /\ TelemetryGoto("send")

\* DatagramSocket.send refuses a packet without an address.
Send ==
    /\ Now("telemetry", "send")
    /\ target = "client"
    /\ TelemetryGoto("sleep")
NoAddress == Now("telemetry", "send") /\ target = "nowhere" /\ Die

SleepTelemetry ==
    /\ pc["telemetry"] \in {"sleep", "retry"}
    /\ ~Interrupted
    /\ TelemetryGoto(IF Now("telemetry", "sleep") THEN "build" ELSE "create")

\* InterruptedException: close the socket and leave.
LeaveTelemetry ==
    /\ pc["telemetry"] \in {"wait", "sleep", "retry"}
    /\ Interrupted
    /\ MonitorFree
    /\ TelemetryGoto("dead")

Looper ==
    \/ SetControl
    \/ SetAttitude
    \/ StopTelemetry
    \/ StopSensors
    \/ StopReceiver
    \/ Write
    \/ WriteFails
    \/ Close

Teensy(t) ==
    \/ Test(t)
    \/ \E plugged \in BOOLEAN : Find(t, plugged)
    \/ Open(t)
    \/ OpenFails(t)
    \/ NullDriver(t)

Altitude == Teensy("altitude") \/ Read \/ SleepAltitude

Dispatch ==
    \/ \E configures \in BOOLEAN : SetCommand(configures)
    \/ \E known \in BOOLEAN : Resolve(known)

Telemetry ==
    \/ Configured
    \/ \E l \in {"build", "retry"} : CreateSocket(l)
    \/ Build
    \/ Send
    \/ NoAddress
    \/ SleepTelemetry
    \/ LeaveTelemetry

\* All that happens while nobody starts or stops the service.
Run ==
    \/ Looper
    \/ Teensy("looper")
    \/ Altitude
    \/ Dispatch
    \/ Telemetry
    \/ Destroyed
    \/ Sample
    \/ Receive
    \/ SpuriousWakeup

(***************************************************************************)
(* Properties.                                                             *)
(***************************************************************************)
\* FlightService.onDestroy: when it is over, no thread of the service is left,
\* and the connection to the Teensy is closed; one whose driver failed to open
\* has been dropped before, and counts as none.
NothingLeft ==
    Now("looper", "idle") /\ ~instance =>
        /\ pc = NoThread
        /\ ~busy
        /\ driver \in {None, "closed"}

\* Teensy: an exception in the use of the driver takes two calls that overlap.
\* Calls one after the other cope with every failure of the link.
CrashNeedsOverlap ==
    [][\A t \in Caller : NullDriver(t) => overlapped[t]]_vars

\* FlightService.onDestroy gets as far as the receiver, unless the serial link
\* is open: then Teensy.read never fails, and the altitude thread never sleeps.
StopsUnlessLinked ==
    Now("looper", "onDestroy")
      ~> pc["looper"] \in {"stopReceiver", "idle"} \/ driver = "open"

\* Telemetry.setConfig: once a client is known, packets are sent to it, unless
\* the service stops or there is no socket to be had.
ClientServed ==
    target = "client" ~> pc["telemetry"] \in {"send", "retry"} \/ ~instance
=============================================================================
