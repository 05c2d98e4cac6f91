--------------------------- MODULE FlightProgram ---------------------------
(***************************************************************************)
(* The flight program of the vehicle (edison/): three threads that share   *)
(* the controller, the telemetry, the sensors and the motors.              *)
(*                                                                         *)
(*   main       FlightService::loop, then Sensors::run, which calls        *)
(*              Controller::setAttitude, which drives the motors           *)
(*   receiver   Receiver::run: command packets from the ground station     *)
(*   telemetry  Telemetry::run: datagrams to the telemetry client          *)
(*                                                                         *)
(* A thread is at a label pc[t], named after the method it is about to     *)
(* run.  A method that starts with `synchronized' is entered by Enter      *)
(* (the constructor of Object::Mutex), after which inside[t] holds, and    *)
(* then runs in one step, up to its next call of another object.           *)
(***************************************************************************)
EXTENDS Integers, FiniteSets

CONSTANTS
    None,        \* an optional field that is not set
    NaN,         \* the floating-point value that compares false to everything
    Nobody,      \* the owner of a free mutex
    Packets,     \* the command packets the ground station may send
    Attitudes,   \* the attitudes the sensors may measure
    Default,     \* the controller configuration FlightService starts with
    DebugChecks  \* libprotobuf is built with its debug checks (no -DNDEBUG)

Thread == {"main", "receiver", "telemetry"}

\* The four PIDs, in the order in which the controller runs them.
Axis == 1 .. 4
Altitude == 1
Roll == 2
Pitch == 3
YawRate == 4

\* Every Object carries a mutex; each is named by its place in the order in
\* which nested calls take them.
SensorsMutex == 1
ControllerMutex == 2
PidMutex(a) == 2 + a
TelemetryMutex == 7
SocketMutex == 8
Mutex == 1 .. 8

Stream == {"command", "attitude", "control", "switches"}

\* Comparisons of floats: NaN is neither below nor above anything.
Less(x, y) == x # NaN /\ y # NaN /\ x < y
ExceedsOneSided(x, limit) == Less(limit, x)
Exceeds(x, limit) == Less(x, -limit) \/ Less(limit, x)

(***************************************************************************)
(* Communication.proto: the parts of a command packet are all optional; a  *)
(* packet that lacks a required field of a part is not decoded at all.     *)
(***************************************************************************)
EmptyPacket == [command |-> None, controller_config |-> None,
                telemetry_config |-> None, sensors_config |-> None,
                motors_config |-> None]
ControllerConfig == [gains : STRING, max_inclinaison : Int \cup {None},
                     max_altitude : Int \cup {None},
                     max_yaw_rate : Int \cup {None}]
Command == [id : STRING \cup {None}, altitude : Int \cup {None}]
TelemetryConfig == [host : STRING, port : Int, enabled : SUBSET Stream]
MotorsConfig == [min : Int, max : Int]
CommandPacket == [command : Command \cup {None},
                  controller_config : ControllerConfig \cup {None},
                  telemetry_config : TelemetryConfig \cup {None},
                  sensors_config : {"filters", None},
                  motors_config : MotorsConfig \cup {None}]

EmptyCommand == [id |-> None, altitude |-> None]
EmptyTelemetryConfig == [host |-> None, port |-> None, enabled |-> {}]
Unarmed == [min |-> 0, max |-> 0]

Angle == Int \cup {NaN}

\* What Telemetry keeps: nothing is set before the first configuration.
KnownClient == [host : STRING \cup {None}, port : Int \cup {None},
                enabled : SUBSET Stream]

ASSUME NobodyAssumption == Nobody \notin Thread
ASSUME NoneAssumption == None \notin STRING
ASSUME NaNAssumption == NaN \notin Int \cup {"zero", "wound"}
ASSUME PacketsAssumption == Packets \subseteq CommandPacket
ASSUME DefaultAssumption == Default \in ControllerConfig
ASSUME AttitudesAssumption == Attitudes \subseteq [Axis -> Int]
ASSUME DebugChecksAssumption == DebugChecks \in BOOLEAN

\* The output of a PID is known by what it was computed from.
PidOutput == [gains : STRING \cup {None}, command : STRING \cup {None},
              nan : BOOLEAN]
Output(g, c, n) == [gains |-> g, command |-> c, nan |-> n]
Zero == Output(None, None, FALSE)

\* The state of an Integrator: its sum, and the previous sample it keeps.
IntegratorState == [sum : {"zero", "wound", NaN}, prev : {"number", NaN}]
ClearSumOnly == [sum |-> "zero", prev |-> "number"]
Clear == [sum |-> "zero", prev |-> NaN]

(***************************************************************************)
(* The labels of the threads.                                              *)
(***************************************************************************)
MainLabel == {"startTelemetry", "startReceiver", "run", "setAttitude", "pid",
              "setControl", "drive", "reportAttitude", "reportSwitches",
              "usleep"}
ReceiverLabel == {"off", "poll", "setCommand", "reset", "reportCommand",
                  "setConfig", "setParams", "telemetryConfig", "connect",
                  "notify", "sensorsConfig", "storeMin", "storeMax",
                  "resetSensors"}
TelemetryLabel == {"off", "awaitHost", "wait", "log", "serialize", "send",
                   "pause"}
Label == MainLabel \cup ReceiverLabel \cup TelemetryLabel

SensorsSection == {"run", "sensorsConfig"}
ControllerSectionForgetful == {"setAttitude", "setConfig"}
ControllerSection == {"setAttitude", "setCommand", "setConfig"}
PidSection == {"pid", "reset", "setParams"}
TelemetrySectionForgetful ==
    {"reportAttitude", "reportSwitches", "reportCommand", "telemetryConfig",
     "awaitHost", "serialize"}
TelemetrySection == {"setControl", "reportAttitude", "reportSwitches",
                     "reportCommand", "telemetryConfig", "awaitHost",
                     "serialize"}
SocketSection == {"connect", "send"}
Synchronized == SensorsSection \cup ControllerSection \cup PidSection
                  \cup TelemetrySection \cup SocketSection

VARIABLES
    running,    \* the process is alive
    gcs,        \* the ground station is "talking" or "silent" for good
    pc, inside, \* where each thread is, and whether it has entered there
    axis,       \* the PID a thread's loop over the PIDs is at
    mutex,      \* the owner of each mutex
    connected,  \* Receiver::connected
    packet,     \* Receiver::run's decoded command packet
    config,     \* Controller::config
    command,    \* Controller::command
    params,     \* PID::params of each axis, known by the gains they come from
    integ,      \* PID::integ of each axis
    value,      \* PID::value of each axis
    attitude,   \* Sensors::attitude
    gyro,       \* the axes whose gyroscope filter holds NaN
    tconfig,    \* Telemetry::config
    peer,       \* the address Telemetry::socket is connected to
    report,     \* the streams present in Telemetry::packet
    range,      \* Motors::min_pwm and max_pwm
    duty        \* what the PWM hardware was last given

worldVars == <<running, gcs>>
threadVars == <<pc, inside, mutex, packet>>
controllerVars == <<config, command, params, integ, value>>
sensorsVars == <<attitude, gyro>>
telemetryVars == <<tconfig, peer, report>>
motorsVars == <<range, duty>>
vars == <<worldVars, threadVars, axis, connected, controllerVars, sensorsVars,
          telemetryVars, motorsVars>>

(***************************************************************************)
(* Object::Mutex.  Guard is the mutex of the synchronized method at label  *)
(* l, in a loop over the PIDs at axis a; Base are the mutexes of the       *)
(* methods that called it.                                                 *)
(***************************************************************************)
Guard(l, a) ==
    CASE l \in SensorsSection -> SensorsMutex
      [] l \in ControllerSection -> ControllerMutex
      [] l \in PidSection -> PidMutex(a)
      [] l \in TelemetrySection -> TelemetryMutex
      [] OTHER -> SocketMutex

Base(l) ==
    CASE l \in {"setAttitude", "reportAttitude", "reportSwitches", "usleep"}
           -> {SensorsMutex}
      [] l \in {"pid", "setControl", "drive"}
           -> {SensorsMutex, ControllerMutex}
      [] l \in {"reset", "setParams"} -> {ControllerMutex}
      [] l \in {"connect", "notify", "send"} -> {TelemetryMutex}
      [] OTHER -> {}

Wanted(t) == Guard(pc[t], axis[t])
Held(t) == Base(pc[t]) \cup (IF inside[t] THEN {Wanted(t)} ELSE {})

Waiting(t) == running /\ pc[t] \in Synchronized /\ ~inside[t]

Enter(t) ==
    /\ Waiting(t)
    /\ mutex[Wanted(t)] = Nobody
    /\ mutex' = [mutex EXCEPT ![Wanted(t)] = t]
    /\ inside' = [inside EXCEPT ![t] = TRUE]
    /\ UNCHANGED <<worldVars, pc, packet, axis, connected, controllerVars,
                   sensorsVars, telemetryVars, motorsVars>>

\* Thread t, at label l inside its section if it has one ...
At(t, l) == running /\ pc[t] = l /\ (l \in Synchronized => inside[t])

\* ... goes on to another label and unlocks the mutexes in S.  The packet goes
\* out of scope when the receiver's loop goes round.
UnlockedNothing(S) == mutex
Unlocked(S) == [m \in Mutex |-> IF m \in S THEN Nobody ELSE mutex[m]]
Goto(t, l, S) ==
    /\ pc' = [pc EXCEPT ![t] = l]
    /\ inside' = [inside EXCEPT ![t] = FALSE]
    /\ mutex' = Unlocked(S)
    /\ packet' = IF t = "receiver" /\ l = "poll" THEN EmptyPacket ELSE packet

\* A loop over the PIDs: go on to the next axis, or to label l after the last.
First(t) == axis' = [axis EXCEPT ![t] = Altitude]
LoopOrGotoTooLong(t, l, S) ==
    IF axis[t] # YawRate + 1
    THEN /\ Goto(t, pc[t], {PidMutex(axis[t])})
         /\ axis' = [axis EXCEPT ![t] = axis[t] + 1]
    ELSE /\ Goto(t, l, S \cup {PidMutex(axis[t])})
         /\ First(t)
LoopOrGotoTooShort(t, l, S) ==
    IF axis[t] # Pitch
    THEN /\ Goto(t, pc[t], {PidMutex(axis[t])})
         /\ axis' = [axis EXCEPT ![t] = axis[t] + 1]
    ELSE /\ Goto(t, l, S \cup {PidMutex(axis[t])})
         /\ First(t)
LoopOrGoto(t, l, S) ==
    IF axis[t] # YawRate
    THEN /\ Goto(t, pc[t], {PidMutex(axis[t])})
         /\ axis' = [axis EXCEPT ![t] = axis[t] + 1]
    ELSE /\ Goto(t, l, S \cup {PidMutex(axis[t])})
         /\ First(t)

(***************************************************************************)
(* Starting and stopping.  Exit is exit(EXIT_FAILURE), an abort or a       *)
(* segmentation fault: the process is gone, the PWM hardware keeps its     *)
(* last duty cycle, and systemd starts the program again (Restart=always). *)
(***************************************************************************)
BootPc == [main |-> "startTelemetry", receiver |-> "off", telemetry |-> "off"]

\* Motors::Motors initialises min_pwm and max_pwm.
BootRangeLeft == range
BootRange == Unarmed

Boot ==
    /\ pc' = BootPc
    /\ inside' = [t \in Thread |-> FALSE]
    /\ axis' = [t \in Thread |-> Altitude]
    /\ mutex' = [m \in Mutex |-> Nobody]
    /\ connected' = FALSE
    /\ packet' = EmptyPacket
    /\ config' = Default
    /\ command' = EmptyCommand
    /\ params' = [a \in Axis |-> Default.gains]
    /\ integ' = [a \in Axis |-> Clear]
    /\ value' = [a \in Axis |-> Zero]
    /\ attitude' = [a \in Axis |-> 0]
    /\ gyro' = {}
    /\ tconfig' = EmptyTelemetryConfig
    /\ peer' = EmptyTelemetryConfig
    /\ report' = {}
    /\ range' = BootRange

Exit == running' = FALSE /\ Boot /\ UNCHANGED <<gcs, duty>>

Restart ==
    /\ ~running
    /\ running' = TRUE
    /\ UNCHANGED <<gcs, threadVars, axis, connected, controllerVars,
                   sensorsVars, telemetryVars, motorsVars>>

Init ==
    /\ running = TRUE
    /\ gcs = "talking"
    /\ pc = BootPc
    /\ inside = [t \in Thread |-> FALSE]
    /\ axis = [t \in Thread |-> Altitude]
    /\ mutex = [m \in Mutex |-> Nobody]
    /\ connected = FALSE
    /\ packet = EmptyPacket
    /\ config = Default
    /\ command = EmptyCommand
    /\ params = [a \in Axis |-> Default.gains]
    /\ integ = [a \in Axis |-> Clear]
    /\ value = [a \in Axis |-> Zero]
    /\ attitude = [a \in Axis |-> 0]
    /\ gyro = {}
    /\ tconfig = EmptyTelemetryConfig
    /\ peer = EmptyTelemetryConfig
    /\ report = {}
    /\ range = Unarmed
    /\ duty = [control |-> [a \in Axis |-> Zero], range |-> Unarmed]

\* The ground station is switched off, or flown out of range.
GcsLeaves ==
    /\ gcs = "talking"
    /\ gcs' = "silent"
    /\ UNCHANGED <<running, threadVars, axis, connected, controllerVars,
                   sensorsVars, telemetryVars, motorsVars>>

\* FlightService::loop starts the two other threads before Sensors::run.
StartThread(l, t, first, next) ==
    /\ At("main", l)
    /\ pc' = [pc EXCEPT !["main"] = next, ![t] = first]
    /\ UNCHANGED <<worldVars, inside, mutex, packet, axis, connected,
                   controllerVars, sensorsVars, telemetryVars, motorsVars>>

(***************************************************************************)
(* The main thread: Sensors::run, whose mutex is held for a whole period,  *)
(* Controller::setAttitude and Motors::setControl.                         *)
(***************************************************************************)
Sample ==
    /\ At("main", "run")
    /\ \E s \in Attitudes :
          attitude' = [a \in Axis |-> IF a \in gyro THEN NaN ELSE s[a]]
    /\ Goto("main", "setAttitude", {})
    /\ UNCHANGED <<worldVars, axis, connected, controllerVars, gyro,
                   telemetryVars, motorsVars>>

MaxAltitude(c) == IF c.max_altitude = None THEN 0 ELSE c.max_altitude

Excessive(c, att) ==
    \/ /\ c.max_inclinaison # None
       /\ \/ Exceeds(att[Roll], c.max_inclinaison)
          \/ Exceeds(att[Pitch], c.max_inclinaison)
    \/ /\ c.max_yaw_rate # None
       /\ Exceeds(att[YawRate], c.max_yaw_rate)
    \/ /\ MaxAltitude(c) # 0
       /\ Less(MaxAltitude(c), att[Altitude])

SetAttitude ==
    /\ At("main", "setAttitude")
    /\ IF Excessive(config, attitude)
       THEN /\ value' = [a \in Axis |-> Zero]
            /\ Goto("main", "setControl", {})
       ELSE /\ Goto("main", "pid", {})
            /\ UNCHANGED value
    /\ First("main")
    /\ UNCHANGED <<worldVars, connected, config, command, params, integ,
                   sensorsVars, telemetryVars, motorsVars>>

\* Integrator::integrate: the first sample after a reset only becomes `prev'.
Integrate(i, error) ==
    [sum |-> IF i.prev = NaN THEN i.sum
             ELSE IF NaN \in {error, i.sum} THEN NaN ELSE "wound",
     prev |-> IF error = NaN THEN NaN ELSE "number"]

\* PID::pid for the axis the thread is at; attitude NaN makes the error NaN.
Pid ==
    /\ At("main", "pid")
    /\ LET a == axis["main"]
           i == Integrate(integ[a], attitude[a])
       IN  /\ integ' = [integ EXCEPT ![a] = i]
           /\ value' = [value EXCEPT ![a] =
                          Output(params[a], command.id,
                                 NaN \in {attitude[a], i.sum})]
    /\ LoopOrGoto("main", "setControl", {})
    /\ UNCHANGED <<worldVars, connected, config, command, params, sensorsVars,
                   telemetryVars, motorsVars>>

\* Motors::setControl, the last call of Controller::setAttitude.
Drive ==
    /\ At("main", "drive")
    /\ duty' = [control |-> value, range |-> range]
    /\ Goto("main", "reportAttitude", {ControllerMutex})
    /\ UNCHANGED <<worldVars, axis, connected, controllerVars, sensorsVars,
                   telemetryVars, range>>

\* usleep(2500), still inside the synchronized body of the loop.
Usleep ==
    /\ At("main", "usleep")
    /\ Goto("main", "run", {SensorsMutex})
    /\ UNCHANGED <<worldVars, axis, connected, controllerVars, sensorsVars,
                   telemetryVars, motorsVars>>

\* Telemetry::setControl, setAttitude, setSwitches and setCommand: a stream
\* that is enabled is copied to the packet.
Reported(s) == IF s \in tconfig.enabled THEN report \cup {s} ELSE report
Report(t, l, s, next) ==
    /\ At(t, l)
    /\ report' = Reported(s)
    /\ Goto(t, next, {TelemetryMutex})
    /\ UNCHANGED <<worldVars, axis, connected, controllerVars, sensorsVars,
                   tconfig, peer, motorsVars>>

(***************************************************************************)
(* The receiver: Receiver::run dispatches the parts of a packet in order.  *)
(***************************************************************************)
FromMotors(p) == IF p.motors_config # None THEN "storeMin" ELSE "poll"
FromSensors(p) ==
    IF p.sensors_config # None THEN "sensorsConfig" ELSE FromMotors(p)
FromTelemetry(p) ==
    IF p.telemetry_config # None THEN "telemetryConfig" ELSE FromSensors(p)
FromController(p) ==
    IF p.controller_config # None THEN "setConfig" ELSE FromTelemetry(p)
FromCommand(p) ==
    IF p.command # None THEN "setCommand" ELSE FromController(p)

Receive(p) ==
    /\ At("receiver", "poll")
    /\ gcs = "talking"
    /\ connected' = TRUE
    /\ packet' = IF FromCommand(p) = "poll" THEN EmptyPacket ELSE p
    /\ pc' = [pc EXCEPT !["receiver"] = FromCommand(p)]
    /\ UNCHANGED <<worldVars, inside, mutex, axis, controllerVars, sensorsVars,
                   telemetryVars, motorsVars>>

\* A datagram that is no CommandPacket: the link counts as established.
ReceiveInvalid ==
    /\ At("receiver", "poll")
    /\ gcs = "talking"
    /\ connected' = TRUE
    /\ UNCHANGED <<worldVars, threadVars, axis, controllerVars, sensorsVars,
                   telemetryVars, motorsVars>>

\* An empty datagram, or poll's timeout, which is infinite while the link is
\* down: read returns 0 or -1.
TimeoutNever == FALSE
TimeoutArmed == connected
LinkLost ==
    /\ At("receiver", "poll")
    /\ gcs = "talking" \/ TimeoutArmed
    /\ connected' = FALSE
    /\ UNCHANGED <<worldVars, threadVars, axis, controllerVars, sensorsVars,
                   telemetryVars, motorsVars>>

\* Controller::setCommand, which resets the PIDs when the vehicle has landed.
SetCommand ==
    /\ At("receiver", "setCommand")
    /\ command' = packet.command
    /\ IF packet.command.altitude = 0
       THEN Goto("receiver", "reset", {})
       ELSE Goto("receiver", "reportCommand", {ControllerMutex})
    /\ First("receiver")
    /\ UNCHANGED <<worldVars, connected, config, params, integ, value,
                   sensorsVars, telemetryVars, motorsVars>>

Reset ==
    /\ At("receiver", "reset")
    /\ integ' = [integ EXCEPT ![axis["receiver"]] = Clear]
    /\ LoopOrGoto("receiver", "reportCommand", {ControllerMutex})
    /\ UNCHANGED <<worldVars, connected, config, command, params, value,
                   sensorsVars, telemetryVars, motorsVars>>

\* Controller::setConfig hands each PID its parameters in turn.
SetConfig ==
    /\ At("receiver", "setConfig")
    /\ config' = packet.controller_config
    /\ Goto("receiver", "setParams", {})
    /\ First("receiver")
    /\ UNCHANGED <<worldVars, connected, command, params, integ, value,
                   sensorsVars, telemetryVars, motorsVars>>

SetParams ==
    /\ At("receiver", "setParams")
    /\ params' = [params EXCEPT ![axis["receiver"]] =
                    packet.controller_config.gains]
    /\ LoopOrGoto("receiver", FromTelemetry(packet), {ControllerMutex})
    /\ UNCHANGED <<worldVars, connected, config, command, integ, value,
                   sensorsVars, telemetryVars, motorsVars>>

\* Telemetry::setConfig: a new host is resolved while the mutex is held.
NewHostOnce(old, new) == new.host # None /\ old.host = None
NewHostChanged(old, new) == old.host # None /\ old.host # new.host
NewHost(old, new) == new.host # None /\ (old.host = None \/ old.host # new.host)
SetTelemetryConfig ==
    /\ At("receiver", "telemetryConfig")
    /\ tconfig' = packet.telemetry_config
    /\ IF NewHost(tconfig, packet.telemetry_config)
       THEN Goto("receiver", "connect", {})
       ELSE Goto("receiver", FromSensors(packet), {TelemetryMutex})
    /\ UNCHANGED <<worldVars, axis, connected, controllerVars, sensorsVars,
                   peer, report, motorsVars>>

\* DatagramSocket::connect: the name resolves, or the program exits.
Connect ==
    /\ At("receiver", "connect")
    /\ peer' = [tconfig EXCEPT !.enabled = {}]
    /\ Goto("receiver", "notify", {SocketMutex})
    /\ UNCHANGED <<worldVars, axis, connected, controllerVars, sensorsVars,
                   tconfig, report, motorsVars>>
ConnectFails == At("receiver", "connect") /\ Exit

\* Object::notify wakes the telemetry thread, if it waits.
WokenNobody == pc["telemetry"]
Woken == IF pc["telemetry"] = "wait" THEN "awaitHost" ELSE pc["telemetry"]
Notify ==
    /\ At("receiver", "notify")
    /\ pc' = [pc EXCEPT !["receiver"] = FromSensors(packet),
                        !["telemetry"] = Woken]
    /\ mutex' = Unlocked({TelemetryMutex})
    /\ packet' = IF FromSensors(packet) = "poll" THEN EmptyPacket ELSE packet
    /\ UNCHANGED <<worldVars, inside, axis, connected, controllerVars,
                   sensorsVars, telemetryVars, motorsVars>>

\* Sensors::setConfig: no property tells the filter constants apart.
SetSensorsConfig ==
    /\ At("receiver", "sensorsConfig")
    /\ Goto("receiver", FromMotors(packet), {SensorsMutex})
    /\ UNCHANGED <<worldVars, axis, connected, controllerVars, sensorsVars,
                   telemetryVars, motorsVars>>

\* Motors::setConfig is not synchronized: two stores, then the test for reset.
StoreMin ==
    /\ At("receiver", "storeMin")
    /\ range' = [range EXCEPT !.min = packet.motors_config.min]
    /\ Goto("receiver", "storeMax", {})
    /\ UNCHANGED <<worldVars, axis, connected, controllerVars, sensorsVars,
                   telemetryVars, duty>>

StoreMax ==
    /\ At("receiver", "storeMax")
    /\ range' = [range EXCEPT !.max = packet.motors_config.max]
    /\ IF packet.motors_config.min = packet.motors_config.max
       THEN Goto("receiver", "resetSensors", {})
       ELSE Goto("receiver", "poll", {})
    /\ UNCHANGED <<worldVars, axis, connected, controllerVars, sensorsVars,
                   telemetryVars, duty>>

\* Sensors::reset is not synchronized.  While the main thread integrates the
\* gyroscopes, it may leave NaN in their high-pass filters (see GyroReset).
ResetSensors ==
    /\ At("receiver", "resetSensors")
    /\ \E S \in SUBSET {Roll, Pitch} :
          /\ S # {} => At("main", "run")
          /\ gyro' = gyro \cup S
    /\ Goto("receiver", "poll", {})
    /\ UNCHANGED <<worldVars, axis, connected, controllerVars, attitude,
                   telemetryVars, motorsVars>>

(***************************************************************************)
(* The telemetry thread: Telemetry::run.                                   *)
(***************************************************************************)
AwaitHost ==
    /\ At("telemetry", "awaitHost")
    /\ Goto("telemetry", IF tconfig.host = None THEN "wait" ELSE "log",
            {TelemetryMutex})
    /\ UNCHANGED <<worldVars, axis, connected, controllerVars, sensorsVars,
                   telemetryVars, motorsVars>>

\* pthread_cond_wait may return without a signal.
SpuriousWakeup ==
    /\ At("telemetry", "wait")
    /\ Goto("telemetry", "awaitHost", {})
    /\ UNCHANGED <<worldVars, axis, connected, controllerVars, sensorsVars,
                   telemetryVars, motorsVars>>

\* The host name is printed without the mutex: while the receiver assigns the
\* configuration, the read may fault.
Log ==
    /\ At("telemetry", "log")
    /\ Goto("telemetry", "serialize", {})
    /\ UNCHANGED <<worldVars, axis, connected, controllerVars, sensorsVars,
                   telemetryVars, motorsVars>>
LogFaults ==
    /\ At("telemetry", "log")
    /\ At("receiver", "telemetryConfig")
    /\ Exit

\* The switches are never set, and their fields are required: a checked
\* libprotobuf aborts when they are present.
Malformed == "switches" \in report
Serialize ==
    /\ At("telemetry", "serialize")
    /\ IF Malformed /\ DebugChecks
       THEN Exit
       ELSE /\ Goto("telemetry", "send", {})
            /\ UNCHANGED <<worldVars, axis, connected, controllerVars,
                           sensorsVars, telemetryVars, motorsVars>>

\* DatagramSocket::send returns a bool, which Telemetry::run compares to -1.
ToBool(n) == n # 0
ToInt(b) == IF b THEN 1 ELSE 0
Returned(written) == ToInt(ToBool(written))

Send(written) ==
    /\ At("telemetry", "send")
    /\ IF Returned(written) = -1
       THEN /\ tconfig' = [tconfig EXCEPT !.host = None]
            /\ Goto("telemetry", "awaitHost", {SocketMutex, TelemetryMutex})
       ELSE /\ Goto("telemetry", "pause", {SocketMutex, TelemetryMutex})
            /\ UNCHANGED tconfig
    /\ UNCHANGED <<worldVars, axis, connected, controllerVars, sensorsVars,
                   peer, report, motorsVars>>

\* usleep(50000), outside every section.
Pause ==
    /\ At("telemetry", "pause")
    /\ Goto("telemetry", "serialize", {})
    /\ UNCHANGED <<worldVars, axis, connected, controllerVars, sensorsVars,
                   telemetryVars, motorsVars>>

(***************************************************************************)
(* The next-state relation.                                                *)
(***************************************************************************)
Main ==
    \/ StartThread("startTelemetry", "telemetry", "awaitHost", "startReceiver")
    \/ StartThread("startReceiver", "receiver", "poll", "run")
    \/ Sample
    \/ SetAttitude
    \/ Pid
    \/ Report("main", "setControl", "control", "drive")
    \/ Drive
    \/ Report("main", "reportAttitude", "attitude", "reportSwitches")
    \/ Report("main", "reportSwitches", "switches", "usleep")
    \/ Usleep

Handle ==
    \/ SetCommand
    \/ Reset
    \/ Report("receiver", "reportCommand", "command", FromController(packet))
    \/ SetConfig
    \/ SetParams
    \/ SetTelemetryConfig
    \/ Connect
    \/ ConnectFails
    \/ Notify
    \/ SetSensorsConfig
    \/ StoreMin
    \/ StoreMax
    \/ ResetSensors

Poll ==
    \/ \E p \in Packets : Receive(p)
    \/ ReceiveInvalid
    \/ LinkLost

Telemeter ==
    \/ AwaitHost
    \/ Log
    \/ LogFaults
    \/ Serialize
    \/ \E written \in {-1, 0} : Send(written)
    \/ Pause

Next ==
    \/ \E t \in Thread : Enter(t)
    \/ Main
    \/ Handle
    \/ Poll
    \/ Telemeter
    \/ SpuriousWakeup
    \/ Restart
    \/ GcsLeaves

(***************************************************************************)
(* Fairness.  A thread that can go on does.  A mutex whose holders sleep   *)
(* outside it is free for long enough, again and again, that a waiting     *)
(* thread gets it.  The sensors mutex is not of that kind: the main thread *)
(* sleeps inside it and locks it again at once.  A silent link times out;  *)
(* systemd restarts the program.                                           *)
(***************************************************************************)
FairEnter(t) == Enter(t) /\ pc[t] # "sensorsConfig"
Fairness ==
    /\ WF_vars(Main)
    /\ WF_vars(Handle)
    /\ WF_vars(Telemeter)
    /\ WF_vars(TimeoutArmed /\ LinkLost)
    /\ WF_vars(Restart)
    /\ WF_vars(Enter("receiver"))
    /\ \A t \in Thread : SF_vars(FairEnter(t))

Spec == Init /\ [][Next]_vars
FairSpec == Spec /\ Fairness

(***************************************************************************)
(* Properties of the program.                                              *)
(***************************************************************************)
\* Every variable has its type.
TypeOK ==
    /\ running \in BOOLEAN
    /\ gcs \in {"talking", "silent"}
    /\ pc \in [Thread -> Label]
    /\ pc["main"] \in MainLabel
    /\ pc["receiver"] \in ReceiverLabel
    /\ pc["telemetry"] \in TelemetryLabel
    /\ inside \in [Thread -> BOOLEAN]
    /\ axis \in [Thread -> Axis]
    /\ mutex \in [Mutex -> Thread \cup {Nobody}]
    /\ connected \in BOOLEAN
    /\ packet \in CommandPacket
    /\ config \in ControllerConfig
    /\ command \in Command
    /\ params \in [Axis -> STRING]
    /\ integ \in [Axis -> IntegratorState]
    /\ value \in [Axis -> PidOutput]
    /\ attitude \in [Axis -> Angle]
    /\ gyro \subseteq {Roll, Pitch}
    /\ tconfig \in KnownClient
    /\ peer \in KnownClient
    /\ report \subseteq Stream
    /\ range \in MotorsConfig
    /\ duty \in [control : [Axis -> PidOutput], range : MotorsConfig]

\* Object::Mutex: a thread owns exactly the mutexes of the synchronized
\* methods on its call stack, whatever way it left the others.
LockDiscipline ==
    \A t \in Thread, m \in Mutex : mutex[m] = t <=> m \in Held(t)

\* Nested calls never close a circle: among any threads, one is not waiting
\* for a mutex that another of them owns.
NoDeadlock ==
    \A S \in (SUBSET Thread) \ {{}} :
        \E t \in S : ~(Waiting(t) /\ mutex[Wanted(t)] \in S)

\* Controller::setConfig: whenever nobody is in the controller, the four PIDs
\* run with the gains of one and the same configuration, the current one.
AxesAgree ==
    mutex[ControllerMutex] = Nobody => \A a \in Axis : params[a] = config.gains

\* An attitude beyond the limits of a configuration.
Beyond(x, limit) == x # NaN /\ limit # None /\ ~(x \in -limit .. limit)
Unstable(c, att) ==
    \/ \E a \in {Roll, Pitch} : Beyond(att[a], c.max_inclinaison)
    \/ Beyond(att[YawRate], c.max_yaw_rate)
    \/ c.max_altitude \notin {None, 0} /\ att[Altitude] > c.max_altitude

\* Controller::setAttitude: the motors get the emergency stop exactly when the
\* attitude just measured is beyond the limits in force when they are driven.
EmergencyStop ==
    pc["main"] = "drive" =>
        (Unstable(config, attitude) <=> \A a \in Axis : value[a] = Zero)

\* Otherwise the four axes of one control come from one configuration and one
\* command: the receiver never changes either in the middle.
OneConfigOneCommand ==
    pc["main"] = "drive" /\ ~Unstable(config, attitude) =>
        \A a \in Axis : /\ value[a].gains = config.gains
                        /\ value[a].command = command.id

\* Controller::setCommand: once a landing command is taken, no PID carries the
\* integral of the flight before it.
LandingDropsWindup ==
    [][pc["receiver"] = "reset" /\ pc'["receiver"] = "reportCommand"
         => \A a \in Axis : integ'[a].sum = "zero" /\ integ'[a].prev = NaN]_vars

\* Telemetry::setConfig: outside it, the socket is connected to the configured
\* host, though it is connected only when the host is new.
PeerMatchesHost ==
    mutex[TelemetryMutex] = Nobody => peer.host = tconfig.host

\* Telemetry.cpp:36, `We want to avoid doing too many DNS requests': a name is
\* looked up only if the socket is not already connected to it.
NoNeedlessLookup ==
    pc["receiver"] = "connect" => peer.host # tconfig.host

\* Telemetry::run: nothing is sent before the socket is connected, although
\* the host is stored first and the thread may wake up by itself.
SendConnected == pc["telemetry"] = "send" => peer.host # None

\* Telemetry::run: the thread never sleeps in wait while a host is configured
\* and the notification for it has been given.
NoLostWakeup ==
    pc["telemetry"] = "wait" /\ mutex[TelemetryMutex] = Nobody
        => tconfig.host = None

\* Receiver::run: a packet without a sensors configuration is handled to its
\* end, however the other threads hold the mutexes it needs.
PacketHandled == pc["receiver"] # "poll" ~> pc["receiver"] = "poll"

\* Receiver::run: after the ground station is gone, the link is found lost.
LinkLossDetected == gcs = "silent" ~> [](~connected)

\* A command the controller has taken reaches the motors, unless another one
\* replaces it, the vehicle is unstable, or the program stops.
CommandReachesMotors ==
    \A c \in {p.command : p \in {q \in Packets : q.command # None}} :
        command = c ~> \/ \A a \in Axis : duty.control[a].command = c.id
                       \/ command # c
                       \/ Unstable(config, attitude)

\* A configured telemetry client is served, unless another one replaces it.
TelemetryServed ==
    \A h \in {p.telemetry_config.host :
                p \in {q \in Packets : q.telemetry_config # None}} :
        tconfig.host = h ~> \/ peer.host = h /\ At("telemetry", "send")
                            \/ tconfig.host # h

\* hummingdroid.service: when the program stops with the motors running and
\* nobody configures them again, the restarted program stops them for good.
CrashDisarms ==
    ~running /\ gcs = "silent" ~> [](duty.range = Unarmed)

(***************************************************************************)
(* What the repository says of the program, and the code does not do.      *)
(***************************************************************************)
\* Telemetry.cpp:96, `The telemetry client is not here anymore, wait for
\* another one to register': a failed send drops the host.
GoneClientIsDropped == [][Send(-1) => tconfig'.host = None]_vars

\* Controller.cpp:58, `Check for instability': an attitude that is no number
\* stops the motors.
InvalidAttitudeStops ==
    pc["main"] = "drive" /\ (\E a \in Axis : attitude[a] = NaN)
        => \A a \in Axis : value[a] = Zero
=============================================================================
