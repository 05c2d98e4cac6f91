---------------------------- MODULE ControlProofs ----------------------------
(***************************************************************************)
(* Theorems about the control: what the motors are given is computed from  *)
(* one configuration and one command, and the emergency stop is exact.     *)
(* The two refinements: the threads implement ControlPromise, the          *)
(* controller whose calls are atomic, and TelemetryPromise, the telemetry  *)
(* whose datagrams are, for every set of packets and attitudes.            *)
(***************************************************************************)
EXTENDS FlightProgramProofs, FlightControl, FlightTelemetry

USE DEF Thread

\* While the receiver hands out parameters, the axes it has reached have those
\* of the new configuration; at any other time all axes have.
ParamsFollow ==
    /\ \A a \in Axis :
          \/ params[a] = config.gains
          \/ pc["receiver"] = "setParams" /\ axis["receiver"] <= a
    /\ pc["receiver"] = "setParams"
         => config.gains = packet.controller_config.gains

\* The PID of axis a has been run for the configuration and command in force.
Fresh(a) == value[a].gains = config.gains /\ value[a].command = command.id

\* From the test of the attitude to the motors.
ControlFollows ==
    /\ pc["main"] = "pid"
         => /\ ~Unstable(config, attitude)
            /\ \A a \in Axis : a < axis["main"] => Fresh(a)
    /\ pc["main"] \in {"setControl", "drive"}
         => IF Unstable(config, attitude)
            THEN \A a \in Axis : value[a] = Zero
            ELSE \A a \in Axis : Fresh(a)

AltitudeMeasured == attitude[Altitude] \in Int

ControlInv == LockInv /\ ParamsFollow /\ ControlFollows /\ AltitudeMeasured

\* The code's test is exact, and NaN passes it.
LEMMA ExcessiveIsUnstable ==
    ASSUME NEW c \in ControllerConfig, NEW att \in [Axis -> Angle],
           att[Altitude] \in Int
    PROVE  Excessive(c, att) <=> Unstable(c, att)
<1>1. ASSUME NEW x \in Angle, NEW limit \in Int \cup {None}
      PROVE  Beyond(x, limit) <=> limit # None /\ Exceeds(x, limit)
  <2>1. CASE limit = None
    BY <2>1 DEF Beyond
  <2>2. CASE limit # None
    BY <1>1, <2>2, NaNAssumption DEF Beyond, Exceeds, Less, Angle
  <2> QED
    BY <2>1, <2>2
<1>2. /\ c.max_inclinaison \in Int \cup {None}
      /\ c.max_yaw_rate \in Int \cup {None}
      /\ c.max_altitude \in Int \cup {None}
  BY DEF ControllerConfig
<1>3. att[Roll] \in Angle /\ att[Pitch] \in Angle /\ att[YawRate] \in Angle
  BY DEF Axis, Roll, Pitch, YawRate
<1>4. MaxAltitude(c) # 0 /\ Less(MaxAltitude(c), att[Altitude])
        <=> c.max_altitude \notin {None, 0} /\ att[Altitude] > c.max_altitude
  BY <1>2, NaNAssumption DEF MaxAltitude, Less
<1> QED
  BY <1>1, <1>2, <1>3, <1>4 DEF Excessive, Unstable

\* Main in the controller keeps the receiver out of it.
LEMMA ControllerExclusive ==
    ASSUME LockInv,
           \/ pc["main"] \in {"pid", "setControl", "drive"}
           \/ pc["main"] = "setAttitude" /\ inside["main"]
    PROVE  /\ pc["receiver"] \notin {"reset", "setParams"}
           /\ pc["receiver"] \in {"setCommand", "setConfig"} => ~inside["receiver"]
<1>1. TypeInv /\ LockDiscipline
  BY DEF LockInv
<1>2. 2 \in Held("main") /\ 2 \in Mutex
  BY <1>1, SectionFacts DEF Held, Wanted, TypeInv, TypeOK, Mutex
<1>3. 2 \notin Held("receiver")
  BY <1>1, <1>2 DEF LockDiscipline
<1> QED
  BY <1>1, <1>3, SectionFacts DEF Held, Wanted, TypeInv, TypeOK

LEMMA ControlInit == Init => ControlInv
<1> SUFFICES ASSUME Init PROVE ControlInv
  OBVIOUS
<1>1. Altitude \in Axis
  BY DEF Altitude, Axis
<1> QED
  BY <1>1, LockInit
  DEF ControlInv, Init, BootPc, ParamsFollow, ControlFollows, AltitudeMeasured

LEMMA BootControl ==
    Boot => ParamsFollow' /\ ControlFollows' /\ AltitudeMeasured'
  BY DEF Boot, BootPc, ParamsFollow, ControlFollows, AltitudeMeasured, Altitude,
         Axis

\* A step of the other threads, or of main outside the controller.
LEMMA ControlFrame ==
    ASSUME ControlInv,
           UNCHANGED <<controllerVars, attitude>>,
           \/ pc'["main"] = pc["main"] /\ axis'["main"] = axis["main"]
           \/ pc'["main"] \notin {"pid", "setControl", "drive"}
           \/ pc["main"] = "setControl" /\ pc'["main"] = "drive",
           \/ /\ pc'["receiver"] = pc["receiver"] /\ packet' = packet
              /\ axis'["receiver"] = axis["receiver"]
           \/ "setParams" \notin {pc["receiver"], pc'["receiver"]}
    PROVE  ParamsFollow' /\ ControlFollows' /\ AltitudeMeasured'
<1>1. ParamsFollow'
  BY DEF ControlInv, ParamsFollow, controllerVars
<1>2. ControlFollows'
  BY DEF ControlInv, ControlFollows, Fresh, controllerVars
<1>3. AltitudeMeasured'
  BY DEF ControlInv, AltitudeMeasured
<1> QED
  BY <1>1, <1>2, <1>3

LEMMA ControlNext == ControlInv /\ [Next]_vars => ControlInv'
<1> SUFFICES ASSUME ControlInv, [Next]_vars PROVE ControlInv'
  OBVIOUS
<1>0. LockInv /\ TypeInv /\ TypeOK /\ LockInv'
  BY LockNext DEF ControlInv, LockInv, TypeInv
<1> DEFINE Goal == ParamsFollow' /\ ControlFollows' /\ AltitudeMeasured'
<1> SUFFICES Goal
  BY <1>0 DEF ControlInv
<1>1. CASE Sample
  <2>1. attitude'[Altitude] \in Int
    BY <1>0, <1>1, AttitudesAssumption
    DEF Sample, TypeOK, Altitude, Roll, Pitch, Axis
  <2> QED
    BY <1>0, <1>1, <2>1
    DEF Sample, Goto, ControlInv, ParamsFollow, ControlFollows,
        AltitudeMeasured, TypeOK, controllerVars
<1>2. CASE SetAttitude
  <2>1. Excessive(config, attitude) <=> Unstable(config, attitude)
    BY <1>0, ExcessiveIsUnstable DEF TypeOK, ControlInv, AltitudeMeasured
  <2>2. ParamsFollow' /\ AltitudeMeasured'
    BY <1>0, <1>2
    DEF SetAttitude, Goto, First, ControlInv, ParamsFollow, AltitudeMeasured,
        TypeOK, sensorsVars
  <2>3. ControlFollows'
    BY <1>0, <1>2, <2>1
    DEF SetAttitude, Goto, First, ControlFollows, TypeOK, sensorsVars, Axis,
        Altitude
  <2> QED
    BY <2>2, <2>3
<1>3. CASE Pid
  <2> DEFINE a == axis["main"]
  <2>1. /\ pc["main"] = "pid" /\ pc["receiver"] # "setParams" /\ a \in Axis
        /\ ~Unstable(config, attitude)
        /\ \A b \in Axis : b < a => Fresh(b)
        /\ params[a] = config.gains
    BY <1>0, <1>3, ControllerExclusive
    DEF Pid, At, ControlInv, ControlFollows, ParamsFollow, TypeOK
  <2>2. /\ UNCHANGED <<config, command, params, attitude>>
        /\ pc'["receiver"] = pc["receiver"]
    BY <1>0, <1>3 DEF Pid, LoopOrGoto, Goto, TypeOK, sensorsVars
  <2>3. ParamsFollow' /\ AltitudeMeasured'
    BY <2>1, <2>2 DEF ControlInv, ParamsFollow, AltitudeMeasured
  <2>4. \A b \in Axis : b <= a => Fresh(b)'
    BY <1>0, <1>3, <2>1, <2>2 DEF Pid, Fresh, Output, TypeOK, Axis
  <2>5. \/ pc'["main"] = "pid" /\ axis'["main"] = a + 1
        \/ pc'["main"] = "setControl" /\ a = YawRate
    BY <1>0, <1>3, <2>1 DEF Pid, LoopOrGoto, Goto, TypeOK
  <2>6. ControlFollows'
    BY <2>1, <2>2, <2>4, <2>5 DEF ControlFollows, YawRate, Axis
  <2> QED
    BY <2>3, <2>6
<1>4. CASE SetCommand
  <2>1. pc["main"] \notin {"pid", "setControl", "drive"}
    BY <1>0, <1>4, ControllerExclusive, SectionFacts DEF SetCommand, At
  <2> QED
    BY <1>0, <1>4, <2>1
    DEF SetCommand, At, Goto, First, ControlInv, ParamsFollow, ControlFollows,
        AltitudeMeasured, TypeOK, sensorsVars
<1>5. CASE Reset
  <2>1. pc["main"] \notin {"pid", "setControl", "drive"}
    BY <1>0, <1>5, ControllerExclusive DEF Reset, At
  <2> QED
    BY <1>0, <1>5, <2>1
    DEF Reset, At, LoopOrGoto, Goto, First, ControlInv, ParamsFollow,
        ControlFollows, AltitudeMeasured, TypeOK, sensorsVars
<1>6. CASE SetConfig
  <2>1. pc["main"] \notin {"pid", "setControl", "drive"}
    BY <1>0, <1>6, ControllerExclusive, SectionFacts DEF SetConfig, At
  <2>2. /\ pc'["main"] = pc["main"] /\ axis'["receiver"] = 1
        /\ pc'["receiver"] = "setParams" /\ packet' = packet
        /\ config' = packet.controller_config /\ attitude' = attitude
    BY <1>0, <1>6
    DEF SetConfig, At, Goto, First, TypeOK, sensorsVars, Altitude
  <2> QED
    BY <2>1, <2>2
    DEF ControlInv, ParamsFollow, ControlFollows, AltitudeMeasured, Axis
<1>7. CASE SetParams
  <2> DEFINE a == axis["receiver"]
  <2>1. /\ pc["main"] \notin {"pid", "setControl", "drive"}
        /\ pc["receiver"] = "setParams" /\ a \in Axis
    BY <1>0, <1>7, ControllerExclusive DEF SetParams, At, TypeOK
  <2>2. /\ pc'["main"] = pc["main"] /\ attitude' = attitude /\ config' = config
        /\ \A b \in Axis : params'[b] = IF b = a THEN config.gains ELSE params[b]
    BY <1>0, <1>7, <2>1
    DEF SetParams, LoopOrGoto, Goto, TypeOK, sensorsVars, ControlInv,
        ParamsFollow
  <2>3. \/ /\ pc'["receiver"] = "setParams" /\ axis'["receiver"] = a + 1
           /\ packet' = packet
        \/ pc'["receiver"] # "setParams" /\ a = YawRate
    BY <1>0, <1>7, <2>1
    DEF SetParams, LoopOrGoto, Goto, TypeOK, FromTelemetry, FromSensors,
        FromMotors
  <2>4. ParamsFollow'
    BY <2>1, <2>2, <2>3 DEF ControlInv, ParamsFollow, YawRate, Axis
  <2> QED
    BY <2>1, <2>2, <2>4 DEF ControlInv, ControlFollows, AltitudeMeasured
<1>8. CASE Exit
  BY <1>8, BootControl DEF Exit
<1> DEFINE
    MainKept == pc'["main"] = pc["main"] /\ axis'["main"] = axis["main"]
    ReceiverKept == /\ pc'["receiver"] = pc["receiver"] /\ packet' = packet
                    /\ axis'["receiver"] = axis["receiver"]
<1> USE DEF sensorsVars, threadVars, worldVars
<1>9. CASE \/ StartThread("startTelemetry", "telemetry", "awaitHost", "startReceiver")
           \/ StartThread("startReceiver", "receiver", "poll", "run")
  <2>1. /\ UNCHANGED <<controllerVars, attitude>>
        /\ pc'["main"] \in {"startReceiver", "run"}
        /\ pc'["receiver"] \in {pc["receiver"], "poll"}
        /\ axis'["receiver"] = axis["receiver"] /\ packet' = packet
    BY <1>0, <1>9 DEF StartThread, TypeOK
  <2>2. pc'["receiver"] = pc["receiver"] \/ pc["receiver"] = "off"
    BY <1>0, <1>9 DEF StartThread, LockInv, Starting, TypeOK, At
  <2> QED
    BY <2>1, <2>2, ControlFrame
<1>10. CASE \/ Report("main", "setControl", "control", "drive")
            \/ Report("main", "reportAttitude", "attitude", "reportSwitches")
            \/ Report("main", "reportSwitches", "switches", "usleep")
            \/ Drive
            \/ Usleep
  <2>1. UNCHANGED <<controllerVars, attitude>> /\ ReceiverKept
    BY <1>0, <1>10 DEF Report, Drive, Usleep, Goto, TypeOK
  <2>2. \/ pc'["main"] \notin {"pid", "setControl", "drive"}
        \/ pc["main"] = "setControl" /\ pc'["main"] = "drive"
    BY <1>0, <1>10 DEF Report, Drive, Usleep, Goto, TypeOK, At
  <2> QED
    BY <2>1, <2>2, ControlFrame
<1>11. CASE \/ Report("receiver", "reportCommand", "command",
                      FromController(packet))
            \/ SetTelemetryConfig
            \/ Connect
            \/ Notify
            \/ SetSensorsConfig
            \/ StoreMin
            \/ StoreMax
            \/ ResetSensors
            \/ \E p \in Packets : Receive(p)
            \/ ReceiveInvalid
            \/ LinkLost
  <2>1. UNCHANGED <<controllerVars, attitude>> /\ MainKept
    BY <1>0, <1>11
    DEF Report, SetTelemetryConfig, Connect, Notify, SetSensorsConfig,
        StoreMin, StoreMax, ResetSensors, Receive, ReceiveInvalid, LinkLost,
        Goto, TypeOK
  <2>2. pc["receiver"] # "setParams" /\ pc'["receiver"] # "setParams"
    BY <1>0, <1>11
    DEF Report, SetTelemetryConfig, Connect, Notify, SetSensorsConfig,
        StoreMin, StoreMax, ResetSensors, Receive, ReceiveInvalid, LinkLost,
        Goto, TypeOK, At, FromCommand, FromController, FromTelemetry,
        FromSensors, FromMotors
  <2> QED
    BY <2>1, <2>2, ControlFrame
<1>12. CASE \/ AwaitHost
            \/ SpuriousWakeup
            \/ Log
            \/ Pause
            \/ Serialize /\ ~Exit
            \/ \E written \in {-1, 0} : Send(written)
            \/ \E t \in Thread : Enter(t)
            \/ Restart
            \/ GcsLeaves
            \/ UNCHANGED vars
  <2>1. UNCHANGED <<controllerVars, attitude>> /\ MainKept /\ ReceiverKept
    BY <1>0, <1>12
    DEF AwaitHost, SpuriousWakeup, Log, Pause, Serialize, Send, Enter, Restart,
        GcsLeaves, vars, Goto, TypeOK
  <2> QED
    BY <2>1, ControlFrame
<1> QED
  BY <1>1, <1>2, <1>3, <1>4, <1>5, <1>6, <1>7, <1>8, <1>9, <1>10, <1>11, <1>12
  DEF Next, Main, Handle, Poll, Telemeter, ConnectFails, LogFaults

\* Controller::setConfig is atomic: whenever nobody is in the controller, the
\* four PIDs run with the parameters of the current configuration.
THEOREM ConfigAtomic == Spec => []AxesAgree
<1>1. ControlInv => AxesAgree
  <2> SUFFICES ASSUME ControlInv, mutex[ControllerMutex] = Nobody
               PROVE  pc["receiver"] # "setParams"
    BY DEF AxesAgree, ControlInv, ParamsFollow
  <2> QED
    BY NobodyAssumption, SectionFacts
    DEF ControlInv, LockInv, LockDiscipline, Held, ControllerMutex, Mutex
<1> QED
  BY <1>1, ControlInit, ControlNext, PTL DEF Spec

\* Controller::setAttitude stops the motors exactly when the attitude is beyond
\* the limits in force when they are driven.
THEOREM StopExact == Spec => []EmergencyStop
<1>1. ControlInv => EmergencyStop
  <2> SUFFICES ASSUME ControlInv, pc["main"] = "drive",
                      ~Unstable(config, attitude),
                      \A a \in Axis : value[a] = Zero
               PROVE  FALSE
    BY DEF EmergencyStop, ControlInv, ControlFollows
  <2>1. Zero.gains = config.gains
    BY DEF ControlInv, ControlFollows, Fresh, Axis
  <2> QED
    BY <2>1, NoneAssumption
    DEF ControlInv, LockInv, TypeInv, TypeOK, ControllerConfig, Zero, Output
<1> QED
  BY <1>1, ControlInit, ControlNext, PTL DEF Spec

\* Otherwise what the motors are given comes from one configuration and one
\* command, whatever the receiver does between the four PIDs.
THEOREM ControlConsistent == Spec => []OneConfigOneCommand
<1>1. ControlInv => OneConfigOneCommand
  BY DEF ControlInv, ControlFollows, Fresh, OneConfigOneCommand
<1> QED
  BY <1>1, ControlInit, ControlNext, PTL DEF Spec

(***************************************************************************)
(* Landing: the receiver resets the four PIDs one after the other, and the *)
(* main thread runs none of them in between.                               *)
(***************************************************************************)
Dropped(a) == integ[a].sum = "zero" /\ integ[a].prev = NaN

ResetFollows ==
    pc["receiver"] = "reset"
      => \A a \in Axis : a < axis["receiver"] => Dropped(a)

LandingInv == LockInv /\ ResetFollows

LEMMA ResetStep ==
    ASSUME LandingInv, Reset
    PROVE  /\ \A a \in Axis : a <= axis["receiver"] => Dropped(a)'
           /\ \/ pc'["receiver"] = "reset" /\ axis'["receiver"] = axis["receiver"] + 1
              \/ pc'["receiver"] = "reportCommand" /\ axis["receiver"] = YawRate
<1>1. TypeOK /\ axis["receiver"] \in Axis /\ pc["receiver"] = "reset"
  BY DEF LandingInv, LockInv, TypeInv, TypeOK, Reset, At
<1>2. \A a \in Axis : a < axis["receiver"] => Dropped(a)
  BY <1>1 DEF LandingInv, ResetFollows
<1>3. \A a \in Axis : a <= axis["receiver"] => Dropped(a)'
  BY <1>1, <1>2 DEF Reset, Dropped, Clear, TypeOK, Axis
<1> QED
  BY <1>1, <1>3 DEF Reset, LoopOrGoto, Goto, TypeOK

LEMMA LandingInit == Init => LandingInv
  BY LockInit DEF LandingInv, Init, BootPc, ResetFollows

LEMMA LandingNext == LandingInv /\ [Next]_vars => LandingInv'
<1> SUFFICES ASSUME LandingInv, [Next]_vars PROVE LandingInv'
  OBVIOUS
<1>0. LockInv /\ TypeOK /\ LockInv'
  BY LockNext DEF LandingInv, LockInv, TypeInv
<1> SUFFICES ResetFollows'
  BY <1>0 DEF LandingInv
<1> USE DEF worldVars, threadVars, controllerVars
<1>1. CASE Reset
  BY <1>1, ResetStep
  DEF ResetFollows, Axis, YawRate, LandingInv, LockInv, TypeInv, TypeOK
<1>2. CASE SetCommand
  BY <1>0, <1>2
  DEF SetCommand, Goto, First, ResetFollows, TypeOK, Altitude, Axis
<1>3. CASE Pid
  <2>1. pc["receiver"] # "reset" /\ pc'["receiver"] = pc["receiver"]
    BY <1>0, <1>3, ControllerExclusive DEF Pid, At, LoopOrGoto, Goto, TypeOK
  <2> QED
    BY <2>1 DEF ResetFollows
<1>4. CASE Exit
  BY <1>4 DEF Exit, Boot, BootPc, ResetFollows
<1>5. CASE \/ Report("receiver", "reportCommand", "command",
                     FromController(packet))
           \/ SetConfig
           \/ SetParams
           \/ SetTelemetryConfig
           \/ Connect
           \/ Notify
           \/ SetSensorsConfig
           \/ StoreMin
           \/ StoreMax
           \/ ResetSensors
           \/ Poll
           \/ StartThread("startReceiver", "receiver", "poll", "run")
  <2>1. pc'["receiver"] # "reset"
    BY <1>0, <1>5
    DEF Report, SetConfig, SetParams, SetTelemetryConfig, Connect, Notify,
        SetSensorsConfig, StoreMin, StoreMax, ResetSensors, Poll, Receive,
        ReceiveInvalid, LinkLost, StartThread, LoopOrGoto, Goto, At, TypeOK,
        FromCommand, FromController, FromTelemetry, FromSensors, FromMotors
  <2> QED
    BY <2>1 DEF ResetFollows
<1>6. CASE \/ Sample
           \/ SetAttitude
           \/ Report("main", "setControl", "control", "drive")
           \/ Drive
           \/ Report("main", "reportAttitude", "attitude", "reportSwitches")
           \/ Report("main", "reportSwitches", "switches", "usleep")
           \/ Usleep
           \/ StartThread("startTelemetry", "telemetry", "awaitHost", "startReceiver")
           \/ AwaitHost
           \/ SpuriousWakeup
           \/ Log
           \/ Pause
           \/ Serialize /\ ~Exit
           \/ \E written \in {-1, 0} : Send(written)
           \/ \E t \in Thread : Enter(t)
           \/ Restart
           \/ GcsLeaves
           \/ UNCHANGED vars
  <2>1. /\ pc'["receiver"] = pc["receiver"] /\ integ' = integ
        /\ axis'["receiver"] = axis["receiver"]
    BY <1>0, <1>6
    DEF Sample, SetAttitude, Report, Drive, Usleep, StartThread, AwaitHost,
        SpuriousWakeup, Log, Pause, Serialize, Send, Enter, Restart, GcsLeaves,
        vars, Goto, First, TypeOK
  <2> QED
    BY <2>1 DEF LandingInv, ResetFollows, Dropped
<1> QED
  BY <1>1, <1>2, <1>3, <1>4, <1>5, <1>6
  DEF Next, Main, Handle, Telemeter, ConnectFails, LogFaults

\* Controller::setCommand: once a landing command is taken, no PID carries the
\* integral of the flight before it.
THEOREM LandingResets == Spec => LandingDropsWindup
<1>1. LandingInv /\ [Next]_vars
        => [pc["receiver"] = "reset" /\ pc'["receiver"] = "reportCommand"
              => \A a \in Axis : integ'[a].sum = "zero" /\ integ'[a].prev = NaN]_vars
  <2> SUFFICES ASSUME LandingInv, Next, pc["receiver"] = "reset",
                      pc'["receiver"] = "reportCommand"
               PROVE  \A a \in Axis : Dropped(a)'
    BY DEF Dropped
  <2>1. TypeOK
    BY DEF LandingInv, LockInv, TypeInv
  <2>2. Reset
    BY <2>1
    DEF Next, Main, Handle, Poll, Telemeter, Enter, Restart, GcsLeaves,
        ConnectFails, LogFaults, Exit, Boot, BootPc, StartThread, Sample,
        SetAttitude, Pid, Report, Drive, Usleep, SetCommand, SetConfig,
        SetParams, SetTelemetryConfig, Connect, Notify, SetSensorsConfig,
        StoreMin, StoreMax, ResetSensors, Receive, ReceiveInvalid, LinkLost,
        AwaitHost, SpuriousWakeup, Log, Pause, Serialize, Send, LoopOrGoto,
        Goto, At, TypeOK, threadVars
  <2> QED
    BY <2>2, ResetStep DEF YawRate, Axis
<1> QED
  BY <1>1, LandingInit, LandingNext, PTL DEF Spec, LandingDropsWindup

(***************************************************************************)
(* The refinement: each step of the threads is one step of ControlPromise  *)
(* or none.                                                                *)
(***************************************************************************)
\* What is dispatched was sent.
PacketSent == packet \in Packets \cup {EmptyPacket}

PromiseInv == ControlInv /\ LandingInv /\ PacketSent

LEMMA PromiseInit == Init => PromiseInv
<1>1. Init => PacketSent
  BY DEF Init, PacketSent
<1> QED
  BY <1>1, ControlInit, LandingInit DEF PromiseInv

LEMMA PromiseNext == PromiseInv /\ [Next]_vars => PromiseInv'
<1> SUFFICES ASSUME PromiseInv, [Next]_vars PROVE PacketSent'
  BY ControlNext, LandingNext DEF PromiseInv
<1> USE DEF worldVars, threadVars
<1>1. CASE \E p \in Packets : Receive(p)
  BY <1>1 DEF Receive, PacketSent
<1>2. CASE Exit
  BY <1>2 DEF Exit, Boot, PacketSent
<1>3. CASE packet' \in {packet, EmptyPacket}
  BY <1>3 DEF PromiseInv, PacketSent
<1>4. CASE Next /\ ~Exit /\ ~ \E p \in Packets : Receive(p)
  <2>1. CASE Main \/ SpuriousWakeup \/ Restart \/ GcsLeaves
             \/ \E t \in Thread : Enter(t)
    BY <1>3, <2>1
    DEF Main, StartThread, Sample, SetAttitude, Pid, Report, Drive, Usleep,
        SpuriousWakeup, Restart, GcsLeaves, Enter, LoopOrGoto, Goto
  <2>2. CASE Handle
    BY <1>3, <1>4, <2>2
    DEF Handle, SetCommand, Reset, Report, SetConfig, SetParams,
        SetTelemetryConfig, Connect, ConnectFails, Notify, SetSensorsConfig,
        StoreMin, StoreMax, ResetSensors, LoopOrGoto, Goto
  <2>3. CASE Poll \/ Telemeter
    BY <1>3, <1>4, <2>3
    DEF Poll, ReceiveInvalid, LinkLost, Telemeter, AwaitHost, Log, LogFaults,
        Serialize, Send, Pause, Goto
  <2> QED
    BY <1>4, <2>1, <2>2, <2>3 DEF Next
<1>5. CASE UNCHANGED vars
  BY <1>3, <1>5 DEF vars
<1> QED
  BY <1>1, <1>2, <1>4, <1>5

\* The promise's test of the attitude is the one of FlightProgram's properties.
LEMMA SameUnstable == Promise!Unstable <=> Unstable(config, attitude)
  BY DEF Promise!Unstable, Promise!Beyond, Unstable, Beyond

\* A step that the vehicle cannot tell from none.
LEMMA PromiseFrame ==
    ASSUME UNCHANGED <<config, command, attitude, integ, duty>>,
           pc["receiver"] = "reset" <=> pc'["receiver"] = "reset"
    PROVE  UNCHANGED Promise!vars
  BY DEF Promise!vars, WoundAxes

\* One PID takes a sample: its integral may be wound up by it, and no other.
LEMMA PidIntegrates ==
    ASSUME PromiseInv, Pid
    PROVE  Promise!Next \/ UNCHANGED Promise!vars
<1> DEFINE a == axis["main"]
           i == Integrate(integ[a], attitude[a])
<1>1. TypeOK /\ pc["main"] = "pid" /\ a \in Axis
  BY DEF PromiseInv, ControlInv, LockInv, TypeInv, TypeOK, Pid, At
<1>2. pc["receiver"] # "reset" /\ ~Unstable(config, attitude)
  BY <1>1, ControllerExclusive DEF PromiseInv, ControlInv, ControlFollows
<1>3. /\ UNCHANGED <<config, command, attitude, duty>>
      /\ pc'["receiver"] = pc["receiver"]
      /\ integ' = [integ EXCEPT ![a] = i]
  BY <1>1 DEF Pid, LoopOrGoto, Goto, TypeOK, sensorsVars, motorsVars
<1>4. WoundAxes' = IF i.sum = "zero" THEN WoundAxes \ {a} ELSE WoundAxes \cup {a}
  <2>1. \A b \in Axis : integ'[b] = IF b = a THEN i ELSE integ[b]
    BY <1>1, <1>3 DEF TypeOK
  <2> QED
    BY <1>1, <1>2, <1>3, <2>1 DEF WoundAxes
<1>5. CASE i.sum = "zero"
  <2>1. integ[a].sum = "zero"
    <3>1. "zero" # NaN /\ "zero" # "wound"
      BY NaNAssumption
    <3>2. i.sum = integ[a].sum \/ i.sum = NaN \/ i.sum = "wound"
      BY DEF Integrate
    <3> QED
      BY <1>5, <3>1, <3>2
  <2>2. WoundAxes' = WoundAxes
    BY <1>2, <1>4, <1>5, <2>1 DEF WoundAxes
  <2> QED
    BY <1>3, <2>2 DEF Promise!vars
<1>6. CASE i.sum # "zero"
  <2>1. Promise!Integrate(a)
    BY <1>2, <1>3, <1>4, <1>6, SameUnstable DEF Promise!Integrate
  <2> QED
    BY <1>1, <2>1 DEF Promise!Next
<1> QED
  BY <1>5, <1>6

\* The motors are driven by what the PIDs have just computed, or stopped.
LEMMA DriveDrives == ASSUME PromiseInv, Drive PROVE Promise!Drive
<1>1. TypeOK /\ pc["main"] = "drive"
  BY DEF PromiseInv, ControlInv, LockInv, TypeInv, Drive, At
<1>2. /\ UNCHANGED <<config, command, attitude, integ>>
      /\ pc'["receiver"] = pc["receiver"]
      /\ duty'.control = value
  BY <1>1 DEF Drive, Goto, TypeOK, sensorsVars, controllerVars
<1>3. value \in IF Promise!Unstable THEN Promise!Stopped ELSE Promise!Computed
  <2>1. CASE Unstable(config, attitude)
    <3>1. \A a \in Axis : value[a] = Zero
      BY <1>1, <2>1 DEF PromiseInv, ControlInv, ControlFollows
    <3>2. value \in [Axis -> {Zero}]
      BY <1>1, <3>1 DEF TypeOK
    <3>3. Zero \in [gains : {None}, command : {None}, nan : {FALSE}]
      BY DEF Zero, Output
    <3>4. value \in Promise!Stopped
      BY <3>2, <3>3 DEF Promise!Stopped
    <3> QED
      BY <2>1, <3>4, SameUnstable
  <2>2. CASE ~Unstable(config, attitude)
    <3>1. \A a \in Axis : Fresh(a)
      BY <1>1, <2>2 DEF PromiseInv, ControlInv, ControlFollows
    <3>2. \A a \in Axis : value[a] \in [gains : {config.gains},
                                       command : {command.id}, nan : BOOLEAN]
      BY <1>1, <3>1 DEF Fresh, TypeOK, PidOutput
    <3>3. value \in Promise!Computed
      BY <1>1, <3>2 DEF Promise!Computed, TypeOK
    <3> QED
      BY <2>2, <3>3, SameUnstable
  <2> QED
    BY <2>1, <2>2
<1> QED
  BY <1>2, <1>3 DEF Promise!Drive, WoundAxes

LEMMA InitPromise == Init => Promise!Init
  BY DEF Init, BootPc, Promise!Init, WoundAxes, Zero, Output, Clear

LEMMA StepPromise ==
    PromiseInv /\ [Next]_vars => [Promise!Next]_(Promise!vars)
<1> SUFFICES ASSUME PromiseInv, [Next]_vars
             PROVE  Promise!Next \/ UNCHANGED Promise!vars
  OBVIOUS
<1>0. TypeOK /\ TypeOK' /\ PacketFits
  BY TypeNext DEF PromiseInv, ControlInv, LockInv, TypeInv
<1> USE DEF worldVars, threadVars, controllerVars, sensorsVars, motorsVars
<1>1. CASE Sample
  <2>1. UNCHANGED <<config, command, integ, duty>>
        /\ pc'["receiver"] = pc["receiver"]
    BY <1>0, <1>1 DEF Sample, Goto, TypeOK
  <2>2. Promise!Measure
    BY <1>0, <2>1 DEF Promise!Measure, WoundAxes, TypeOK, Angle
  <2> QED
    BY <2>2 DEF Promise!Next
<1>2. CASE Pid
  BY <1>2, PidIntegrates
<1>3. CASE Drive
  BY <1>3, DriveDrives DEF Promise!Next
<1>4. CASE SetCommand
  <2>1. /\ UNCHANGED <<config, attitude, integ, duty>>
        /\ pc["receiver"] = "setCommand" /\ command' = packet.command
        /\ pc'["receiver"] = IF packet.command.altitude = 0 THEN "reset"
                             ELSE "reportCommand"
    BY <1>0, <1>4 DEF SetCommand, At, Goto, TypeOK
  <2>2. packet \in Packets /\ packet.command # None
    BY <1>0, <2>1 DEF PromiseInv, PacketSent, PacketFits, EmptyPacket
  <2>3. Promise!SetCommand
    BY <2>1, <2>2 DEF Promise!SetCommand, WoundAxes
  <2> QED
    BY <2>3 DEF Promise!Next
<1>5. CASE Reset
  <2>1. /\ UNCHANGED <<config, command, attitude, duty>>
        /\ pc["receiver"] = "reset"
    BY <1>0, <1>5 DEF Reset, At
  <2>2. WoundAxes' = {}
    BY <1>5, ResetStep
    DEF PromiseInv, WoundAxes, Dropped, YawRate, Axis
  <2> QED
    BY <2>1, <2>2 DEF Promise!vars, WoundAxes
<1>6. CASE SetConfig
  <2>1. /\ UNCHANGED <<command, attitude, integ, duty>>
        /\ pc["receiver"] = "setConfig" /\ pc'["receiver"] = "setParams"
        /\ config' = packet.controller_config
    BY <1>0, <1>6 DEF SetConfig, At, Goto, TypeOK
  <2>2. packet \in Packets /\ packet.controller_config # None
    BY <1>0, <2>1 DEF PromiseInv, PacketSent, PacketFits, EmptyPacket
  <2>3. Promise!SetConfig
    BY <2>1, <2>2 DEF Promise!SetConfig, WoundAxes
  <2> QED
    BY <2>3 DEF Promise!Next
<1>7. CASE Exit
  <2>1. Promise!Restart
    BY <1>7 DEF Exit, Boot, BootPc, Promise!Restart, WoundAxes, Clear
  <2> QED
    BY <2>1 DEF Promise!Next
<1>8. CASE \/ StartThread("startTelemetry", "telemetry", "awaitHost", "startReceiver")
           \/ StartThread("startReceiver", "receiver", "poll", "run")
           \/ SetAttitude
           \/ Report("main", "setControl", "control", "drive")
           \/ Report("main", "reportAttitude", "attitude", "reportSwitches")
           \/ Report("main", "reportSwitches", "switches", "usleep")
           \/ Usleep
  <2>1. /\ UNCHANGED <<config, command, attitude, integ, duty>>
        /\ pc'["receiver"] \in {pc["receiver"], "poll"}
    BY <1>0, <1>8 DEF StartThread, SetAttitude, Report, Usleep, Goto, TypeOK
  <2>2. pc'["receiver"] = pc["receiver"] \/ pc["receiver"] = "off"
    BY <1>0, <1>8
    DEF StartThread, SetAttitude, Report, Usleep, Goto, TypeOK, At, PromiseInv,
        ControlInv, LockInv, Starting
  <2> QED
    BY <2>1, <2>2, PromiseFrame
<1>9. CASE \/ Report("receiver", "reportCommand", "command",
                     FromController(packet))
           \/ SetParams
           \/ SetTelemetryConfig
           \/ Connect
           \/ Notify
           \/ SetSensorsConfig
           \/ StoreMin
           \/ StoreMax
           \/ ResetSensors
           \/ Poll
  <2>1. UNCHANGED <<config, command, attitude, integ, duty>>
    BY <1>0, <1>9
    DEF Report, SetParams, SetTelemetryConfig, Connect, Notify,
        SetSensorsConfig, StoreMin, StoreMax, ResetSensors, Poll, Receive,
        ReceiveInvalid, LinkLost
  <2>2. pc["receiver"] # "reset" /\ pc'["receiver"] # "reset"
    BY <1>0, <1>9
    DEF Report, SetParams, SetTelemetryConfig, Connect, Notify,
        SetSensorsConfig, StoreMin, StoreMax, ResetSensors, Poll, Receive,
        ReceiveInvalid, LinkLost, LoopOrGoto, Goto, At, TypeOK, FromCommand,
        FromController, FromTelemetry, FromSensors, FromMotors
  <2> QED
    BY <2>1, <2>2, PromiseFrame
<1>10. CASE \/ AwaitHost
            \/ SpuriousWakeup
            \/ Log
            \/ Pause
            \/ Serialize /\ ~Exit
            \/ \E written \in {-1, 0} : Send(written)
            \/ \E t \in Thread : Enter(t)
            \/ Restart
            \/ GcsLeaves
            \/ UNCHANGED vars
  <2>1. /\ UNCHANGED <<config, command, attitude, integ, duty>>
        /\ pc'["receiver"] = pc["receiver"]
    BY <1>0, <1>10
    DEF AwaitHost, SpuriousWakeup, Log, Pause, Serialize, Send, Enter, Restart,
        GcsLeaves, vars, Goto, TypeOK
  <2> QED
    BY <2>1, PromiseFrame
<1> QED
  BY <1>1, <1>2, <1>3, <1>4, <1>5, <1>6, <1>7, <1>8, <1>9, <1>10
  DEF Next, Main, Handle, Telemeter, ConnectFails, LogFaults

\* FlightProgram implements ControlPromise: for the vehicle, setConfig,
\* setCommand with its resets, and setAttitude with its PIDs are atomic.
THEOREM ControlImplements == Spec => ControlAtomic
<1>1. PromiseInv /\ [Next]_vars => [Promise!Next]_(Promise!vars)
  BY StepPromise
<1> QED
  BY <1>1, InitPromise, PromiseInit, PromiseNext, PTL
  DEF Spec, ControlAtomic, Promise!Spec
(***************************************************************************)
(* The refinement of the telemetry: each step of the threads is one step   *)
(* of TelemetryPromise or none.                                            *)
(***************************************************************************)
DatagramInv == TelemetryInv /\ PacketSent

\* While a datagram is on its way, the telemetry mutex keeps main and the
\* receiver out of the telemetry.
LEMMA SendExclusive ==
    ASSUME LockInv, pc["telemetry"] = "send"
    PROVE  /\ pc["receiver"] \notin {"connect", "notify"}
           /\ pc["receiver"] \in {"reportCommand", "telemetryConfig"}
                => ~inside["receiver"]
           /\ pc["main"] \in {"setControl", "reportAttitude", "reportSwitches"}
                => ~inside["main"]
<1>1. TypeInv /\ LockDiscipline
  BY DEF LockInv
<1>2. 7 \in Held("telemetry") /\ 7 \in Mutex
  BY <1>1, SectionFacts DEF Held, TypeInv, TypeOK, Mutex
<1>3. 7 \notin Held("receiver") /\ 7 \notin Held("main")
  BY <1>1, <1>2 DEF LockDiscipline
<1> QED
  BY <1>1, <1>3, SectionFacts DEF Held, Wanted, TypeInv, TypeOK

\* A step that the client cannot tell from none.
LEMMA DatagramFrame ==
    ASSUME UNCHANGED <<tconfig, peer, report>>,
           pc["receiver"] = "connect" <=> pc'["receiver"] = "connect",
           pc["telemetry"] = "send" <=> pc'["telemetry"] = "send"
    PROVE  UNCHANGED Datagrams!vars
  BY DEF Datagrams!vars, Client

\* Telemetry::setConfig: the client changes when, and only when, the host does.
LEMMA ConfigConfigures ==
    ASSUME DatagramInv, SetTelemetryConfig
    PROVE  Datagrams!SetConfig
<1> DEFINE new == packet.telemetry_config
<1>1. TypeOK /\ PacketFits /\ LockInv
  BY DEF DatagramInv, TelemetryInv, LockInv, TypeInv
<1>2. /\ UNCHANGED <<peer, report>> /\ tconfig' = new
      /\ pc["receiver"] = "telemetryConfig" /\ inside["receiver"]
      /\ pc'["telemetry"] = pc["telemetry"]
  BY <1>1, SectionFacts DEF SetTelemetryConfig, At, Goto, TypeOK
<1>3. packet \in Packets /\ new # None /\ new \in TelemetryConfig
  BY <1>1, <1>2
  DEF DatagramInv, PacketSent, PacketFits, EmptyPacket, TypeOK, CommandPacket
<1>4. pc["telemetry"] # "send"
  BY <1>1, <1>2, SendExclusive
<1>5. peer.host = tconfig.host /\ Client = peer
  BY <1>2 DEF DatagramInv, TelemetryInv, SocketFollows, Client
<1>6. Client' = IF new.host = tconfig.host THEN peer ELSE new
  <2>1. NewHost(tconfig, new) <=> new.host # tconfig.host
    BY <1>3, NoneAssumption DEF NewHost, TelemetryConfig
  <2>2. pc'["receiver"] = "connect" <=> NewHost(tconfig, new)
    BY <1>1
    DEF SetTelemetryConfig, Goto, TypeOK, FromSensors, FromMotors
  <2> QED
    BY <1>2, <2>1, <2>2 DEF Client
<1> QED
  BY <1>2, <1>3, <1>4, <1>5, <1>6
  DEF Datagrams!SetConfig, Datagrams!Address

\* A report counts when the stream is enabled.
LEMMA ReportReports ==
    ASSUME DatagramInv, NEW t \in {"main", "receiver"}, NEW l, NEW s, NEW next,
           Report(t, l, s, next), next # "connect",
           t = "main" => l \in {"setControl", "reportAttitude", "reportSwitches"},
           t = "receiver" => l = "reportCommand"
    PROVE  Datagrams!Report \/ UNCHANGED Datagrams!vars
<1>1. TypeOK /\ LockInv
  BY DEF DatagramInv, TelemetryInv, LockInv, TypeInv
<1>2. /\ UNCHANGED <<tconfig, peer>> /\ report' = Reported(s)
      /\ pc'["telemetry"] = pc["telemetry"]
      /\ pc["receiver"] = "connect" <=> pc'["receiver"] = "connect"
  BY <1>1 DEF Report, At, Goto, TypeOK
<1>3. pc[t] = l /\ inside[t]
  BY SectionFacts DEF Report, At
<1>4. pc["telemetry"] # "send"
  BY <1>1, <1>3, SendExclusive
<1>5. CASE s \in tconfig.enabled
  <2>1. UNCHANGED <<tconfig, Client.host, Client.port>>
    BY <1>2 DEF Client
  <2> QED
    BY <1>2, <1>4, <1>5, <2>1 DEF Datagrams!Report, Reported
<1>6. CASE s \notin tconfig.enabled
  BY <1>2, <1>6, DatagramFrame DEF Reported
<1> QED
  BY <1>5, <1>6

LEMMA InitDatagrams == Init => Datagrams!Init
  BY DEF Init, BootPc, Datagrams!Init, Datagrams!Address, Client,
         EmptyTelemetryConfig

LEMMA StepDatagrams ==
    DatagramInv /\ [Next]_vars => [Datagrams!Next]_(Datagrams!vars)
<1> SUFFICES ASSUME DatagramInv, [Next]_vars
             PROVE  Datagrams!Next \/ UNCHANGED Datagrams!vars
  OBVIOUS
<1>0. TypeOK /\ LockInv
  BY DEF DatagramInv, TelemetryInv, LockInv, TypeInv
<1> USE DEF worldVars, threadVars, telemetryVars
<1>1. CASE SetTelemetryConfig
  BY <1>1, ConfigConfigures DEF Datagrams!Next
<1>2. CASE Connect
  <2>1. /\ UNCHANGED <<tconfig, report>> /\ pc["receiver"] = "connect"
        /\ pc'["receiver"] = "notify" /\ pc'["telemetry"] = pc["telemetry"]
        /\ peer'.host = tconfig.host /\ peer'.port = tconfig.port
    BY <1>0, <1>2 DEF Connect, At, Goto, TypeOK, KnownClient
  <2>2. Client' = peer' /\ Client = tconfig
    BY <2>1 DEF Client
  <2> QED
    BY <2>1, <2>2 DEF Datagrams!vars
<1>3. CASE Notify
  <2>1. /\ UNCHANGED <<tconfig, peer, report>> /\ pc["receiver"] = "notify"
        /\ pc'["receiver"] # "connect" /\ pc'["telemetry"] = Woken
    BY <1>0, <1>3 DEF Notify, At, TypeOK, FromSensors, FromMotors
  <2> QED
    BY <2>1, DatagramFrame DEF Woken
<1>4. CASE Report("receiver", "reportCommand", "command", FromController(packet))
  <2>1. FromController(packet) # "connect"
    BY DEF FromController, FromTelemetry, FromSensors, FromMotors
  <2> QED
    BY <1>4, <2>1, ReportReports DEF Datagrams!Next
<1>5. CASE \/ Report("main", "setControl", "control", "drive")
           \/ Report("main", "reportAttitude", "attitude", "reportSwitches")
           \/ Report("main", "reportSwitches", "switches", "usleep")
  BY <1>5, ReportReports DEF Datagrams!Next
<1>6. CASE Serialize /\ ~Exit
  <2>1. /\ UNCHANGED <<tconfig, peer, report>> /\ inside["telemetry"]
        /\ pc["telemetry"] = "serialize" /\ pc'["telemetry"] = "send"
        /\ pc'["receiver"] = pc["receiver"] /\ ~(Malformed /\ DebugChecks)
    BY <1>0, <1>6, SectionFacts DEF Serialize, At, Goto, TypeOK
  <2>2. pc["receiver"] # "connect"
    BY <1>0, <2>1, TelemetryExclusive
  <2>3. Client = peer /\ Client' = peer /\ peer.host # None
    BY <2>1, <2>2 DEF Client, DatagramInv, TelemetryInv, ServedConnected
  <2> QED
    BY <2>1, <2>3 DEF Datagrams!Next, Datagrams!Serialize, Malformed
<1>7. CASE \E written \in {-1, 0} : Send(written)
  <2>1. /\ UNCHANGED <<tconfig, peer, report>>
        /\ pc["telemetry"] = "send" /\ pc'["telemetry"] = "pause"
        /\ pc'["receiver"] = pc["receiver"]
    BY <1>0, <1>7, SendNeverFails DEF Send, At, Goto, TypeOK
  <2>2. UNCHANGED Client
    BY <2>1 DEF Client
  <2> QED
    BY <2>1, <2>2 DEF Datagrams!Next, Datagrams!Sent
<1>8. CASE Exit
  <2>1. Datagrams!Restart
    BY <1>8
    DEF Exit, Boot, BootPc, Datagrams!Restart, Datagrams!Address, Client,
        EmptyTelemetryConfig
  <2> QED
    BY <2>1 DEF Datagrams!Next
<1>9. CASE \/ StartThread("startTelemetry", "telemetry", "awaitHost", "startReceiver")
           \/ StartThread("startReceiver", "receiver", "poll", "run")
  <2>1. /\ UNCHANGED <<tconfig, peer, report>>
        /\ pc["telemetry"] = "off" \/ pc'["telemetry"] = pc["telemetry"]
        /\ pc'["telemetry"] \in {pc["telemetry"], "awaitHost"}
        /\ pc["receiver"] = "off" /\ pc'["receiver"] \in {"off", "poll"}
    BY <1>0, <1>9 DEF StartThread, TypeOK, LockInv, Starting, At
  <2> QED
    BY <2>1, DatagramFrame
<1>10. CASE \/ Sample
            \/ SetAttitude
            \/ Pid
            \/ Drive
            \/ Usleep
            \/ \E t \in Thread : Enter(t)
            \/ Restart
            \/ GcsLeaves
            \/ UNCHANGED vars
  <2>1. /\ UNCHANGED <<tconfig, peer, report>>
        /\ pc'["receiver"] = pc["receiver"] /\ pc'["telemetry"] = pc["telemetry"]
    BY <1>0, <1>10
    DEF Sample, SetAttitude, Pid, Drive, Usleep, Enter, Restart, GcsLeaves,
        vars, LoopOrGoto, Goto, TypeOK
  <2> QED
    BY <2>1, DatagramFrame
<1>11. CASE AwaitHost \/ SpuriousWakeup \/ Log \/ Pause
  <2>1. /\ UNCHANGED <<tconfig, peer, report>>
        /\ pc'["receiver"] = pc["receiver"]
        /\ pc["telemetry"] # "send" /\ pc'["telemetry"] # "send"
    BY <1>0, <1>11
    DEF AwaitHost, SpuriousWakeup, Log, Pause, At, Goto, TypeOK
  <2> QED
    BY <2>1, DatagramFrame
<1>12. CASE \/ SetCommand
            \/ Reset
            \/ SetConfig
            \/ SetParams
            \/ SetSensorsConfig
            \/ StoreMin
            \/ StoreMax
            \/ ResetSensors
            \/ Poll
  <2>1. /\ UNCHANGED <<tconfig, peer, report>>
        /\ pc'["telemetry"] = pc["telemetry"]
    BY <1>0, <1>12
    DEF SetCommand, Reset, SetConfig, SetParams, SetSensorsConfig, StoreMin,
        StoreMax, ResetSensors, Poll, Receive, ReceiveInvalid, LinkLost,
        LoopOrGoto, Goto, TypeOK
  <2>2. pc["receiver"] # "connect" /\ pc'["receiver"] # "connect"
    BY <1>0, <1>12
    DEF SetCommand, Reset, SetConfig, SetParams, SetSensorsConfig, StoreMin,
        StoreMax, ResetSensors, Poll, Receive, ReceiveInvalid, LinkLost,
        LoopOrGoto, Goto, TypeOK, At, FromCommand, FromController,
        FromTelemetry, FromSensors, FromMotors
  <2> QED
    BY <2>1, <2>2, DatagramFrame
<1> QED
  BY <1>1, <1>2, <1>3, <1>4, <1>5, <1>6, <1>7, <1>8, <1>9, <1>10, <1>11, <1>12
  DEF Next, Main, Handle, Telemeter, ConnectFails, LogFaults

\* FlightProgram implements TelemetryPromise: for the client, setConfig with
\* its lookup is atomic, and so is a datagram.
THEOREM TelemetryImplements == Spec => TelemetryAtomic
<1>1. DatagramInv /\ [Next]_vars => [Datagrams!Next]_(Datagrams!vars)
  BY StepDatagrams
<1>2. TelemetryInv /\ PromiseInv => DatagramInv
  BY DEF DatagramInv, PromiseInv
<1> QED
  BY <1>1, <1>2, InitDatagrams, TelemetryInit, TelemetryNext, PromiseInit,
     PromiseNext, PTL
  DEF Spec, TelemetryAtomic, Datagrams!Spec
==============================================================================
