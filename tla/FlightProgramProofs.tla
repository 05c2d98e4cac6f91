------------------------ MODULE FlightProgramProofs ------------------------
(***************************************************************************)
(* Theorems about FlightProgram, for every set of packets and attitudes.   *)
(***************************************************************************)
EXTENDS FlightProgram, TLAPS

(***************************************************************************)
(* Type correctness.  The handler at the receiver's label reads a part of  *)
(* the packet, which has to be there: the dispatch saw to that.            *)
(***************************************************************************)
PacketFits ==
    /\ pc["receiver"] \in {"setCommand", "reset", "reportCommand"}
         => packet.command # None
    /\ pc["receiver"] \in {"setConfig", "setParams"}
         => packet.controller_config # None
    /\ pc["receiver"] = "telemetryConfig" => packet.telemetry_config # None
    /\ pc["receiver"] \in {"storeMin", "storeMax"}
         => packet.motors_config # None

TypeInv == TypeOK /\ PacketFits

\* The parts of the state, to prove their types one by one.
ThreadType ==
    /\ pc \in [Thread -> Label]
    /\ pc["main"] \in MainLabel
    /\ pc["receiver"] \in ReceiverLabel
    /\ pc["telemetry"] \in TelemetryLabel
    /\ inside \in [Thread -> BOOLEAN]
    /\ mutex \in [Mutex -> Thread \cup {Nobody}]
    /\ packet \in CommandPacket

USE DEF Thread

LEMMA GotoType ==
    ASSUME ThreadType, NEW t \in Thread, NEW l, NEW S, Goto(t, l, S),
           t = "main" => l \in MainLabel,
           t = "receiver" => l \in ReceiverLabel,
           t = "telemetry" => l \in TelemetryLabel
    PROVE  ThreadType'
<1>1. EmptyPacket \in CommandPacket
  BY DEF EmptyPacket, CommandPacket
<1>2. packet' \in CommandPacket
  BY <1>1 DEF Goto, ThreadType
<1>3. mutex' \in [Mutex -> Thread \cup {Nobody}]
  BY DEF Goto, Unlocked, ThreadType
<1>4. l \in Label
  BY DEF Label
<1>5. pc' \in [Thread -> Label] /\ inside' \in [Thread -> BOOLEAN]
  BY <1>4 DEF Goto, ThreadType
<1>6. /\ pc'["main"] \in MainLabel
      /\ pc'["receiver"] \in ReceiverLabel
      /\ pc'["telemetry"] \in TelemetryLabel
  BY DEF Goto, ThreadType
<1> QED
  BY <1>2, <1>3, <1>5, <1>6 DEF ThreadType

\* A thread in its loop over the PIDs stays there, or goes on to l.
LEMMA LoopType ==
    ASSUME ThreadType, axis \in [Thread -> Axis], NEW t \in Thread, NEW l, NEW S,
           LoopOrGoto(t, l, S),
           t = "main" => l \in MainLabel,
           t = "receiver" => l \in ReceiverLabel,
           t = "telemetry" => l \in TelemetryLabel
    PROVE  ThreadType' /\ axis' \in [Thread -> Axis]
<1>1. /\ t = "main" => pc[t] \in MainLabel
      /\ t = "receiver" => pc[t] \in ReceiverLabel
      /\ t = "telemetry" => pc[t] \in TelemetryLabel
  BY DEF ThreadType
<1>2. CASE axis[t] # YawRate
  <2>1. ThreadType'
    BY <1>1, <1>2, GotoType DEF LoopOrGoto
  <2>2. axis[t] + 1 \in Axis
    BY <1>2 DEF Axis, YawRate
  <2> QED
    BY <1>2, <2>1, <2>2 DEF LoopOrGoto
<1>3. CASE axis[t] = YawRate
  <2>1. ThreadType'
    BY <1>3, GotoType DEF LoopOrGoto
  <2> QED
    BY <1>3, <2>1 DEF LoopOrGoto, First, Axis, Altitude
<1> QED
  BY <1>2, <1>3

\* The rest of the state.
DataType ==
    /\ running \in BOOLEAN
    /\ gcs \in {"talking", "silent"}
    /\ axis \in [Thread -> Axis]
    /\ connected \in BOOLEAN
    /\ config \in ControllerConfig
    /\ command \in Command
    /\ params \in [Axis -> STRING]
    /\ integ \in [Axis -> IntegratorState]
    /\ value \in [Axis -> PidOutput]
    /\ attitude \in [Axis -> Angle]
    /\ gyro \subseteq {Roll, Pitch}
    /\ tconfig \in KnownClient
    /\ peer \in KnownClient
    /\ report \subseteq Stream
    /\ range \in MotorsConfig
    /\ duty \in [control : [Axis -> PidOutput], range : MotorsConfig]

LEMMA TypeParts == TypeOK <=> ThreadType /\ DataType
  BY DEF TypeOK, ThreadType, DataType

\* The dispatch of a packet names a label whose part of the packet is there.
LEMMA DispatchFits ==
    /\ FromMotors(packet) \in ReceiverLabel
    /\ FromSensors(packet) \in ReceiverLabel
    /\ FromTelemetry(packet) \in ReceiverLabel
    /\ FromController(packet) \in ReceiverLabel
  BY DEF FromMotors, FromSensors, FromTelemetry, FromController, ReceiverLabel

\* What the program starts with.
LEMMA BootTypes ==
    /\ Zero \in PidOutput
    /\ Clear \in IntegratorState
    /\ EmptyPacket \in CommandPacket
    /\ EmptyCommand \in Command
    /\ EmptyTelemetryConfig \in KnownClient
    /\ Unarmed \in MotorsConfig
    /\ Default \in ControllerConfig /\ Default.gains \in STRING
<1>1. Zero \in PidOutput /\ Clear \in IntegratorState
  BY DEF Zero, Output, PidOutput, Clear, IntegratorState
<1>2. EmptyPacket \in CommandPacket /\ EmptyCommand \in Command
  BY DEF EmptyPacket, CommandPacket, EmptyCommand, Command
<1>3. EmptyTelemetryConfig \in KnownClient /\ Unarmed \in MotorsConfig
  BY DEF EmptyTelemetryConfig, KnownClient, Unarmed, MotorsConfig, Stream
<1>4. Default \in ControllerConfig /\ Default.gains \in STRING
  BY DefaultAssumption DEF ControllerConfig
<1> QED
  BY <1>1, <1>2, <1>3, <1>4

LEMMA TypeInit == Init => TypeInv
<1> SUFFICES ASSUME Init PROVE TypeInv
  OBVIOUS
<1>1. ThreadType
  BY DEF Init, ThreadType, BootPc, Label, MainLabel, ReceiverLabel,
         TelemetryLabel, EmptyPacket, CommandPacket
<1>2. DataType
  <2>1. /\ axis \in [Thread -> Axis] /\ attitude \in [Axis -> Angle]
        /\ gyro \subseteq {Roll, Pitch} /\ report \subseteq Stream
    BY DEF Init, Axis, Altitude, Angle
  <2>2. /\ config \in ControllerConfig /\ command \in Command
        /\ params \in [Axis -> STRING] /\ integ \in [Axis -> IntegratorState]
        /\ value \in [Axis -> PidOutput] /\ tconfig \in KnownClient
        /\ peer \in KnownClient /\ range \in MotorsConfig
    BY BootTypes DEF Init
  <2>3. duty \in [control : [Axis -> PidOutput], range : MotorsConfig]
    BY BootTypes DEF Init
  <2> QED
    BY <2>1, <2>2, <2>3 DEF Init, DataType
<1>3. PacketFits
  BY DEF Init, BootPc, PacketFits
<1> QED
  BY <1>1, <1>2, <1>3, TypeParts DEF TypeInv

LEMMA BootType ==
    ASSUME Boot, range \in MotorsConfig
    PROVE  /\ ThreadType' /\ PacketFits'
           /\ (running \in BOOLEAN)' /\ (gcs \in {"talking", "silent"})'
                /\ (duty \in [control : [Axis -> PidOutput], range : MotorsConfig])'
                => DataType'
<1>1. ThreadType'
  BY DEF Boot, ThreadType, BootPc, Label, MainLabel, ReceiverLabel,
         TelemetryLabel, EmptyPacket, CommandPacket
<1>2. PacketFits'
  BY DEF Boot, BootPc, PacketFits
<1>3. /\ (axis \in [Thread -> Axis])' /\ (attitude \in [Axis -> Angle])'
      /\ (gyro \subseteq {Roll, Pitch})' /\ (report \subseteq Stream)'
  BY DEF Boot, Axis, Altitude, Angle
<1>4. /\ (config \in ControllerConfig)' /\ (command \in Command)'
      /\ (params \in [Axis -> STRING])' /\ (integ \in [Axis -> IntegratorState])'
      /\ (value \in [Axis -> PidOutput])' /\ (tconfig \in KnownClient)'
      /\ (peer \in KnownClient)' /\ (range \in MotorsConfig)'
  BY BootTypes DEF Boot, BootRange
<1> QED
  BY <1>1, <1>2, <1>3, <1>4 DEF Boot, DataType

LEMMA TypeNext == TypeInv /\ [Next]_vars => TypeInv'
<1> SUFFICES ASSUME TypeInv, [Next]_vars PROVE TypeInv'
  OBVIOUS
<1> SUFFICES ThreadType' /\ DataType' /\ PacketFits'
  BY TypeParts DEF TypeInv, TypeOK, ThreadType, DataType
<1>0. ThreadType /\ DataType /\ PacketFits
  BY TypeParts DEF TypeInv
<1> USE DEF worldVars, threadVars, controllerVars, sensorsVars, telemetryVars,
            motorsVars
<1>1. ASSUME NEW t \in Thread, Enter(t)
      PROVE ThreadType' /\ DataType' /\ PacketFits'
  BY <1>0, <1>1 DEF Enter, ThreadType, DataType, PacketFits
<1>2. CASE StartThread("startTelemetry", "telemetry", "awaitHost", "startReceiver")
  BY <1>0, <1>2
  DEF StartThread, ThreadType, DataType, PacketFits, At, Label, MainLabel,
      TelemetryLabel
<1>3. CASE StartThread("startReceiver", "receiver", "poll", "run")
  BY <1>0, <1>3
  DEF StartThread, ThreadType, DataType, PacketFits, At, Label, MainLabel,
      ReceiverLabel
<1>4. CASE Sample
  <2>1. ThreadType'
    BY <1>0, <1>4, GotoType DEF Sample, MainLabel
  <2>2. DataType'
    BY <1>0, <1>4, AttitudesAssumption DEF Sample, DataType, Angle
  <2> QED
    BY <1>0, <1>4, <2>1, <2>2 DEF Sample, Goto, PacketFits, ThreadType
<1>5. CASE SetAttitude
  <2>1. ThreadType'
    BY <1>0, <1>5, GotoType DEF SetAttitude, MainLabel
  <2>2. DataType'
    BY <1>0, <1>5, BootTypes DEF SetAttitude, DataType, First, Axis, Altitude
  <2> QED
    BY <1>0, <1>5, <2>1, <2>2 DEF SetAttitude, Goto, PacketFits, ThreadType
<1>6. CASE Pid
  <2>1. ThreadType' /\ axis' \in [Thread -> Axis]
    BY <1>0, <1>6, LoopType DEF Pid, MainLabel, DataType
  <2>2. DataType'
    BY <1>0, <1>6, <2>1
    DEF Pid, DataType, Integrate, IntegratorState, Output, PidOutput, Command
  <2> QED
    BY <1>0, <1>6, <2>1, <2>2 DEF Pid, LoopOrGoto, Goto, PacketFits, ThreadType
<1>7. ASSUME NEW t \in Thread, NEW s \in Stream, NEW l, NEW next,
             Report(t, l, s, next),
             l \in MainLabel \cup ReceiverLabel,
             t = "main" => next \in MainLabel,
             t = "receiver" => next = FromController(packet),
             t # "telemetry"
      PROVE ThreadType' /\ DataType' /\ PacketFits'
  <2>1. ThreadType'
    BY <1>0, <1>7, GotoType, DispatchFits DEF Report
  <2>2. DataType'
    BY <1>0, <1>7 DEF Report, DataType, Reported
  <2>3. PacketFits'
    BY <1>0, <1>7
    DEF Report, Goto, PacketFits, ThreadType, FromController, FromTelemetry,
        FromSensors, FromMotors
  <2> QED
    BY <2>1, <2>2, <2>3
<1>8. CASE Drive
  <2>1. ThreadType'
    BY <1>0, <1>8, GotoType DEF Drive, MainLabel
  <2>2. DataType'
    BY <1>0, <1>8 DEF Drive, DataType
  <2> QED
    BY <1>0, <1>8, <2>1, <2>2 DEF Drive, Goto, PacketFits, ThreadType
<1>9. CASE Usleep
  <2>1. ThreadType'
    BY <1>0, <1>9, GotoType DEF Usleep, MainLabel
  <2> QED
    BY <1>0, <1>9, <2>1 DEF Usleep, DataType, Goto, PacketFits, ThreadType
<1>10. ASSUME NEW p \in Packets, Receive(p)
       PROVE ThreadType' /\ DataType' /\ PacketFits'
  <2>1. p \in CommandPacket /\ EmptyPacket \in CommandPacket
    BY <1>10, PacketsAssumption, BootTypes
  <2>2. ThreadType'
    BY <1>0, <1>10, <2>1
    DEF Receive, ThreadType, Label, ReceiverLabel, FromCommand, FromController,
        FromTelemetry, FromSensors, FromMotors
  <2>3. PacketFits'
    BY <1>0, <1>10
    DEF Receive, ThreadType, PacketFits, FromCommand, FromController,
        FromTelemetry, FromSensors, FromMotors
  <2> QED
    BY <1>0, <1>10, <2>2, <2>3 DEF Receive, DataType
<1>11. CASE ReceiveInvalid \/ LinkLost
  BY <1>0, <1>11 DEF ReceiveInvalid, LinkLost, ThreadType, DataType, PacketFits
<1>12. CASE SetCommand
  <2>1. ThreadType'
    BY <1>0, <1>12, GotoType DEF SetCommand, ReceiverLabel
  <2>2. packet.command \in Command
    BY <1>0, <1>12 DEF SetCommand, At, PacketFits, ThreadType, CommandPacket
  <2>3. DataType'
    BY <1>0, <1>12, <2>2 DEF SetCommand, DataType, First, Axis, Altitude
  <2> QED
    BY <1>0, <1>12, <2>1, <2>3 DEF SetCommand, At, Goto, PacketFits, ThreadType
<1>13. CASE Reset
  <2>1. ThreadType' /\ axis' \in [Thread -> Axis]
    BY <1>0, <1>13, LoopType DEF Reset, ReceiverLabel, DataType
  <2>2. DataType'
    BY <1>0, <1>13, <2>1, BootTypes DEF Reset, DataType
  <2> QED
    BY <1>0, <1>13, <2>1, <2>2
    DEF Reset, At, LoopOrGoto, Goto, PacketFits, ThreadType
<1>14. CASE SetConfig
  <2>1. ThreadType'
    BY <1>0, <1>14, GotoType DEF SetConfig, ReceiverLabel
  <2>2. packet.controller_config \in ControllerConfig
    BY <1>0, <1>14 DEF SetConfig, At, PacketFits, ThreadType, CommandPacket
  <2>3. DataType'
    BY <1>0, <1>14, <2>2 DEF SetConfig, DataType, First, Axis, Altitude
  <2> QED
    BY <1>0, <1>14, <2>1, <2>3 DEF SetConfig, At, Goto, PacketFits, ThreadType
<1>15. CASE SetParams
  <2>1. ThreadType' /\ axis' \in [Thread -> Axis]
    BY <1>0, <1>15, LoopType, DispatchFits DEF SetParams, DataType
  <2>2. packet.controller_config \in ControllerConfig
    BY <1>0, <1>15 DEF SetParams, At, PacketFits, ThreadType, CommandPacket
  <2>3. DataType'
    BY <1>0, <1>15, <2>1, <2>2 DEF SetParams, DataType, ControllerConfig
  <2> QED
    BY <1>0, <1>15, <2>1, <2>3
    DEF SetParams, At, LoopOrGoto, Goto, PacketFits, ThreadType, FromTelemetry,
        FromSensors, FromMotors
<1>16. CASE SetTelemetryConfig
  <2>1. ThreadType'
    BY <1>0, <1>16, GotoType, DispatchFits DEF SetTelemetryConfig, ReceiverLabel
  <2>2. packet.telemetry_config \in TelemetryConfig
    BY <1>0, <1>16 DEF SetTelemetryConfig, At, PacketFits, ThreadType, CommandPacket
  <2>3. DataType'
    BY <1>0, <1>16, <2>2 DEF SetTelemetryConfig, DataType, TelemetryConfig, KnownClient
  <2> QED
    BY <1>0, <1>16, <2>1, <2>3
    DEF SetTelemetryConfig, Goto, PacketFits, ThreadType, FromSensors, FromMotors
<1>17. CASE Connect
  <2>1. ThreadType'
    BY <1>0, <1>17, GotoType DEF Connect, ReceiverLabel
  <2>2. DataType'
    BY <1>0, <1>17 DEF Connect, DataType, KnownClient
  <2> QED
    BY <1>0, <1>17, <2>1, <2>2 DEF Connect, Goto, PacketFits, ThreadType
<1>18. CASE Exit
  BY <1>0, <1>18, BootType DEF Exit, DataType
<1>19. CASE Notify
  <2>1. Woken \in TelemetryLabel /\ Woken \in Label
    BY <1>0 DEF Woken, ThreadType, TelemetryLabel, Label
  <2>2. ThreadType'
    BY <1>0, <1>19, <2>1, DispatchFits, BootTypes
    DEF Notify, ThreadType, Unlocked, Label
  <2> QED
    BY <1>0, <1>19, <2>2
    DEF Notify, DataType, PacketFits, ThreadType, FromSensors, FromMotors
<1>20. CASE SetSensorsConfig
  <2>1. ThreadType'
    BY <1>0, <1>20, GotoType, DispatchFits DEF SetSensorsConfig
  <2> QED
    BY <1>0, <1>20, <2>1
    DEF SetSensorsConfig, DataType, Goto, PacketFits, ThreadType, FromMotors
<1>21. CASE StoreMin \/ StoreMax
  <2>1. ThreadType'
    BY <1>0, <1>21, GotoType DEF StoreMin, StoreMax, ReceiverLabel
  <2>2. packet.motors_config \in MotorsConfig
    BY <1>0, <1>21 DEF StoreMin, StoreMax, At, PacketFits, ThreadType, CommandPacket
  <2>3. DataType'
    BY <1>0, <1>21, <2>2 DEF StoreMin, StoreMax, DataType, MotorsConfig
  <2> QED
    BY <1>0, <1>21, <2>1, <2>3
    DEF StoreMin, StoreMax, At, Goto, PacketFits, ThreadType
<1>22. CASE ResetSensors
  <2>1. ThreadType'
    BY <1>0, <1>22, GotoType DEF ResetSensors, ReceiverLabel
  <2> QED
    BY <1>0, <1>22, <2>1 DEF ResetSensors, DataType, Goto, PacketFits, ThreadType
<1>23. CASE AwaitHost \/ SpuriousWakeup \/ Log \/ Pause
  <2>1. ThreadType'
    BY <1>0, <1>23, GotoType
    DEF AwaitHost, SpuriousWakeup, Log, Pause, TelemetryLabel
  <2> QED
    BY <1>0, <1>23, <2>1
    DEF AwaitHost, SpuriousWakeup, Log, Pause, DataType, Goto, PacketFits,
        ThreadType
<1>24. CASE Serialize
  <2>1. CASE Malformed /\ DebugChecks
    BY <1>18, <1>24, <2>1 DEF Serialize
  <2>2. CASE ~(Malformed /\ DebugChecks)
    <3>1. ThreadType'
      BY <1>0, <1>24, <2>2, GotoType DEF Serialize, TelemetryLabel
    <3> QED
      BY <1>0, <1>24, <2>2, <3>1
      DEF Serialize, DataType, Goto, PacketFits, ThreadType
  <2> QED
    BY <2>1, <2>2
<1>25. ASSUME NEW written \in {-1, 0}, Send(written)
       PROVE ThreadType' /\ DataType' /\ PacketFits'
  <2>1. ThreadType'
    BY <1>0, <1>25, GotoType DEF Send, TelemetryLabel
  <2>2. DataType'
    BY <1>0, <1>25 DEF Send, DataType, KnownClient
  <2> QED
    BY <1>0, <1>25, <2>1, <2>2 DEF Send, Goto, PacketFits, ThreadType
<1>26. CASE Restart \/ GcsLeaves \/ UNCHANGED vars
  BY <1>0, <1>26 DEF Restart, GcsLeaves, vars, ThreadType, DataType, PacketFits
<1>27. FromController(packet) \in ReceiverLabel
  BY DispatchFits
<1>28. CASE Main
  BY <1>2, <1>3, <1>4, <1>5, <1>6, <1>7, <1>8, <1>9, <1>28
  DEF Main, Stream, MainLabel
<1>29. CASE Handle
  BY <1>7, <1>12, <1>13, <1>14, <1>15, <1>16, <1>17, <1>18, <1>19, <1>20, <1>21,
     <1>22, <1>29
  DEF Handle, ConnectFails, Stream, ReceiverLabel
<1>30. CASE Poll \/ Telemeter
  BY <1>10, <1>11, <1>18, <1>23, <1>24, <1>25, <1>30 DEF Poll, Telemeter, LogFaults
<1> QED
  BY <1>1, <1>23, <1>26, <1>28, <1>29, <1>30 DEF Next

\* Type correctness of FlightProgram.
THEOREM TypeCorrect == Spec => []TypeOK
<1>1. TypeInv => TypeOK
  BY DEF TypeInv
<1> QED
  BY <1>1, TypeInit, TypeNext, PTL DEF Spec

(***************************************************************************)
(* Lock discipline.  LockDiscipline says which mutexes are owned; that a   *)
(* thread is inside only where there is a section to be in makes it        *)
(* inductive.                                                              *)
(***************************************************************************)
\* The mutex of each section, and those of its callers.
LEMMA SectionFacts ==
    /\ \A a \in Axis :
          /\ Guard("run", a) = 1
          /\ Guard("sensorsConfig", a) = 1
          /\ Guard("setAttitude", a) = 2
          /\ Guard("setCommand", a) = 2
          /\ Guard("setConfig", a) = 2
          /\ Guard("pid", a) = 2 + a
          /\ Guard("reset", a) = 2 + a
          /\ Guard("setParams", a) = 2 + a
          /\ Guard("setControl", a) = 7
          /\ Guard("reportAttitude", a) = 7
          /\ Guard("reportSwitches", a) = 7
          /\ Guard("reportCommand", a) = 7
          /\ Guard("telemetryConfig", a) = 7
          /\ Guard("awaitHost", a) = 7
          /\ Guard("serialize", a) = 7
          /\ Guard("connect", a) = 8
          /\ Guard("send", a) = 8
    /\ Base("setAttitude") = {1}
    /\ Base("reportAttitude") = {1}
    /\ Base("reportSwitches") = {1}
    /\ Base("usleep") = {1}
    /\ Base("pid") = {1, 2}
    /\ Base("setControl") = {1, 2}
    /\ Base("drive") = {1, 2}
    /\ Base("reset") = {2}
    /\ Base("setParams") = {2}
    /\ Base("connect") = {7}
    /\ Base("notify") = {7}
    /\ Base("send") = {7}
    /\ Base("startTelemetry") = {}
    /\ Base("startReceiver") = {}
    /\ Base("run") = {}
    /\ Base("off") = {}
    /\ Base("poll") = {}
    /\ Base("setCommand") = {}
    /\ Base("reportCommand") = {}
    /\ Base("setConfig") = {}
    /\ Base("telemetryConfig") = {}
    /\ Base("sensorsConfig") = {}
    /\ Base("storeMin") = {}
    /\ Base("storeMax") = {}
    /\ Base("resetSensors") = {}
    /\ Base("awaitHost") = {}
    /\ Base("wait") = {}
    /\ Base("log") = {}
    /\ Base("serialize") = {}
    /\ Base("pause") = {}
    /\ \A l \in {"run", "sensorsConfig", "setAttitude", "setCommand",
                "setConfig", "pid", "reset", "setParams", "setControl",
                "reportAttitude", "reportSwitches", "reportCommand",
                "telemetryConfig", "awaitHost", "serialize", "connect", "send"} :
          l \in Synchronized
    /\ \A l \in {"startTelemetry", "startReceiver", "off", "poll", "storeMin",
                "storeMax", "resetSensors", "wait", "log", "pause", "drive",
                "usleep", "notify"} :
          l \notin Synchronized
<1>1. ASSUME NEW a \in Axis PROVE
          /\ \A l \in SensorsSection : Guard(l, a) = 1
          /\ \A l \in ControllerSection : Guard(l, a) = 2
          /\ \A l \in PidSection : Guard(l, a) = 2 + a
          /\ \A l \in TelemetrySection : Guard(l, a) = 7
          /\ \A l \in SocketSection : Guard(l, a) = 8
  BY 
  DEF Guard, SensorsMutex, ControllerMutex, PidMutex, TelemetryMutex, SocketMutex,
         SensorsSection, ControllerSection, PidSection, TelemetrySection, SocketSection
<1> QED
  BY <1>1
  DEF Base, Synchronized, SensorsMutex, ControllerMutex, TelemetryMutex,
      SensorsSection, ControllerSection, PidSection, TelemetrySection, SocketSection

InsideSection == \A t \in Thread : inside[t] => pc[t] \in Synchronized

\* A thread starts once.
Starting ==
    /\ pc["main"] = "startTelemetry" => pc["telemetry"] = "off"
    /\ pc["main"] \in {"startTelemetry", "startReceiver"} => pc["receiver"] = "off"

LockInv == TypeInv /\ InsideSection /\ Starting /\ LockDiscipline

\* A step of t that unlocks exactly what t no longer holds.
LEMMA GotoLocks ==
    ASSUME TypeInv, LockDiscipline, InsideSection,
           NEW t \in Thread, NEW l, NEW S, Goto(t, l, S),
           \A u \in Thread \ {t} : axis'[u] = axis[u],
           S \subseteq Held(t),
           \A m \in Mutex : m \in Held(t)' <=> m \in Held(t) /\ m \notin S
    PROVE  LockDiscipline' /\ InsideSection'
<1>1. InsideSection'
  BY DEF Goto, InsideSection, TypeInv, TypeOK
<1>2. ASSUME NEW u \in Thread \ {t} PROVE Held(u)' = Held(u)
  BY <1>2 DEF Goto, TypeInv, TypeOK, Held, Wanted
<1>3. ASSUME NEW u \in Thread, NEW m \in Mutex
      PROVE (mutex'[m] = u) <=> m \in Held(u)'
  <2>1. CASE m \in S
    BY <1>2, <1>3, <2>1, NobodyAssumption DEF Goto, Unlocked, LockDiscipline
  <2>2. CASE m \notin S
    BY <1>2, <1>3, <2>2 DEF Goto, Unlocked, LockDiscipline
  <2> QED
    BY <2>1, <2>2
<1> QED
  BY <1>1, <1>3 DEF LockDiscipline

\* The same in the loop over the PIDs, whose caller holds the mutexes B.
LEMMA LoopLocks ==
    ASSUME TypeInv, LockDiscipline, InsideSection,
           NEW t \in Thread, NEW l, NEW S, NEW B, LoopOrGoto(t, l, S),
           Held(t) = B \cup {PidMutex(axis[t])},
           Held(t)' = IF axis[t] # YawRate THEN B ELSE B \ S,
           S \subseteq B, B \subseteq {1, 2}
    PROVE  LockDiscipline' /\ InsideSection'
<1>1. PidMutex(axis[t]) \notin B
  BY DEF TypeInv, TypeOK, PidMutex, Axis
<1>2. \A u \in Thread \ {t} : axis'[u] = axis[u]
  BY DEF LoopOrGoto, First, TypeInv, TypeOK
<1>3. CASE axis[t] # YawRate
  BY <1>1, <1>2, <1>3, GotoLocks DEF LoopOrGoto
<1>4. CASE axis[t] = YawRate
  <2>1. Goto(t, l, S \cup {PidMutex(axis[t])})
    BY <1>4 DEF LoopOrGoto
  <2>2. \A m \in Mutex : m \in Held(t)'
           <=> m \in Held(t) /\ m \notin S \cup {PidMutex(axis[t])}
    BY <1>1, <1>4
  <2> QED
    BY <1>2, <2>1, <2>2, GotoLocks
<1> QED
  BY <1>3, <1>4

\* Between two calls of a dispatch the receiver holds nothing.
LEMMA FromFacts ==
    /\ Base(FromMotors(packet)) = {}
    /\ Base(FromSensors(packet)) = {}
    /\ Base(FromTelemetry(packet)) = {}
    /\ Base(FromController(packet)) = {}
  BY SectionFacts DEF FromMotors, FromSensors, FromTelemetry, FromController

LEMMA LockInit == Init => LockInv
<1> SUFFICES ASSUME Init PROVE LockInv
  OBVIOUS
<1>1. \A t \in Thread : Held(t) = {}
  BY DEF Init, BootPc, Held, Base
<1> QED
  BY <1>1, TypeInit, NobodyAssumption
  DEF Init, BootPc, LockInv, InsideSection, Starting, LockDiscipline

LEMMA BootLocks == Boot => LockDiscipline' /\ InsideSection'
<1> SUFFICES ASSUME Boot PROVE LockDiscipline' /\ InsideSection'
  OBVIOUS
<1>1. \A t \in Thread : Held(t)' = {}
  BY DEF Boot, BootPc, Held, Base
<1> QED
  BY <1>1, NobodyAssumption DEF Boot, InsideSection, LockDiscipline

LEMMA StartingNext == TypeInv /\ Starting /\ [Next]_vars => Starting'
<1> SUFFICES ASSUME TypeInv, Starting, [Next]_vars PROVE Starting'
  OBVIOUS
<1> USE DEF Starting, TypeInv, TypeOK, At
<1>1. CASE Exit
  BY <1>1 DEF Exit, Boot, BootPc
<1>2. CASE Main
  BY <1>2 DEF Main, StartThread, Sample, SetAttitude, Pid, Report, Drive, Usleep,
              LoopOrGoto, Goto
<1>3. CASE Handle
  BY <1>1, <1>3
  DEF Handle, SetCommand, Reset, Report, SetConfig, SetParams,
      SetTelemetryConfig, Connect, ConnectFails, Notify, Woken,
      SetSensorsConfig, StoreMin, StoreMax, ResetSensors,
      LoopOrGoto, Goto
<1>4. CASE Poll
  BY <1>4 DEF Poll, Receive, ReceiveInvalid, LinkLost, threadVars
<1>5. CASE Telemeter \/ SpuriousWakeup
  BY <1>1, <1>5
  DEF Telemeter, SpuriousWakeup, AwaitHost, Log, LogFaults, Serialize, Send,
      Pause, Goto
<1>6. CASE (\E t \in Thread : Enter(t)) \/ Restart \/ GcsLeaves \/ UNCHANGED vars
  BY <1>6 DEF Enter, Restart, GcsLeaves, vars, threadVars
<1> QED
  BY <1>1, <1>2, <1>3, <1>4, <1>5, <1>6 DEF Next

LEMMA LockNext == LockInv /\ [Next]_vars => LockInv'
<1> SUFFICES ASSUME LockInv, [Next]_vars PROVE LockInv'
  OBVIOUS
<1>0. TypeInv /\ InsideSection /\ Starting /\ LockDiscipline /\ TypeInv'
  BY TypeNext DEF LockInv
<1> SUFFICES LockDiscipline' /\ InsideSection'
  BY <1>0, StartingNext DEF LockInv
<1> USE DEF worldVars, threadVars, controllerVars, sensorsVars, telemetryVars,
            motorsVars
<1>1. ASSUME NEW t \in Thread, Enter(t) PROVE LockDiscipline' /\ InsideSection'
  <2>1. InsideSection'
    BY <1>0, <1>1 DEF Enter, Waiting, InsideSection, TypeInv, TypeOK
  <2>2. \A u \in Thread \ {t} : Held(u)' = Held(u)
    BY <1>0, <1>1 DEF Enter, TypeInv, TypeOK, Held, Wanted
  <2>3. Held(t)' = Held(t) \cup {Wanted(t)}
    BY <1>0, <1>1 DEF Enter, Waiting, TypeInv, TypeOK, Held, Wanted
  <2>4. ASSUME NEW u \in Thread, NEW m \in Mutex
        PROVE (mutex'[m] = u) <=> m \in Held(u)'
    BY <1>0, <1>1, <2>2, <2>3, <2>4, NobodyAssumption
    DEF Enter, TypeInv, TypeOK, LockDiscipline
  <2> QED
    BY <2>1, <2>4 DEF LockDiscipline
<1>2. CASE Sample
  <2>1. Held("main") = {1} /\ Held("main")' = {1}
    BY <1>0, <1>2, SectionFacts
    DEF Sample, Held, Wanted, Goto, At, TypeInv, TypeOK, InsideSection
  <2> QED
    BY <1>0, <1>2, <2>1, GotoLocks DEF Sample
<1>3. CASE SetAttitude
  <2>1. Held("main") = {1, 2} /\ Held("main")' = {1, 2}
    BY <1>0, <1>3, SectionFacts
    DEF SetAttitude, Held, Wanted, Goto, At, TypeInv, TypeOK, InsideSection
  <2> QED
    BY <1>0, <1>3, <2>1, GotoLocks DEF SetAttitude, First, TypeInv, TypeOK
<1>4. CASE Pid
  <2>1. /\ Held("main") = {1, 2} \cup {PidMutex(axis["main"])}
        /\ Held("main")' = IF axis["main"] # YawRate THEN {1, 2} ELSE {1, 2}
    BY <1>0, <1>4, SectionFacts
    DEF Pid, LoopOrGoto, PidMutex, Held, Wanted, Goto, At, TypeInv, TypeOK,
        InsideSection
  <2> QED
    BY <1>0, <1>4, <2>1, LoopLocks DEF Pid
<1>5. CASE Report("main", "setControl", "control", "drive")
  <2>1. Held("main") = {1, 2, 7} /\ Held("main")' = {1, 2}
    BY <1>0, <1>5, SectionFacts
    DEF Report, TelemetryMutex, Held, Wanted, Goto, At, TypeInv, TypeOK,
        InsideSection
  <2> QED
    BY <1>0, <1>5, <2>1, GotoLocks DEF Report, TelemetryMutex
<1>6. CASE Drive
  <2>1. Held("main") = {1, 2} /\ Held("main")' = {1}
    BY <1>0, <1>6, SectionFacts
    DEF Drive, ControllerMutex, Held, Wanted, Goto, At, TypeInv, TypeOK,
        InsideSection
  <2> QED
    BY <1>0, <1>6, <2>1, GotoLocks DEF Drive, ControllerMutex
<1>7. CASE Report("main", "reportAttitude", "attitude", "reportSwitches")
  <2>1. Held("main") = {1, 7} /\ Held("main")' = {1}
    BY <1>0, <1>7, SectionFacts
    DEF Report, TelemetryMutex, Held, Wanted, Goto, At, TypeInv, TypeOK,
        InsideSection
  <2> QED
    BY <1>0, <1>7, <2>1, GotoLocks DEF Report, TelemetryMutex
<1>8. CASE Report("main", "reportSwitches", "switches", "usleep")
  <2>1. Held("main") = {1, 7} /\ Held("main")' = {1}
    BY <1>0, <1>8, SectionFacts
    DEF Report, TelemetryMutex, Held, Wanted, Goto, At, TypeInv, TypeOK,
        InsideSection
  <2> QED
    BY <1>0, <1>8, <2>1, GotoLocks DEF Report, TelemetryMutex
<1>9. CASE Usleep
  <2>1. Held("main") = {1} /\ Held("main")' = {}
    BY <1>0, <1>9, SectionFacts
    DEF Usleep, SensorsMutex, Held, Wanted, Goto, At, TypeInv, TypeOK,
        InsideSection
  <2> QED
    BY <1>0, <1>9, <2>1, GotoLocks DEF Usleep, SensorsMutex
<1>10. CASE SetCommand
  <2>1. /\ Held("receiver") = {2}
        /\ Held("receiver")' = IF packet.command.altitude = 0 THEN {2} ELSE {}
    BY <1>0, <1>10, SectionFacts
    DEF SetCommand, ControllerMutex, Held, Wanted, Goto, At, TypeInv, TypeOK,
        InsideSection
  <2> QED
    BY <1>0, <1>10, <2>1, GotoLocks
    DEF SetCommand, ControllerMutex, First, TypeInv, TypeOK
<1>11. CASE Reset
  <2>1. /\ Held("receiver") = {2} \cup {PidMutex(axis["receiver"])}
        /\ Held("receiver")' = IF axis["receiver"] # YawRate THEN {2} ELSE {}
    BY <1>0, <1>11, SectionFacts
    DEF Reset, ControllerMutex, LoopOrGoto, PidMutex, Held, Wanted, Goto, At,
        TypeInv, TypeOK, InsideSection
  <2> QED
    BY <1>0, <1>11, <2>1, LoopLocks DEF Reset, ControllerMutex
<1>12. CASE Report("receiver", "reportCommand", "command", FromController(packet))
  <2>1. Held("receiver") = {7} /\ Held("receiver")' = {}
    BY <1>0, <1>12, SectionFacts, FromFacts
    DEF Report, TelemetryMutex, Held, Wanted, Goto, At, TypeInv, TypeOK,
        InsideSection
  <2> QED
    BY <1>0, <1>12, <2>1, GotoLocks DEF Report, TelemetryMutex
<1>13. CASE SetConfig
  <2>1. Held("receiver") = {2} /\ Held("receiver")' = {2}
    BY <1>0, <1>13, SectionFacts
    DEF SetConfig, Held, Wanted, Goto, At, TypeInv, TypeOK, InsideSection
  <2> QED
    BY <1>0, <1>13, <2>1, GotoLocks DEF SetConfig, First, TypeInv, TypeOK
<1>14. CASE SetParams
  <2>1. /\ Held("receiver") = {2} \cup {PidMutex(axis["receiver"])}
        /\ Held("receiver")' = IF axis["receiver"] # YawRate THEN {2} ELSE {}
    BY <1>0, <1>14, SectionFacts, FromFacts
    DEF SetParams, ControllerMutex, LoopOrGoto, PidMutex, Held, Wanted, Goto, At,
        TypeInv, TypeOK, InsideSection
  <2> QED
    BY <1>0, <1>14, <2>1, LoopLocks DEF SetParams, ControllerMutex
<1>15. CASE SetTelemetryConfig
  <2>1. /\ Held("receiver") = {7}
        /\ Held("receiver")' = IF NewHost(tconfig, packet.telemetry_config)
                               THEN {7} ELSE {}
    BY <1>0, <1>15, SectionFacts, FromFacts
    DEF SetTelemetryConfig, TelemetryMutex, Held, Wanted, Goto, At, TypeInv,
        TypeOK, InsideSection
  <2> QED
    BY <1>0, <1>15, <2>1, GotoLocks DEF SetTelemetryConfig, TelemetryMutex
<1>16. CASE Connect
  <2>1. Held("receiver") = {7, 8} /\ Held("receiver")' = {7}
    BY <1>0, <1>16, SectionFacts
    DEF Connect, SocketMutex, Held, Wanted, Goto, At, TypeInv, TypeOK,
        InsideSection
  <2> QED
    BY <1>0, <1>16, <2>1, GotoLocks DEF Connect, SocketMutex
<1>17. CASE SetSensorsConfig
  <2>1. Held("receiver") = {1} /\ Held("receiver")' = {}
    BY <1>0, <1>17, SectionFacts, FromFacts
    DEF SetSensorsConfig, SensorsMutex, Held, Wanted, Goto, At, TypeInv, TypeOK,
        InsideSection
  <2> QED
    BY <1>0, <1>17, <2>1, GotoLocks DEF SetSensorsConfig, SensorsMutex
<1>18. CASE StoreMin
  <2>1. Held("receiver") = {} /\ Held("receiver")' = {}
    BY <1>0, <1>18, SectionFacts
    DEF StoreMin, Held, Wanted, Goto, At, TypeInv, TypeOK, InsideSection
  <2> QED
    BY <1>0, <1>18, <2>1, GotoLocks DEF StoreMin
<1>19. CASE StoreMax
  <2>1. Held("receiver") = {} /\ Held("receiver")' = {}
    BY <1>0, <1>19, SectionFacts
    DEF StoreMax, Held, Wanted, Goto, At, TypeInv, TypeOK, InsideSection
  <2> QED
    BY <1>0, <1>19, <2>1, GotoLocks DEF StoreMax
<1>20. CASE ResetSensors
  <2>1. Held("receiver") = {} /\ Held("receiver")' = {}
    BY <1>0, <1>20, SectionFacts
    DEF ResetSensors, Held, Wanted, Goto, At, TypeInv, TypeOK, InsideSection
  <2> QED
    BY <1>0, <1>20, <2>1, GotoLocks DEF ResetSensors
<1>21. CASE AwaitHost
  <2>1. Held("telemetry") = {7} /\ Held("telemetry")' = {}
    BY <1>0, <1>21, SectionFacts
    DEF AwaitHost, TelemetryMutex, Held, Wanted, Goto, At, TypeInv, TypeOK,
        InsideSection
  <2> QED
    BY <1>0, <1>21, <2>1, GotoLocks DEF AwaitHost, TelemetryMutex
<1>22. CASE SpuriousWakeup
  <2>1. Held("telemetry") = {} /\ Held("telemetry")' = {}
    BY <1>0, <1>22, SectionFacts
    DEF SpuriousWakeup, Held, Wanted, Goto, At, TypeInv, TypeOK, InsideSection
  <2> QED
    BY <1>0, <1>22, <2>1, GotoLocks DEF SpuriousWakeup
<1>23. CASE Log
  <2>1. Held("telemetry") = {} /\ Held("telemetry")' = {}
    BY <1>0, <1>23, SectionFacts
    DEF Log, Held, Wanted, Goto, At, TypeInv, TypeOK, InsideSection
  <2> QED
    BY <1>0, <1>23, <2>1, GotoLocks DEF Log
<1>24. CASE Pause
  <2>1. Held("telemetry") = {} /\ Held("telemetry")' = {}
    BY <1>0, <1>24, SectionFacts
    DEF Pause, Held, Wanted, Goto, At, TypeInv, TypeOK, InsideSection
  <2> QED
    BY <1>0, <1>24, <2>1, GotoLocks DEF Pause
<1>25. CASE Exit
  BY <1>25, BootLocks DEF Exit
<1>26. CASE Serialize
  <2>1. CASE Malformed /\ DebugChecks
    BY <1>25, <1>26, <2>1 DEF Serialize
  <2>2. CASE ~(Malformed /\ DebugChecks)
    <3>1. At("telemetry", "serialize") /\ Goto("telemetry", "send", {}) /\ UNCHANGED axis
      BY <1>26, <2>2 DEF Serialize
    <3>2. Held("telemetry") = {7} /\ Held("telemetry")' = {7}
      BY <1>0, <3>1, SectionFacts DEF Held, Wanted, Goto, At, TypeInv, TypeOK
    <3> QED
      BY <1>0, <3>1, <3>2, GotoLocks
  <2> QED
    BY <2>1, <2>2
<1>27. ASSUME NEW written \in {-1, 0}, Send(written)
       PROVE LockDiscipline' /\ InsideSection'
  <2>1. Held("telemetry") = {7, 8} /\ Held("telemetry")' = {}
    BY <1>0, <1>27, SectionFacts
    DEF Send, Held, Wanted, Goto, At, TypeInv, TypeOK, InsideSection
  <2> QED
    BY <1>0, <1>27, <2>1, GotoLocks DEF Send, TelemetryMutex, SocketMutex
<1>28. CASE Notify
  <2>1. /\ Held("receiver") = {7} /\ Held("receiver")' = {}
        /\ Held("telemetry")' = Held("telemetry") /\ Held("main")' = Held("main")
    BY <1>0, <1>28, SectionFacts, FromFacts
    DEF Notify, Woken, Held, Wanted, Goto, At, TypeInv, TypeOK, InsideSection
  <2>2. InsideSection'
    BY <1>0, <1>28, SectionFacts
    DEF Notify, Woken, At, InsideSection, TypeInv, TypeOK
  <2>3. ASSUME NEW u \in Thread, NEW m \in Mutex
        PROVE (mutex'[m] = u) <=> m \in Held(u)'
    BY <1>0, <1>28, <2>1, NobodyAssumption
    DEF Notify, Unlocked, LockDiscipline, TelemetryMutex
  <2> QED
    BY <2>2, <2>3 DEF LockDiscipline
<1>29. ASSUME NEW p \in Packets, Receive(p) PROVE LockDiscipline' /\ InsideSection'
  <2>1. Held("receiver") = {} /\ Held("receiver")' = {}
    BY <1>0, <1>29, SectionFacts
    DEF Receive, FromCommand, FromController, FromTelemetry, FromSensors,
        FromMotors, Held, Wanted, Goto, At, TypeInv, TypeOK, InsideSection
  <2>2. \A u \in Thread : Held(u)' = Held(u)
    BY <1>0, <1>29, <2>1 DEF Receive, Held, Wanted, TypeInv, TypeOK
  <2> QED
    BY <1>0, <1>29, <2>2, SectionFacts
    DEF Receive, LockDiscipline, InsideSection, At, TypeInv, TypeOK
<1>30. CASE ReceiveInvalid \/ LinkLost \/ Restart \/ GcsLeaves \/ UNCHANGED vars
  BY <1>0, <1>30
  DEF ReceiveInvalid, LinkLost, Restart, GcsLeaves, vars, LockDiscipline,
      InsideSection, Held, Wanted
<1>31. ASSUME NEW l \in {"startTelemetry", "startReceiver"},
             NEW t \in {"receiver", "telemetry"},
             NEW first \in {"awaitHost", "poll"},
             NEW next \in {"startReceiver", "run"},
             StartThread(l, t, first, next), pc[t] = "off"
      PROVE LockDiscipline' /\ InsideSection'
  <2>1. \A u \in Thread : Held(u)' = Held(u)
    BY <1>0, <1>31, SectionFacts
    DEF StartThread, Held, Wanted, Goto, At, TypeInv, TypeOK, InsideSection
  <2> QED
    BY <1>0, <1>31, <2>1, SectionFacts
    DEF StartThread, LockDiscipline, InsideSection, At, TypeInv, TypeOK
<1>32. CASE Main
  <2>1. pc["main"] = "startTelemetry" => pc["telemetry"] = "off"
    BY <1>0 DEF Starting
  <2>2. pc["main"] = "startReceiver" => pc["receiver"] = "off"
    BY <1>0 DEF Starting
  <2>3. StartThread("startTelemetry", "telemetry", "awaitHost", "startReceiver")
          => LockDiscipline' /\ InsideSection'
    BY <1>31, <2>1 DEF StartThread, At
  <2>4. StartThread("startReceiver", "receiver", "poll", "run")
          => LockDiscipline' /\ InsideSection'
    BY <1>31, <2>2 DEF StartThread, At
  <2> QED
    BY <1>2, <1>3, <1>4, <1>5, <1>6, <1>7, <1>8, <1>9, <1>32, <2>3, <2>4 DEF Main
<1>33. CASE Handle
  BY <1>33, <1>25, <1>10, <1>11, <1>12, <1>13, <1>14, <1>15, <1>16, <1>17, <1>18,
     <1>19, <1>20, <1>28
  DEF Handle, ConnectFails
<1>34. CASE Poll \/ Telemeter
  BY <1>34, <1>25, <1>29, <1>30, <1>21, <1>23, <1>24, <1>26, <1>27
  DEF Poll, Telemeter, LogFaults
<1> QED
  BY <1>1, <1>22, <1>30, <1>32, <1>33, <1>34 DEF Next

\* Object::Mutex is used correctly: a thread owns the mutexes on its call stack.
THEOREM LocksCorrect == Spec => []LockDiscipline
<1>1. LockInv => LockDiscipline
  BY DEF LockInv
<1> QED
  BY <1>1, LockInit, LockNext, PTL DEF Spec

(***************************************************************************)
(* No deadlock.  The mutexes are numbered so that a thread only waits for  *)
(* one that comes after all those it holds; in a circle of waiting threads *)
(* the numbers would grow for ever.                                        *)
(***************************************************************************)
\* A nested call takes a mutex that comes after those of its callers.
LEMMA NestedLocksGrow ==
    ASSUME TypeInv, NEW t \in Thread, Waiting(t)
    PROVE  Wanted(t) \in Mutex /\ \A m \in Held(t) : m < Wanted(t)
<1>1. pc[t] \in Synchronized /\ axis[t] \in Axis /\ Held(t) = Base(pc[t])
  BY DEF Waiting, Held, TypeInv, TypeOK
<1>2. \A l \in Synchronized, a \in Axis :
         Guard(l, a) \in Mutex /\ \A m \in Base(l) : m < Guard(l, a)
  <2>1. SUFFICES ASSUME NEW l \in Synchronized, NEW a \in Axis
                 PROVE  Guard(l, a) \in Mutex /\ \A m \in Base(l) : m < Guard(l, a)
    OBVIOUS
  <2>2. l \in {"run", "sensorsConfig", "setAttitude", "setCommand",
               "setConfig", "pid", "reset", "setParams", "setControl",
               "reportAttitude", "reportSwitches", "reportCommand",
               "telemetryConfig", "awaitHost", "serialize", "connect", "send"}
    BY DEF Synchronized, SensorsSection, ControllerSection, PidSection,
           TelemetrySection, SocketSection
  <2> QED
    BY <2>2, SectionFacts DEF Mutex, Axis
<1> QED
  BY <1>1, <1>2 DEF Wanted

\* Nested calls never close a circle, whatever set of threads one looks at.
THEOREM DeadlockFree == Spec => []NoDeadlock
<1>1. LockInv => NoDeadlock
  <2> SUFFICES ASSUME LockInv, NEW S \in (SUBSET Thread) \ {{}},
                      \A t \in S : Waiting(t) /\ mutex[Wanted(t)] \in S
               PROVE  FALSE
    BY DEF NoDeadlock
  <2>1. TypeInv /\ LockDiscipline
    BY DEF LockInv
  <2>2. \A t \in S : Wanted(t) \in Int
    BY <2>1, NestedLocksGrow DEF Mutex
  <2>3. ASSUME NEW t \in S
        PROVE  \E u \in S : Wanted(t) < Wanted(u)
    <3>1. Waiting(t) /\ Wanted(t) \in Mutex /\ mutex[Wanted(t)] \in S
      BY <2>1, NestedLocksGrow
    <3>2. PICK u \in S : mutex[Wanted(t)] = u
      BY <3>1
    <3>3. Wanted(t) \in Held(u) /\ Waiting(u)
      BY <2>1, <3>1, <3>2 DEF LockDiscipline
    <3> QED
      BY <2>1, <3>3, NestedLocksGrow
  <2>4. PICK t \in S : TRUE
    OBVIOUS
  <2>5. PICK u \in S : Wanted(t) < Wanted(u)
    BY <2>3
  <2>6. PICK v \in S : Wanted(u) < Wanted(v)
    BY <2>3
  <2>7. PICK w \in S : Wanted(v) < Wanted(w)
    BY <2>3
  <2>8. t # u /\ t # v /\ t # w /\ u # v /\ u # w /\ v # w
    BY <2>2, <2>5, <2>6, <2>7
  <2> QED
    BY <2>8
<1> QED
  BY <1>1, LockInit, LockNext, PTL DEF Spec

(***************************************************************************)
(* The telemetry client: the socket follows the configured host, and the   *)
(* telemetry thread is never left asleep.                                  *)
(***************************************************************************)
\* The configured host and the connected one differ only while the receiver
\* connects.
SocketFollows ==
    IF pc["receiver"] = "connect"
    THEN tconfig.host # None /\ peer.host # tconfig.host
    ELSE peer.host = tconfig.host

\* The telemetry thread leaves its wait loop only for a connected socket.
ServedConnected ==
    pc["telemetry"] \in {"log", "serialize", "send", "pause"}
        => peer.host # None

\* While the telemetry thread sleeps beside a configured host, the receiver
\* has its notification still to give.
WakeupPending ==
    pc["telemetry"] = "wait" /\ tconfig.host # None
        => pc["receiver"] \in {"connect", "notify"}

TelemetryInv == LockInv /\ SocketFollows /\ ServedConnected /\ WakeupPending

\* The thread that holds the telemetry mutex keeps the other away from it.
LEMMA TelemetryExclusive ==
    ASSUME LockInv, pc["receiver"] \in {"connect", "notify"}
    PROVE  /\ ~inside["telemetry"]
           /\ mutex[TelemetryMutex] = "receiver"
<1>1. TypeInv /\ LockDiscipline /\ InsideSection
  BY DEF LockInv
<1>2. 7 \in Held("receiver") /\ 7 \in Mutex
  BY <1>1, SectionFacts DEF Held, TypeInv, TypeOK, Mutex
<1>3. mutex[7] = "receiver" /\ 7 \notin Held("telemetry")
  BY <1>1, <1>2 DEF LockDiscipline
<1>4. inside["telemetry"] => pc["telemetry"] \in {"awaitHost", "serialize", "send"}
  BY <1>1, SectionFacts DEF InsideSection, TypeInv, TypeOK, TelemetryLabel
<1> QED
  BY <1>1, <1>3, <1>4, SectionFacts
  DEF Held, Wanted, TypeInv, TypeOK, TelemetryMutex

\* DatagramSocket::send never returns the -1 that Telemetry::run waits for.
LEMMA SendNeverFails == \A written \in {-1, 0} : Returned(written) # -1
  BY DEF Returned, ToInt, ToBool

LEMMA TelemetryInit == Init => TelemetryInv
<1> SUFFICES ASSUME Init PROVE TelemetryInv
  OBVIOUS
<1> QED
  BY LockInit
  DEF TelemetryInv, Init, BootPc, SocketFollows, ServedConnected, WakeupPending

LEMMA BootTelemetry ==
    Boot => SocketFollows' /\ ServedConnected' /\ WakeupPending'
  BY DEF Boot, BootPc, SocketFollows, ServedConnected, WakeupPending

\* A step that leaves the client alone.
LEMMA TelemetryFrame ==
    ASSUME TelemetryInv, UNCHANGED <<tconfig, peer>>,
           \/ pc'["receiver"] = pc["receiver"]
           \/ {"connect", "notify"}
                \cap {pc["receiver"], pc'["receiver"]} = {},
           \/ pc'["telemetry"] = pc["telemetry"]
           \/ pc'["telemetry"] \in {"off", "awaitHost"}
           \/ /\ pc["telemetry"] \in {"log", "serialize", "send", "pause"}
              /\ pc'["telemetry"] # "wait"
    PROVE  SocketFollows' /\ ServedConnected' /\ WakeupPending'
<1>1. SocketFollows'
  BY DEF TelemetryInv, SocketFollows
<1>2. ServedConnected'
  BY DEF TelemetryInv, ServedConnected
<1>3. WakeupPending'
  BY DEF TelemetryInv, WakeupPending
<1> QED
  BY <1>1, <1>2, <1>3

LEMMA TelemetryNext == TelemetryInv /\ [Next]_vars => TelemetryInv'
<1> SUFFICES ASSUME TelemetryInv, [Next]_vars PROVE TelemetryInv'
  OBVIOUS
<1>0. LockInv /\ TypeInv /\ TypeOK /\ PacketFits /\ LockInv'
  BY LockNext DEF TelemetryInv, LockInv, TypeInv
<1> SUFFICES SocketFollows' /\ ServedConnected' /\ WakeupPending'
  BY <1>0 DEF TelemetryInv
<1> USE DEF worldVars, threadVars, telemetryVars
<1>1. CASE SetTelemetryConfig
  <2>1. /\ pc["receiver"] = "telemetryConfig" /\ peer' = peer
        /\ pc'["telemetry"] = pc["telemetry"]
        /\ packet.telemetry_config \in TelemetryConfig
        /\ tconfig' = packet.telemetry_config /\ tconfig'.host # None
    BY <1>0, <1>1, NoneAssumption
    DEF SetTelemetryConfig, At, Goto, TypeOK, PacketFits, CommandPacket,
        TelemetryConfig
  <2>2. peer.host = tconfig.host
    BY <2>1 DEF TelemetryInv, SocketFollows
  <2>3. CASE NewHost(tconfig, packet.telemetry_config)
    <3>1. pc'["receiver"] = "connect"
      BY <1>0, <1>1, <2>3 DEF SetTelemetryConfig, Goto, TypeOK
    <3>2. peer'.host # tconfig'.host
      BY <2>1, <2>2, <2>3 DEF NewHost
    <3> QED
      BY <2>1, <3>1, <3>2
      DEF TelemetryInv, SocketFollows, ServedConnected, WakeupPending
  <2>4. CASE ~NewHost(tconfig, packet.telemetry_config)
    <3>1. pc'["receiver"] \notin {"connect", "notify"}
      BY <1>0, <1>1, <2>4
      DEF SetTelemetryConfig, Goto, TypeOK, FromSensors, FromMotors
    <3>2. tconfig.host = tconfig'.host
      BY <2>1, <2>4 DEF NewHost
    <3> QED
      BY <2>1, <2>2, <3>1, <3>2
      DEF TelemetryInv, SocketFollows, ServedConnected, WakeupPending
  <2> QED
    BY <2>3, <2>4
<1>2. CASE Connect
  <2>1. /\ pc["receiver"] = "connect" /\ pc'["receiver"] = "notify"
        /\ pc'["telemetry"] = pc["telemetry"]
        /\ tconfig' = tconfig /\ peer'.host = tconfig.host
    BY <1>0, <1>2 DEF Connect, At, Goto, TypeOK, KnownClient
  <2> QED
    BY <2>1 DEF TelemetryInv, SocketFollows, ServedConnected, WakeupPending
<1>3. CASE Notify
  <2>1. /\ pc["receiver"] = "notify" /\ UNCHANGED <<tconfig, peer>>
        /\ pc'["receiver"] \notin {"connect", "notify"}
        /\ pc'["telemetry"] = Woken
    BY <1>0, <1>3
    DEF Notify, At, TypeOK, FromSensors, FromMotors
  <2> QED
    BY <2>1
    DEF Woken, TelemetryInv, SocketFollows, ServedConnected, WakeupPending
<1>4. CASE AwaitHost
  <2>1. /\ pc["receiver"] \notin {"connect", "notify"}
        /\ pc'["receiver"] = pc["receiver"] /\ UNCHANGED <<tconfig, peer>>
        /\ pc'["telemetry"] = IF tconfig.host = None THEN "wait" ELSE "log"
    BY <1>0, <1>4, TelemetryExclusive, SectionFacts
    DEF AwaitHost, At, Goto, TypeOK
  <2> QED
    BY <2>1 DEF TelemetryInv, SocketFollows, ServedConnected, WakeupPending
<1>5. CASE Exit
  BY <1>5, BootTelemetry DEF Exit
<1>6. CASE \/ SpuriousWakeup
           \/ Log
           \/ Serialize /\ ~Exit
           \/ \E written \in {-1, 0} : Send(written)
           \/ Pause
  <2>1. /\ UNCHANGED <<tconfig, peer>> /\ pc'["receiver"] = pc["receiver"]
    BY <1>0, <1>6, SendNeverFails
    DEF SpuriousWakeup, Log, Serialize, Send, Pause, Goto, TypeOK
  <2>2. \/ pc'["telemetry"] = "awaitHost"
        \/ /\ pc["telemetry"] \in {"log", "serialize", "send", "pause"}
           /\ pc'["telemetry"] # "wait"
    BY <1>0, <1>6
    DEF SpuriousWakeup, Log, Serialize, Send, Pause, Goto, TypeOK, At
  <2> QED
    BY <2>1, <2>2, TelemetryFrame
<1>7. CASE \/ StartThread("startTelemetry", "telemetry", "awaitHost", "startReceiver")
           \/ StartThread("startReceiver", "receiver", "poll", "run")
  <2>1. /\ UNCHANGED <<tconfig, peer>>
        /\ \/ pc'["receiver"] = pc["receiver"]
           \/ pc["receiver"] = "off" /\ pc'["receiver"] = "poll"
        /\ \/ pc'["telemetry"] = pc["telemetry"]
           \/ pc'["telemetry"] = "awaitHost"
    BY <1>0, <1>7 DEF StartThread, TypeOK, LockInv, Starting, At
  <2> QED
    BY <2>1, TelemetryFrame
<1>8. CASE \/ Sample
           \/ SetAttitude
           \/ Pid
           \/ Report("main", "setControl", "control", "drive")
           \/ Drive
           \/ Report("main", "reportAttitude", "attitude", "reportSwitches")
           \/ Report("main", "reportSwitches", "switches", "usleep")
           \/ Usleep
           \/ \E t \in Thread : Enter(t)
           \/ Restart
           \/ GcsLeaves
           \/ UNCHANGED vars
  <2>1. /\ UNCHANGED <<tconfig, peer>> /\ pc'["receiver"] = pc["receiver"]
        /\ pc'["telemetry"] = pc["telemetry"]
    BY <1>0, <1>8
    DEF Sample, SetAttitude, Pid, Report, Drive, Usleep, Enter, Restart,
        GcsLeaves, vars, LoopOrGoto, Goto, TypeOK
  <2> QED
    BY <2>1, TelemetryFrame
<1>9. CASE \/ SetCommand
           \/ Reset
           \/ Report("receiver", "reportCommand", "command",
                     FromController(packet))
           \/ SetConfig
           \/ SetParams
           \/ SetSensorsConfig
           \/ StoreMin
           \/ StoreMax
           \/ ResetSensors
           \/ Poll
  <2>1. /\ UNCHANGED <<tconfig, peer>>
        /\ pc'["telemetry"] = pc["telemetry"]
    BY <1>0, <1>9
    DEF SetCommand, Reset, Report, SetConfig, SetParams, SetSensorsConfig,
        StoreMin, StoreMax, ResetSensors, Poll, Receive, ReceiveInvalid,
        LinkLost, LoopOrGoto, Goto, TypeOK
  <2>2. {"connect", "notify"} \cap {pc["receiver"], pc'["receiver"]} = {}
    BY <1>0, <1>9
    DEF SetCommand, Reset, Report, SetConfig, SetParams, SetSensorsConfig,
        StoreMin, StoreMax, ResetSensors, Poll, Receive, ReceiveInvalid,
        LinkLost, LoopOrGoto, Goto, TypeOK, At, FromCommand, FromController,
        FromTelemetry, FromSensors, FromMotors
  <2> QED
    BY <2>1, <2>2, TelemetryFrame
<1> QED
  BY <1>1, <1>2, <1>3, <1>4, <1>5, <1>6, <1>7, <1>8, <1>9
  DEF Next, Main, Handle, Telemeter, ConnectFails, LogFaults

\* Telemetry::setConfig: outside it, the socket is connected to the configured
\* host, though setConfig connects only when the host is new.
THEOREM SocketFollowsHost == Spec => []PeerMatchesHost
<1>1. TelemetryInv => PeerMatchesHost
  <2> SUFFICES ASSUME TelemetryInv, pc["receiver"] = "connect"
               PROVE  mutex[TelemetryMutex] # Nobody
    BY DEF PeerMatchesHost, TelemetryInv, SocketFollows
  <2> QED
    BY TelemetryExclusive, NobodyAssumption DEF TelemetryInv
<1> QED
  BY <1>1, TelemetryInit, TelemetryNext, PTL DEF Spec

\* Telemetry::setConfig never resolves the name it is connected to already.
THEOREM LookupsNeeded == Spec => []NoNeedlessLookup
<1>1. TelemetryInv => NoNeedlessLookup
  BY DEF TelemetryInv, SocketFollows, NoNeedlessLookup
<1> QED
  BY <1>1, TelemetryInit, TelemetryNext, PTL DEF Spec

\* Telemetry::run never sends on a socket that is not connected.
THEOREM SendsConnected == Spec => []SendConnected
<1>1. TelemetryInv => SendConnected
  BY DEF TelemetryInv, ServedConnected, SendConnected
<1> QED
  BY <1>1, TelemetryInit, TelemetryNext, PTL DEF Spec

\* Telemetry::run never sleeps on beside a host it has been notified of.
THEOREM WakeupsKept == Spec => []NoLostWakeup
<1>1. TelemetryInv => NoLostWakeup
  BY TelemetryExclusive, NobodyAssumption
  DEF TelemetryInv, WakeupPending, NoLostWakeup
<1> QED
  BY <1>1, TelemetryInit, TelemetryNext, PTL DEF Spec
==============================================================================
