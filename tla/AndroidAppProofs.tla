---------------------------- MODULE AndroidAppProofs ----------------------------
(***************************************************************************)
(* The Android flight service: whatever the finger, the ground station and *)
(* the serial link do, onDestroy leaves nothing behind, and only calls of  *)
(* Teensy that overlap make it crash.  The receiver is known by its        *)
(* promise alone.                                                          *)
(***************************************************************************)
EXTENDS AndroidApp, SequenceTheorems, TLAPS

\* The places of onDestroy.
Destroying == {"onDestroy", "stopTelemetry", "stopSensors", "stopReceiver"}

\* A packet is dispatched when the receiver is not at its socket, and none is
\* when it has stopped.
DispatchInv ==
    /\ busy <=> pc["receiver"] # "listen"
    /\ life = "stopped" => ~busy

\* How far the service has been taken down: each stop leaves a thread dead that
\* nothing but onCreate starts again.
StageInv ==
    /\ instance => life = "running" /\ pc["looper"] \notin Destroying
    /\ ~instance => pc["looper"] \in Destroying \cup {"idle"}
    /\ pc["looper"] \in Destroying \ {"stopReceiver"} => life = "running"
    /\ pc["looper"] \in {"stopSensors", "stopReceiver"} => Now("telemetry", "dead")
    /\ pc["looper"] = "stopReceiver" => Now("altitude", "dead") /\ life = "stopping"
    /\ Now("looper", "idle") /\ ~instance =>
         /\ Now("telemetry", "dead")
         /\ Now("altitude", "dead")
         /\ life = "stopped"

\* A driver that is found is about to be opened; one that is closed stays from
\* an earlier service.
DriverInv ==
    /\ driver = "found" => \E t \in Caller : pc[t] = "open"
    /\ driver = "closed" => Now("looper", "idle") /\ ~instance
    /\ Now("looper", "idle") /\ ~instance => driver \in {None, "closed"}

\* What makes a call crash has happened while it overlapped another.
CrashInv == \A t \in Caller : NoDriver(t) => overlapped[t]

ServiceInv ==
    /\ TypeOK
    /\ DispatchInv
    /\ StageInv
    /\ DriverInv
    /\ CrashInv

USE DEF Thread, Caller, Other, Call, Assigning, LooperPlace, AltitudePlace,
        TelemetryPlace, ReceiverPlace, serviceVars, Now, Goto, NoThread

LEMMA ServiceInit == Init => ServiceInv
BY NoneAssumption
   DEF Init, ServiceInv, TypeOK, DispatchInv, StageInv, DriverInv, CrashInv,
       Destroying, NoDriver

(***************************************************************************)
(* Each step of the service.                                               *)
(***************************************************************************)
LEMMA DeathStep == Die => ServiceInv'
BY NoneAssumption
   DEF Die, ServiceInv, TypeOK, DispatchInv, StageInv, DriverInv, CrashInv,
       Destroying, NoDriver

\* onCreate and onDestroy, to the last stop.
LEMMA LifecycleStep ==
    ASSUME ServiceInv,
           Create \/ OnDestroy \/ StopTelemetry \/ StopSensors \/ StopReceiver
             \/ Destroyed
    PROVE  ServiceInv'
<1> USE NoneAssumption
    DEF ServiceInv, TypeOK, DispatchInv, StageInv, DriverInv, CrashInv, Destroying,
        NoDriver
<1>1. CASE Create
  BY <1>1 DEF Create
<1>2. CASE OnDestroy
  BY <1>2 DEF OnDestroy
<1>3. CASE StopTelemetry
  BY <1>3 DEF StopTelemetry
<1>4. CASE StopSensors
  BY <1>4 DEF StopSensors
<1>5. CASE StopReceiver
  BY <1>5 DEF StopReceiver, R!Stop
<1>6. CASE Destroyed
  BY <1>6 DEF Destroyed, R!StopReturns, Closed
<1> QED BY <1>1, <1>2, <1>3, <1>4, <1>5, <1>6

\* A sample, around the calls of Teensy.
LEMMA SampleStep ==
    ASSUME ServiceInv, Sample \/ SetControl \/ SetAttitude
    PROVE  ServiceInv'
<1> USE NoneAssumption
    DEF ServiceInv, TypeOK, DispatchInv, StageInv, DriverInv, CrashInv, Destroying,
        NoDriver, CallGoto
<1>1. CASE Sample
  BY <1>1 DEF Sample
<1>2. CASE SetControl
  BY <1>2 DEF SetControl
<1>3. CASE SetAttitude
  BY <1>3 DEF SetAttitude
<1> QED BY <1>1, <1>2, <1>3

\* Packets.
LEMMA PacketStep ==
    ASSUME ServiceInv, Receive \/ Dispatch
    PROVE  ServiceInv'
<1> USE NoneAssumption
    DEF ServiceInv, TypeOK, DispatchInv, StageInv, DriverInv, CrashInv, Destroying,
        NoDriver
<1>1. CASE Receive
  BY <1>1 DEF Receive, R!TakePacket
<1>2. ASSUME NEW configures \in BOOLEAN, SetCommand(configures) PROVE ServiceInv'
  <2>1. CASE configures
    BY <1>2, <2>1 DEF SetCommand
  <2>2. CASE ~configures
    <3>1. /\ pc' = [pc EXCEPT !["receiver"] = "listen"]
          /\ ~busy' /\ busy' \in BOOLEAN
          /\ UNCHANGED <<instance, life, target, driver, overlapped>>
      BY <1>2, <2>2 DEF SetCommand, R!PacketDone
    <3>2. TypeOK'
      BY <3>1
    <3>3. pc'["receiver"] = "listen" /\ \A t \in Caller \cup {"telemetry"} : pc'[t] = pc[t]
      BY <3>1
    <3> QED BY <3>1, <3>2, <3>3
  <2> QED BY <2>1, <2>2
<1>3. ASSUME NEW known \in BOOLEAN, Resolve(known) PROVE ServiceInv'
  <2>1. target' \in {None, "nowhere", "client"}
    BY <1>3 DEF Resolve
  <2>2. /\ pc' = [pc EXCEPT !["receiver"] = "listen", !["telemetry"] = Woken]
        /\ ~busy' /\ busy' \in BOOLEAN
        /\ UNCHANGED <<instance, life, driver, overlapped>>
    BY <1>3 DEF Resolve, R!PacketDone
  <2>3. /\ Woken \in TelemetryPlace
        /\ pc["telemetry"] = "dead" => Woken = "dead"
    BY DEF Woken
  <2>4. TypeOK'
    BY <2>1, <2>2, <2>3
  <2>5. pc'["receiver"] = "listen" /\ \A t \in Caller : pc'[t] = pc[t]
    BY <2>2
  <2>6. pc["telemetry"] = "dead" => pc'["telemetry"] = "dead"
    BY <2>2, <2>3
  <2> QED BY <2>2, <2>4, <2>5, <2>6
<1> QED BY <1>1, <1>2, <1>3 DEF Dispatch

LEMMA TelemetryStep ==
    ASSUME ServiceInv, Telemetry \/ SpuriousWakeup
    PROVE  ServiceInv'
<1>1. CASE NoAddress
  BY <1>1, DeathStep DEF NoAddress
<1>2. ASSUME NEW l \in TelemetryPlace \ {"dead"}, ~Now("telemetry", "dead"),
             TelemetryGoto(l)
      PROVE  ServiceInv'
  BY <1>2, NoneAssumption
     DEF ServiceInv, TypeOK, DispatchInv, StageInv, DriverInv, CrashInv, Destroying,
         NoDriver, TelemetryGoto
<1>3. CASE LeaveTelemetry
  BY <1>3, NoneAssumption
     DEF ServiceInv, TypeOK, DispatchInv, StageInv, DriverInv, CrashInv, Destroying,
         NoDriver, TelemetryGoto, LeaveTelemetry
<1> QED
  BY <1>1, <1>2, <1>3
     DEF Telemetry, Configured, SpuriousWakeup, CreateSocket, Build, Send,
         SleepTelemetry

(***************************************************************************)
(* The calls of Teensy, by the looper and the altitude thread.             *)
(***************************************************************************)
LEMMA TeensyStep ==
    ASSUME ServiceInv, NEW t \in Caller, Teensy(t)
    PROVE  ServiceInv'
<1> USE NoneAssumption
    DEF ServiceInv, TypeOK, DispatchInv, StageInv, DriverInv, CrashInv, Destroying,
        NoDriver, CallGoto, Failed
<1>1. CASE Test(t)
  BY <1>1 DEF Test
<1>2. ASSUME NEW plugged \in BOOLEAN, Find(t, plugged) PROVE ServiceInv'
  BY <1>2 DEF Find
<1>3. CASE Open(t)
  BY <1>3 DEF Open
<1>4. CASE OpenFails(t)
  BY <1>4 DEF OpenFails, Dropped
<1>5. CASE NullDriver(t)
  BY <1>5, DeathStep DEF NullDriver
<1> QED BY <1>1, <1>2, <1>3, <1>4, <1>5 DEF Teensy

LEMMA DriverStep ==
    ASSUME ServiceInv, Write \/ WriteFails \/ Close \/ Read \/ SleepAltitude
    PROVE  ServiceInv'
<1> USE NoneAssumption
    DEF ServiceInv, TypeOK, DispatchInv, StageInv, DriverInv, CrashInv, Destroying,
        NoDriver, CallGoto
<1>1. CASE Write
  BY <1>1 DEF Write
<1>2. CASE WriteFails
  BY <1>2 DEF WriteFails
<1>3. CASE Close
  BY <1>3 DEF Close
<1>4. CASE Read
  BY <1>4 DEF Read
<1>5. CASE SleepAltitude
  BY <1>5 DEF SleepAltitude
<1> QED BY <1>1, <1>2, <1>3, <1>4, <1>5

LEMMA ServiceStep ==
    ASSUME ServiceInv, [Run \/ Create \/ OnDestroy]_vars
    PROVE  ServiceInv'
<1>1. CASE UNCHANGED vars
  BY <1>1
     DEF ServiceInv, TypeOK, DispatchInv, StageInv, DriverInv, CrashInv, Destroying,
         NoDriver, vars
<1> QED
  BY <1>1, LifecycleStep, SampleStep, PacketStep, TelemetryStep, TeensyStep,
     DriverStep
     DEF Run, Looper, Altitude

(***************************************************************************)
(* The activity around the service.                                        *)
(***************************************************************************)
ActivityTypeOK ==
    /\ switch \in BOOLEAN
    /\ refreshes \in 0 .. 2
    /\ touching \in BOOLEAN
    /\ requests \in Seq({"start", "stop"}) /\ Len(requests) <= MaxRequests
    /\ restarted \in BOOLEAN

AppInv == ServiceInv /\ ActivityTypeOK

LEMMA AppInitInv == AppInit => AppInv
<1> SUFFICES ASSUME AppInit PROVE AppInv
  OBVIOUS
<1>1. switch \in BOOLEAN /\ touching \in BOOLEAN /\ restarted \in BOOLEAN
  BY DEF AppInit
<1>2. refreshes \in 0 .. 2
  BY DEF AppInit
<1>3. requests \in Seq({"start", "stop"}) /\ Len(requests) <= MaxRequests
  BY MaxRequestsAssumption DEF AppInit
<1> QED BY <1>1, <1>2, <1>3, ServiceInit DEF AppInit, AppInv, ActivityTypeOK

\* The switch makes a request more, of which no more than MaxRequests are under
\* way.
LEMMA CheckedTyped ==
    ASSUME ActivityTypeOK, NEW on \in BOOLEAN, NEW postedAfter \in {0, 1},
           Checked(on, postedAfter), touching' \in BOOLEAN
    PROVE  ActivityTypeOK'
<1>1. switch' \in BOOLEAN /\ restarted' \in BOOLEAN
  BY DEF Checked
<1>2. refreshes' \in 0 .. 2
  BY DEF Checked
<1>3. /\ requests' = requests \o Request(on)
      /\ requests \in Seq({"start", "stop"}) /\ Len(requests) < MaxRequests
  BY DEF Checked, ActivityTypeOK
<1>4. Request(on) \in Seq({"start", "stop"}) /\ Len(Request(on)) = 1
  BY DEF Request
<1>5. requests' \in Seq({"start", "stop"}) /\ Len(requests') = Len(requests) + 1
  <2> DEFINE r == Request(on)
  <2> HIDE DEF r
  <2>1. /\ requests \o r \in Seq({"start", "stop"})
        /\ Len(requests \o r) = Len(requests) + Len(r)
    BY <1>3, <1>4, ConcatProperties DEF r
  <2> QED BY <1>3, <1>4, <2>1 DEF r
<1>6. Len(requests') <= MaxRequests
  BY <1>3, <1>5, MaxRequestsAssumption
<1> QED BY <1>1, <1>2, <1>5, <1>6 DEF ActivityTypeOK

LEMMA ActivityStep ==
    ASSUME ActivityTypeOK, [AppNext]_appVars
    PROVE  ActivityTypeOK'
<1>1. CASE Touch \/ Lift
  <2>1. touching' \in BOOLEAN
    BY <1>1 DEF Touch, Lift
  <2>2. refreshes' \in 0 .. 2 /\ UNCHANGED <<switch, requests, restarted>>
    BY <1>1 DEF Touch, Lift, Kept
  <2> QED BY <2>1, <2>2 DEF ActivityTypeOK
<1>2. CASE Tap
  <2>1. touching' \in BOOLEAN
    BY <1>2 DEF Tap
  <2>2. Checked(~switch, 0)
    BY <1>2, Zenon DEF Tap
  <2> QED BY <2>1, <2>2, CheckedTyped
<1>3. CASE RefreshOn
  <2>1. CASE switch
    BY <1>3, <2>1 DEF RefreshOn, activityVars, ActivityTypeOK
  <2>2. CASE ~switch
    BY <1>3, <2>2, CheckedTyped DEF RefreshOn, ActivityTypeOK
  <2> QED BY <2>1, <2>2
<1>4. CASE RefreshOff
  <2>1. CASE switch
    BY <1>4, <2>1, CheckedTyped DEF RefreshOff, ActivityTypeOK
  <2>2. CASE ~switch
    BY <1>4, <2>2 DEF RefreshOff, ActivityTypeOK
  <2> QED BY <2>1, <2>2
<1>5. CASE Requested
  BY <1>5, MaxRequestsAssumption DEF Requested, ActivityTypeOK
<1>6. CASE Activity
  <2>1. CASE Dies
    <3>1. switch' \in BOOLEAN /\ touching' \in BOOLEAN /\ restarted' \in BOOLEAN
      BY <1>6, <2>1 DEF Activity
    <3>2. refreshes' \in 0 .. 2 /\ requests' = <<"start">>
      BY <1>6, <2>1 DEF Activity
    <3>3. requests' \in Seq({"start", "stop"}) /\ Len(requests') <= MaxRequests
      BY <3>2, MaxRequestsAssumption
    <3> QED BY <3>1, <3>2, <3>3 DEF ActivityTypeOK
  <2>2. CASE ~Dies
    BY <1>6, <2>2 DEF Activity, activityVars, ActivityTypeOK
  <2> QED BY <2>1, <2>2
<1>7. CASE UNCHANGED appVars
  BY <1>7 DEF appVars, activityVars, ActivityTypeOK
<1> QED BY <1>1, <1>2, <1>3, <1>4, <1>5, <1>6, <1>7 DEF AppNext

\* To the service, a step of the activity is onCreate, onDestroy or nothing.
LEMMA ServiceOfApp ==
    ASSUME [AppNext]_appVars
    PROVE  [Run \/ Create \/ OnDestroy]_vars
BY DEF AppNext, Touch, Lift, Tap, RefreshOn, RefreshOff, Requested, appVars

LEMMA AppInvariant == AppSpec => []AppInv
<1>1. AppInv /\ [AppNext]_appVars => AppInv'
  BY ServiceStep, ActivityStep, ServiceOfApp DEF AppInv
<1> QED BY AppInitInv, <1>1, PTL DEF AppSpec

(***************************************************************************)
(* Theorems.                                                               *)
(***************************************************************************)
\* Every variable of the service and of the activity keeps its type, and no
\* more than two refreshes of FlightActivity are ever posted.
THEOREM AppTyped == AppSpec => []AppTypeOK
<1>1. AppInv => AppTypeOK
  BY DEF AppInv, ServiceInv, ActivityTypeOK, AppTypeOK
<1> QED BY <1>1, AppInvariant, PTL

\* FlightService.onDestroy: when it is over, no thread of the service is left
\* and the connection to the Teensy is closed, whatever they were doing when
\* it began.
THEOREM NothingRemains == AppSpec => []NothingLeft
<1>1. AppInv => NothingLeft
  <2> SUFFICES ASSUME AppInv, Now("looper", "idle"), ~instance
               PROVE  pc = NoThread /\ ~busy /\ driver \in {None, "closed"}
    BY DEF NothingLeft
  <2>1. ~busy /\ driver \in {None, "closed"}
    BY DEF AppInv, ServiceInv, DispatchInv, StageInv, DriverInv
  <2>2. pc = NoThread
    BY <2>1 DEF AppInv, ServiceInv, TypeOK, DispatchInv, StageInv
  <2> QED BY <2>1, <2>2
<1> QED BY <1>1, AppInvariant, PTL

\* Teensy: an exception in the use of the driver takes two calls that overlap,
\* however the link fails.
THEOREM CrashesOverlap == AppSpec => CrashNeedsOverlap
<1>1. AppInv => \A t \in Caller : NullDriver(t) => overlapped[t]
  BY DEF AppInv, ServiceInv, CrashInv, NullDriver
<1> QED BY <1>1, AppInvariant, PTL DEF CrashNeedsOverlap
=============================================================================
