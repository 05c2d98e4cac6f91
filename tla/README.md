# HummingDroid flight app: models and proofs

TLA+ models of the flight software of the HummingDroid quadcopter, the TLC runs
that check them on small instances, and theorems about them that TLAPS checks.
Paths are relative to the repository; `Controller.cpp` and the like without a
directory are in `edison/`.

## 1. Inventory

The repository holds two flight programs: `edison/`, in C++ for an Intel Edison
board, and the older `android/`, in Java for a phone with a Teensy board on
USB. Both take UDP command packets from a ground station (GCS), estimate the
attitude, run four PIDs, drive four motors and send telemetry. The Edison
program is the current one and modelled in more detail.

### Edison program

| Component | State | Operations | Talks to |
|---|---|---|---|
| `Object`, `Thread` | a mutex and a condition per object | lock/unlock by scope (`synchronized`), `wait`, `notify`, `start` | pthread |
| `FlightService` | the five objects below | default configuration, `loop` | starts the threads |
| `Receiver` (thread) | `connected` | `run`: poll, decode, dispatch | calls Controller, Telemetry, Sensors, Motors |
| `Controller` | `config`, `command`, four PIDs | `setConfig`, `setCommand`, `setAttitude` | calls PID, Telemetry, Motors |
| `PID`, `Value`, filters | parameters, integrator, low-pass, derivative | `setParams`, `pid`, `reset` | called by Controller and Sensors |
| `Sensors` (main thread) | filters, gyroscope integrators, biases, `attitude` | `setConfig`, `run`, `reset` | calls Controller, Telemetry |
| `Telemetry` (thread) | `config`, `packet`, a socket | `setConfig`, four setters, `run` | calls DatagramSocket |
| `DatagramSocket` | a connected UDP socket | `connect`, `bind`, `send` | resolver, kernel |
| `Motors` | `min_pwm`, `max_pwm`; PWM hardware | `begin`, `setConfig`, `setControl` | mraa |
| `hummingdroid.service` | - | restarts the program after an exit | systemd |

What is hard in it: three threads under nested locks (sensors, controller, one
PID, or telemetry then socket); two methods with no lock at all
(`Motors::setConfig`, `Sensors::reset`); a loop that sleeps while it holds a
mutex; a name resolution under a mutex the control loop needs; `exit` calls in
the middle of the flight; a link whose loss is only known by a timeout; and
floating point, where NaN passes every comparison.

What makes it correct: a control is computed from one configuration and one
command; the emergency stop is exact; landing clears the integrators; nobody
waits in a circle; the telemetry goes to the configured client, with the
configured streams; a lost link is noticed; a packet is handled to its end; a
restart leaves the motors stopped.

### Android application

| Component | State | Operations | What must hold |
|---|---|---|---|
| `Receiver.java` (thread) | `connected`, `thread`, `stopping` | `start`, `stop`, `run` | a lost link is noticed; `stop` returns, and no packet is handled after it |
| `Telemetry.java` (thread) | `config`, the packet and its address | `setConfig`, setters, `start`, `stop`, `run` | a client that is known is served; `stop` returns |
| `Sensors.java` (looper and altitude thread) | filters, `thread` | `setConfig`, `start`, `stop`, two listeners, `run` | `stop` returns |
| `Teensy.java` | the serial `driver` | `open`, `close`, `read`, `write` | nobody uses a driver that is null or not open |
| `Controller.java`, `Value.java`, `Motors.java` | as on the Edison | as on the Edison | as on the Edison |
| `FlightService.java` (looper) | `instance` | `onCreate`, `onDestroy`, `onStartCommand` | nothing is left after `onDestroy` |
| `FlightActivity.java` (looper) | the switch | `onCheckedChanged`, `onTouch`, `run` | the switch shows whether the service exists |

What is hard in it: the main looper runs the activity, the life of the service
and the gyroscope's listener, and waits for three threads in `onDestroy`; a serial
driver is shared by two threads without a lock; `stop` interrupts threads that may
be anywhere; the activity turns its own switch, which calls its own listener;
requests reach the looper later than they are made; an exception that nobody
catches ends the process, and Android starts the service again.

Left aside: the vendored `edison/libs/` (protobuf, the LSM9DS0 driver) and
`android/src/com/hoho/` (usb-serial-for-android), the generated
`Communication.java`, resources, build and IDE files.

## 2. Modules

| Module | Models |
|---|---|
| `FlightProgram` | the whole Edison program: threads, mutexes, receiver, controller, telemetry, sensors' loop, motors' range, exits and restarts |
| `GyroReset` | `Sensors::reset` against `Integrator::integrate`, one load or store at a time |
| `Motors` | `Motors::setConfig` against `Motors::setControl`, one load or store at a time; mixing and scaling |
| `Fusion` | the attitude: gyroscope through a high-pass, accelerometer through a low-pass filter |
| `PidChannel` | one PID over its samples, with configurations, landings and emergency stops between them |
| `ControlPromise` | abstract: a controller without threads |
| `FlightControl` | how `FlightProgram` implements `ControlPromise` |
| `TelemetryPromise` | abstract: a telemetry without threads, mutexes or a resolver |
| `FlightTelemetry` | how `FlightProgram` implements `TelemetryPromise` |
| `AndroidReceiver` | the Android receiver's thread, its socket and timeout, and `stop` |
| `ReceiverPromise` | abstract: a receiver that hands on one packet at a time and can be stopped |
| `AndroidService` | the Android flight program: looper, telemetry, altitude thread, serial driver, receiver |
| `AndroidApp` | the activity and its switch, composed with `AndroidService` |
| `MCFlightProgram`, `MCMotors`, `MCFusion`, `MCPidChannel` | small values for the constants of these modules |
| `FlightProgramProofs`, `ControlProofs` | theorems about `FlightProgram`: types, locks and the telemetry client in the first, the control and the two refinements in the second |
| `GyroResetProofs`, `MotorsProofs`, `FusionProofs`, `PidChannelProofs`, `AndroidReceiverProofs`, `AndroidAppProofs` | theorems about the module of that name |

`FlightProgram` is the composition: it has every thread, every lock and every
call. `GyroReset`, `Motors`, `Fusion` and `PidChannel` open up one step of it each,
where the order of single loads or the arithmetic matters: `GyroReset` gives the
outcomes that `ResetSensors` chooses from, `Motors` the inside of `Drive`, `Fusion`
the inside of `Sample`, and `PidChannel` the inside of `Pid`. `FlightControl` looks at
it from the other side: what it amounts to for the vehicle; `FlightTelemetry`, for the
telemetry client.

`AndroidApp` is the composition on the Android side. It extends `AndroidService`,
which takes the receiver from `ReceiverPromise`; `AndroidReceiver` is the detailed
receiver, and is shown to implement the same promise.

### FlightProgram

Each thread has a label `pc[t]`, named after the method it is about to run, and
a flag `inside[t]`. A `synchronized` method is entered by the action `Enter`
(the constructor of `Object::Mutex`), which takes the mutex `Wanted(t)`; then
one action runs the method up to its next call of another object or to its
end, where it unlocks what goes out of scope. Methods that are not
synchronized run without `Enter`, in the middle of anything: `Motors::setConfig`
is two stores (`StoreMin`, `StoreMax`), `Sensors::reset` one step
(`ResetSensors`), the unlocked read of the host name one step (`Log`), which
may fault while the receiver assigns it (`LogFaults`).

The eight mutexes are numbered in the order in which nested calls take them.
The PIDs' own mutexes are taken inside the controller's.

Data is kept to what the properties tell apart. The gains of a configuration
are one name, a PID's output is known by the gains and the command it was
computed from and by whether it is NaN, an integrator by whether its sum is
zero, a number or NaN and by whether it has a previous sample. `report` is the
set of streams present in the telemetry packet. The attitude is four numbers,
or NaN where the gyroscope filter of that axis (`gyro`) holds one. The filter
constants of a sensors configuration are not kept; that NaN stays in a high-pass filter
once it is there supposes a time constant that is not zero, as in the default
configuration. `duty` is what the PWM hardware was last given: it survives
`Exit`, which is every way in which the process ends (a name that does not
resolve, the abort of a checked libprotobuf, a segmentation fault); `Restart` is
systemd's.

The attitudes' altitude is 0 in the runs, because `Sensors::run` never sets it;
the proofs do not depend on that. `PID::pid`'s early return for uninitialized parameters
is left out: the constructor of `FlightService` sets them before any thread
starts, and a packet that lacks a required field is not decoded.

### Fairness

`Fairness` in `FlightProgram` says what the scheduler gives. Every thread that
can go on does (weak fairness of its steps, of the resolver's answer, of a
timeout on a silent link, of systemd's restart). For a waiting thread, mutexes
differ. The holders of the controller, PID, telemetry and socket mutexes sleep
outside them (2.5 ms and 50 ms), so that these are free again and again for
long enough for a waiting thread to get them: strong fairness. So is the
sensors mutex for the main thread, because the receiver polls outside it. But
the main thread unlocks the sensors mutex only at the closing brace of its loop
and locks it again at once; a default pthread mutex makes no promise to the
receiver then, so its `Enter` is only weakly fair there. Spurious wake-ups,
datagrams and the departure of the GCS are not fair at all.

`AndroidApp` (`AppFairSpec`): threads are scheduled (weak fairness), the looper takes
its messages in turn and its own steps go on even though samples and touches come in
between (strong fairness), and names are resolved or turn out to be unknown. The
telemetry thread gets its monitor in the end although packets may hold it again and
again (strong fairness): a lookup happens once per configuration, which a person
sends. Samples, packets, touches and spurious wake-ups are not fair.

### GyroReset

`at` is the main thread's place in `Integrator::integrate` and the axis it is
at, `resetting` the receiver's place in `Integrator::reset`. An angle is known by what it sums
up: nothing, turns since the last reset (`fresh`), turns from before it (`old`),
or NaN. `raced` remembers the axes whose last reset met an addition. It is only
read by the properties. `Filtered` says whether the filters' time constant is
not zero. No property reads `low`, the state of the filters: it is there to show why
`FlightProgram` lets a NaN attitude outlive the angle that it came from.

### Motors

`LoadHi` to `LoadMax` are the loads of `min_pwm` and `max_pwm` in the expansion of
`MAX(MIN(..., max_pwm), 0)`: `MIN` evaluates its first argument for the comparison
and again for the result, and so does `MAX` with all of `MIN`. `nth` says which of
these evaluations is under way, `hi` and `x` are registers. Throttles and duty
cycles are counted in 1/`Unit`, so that all of it is whole numbers. `spinning` and
`overlaps` are history for the properties.

### Fusion

One action is one turn of the loop of `Sensors::run`. The vehicle has an angle of
its own, which changes as the gyroscope's samples say (the trapezoid of
`Integrator::integrate` is taken as exact). The accelerometer measures the angle as
`atan2f` gives it (`Reading`), above -pi and up to pi, so that its value jumps by a full
turn where the vehicle turns past half a turn; the integrated gyroscope goes on.
Biases and gains are taken as calibrated. A filter's output is rounded down to a
whole number, as floating point rounds it to a float. The clock is read once for
the accelerometer and once for the gyroscope; the model takes the time between
the two as constant. `FirstSample` is the difference to a timestamp that was
never set, which `Timestamp.cpp` makes the uptime.

`Error` is how far the sum of the filters is off the accelerometer's angle, given where
the gyroscope stands, and `Parted` what a sample moves only one of the two: a full turn at
half a turn, or the whole turn after a reset, when the gyroscope cannot add the sample.
`ErrorScaled` says what becomes of the error in every sample, however late.

### AndroidReceiver

`pc` is the thread's place in `ReceiverThread.run`, `server` its socket, known by its
timeout, and `stopper` the place of the caller of `stop`, which is
`FlightService.onDestroy`. `stop` holds the receiver's monitor from its test to its
`wait`, so that this is one step. `stopping` is not volatile; the model lets
the thread see it at once, as a loop that makes system calls does. `replaced` is
history for the properties.

`Promise` is `ReceiverPromise` with `life` and `busy` read off `stopper` and `pc`.

### PidChannel

One PID, whose mutex makes `setParams`, `pid` and `reset` one step each. `Skip` is a
sample of the main loop that does not compute it (an emergency stop). The difference
to the time before the first sample is the uptime (`Init`). Errors are whole numbers
and time is counted in periods of the loop. The integral is counted double and Ki
given as `limit` = 2/Ki, so that `integ.limit(-1/Ki, 1/Ki)` compares whole numbers; Ki = 0
is no limit, as 1/0 is infinite in C. The low-pass filter is that of `Fusion`. The
proportional part and the derivative are left out. `earned`, `inverted` and
`overdue` are history for the properties.

### ControlPromise and FlightControl

`ControlPromise` has the configuration, the command, the attitude, the axes whose
integral is not zero (`wound`) and what the motors were last asked for (`control`).
Each of `setConfig`, `setCommand` and a control is one step of it. `FlightProgram`
takes many: `setConfig` counts when it stores the configuration, though the PIDs get
their parameters one by one later; a landing command empties the integrals when it is
stored (`WoundAxes` is empty while the receiver is in its loop of resets); and
`setAttitude` counts in `Drive`, its last step. It works because the controller's
mutex keeps the main thread out in the meantime: the mutant leaves `setCommand`
without that mutex, and the refinement fails. Calls, locks and the stores of the
motors' range are stuttering steps.

### TelemetryPromise and FlightTelemetry

`TelemetryPromise` has the configuration, the address that datagrams go to (`client`), the
streams in the packet, and whether a datagram is on its way. Its configuration comes
with its lookup in one step, a port that is new for an old host is ignored as in the
code, and neither a configuration nor a report comes between the serialization of a
datagram and its sending. In `FlightProgram` a configuration counts when it is stored;
while the receiver resolves the name, the client is read off the configuration
(`Client`), since nobody can send to the old one any more. That is so only because
`setConfig`, the setters and the thread's two blocks all run under the telemetry's
mutex: the mutant leaves `setControl` without it, and a report then gets into a
datagram under way. The start of the thread, the wait and the wake-up are stuttering
steps; every end of the process is `Restart`.

### AndroidService

`pc` has a place for each of four threads. `looper` is the main thread of the process:
`onDestroy` with its three waits, and a gyroscope sample with its write to the serial
link. `Teensy.write` and `Teensy.read` have the same places for the looper and the
altitude thread (`test`, `find`, `open`, `use`, and `close` for the looper), between which
any step of the other may come; a driver that has been found and not been opened yet
has no endpoints, so that its use is a `NullPointerException` as well (`NoDriver`).
Whether the Teensy is on the bus is open at every step. The monitor of `Telemetry` is
modelled where it is held for long, while a name is resolved (`MonitorFree`); whatever
else it protects is one step. The controller's monitor keeps `SetCommand` out of a
sample.

`stop` interrupts its thread again every 100 ms until it is dead. The place of
the looper stands for that: an interrupt is pending whenever the looper waits for the
thread. It takes effect in `wait` and `sleep`, and nowhere else.

What the code leaves to Android and Java: `DatagramSocket.send` throws for a packet
without an address; an exception that nobody catches ends the process (`Die`).

### AndroidApp

The activity's steps run on the looper, when it is idle. A request (`startService`,
`stopService`) is put at the end of `requests` and reaches the looper later.
`refreshes` counts the calls of `FlightActivity.run` that are posted. `setChecked`
calls the listener only when it changes the switch, which then takes back what is
posted, makes a request, and may post again: `Checked`. When the process dies, the
switch is a new one, and Android asks for the service (`restarted`).

There is one activity at a time: its own end and the turning of the phone are left out,
and so are the two pictures it shows.

### Seeded faults

An operator right before a definition, with its name and a suffix
(`UnlockedNothing`, `NewHostOnce`), is that definition with a plausible bug. It is
used to show that each property can fail; no specification refers to it.

## 3. Runs

| Run | Question | Properties |
|---|---|---|
| `control` | Is a control computed from one configuration, one command, and an attitude within the limits? Are mutexes held exactly as the calls are nested? Does the program implement a controller without threads? | `TypeOK`, `LockDiscipline`, `EmergencyStop`, `OneConfigOneCommand`, `LandingDropsWindup`, `ControlAtomic` |
| `telemetry` | Does the socket follow the configuration, is the thread woken, and can threads block each other? Does the program implement a telemetry without threads? | `NoDeadlock`, `PeerMatchesHost`, `TelemetryAtomic`, `NoLostWakeup` |
| `flight` | Is every packet handled, a lost link noticed, a command carried out, a client served, and do the motors stop after a crash? | `PacketHandled`, `LinkLossDetected`, `CommandReachesMotors`, `TelemetryServed`, `CrashDisarms` |
| `gyro_reset` | What does an unsynchronized reset spoil? | `NaNOnlyByRace`, `ResetForgets` |
| `motors` | Is `scale` a clamp, can arming or disarming within a scale give a motor too much, and do the motors stop? | `TypeOK`, `NoOverdrive`, `ScaleClamps`, `DisarmStops` |
| `fusion` | What adds to the error of the attitude, what becomes of it, and does the attitude come back to the vehicle's? | `TypeOK`, `ErrorScaled`, `RollLimited`, `ErrorSettles` |
| `pid_channel` | What are a PID's integral and filter worth after changes of Ki, landings and emergency stops? | `TypeOK`, `ShareBounded`, `IntegralEarned`, `FilterInRange`, `DesaturatesAtOnce` |
| `android_receiver` | What does `stop` leave behind, when does it not return, when is a lost link noticed, and does the receiver keep its promise? | `StopReleases`, `KeepsPromise`, `StopsUnlessDeaf`, `LinkLossUnlessReplaced` |
| `android_app` | What does `onDestroy` leave behind and when does it hang, when is the serial driver null in use, who is served, what does the switch come to show? | `AppTypeOK`, `NothingLeft`, `CrashNeedsOverlap`, `StopsUnlessLinked`, `ClientServed`, `SwitchSettles` |

Some properties have an exception built in, because the code does not promise more,
and no document says that it does:

- `StopsUnlessLinked`: with the serial link open, `CdcAcmSerialDriver.read` never
  throws, the altitude thread never sleeps, and `onDestroy` waits for it for ever, on the
  main looper.
- `CrashNeedsOverlap`: calls of `Teensy` that overlap can end the process.
- `SwitchSettles`: after a restart by Android (START_STICKY) the switch may stay off
  beside a service, because `run` posts itself again only when it finds a service.
- `IntegralEarned`: a negative Ki swaps the two limits, and the integral then jumps from
  one to the other.
- `FilterInRange`: the first sample after the start and the first one after an emergency
  stop may be amplified, because K is not limited.
- `ErrorSettles`: the vehicle turns past half a turn no more, and samples come with K below 2.
  Each time it does turn past, the error is a full turn more.

`TypeOK` of `GyroReset` and `AndroidReceiver`, `AxesAgree`, `NoNeedlessLookup`,
`SendConnected`, `MixingBalanced` and `TimeoutOnlyWhileUp` are in no run: they are theorems.

Runs that end in a counterexample, because the code does not do what the
repository says (the findings of `PROJECT.json`):

| Run | The code |
|---|---|
| `gone_client` | `DatagramSocket::send` returns `bool`; `Telemetry::run` compares it to -1 and never drops a client that is gone |
| `invalid_attitude` | a NaN attitude, left by an unsynchronized reset, is not an instability, and reaches the motors |
| `lost_link` | Android: after one invalid datagram the loss of the link goes unnoticed |

Met while modelling, in the models as the code has it, and not given runs:
a disabled stream stays in the telemetry packet; a new port for the same host is
ignored; the switches stream lacks its required fields; the control loop waits
for a name resolution before it drives the motors; `PacketHandled` is false for a
packet with a sensors configuration, because nothing makes the sensors mutex
fair; the first sample after the start is amplified by the uptime; a vehicle that turns past
half a turn has its attitude sweep through all angles, because the accelerometer's angle
jumps there and the gyroscope's does not (`apply_modulo` comes after the filters); on Android,
`stop` hangs when no ground station sends and no link is up (`Deaf`).
Further on Android: the first configuration with an unknown host ends the process
(`NoAddress`), a later one keeps the old client; a refresh that runs before a start has
arrived turns the switch off again and undoes it; a driver that fails to open is
dropped without being closed. And, outside the models: `onDestroy` never writes zero to
the motors; `Motors.setControl` divides by the greatest of four products, which is
negative when roll, pitch and yaw are all above one: the throttles are positive then,
whatever the altitude's is.

### Bounds

There is no counter in `FlightProgram`, so no run of it is cut short: the bounds
are the packets and attitudes that a run offers, any number of times and in any
order. In `control`, two limits and two attitudes put the comparisons of the
emergency stop on both sides, the disarming may spoil a gyroscope at any moment of
the loop, and both packets carry a command and a configuration, so that the two
dispatches follow each other. In `telemetry`, two hosts, two ports and three sets of
streams give every change that can be told apart (same host, other host, other port,
stream off and on); libprotobuf is taken without its debug checks there, so that
the program goes on with an incomplete packet, and with them in the other two.
`flight` has a single packet: a temporal property costs much more than an
invariant, and one that takes the receiver through the controller's reset, the
telemetry's connection and the motors' range visits every wait of a packet.
The theorems of section 4 cover all packets and attitudes.

`Motors` counts in quarters of a throttle. Its controls ask motors for shares
within the range, below 0 and above 1, and for NaN; there are two armed ranges over
one floor and the disarmed one, so that a configuration may arm, disarm, or change the
ceiling either way. `NoOverdrive` looks at a scale that one `setConfig` meets: with two, a
disarming and an arming, it does not hold. Nor does it hold when one `setConfig`
raises the floor of an armed range: the new `min_pwm` is then added to a share of the old
range. `FloorKept` says that this does not happen. It is a condition on what the
ground station sends, which nothing in the code checks, so it is no assumption of
`Motors`; the run states it of its own ranges, and `NeverOverdriven` has it as a
hypothesis.

In `fusion` half a turn is 3 and a vehicle turns within -5 .. 5, so that it passes half
a turn either way, at any rate, and comes back; in periods with K = 0.46 and 0.92, a
late one with K = 1.38, which overshoots, and starts with K = 0.46 or 4.6, which
amplifies. Samples with K above 2 would let the error grow without bound: they are left
to the theorem. The bounds on the angle
also bound the filters, so that no number of samples is cut off.

In `pid_channel` errors are -1, 0 and 1, and Ki is 0, 2/3 or -2, so that a share
saturates after one or two samples and a change of Ki finds integrals below and above
the new limit; `MaxGap` = 3 periods is longer than the time constant 2; `MaxSum` = 6
bounds the integral without a limit at twice the larger limit. The theorems have no
such numbers.

In `android_app`, `MaxRequests` = 2 requests may be under way: a start and a stop, in
either order, which overtake refreshes and samples. A third one would repeat
a pair. Everything else is finite as it is.

`GyroReset` and `AndroidReceiver` are finite as they are.

## 4. Proofs

All theorems are checked by TLAPS for every value of the constants under the
named assumptions next to the constants.

**FlightProgram.** `TypeCorrect` needs more than `TypeOK`: that a part of the packet is
present when its handler runs (`PacketFits`), since a handler stores it.
`LocksCorrect` proves `LockInv`: a mutex is owned by a thread exactly when the
thread's label and `inside` say that it is in a method of that object, or in a call from
one. From it `DeadlockFree` follows by a rank: each thread in a circle waits for a
mutex with a greater number than every mutex it holds (`NestedLocksGrow`), so the
thread that waits for the greatest one waits for nobody in the circle.

`ControlProofs` proves `ConfigAtomic`, `StopExact` and `ControlConsistent` from one
invariant, `ControlInv`: the locks, that the parameters of the axes before the loop's
index are already the new ones (`ParamsFollow`), that the outputs of the axes computed
so far come from the present configuration and command (`ControlFollows`), and
that the altitude is a number (`AltitudeMeasured`). `LandingResets` has an
invariant of its own, `LandingInv`. `ControlImplements` is the refinement: under
`PromiseInv` (both of these, and that a packet under way has been sent) every step maps
to a step of `ControlPromise` or to none, one case per action; the case of `Drive` needs
all of `ControlInv`, the one of `Pid` that the receiver is not in its loop of resets.

The telemetry client is in `FlightProgramProofs`: `SocketFollowsHost`, `LookupsNeeded`,
`SendsConnected` and `WakeupsKept` follow from `TelemetryInv`: what the socket is connected to
while `setConfig` is under way, and that a thread that waits beside a host has a
notification coming (`WakeupPending`). `TelemetryImplements`, in `ControlProofs`, is the
other refinement. Its invariant is `DatagramInv`: `TelemetryInv`, and again that a packet under
way has been sent. Three cases carry it: `ConfigConfigures` (the client changes exactly
when the host does, because the socket is connected to the old one), `ReportReports`,
and `Serialize`, which needs the socket connected and the receiver not at its lookup.
`SendExclusive` keeps the first two away from a datagram under way, by the locks.

**GyroReset.** `NaNOnlyRaced` and `ResetTakesEffect` need to know what the registers of an addition
under way hold, and which axes a reset has still to come to (`ResetInv`).

**PidChannel.** `SharesBounded`, `SharesDesaturate`, `IntegralsEarned` and `FiltersInRange`
follow from `PidInv`: the three bounds themselves, that time is earned exactly when
there is a previous sample, and that the integral then is the one that the share was
computed from. The arithmetic is a few lemmas: a product is monotone, and a mean lies
where its terms lie, also rounded down.

**AndroidReceiver.** `PortReleased`, `TimeoutsWhileUp` and the refinement `PromiseKept`
follow from `ReceiverInv`: which places of the thread have no socket, and that the
caller of `stop` goes on only without a thread.

**Motors.** `ScaleCorrect`: as long as no `setConfig` has met the frame, every register has
the value that the range gives it, and each comparison that `MIN` and `MAX` have
made still holds (`Registers`). `MixingCorrect` is linear arithmetic.
`NeverOverdriven` is `FloorKept => (Spec => []NoOverdrive)`. Its invariant `OverdriveInv` adds to
the former where each end of the range comes from, half a store later also
(`RangeInv`), and that the share loaded so far, together with the `min_pwm` that is
about to be added, is within an armed range (`ShareInv`). The hypothesis is sharp: among
pairs of ranges enumerated with TLC, each that breaks it overdrove a motor as soon as
the throttles left room for it.

**Fusion.** `FiltersComplementary` is `ErrorScaled`: the difference of the two filters'
states obeys `E' = (1 - K) (E + Parted)` up to two roundings (`Complementary`), for any K,
because both have the same weight; what the two sensors see differently in a sample is
what their offset changes by (`MeasureScaled`), and that is full turns when the gyroscope
adds it (`SampleParted`). The invariant is that the previous sample is the rate at which
the vehicle has turned since, and that there is none before the first sample (`PrevIsRate`).
`FusionConverges` follows by arithmetic (`Shrinks`): where nothing parts the sensors and K
is below 2, |E| decreases until (1 - |1 - K|) |E| < 1.
`RollWithinLimits` is arithmetic of the remainder (`LimitedRight`): what
`Limit the angles between -PI and PI` does to any sum is within half a turn and off by
full turns.

**AndroidApp.** One invariant, `ServiceInv`, gives `NothingRemains` and `CrashesOverlap`: which
thread is dead at each of the three stops of `onDestroy` (`StageInv`), that a packet is under
way exactly while the receiver's promise says so (`DispatchInv`), that a driver which has
been found is about to be opened by somebody, and one left closed belongs to an earlier
service (`DriverInv`), and that a call which is about to crash has overlapped
another (`CrashInv`). The steps of the service are treated once, in `AndroidService`'s terms,
and the activity's steps are shown to be `Create`, `OnDestroy` or none of them for
the service. `AppTyped` bounds the queue of requests and the posted refreshes besides.

Each invariant was checked with TLC as an invariant of the run's instance (for `Motors` of
a larger one) before it was proved.

Model-checked only: every liveness property (`PacketHandled`, `LinkLossDetected`,
`CommandReachesMotors`, `TelemetryServed`, `CrashDisarms`, `DisarmStops`, `ErrorSettles`,
`StopsUnlessDeaf`, `LinkLossUnlessReplaced`, `StopsUnlessLinked`, `ClientServed`,
`SwitchSettles`), which TLAPS cannot prove under fairness. Every invariant, action
property and refinement that a run checks is a theorem.

## 5. Not modelled, and why

- Failures to create or bind a socket at the start on the Edison: the program exits
  before it does anything.
- The derivative of `PID::pid`: an error that alternates at the sampling rate makes it
  grow without bound, and there is no promise to hold it against.
- The switches: the code that reads them is commented out.
- `gyro_yaw_gain`: a field of the protocol that no code reads.
- The arithmetic of the Android controller, values and listeners, which is that of
  the Edison classes, and the multiplicative mixing of the Android motors: a
  computation with no state. Which streams an Android telemetry packet has.
- The activity's own life cycle, and its pictures (`isConnected`).
- Sensor drivers, protobuf and the USB serial library are vendored; the
  generated protocol code is generated. Only protobuf's debug check of missing
  fields enters the models, as the constant `DebugChecks`, and of the USB library when
  a call throws.

The repository has some 170 000 lines, of which the vendored protobuf in
`edison/libs/` makes up nearly all. The two flight programs together have about 3 300
lines, and it is these that the models cover.

## 6. Plan

1. `FlightProgram`, its runs and its theorems. Done.
2. What it takes as one step: `GyroReset`, `Motors`, `Fusion`, `PidChannel`. Done.
3. `AndroidReceiver`, its theorems, and its promise. Done.
4. `ControlPromise` and the proof that `FlightProgram` implements it. Done.
5. `AndroidService` and `AndroidApp`, and their theorems. Done.
6. `TelemetryPromise` and the proof that `FlightProgram` implements it. Done.
7. That `AndroidService` keeps `ReceiverPromise` in every step, as a theorem, and the
   safety half of the liveness properties (what a thread that does not go on waits
   for).
8. The Android listeners and the altitude thread, each under a monitor of its own.
