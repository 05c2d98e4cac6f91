------------------------------- MODULE AndroidApp -------------------------------
(***************************************************************************)
(* The Android application: FlightActivity, whose switch starts and stops  *)
(* FlightService and shows whether it exists.  The activity, the service   *)
(* and the listeners share the main looper.  A request of the activity     *)
(* goes through Android and comes back to the looper later; the activity   *)
(* looks every 500 ms.                                                     *)
(***************************************************************************)
EXTENDS AndroidService, Naturals, Sequences

CONSTANT MaxRequests   \* requests under way: a bound for model checking

ASSUME MaxRequestsAssumption == MaxRequests \in Nat \ {0}

VARIABLES
    switch,     \* switchService is checked
    refreshes,  \* how many calls of the activity's run are posted
    touching,   \* a finger is on the switch
    requests,   \* "start" and "stop", in the order in which they were made
    restarted   \* history: Android starts the service without being asked

activityVars == <<switch, refreshes, touching, requests, restarted>>
appVars == <<vars, activityVars>>

AppTypeOK ==
    /\ TypeOK
    /\ switch \in BOOLEAN
    /\ refreshes \in 0 .. 2
    /\ touching \in BOOLEAN
    /\ requests \in Seq({"start", "stop"}) /\ Len(requests) <= MaxRequests
    /\ restarted \in BOOLEAN

\* FlightActivity.onCreate calls run; there is no service yet.
AppInit ==
    /\ Init
    /\ switch = FALSE
    /\ refreshes = 0
    /\ touching = FALSE
    /\ requests = <<>>
    /\ restarted = FALSE

LooperFree == Now("looper", "idle")

\* FlightActivity.onCheckedChanged, when the switch turns to on or off: it
\* takes back the refreshes that are posted, asks for the service or for its
\* end, and posts a refresh if the service is wanted.  A call from run posts
\* another afterwards.
RequestOnlyStart(on) == IF on THEN <<"start">> ELSE <<>>
Request(on) == <<IF on THEN "start" ELSE "stop">>
Checked(on, postedAfter) ==
    /\ Len(requests) < MaxRequests
    /\ switch' = on
    /\ requests' = requests \o Request(on)
    /\ refreshes' = (IF on THEN 1 ELSE 0) + postedAfter
    /\ restarted' = FALSE

\* FlightActivity.onTouch takes back the refreshes that are posted, so that
\* none turns the switch under a finger.  Lifted, the finger posts one again;
\* and a tap, as opposed to a drag, turns the switch.
KeptAll == refreshes
Kept == 0
Touch ==
    /\ LooperFree
    /\ ~touching
    /\ touching' = TRUE
    /\ refreshes' = Kept
    /\ UNCHANGED <<vars, switch, requests, restarted>>

Lift ==
    /\ LooperFree
    /\ touching
    /\ touching' = FALSE
    /\ refreshes' = Kept + 1
    /\ UNCHANGED <<vars, switch, requests, restarted>>

Tap ==
    /\ LooperFree
    /\ touching
    /\ touching' = FALSE
    /\ Checked(~switch, 0)
    /\ UNCHANGED vars

\* FlightActivity.run, which turns the switch itself when it does not agree.
RefreshOn ==
    /\ LooperFree
    /\ refreshes > 0
    /\ instance
    /\ IF switch THEN UNCHANGED activityVars
       ELSE Checked(TRUE, 1) /\ UNCHANGED touching
    /\ UNCHANGED vars

RefreshOff ==
    /\ LooperFree
    /\ refreshes > 0
    /\ ~instance
    /\ IF switch THEN Checked(FALSE, 0)
       ELSE /\ refreshes' = refreshes - 1
            /\ UNCHANGED <<switch, requests, restarted>>
    /\ UNCHANGED <<vars, touching>>

\* Android hands the oldest request to the looper.
Requested ==
    /\ LooperFree
    /\ requests # <<>>
    /\ CASE Head(requests) = "start" /\ ~instance -> Create
         [] Head(requests) = "stop" /\ instance -> OnDestroy
         [] OTHER -> UNCHANGED vars
    /\ requests' = Tail(requests)
    /\ UNCHANGED <<switch, refreshes, touching, restarted>>

\* When the process dies, Android starts the service again (START_STICKY), and
\* somebody the activity.
Dies == NoAddress \/ \E t \in Caller : NullDriver(t)
Activity ==
    IF Dies
    THEN /\ switch' = FALSE
         /\ refreshes' = 1
         /\ touching' = FALSE
         /\ requests' = <<"start">>
         /\ restarted' = TRUE
    ELSE UNCHANGED activityVars

AppNext ==
    \/ Touch
    \/ Lift
    \/ Tap
    \/ RefreshOn
    \/ RefreshOff
    \/ Requested
    \/ Run /\ Activity

AppSpec == AppInit /\ [][AppNext]_appVars

\* Threads are scheduled, requests arrive, and names are resolved, or are not,
\* in time.  The looper takes its messages in turn, samples among them.  A name
\* is resolved seldom enough that a thread waiting for the monitor gets it.
AppFairSpec ==
    /\ AppSpec
    /\ SF_appVars((Looper \/ Teensy("looper")) /\ Activity)
    /\ SF_appVars(RefreshOn \/ RefreshOff)
    /\ SF_appVars(Requested)
    /\ WF_appVars(Altitude /\ Activity)
    /\ WF_appVars(Dispatch /\ Activity)
    /\ SF_appVars(Telemetry /\ Activity)

\* FlightActivity: once nobody touches the switch any more, it comes to show
\* whether the service exists, unless Android has restarted the service itself
\* or the looper hangs in onDestroy.
SwitchSettles ==
    <>[](~touching)
      => \/ <>[](switch = instance)
         \/ <>[](pc["looper"] \in {"stopSensors", "stopReceiver"})
         \/ []<>restarted
=============================================================================
