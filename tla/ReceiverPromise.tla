---------------------------- MODULE ReceiverPromise ----------------------------
(***************************************************************************)
(* What the Android flight program's receiver promises to the parts it     *)
(* hands packets to and to the caller of its stop: one packet at a time,   *)
(* and none any more once stop has returned.  AndroidReceiver is shown to  *)
(* keep the promise; AndroidService relies on it.                          *)
(***************************************************************************)
VARIABLES
    life,  \* "running", "stopping" while stop waits, "stopped"
    busy   \* a packet is being dispatched

vars == <<life, busy>>

Init == life = "running" /\ busy = FALSE

TakePacket ==
    /\ life # "stopped"
    /\ ~busy
    /\ busy' = TRUE
    /\ UNCHANGED life

PacketDone ==
    /\ busy
    /\ busy' = FALSE
    /\ UNCHANGED life

Stop ==
    /\ life = "running"
    /\ life' = "stopping"
    /\ UNCHANGED busy

StopReturns ==
    /\ life = "stopping"
    /\ ~busy
    /\ life' = "stopped"
    /\ UNCHANGED busy

Next == TakePacket \/ PacketDone \/ Stop \/ StopReturns

Spec == Init /\ [][Next]_vars
=============================================================================
