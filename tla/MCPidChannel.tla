---------------------------- MODULE MCPidChannel ----------------------------
(***************************************************************************)
(* A small instance of PidChannel: Ki is 0, 2/3 or -2, so that the share   *)
(* saturates after one or two samples; a gap of three periods is later     *)
(* than the time constant.                                                 *)
(***************************************************************************)
EXTENDS PidChannel

MCErrors == {-1, 0, 1}
MCLimits == {3, -1}
MCConstants == {0, 2}
=============================================================================
