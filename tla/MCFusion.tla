------------------------------ MODULE MCFusion ------------------------------
(***************************************************************************)
(* A small instance of Fusion: with T = 5, K is 0.46 or 0.92 after two of  *)
(* the periods, 1.38 after the third, which is late, and at the first      *)
(* sample 0.46 or 4.6.  Half a turn is 3, so that the vehicle turns past   *)
(* it on either side.                                                      *)
(***************************************************************************)
EXTENDS Fusion

MCAngles == -5 .. 5
MCRates == {-2, 0, 2}
MCPeriods == {1, 2, 3}
MCUptimes == {1, 10}
MCConstants == {0, 5}
=============================================================================
