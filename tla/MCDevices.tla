------------------------------- MODULE MCDevices --------------------------------
(***************************************************************************)
(* A small instance of Devices for TLC.                                    *)
(***************************************************************************)
EXTENDS Devices, TLC

CONSTANTS d1, d2

TwoOne == d1 :> 2 @@ d2 :> 1
================================================================================
