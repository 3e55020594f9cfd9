------------------------------- MODULE MCPwmCtrl --------------------------------
(***************************************************************************)
(* A small instance of PwmCtrl for TLC.                                    *)
(***************************************************************************)
EXTENDS PwmCtrl

AskedPercents == {-1, 0, 29, 100, 101}
================================================================================
