----------------------------- MODULE MCDmaProxy -----------------------------
(***************************************************************************)
(* Small instances of DmaProxy for TLC.                                    *)
(***************************************************************************)
EXTENDS DmaProxy

CONSTANTS u1, u2

OneUser == {u1}
TwoUsers == {u1, u2}
=============================================================================
