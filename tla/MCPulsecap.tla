----------------------------- MODULE MCPulsecap -----------------------------
(***************************************************************************)
(* Small instances of Pulsecap for TLC.                                    *)
(***************************************************************************)
EXTENDS Pulsecap

CONSTANT c1

One == {c1}

Start1 == {"start"}
StartShow == {"start", "show"}
StartCancel == {"start", "cancel"}
AllOps == {"start", "cancel", "show"}

Nothing == {}
EdgesOverlap == {"edges"}
AllOverlap == {"edges", "calls"}
=============================================================================
