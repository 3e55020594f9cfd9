----------------------------- MODULE EdgeCapture -----------------------------
(***************************************************************************)
(* What pulsecap.c promises when its interrupt handler keeps up with the   *)
(* signal: a capture is a run of consecutive edges of the signal that      *)
(* begins with a rising one, has the length that was asked for when it is  *)
(* done, and changes only while it is running.                             *)
(***************************************************************************)
EXTENDS Integers, Sequences

CONSTANTS MaxCount,  \* no capture is longer
          MaxEdges   \* edges are numbered from 0 to MaxEdges, over and over

VARIABLES mode,      \* "idle", "run", "done" or "cancelled"
          wanted,    \* the length that was asked for
          captured,  \* the edges captured so far
          signal     \* the latest edge of the signal, odd when it is rising

vars == <<mode, wanted, captured, signal>>

After(n) == (n + 1) % (MaxEdges + 1)

Init == mode = "idle" /\ wanted = 0 /\ captured = <<>> /\ signal = 0

Start ==
  /\ mode # "run"
  /\ mode' = "run"
  /\ wanted' \in 1..MaxCount
  /\ captured' = <<>>
  /\ UNCHANGED signal

Change == signal' = After(signal) /\ UNCHANGED <<mode, wanted, captured>>

Capture ==
  /\ mode = "run" /\ Len(captured) < wanted
  /\ IF captured = <<>> THEN signal % 2 = 1
                        ELSE signal = After(captured[Len(captured)])
  /\ captured' = Append(captured, signal)
  /\ UNCHANGED <<mode, wanted, signal>>

Finish ==
  /\ mode = "run" /\ Len(captured) = wanted
  /\ mode' = "done"
  /\ UNCHANGED <<wanted, captured, signal>>

Cancel ==
  /\ mode # "idle"
  /\ mode' = "cancelled"
  /\ UNCHANGED <<wanted, captured, signal>>

Next == Start \/ Change \/ Capture \/ Finish \/ Cancel

Spec == Init /\ [][Next]_vars
=============================================================================
