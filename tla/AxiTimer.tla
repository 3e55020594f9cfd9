------------------------------ MODULE AxiTimer ------------------------------
(***************************************************************************)
(* The AXI timer pulsecap.c drives, modelled from how the driver uses it.  *)
(* Timer 0 captures the rising edges of the measured signal and timer 1    *)
(* its falling edges.  A captured edge sets TINT and loads TLR with the    *)
(* time, here the number of the edge.  Both timers share one interrupt     *)
(* line, and the interrupt controller latches its rising edges             *)
(* (IRQF_TRIGGER_RISING, pulsecap.c:577).                                  *)
(***************************************************************************)
EXTENDS Integers

CONSTANTS MaxEdges,     \* bound: the input has at most this many edges, or
                        \* its edge numbers wrap after it
          EnallSticky,  \* TRUE: ENALL reads back as written, and writing it
                        \* back enables both timers again.  FALSE: it is a
                        \* command that reads back as 0
          HoldUnread    \* TRUE: a captured time is held until it is read.
                        \* FALSE: the next capture overwrites it

ASSUME AxiTimerAssumption ==
  /\ MaxEdges \in Nat /\ MaxEdges % 2 = 1
  /\ EnallSticky \in BOOLEAN /\ HoldUnread \in BOOLEAN

VARIABLES csr,    \* csr[i]: the bits of TCSR0 and TCSR1 the driver uses
          tlr,    \* tlr[i]: the captured time
          unread, \* the timers whose captured time was not read yet
          edges,  \* the number of the input's latest edge
          irq     \* an interrupt is pending in the interrupt controller

hw == <<csr, tlr, unread, edges, irq>>

Timers == {0, 1}
Bits == {"ENT", "ENIT", "TINT", "ENALL"}

HwTypeOK ==
  /\ csr \in [Timers -> SUBSET Bits]
  /\ tlr \in [Timers -> 0..MaxEdges]
  /\ unread \subseteq Timers
  /\ edges \in 0..MaxEdges
  /\ irq \in BOOLEAN

HwInit ==
  /\ csr = [i \in Timers |-> {}]
  /\ tlr = [i \in Timers |-> 0]
  /\ unread = {}
  /\ edges = 0
  /\ irq = FALSE

\* Edge 1 rises, edge 2 falls, and so on.
TimerOf(n) == (n + 1) % 2

Line(c) == \E i \in Timers : {"TINT", "ENIT"} \subseteq c[i]

\* The registers change, and a rising line is latched.
Latch(c) ==
  /\ csr' = c
  /\ irq' = (irq \/ (Line(c) /\ ~ Line(csr)))

(***************************************************************************)
(* The bits of both registers after v is written to TCSRi: TINT is cleared *)
(* by writing 1 to it, and ENALL, which both registers mirror, enables     *)
(* both timers.                                                            *)
(***************************************************************************)
Written(i, v) ==
  LET own == (v \ {"TINT", "ENALL"}) \cup ((csr[i] \cap {"TINT"}) \ v)
      all == IF "ENALL" \notin v THEN {}
             ELSE IF EnallSticky THEN {"ENT", "ENALL"} ELSE {"ENT"}
  IN  [j \in Timers |->
         (IF j = i THEN own ELSE csr[j] \ {"ENALL"}) \cup all]

WriteCsr(i, v) == Latch(Written(i, v)) /\ UNCHANGED <<tlr, unread, edges>>

ClearTlrs ==
  /\ tlr' = [i \in Timers |-> 0]
  /\ unread' = {}
  /\ UNCHANGED <<csr, edges, irq>>

ReadTlr(i) == unread' = unread \ {i} /\ UNCHANGED <<csr, tlr, edges, irq>>

(***************************************************************************)
(* The input changes level.  The driver leaves ARHT clear, which selects   *)
(* HoldUnread in the timer's documentation.                                *)
(***************************************************************************)
Edge ==
  /\ edges' = (edges + 1) % (MaxEdges + 1)
  /\ LET i == TimerOf(edges')
     IN  \/ /\ "ENT" \in csr[i]
            /\ Latch([csr EXCEPT ![i] = @ \cup {"TINT"}])
            /\ unread' = IF HoldUnread THEN unread \cup {i} ELSE {}
            /\ tlr' = IF i \in unread THEN tlr ELSE [tlr EXCEPT ![i] = edges']
         \/ "ENT" \notin csr[i] /\ UNCHANGED <<csr, tlr, unread, irq>>
=============================================================================
