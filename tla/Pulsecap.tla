------------------------------ MODULE Pulsecap ------------------------------
(***************************************************************************)
(* The pulse capture driver, pulsecap.c: the interrupt handler and the     *)
(* entry points sysfs calls, one step per access to a register or to a     *)
(* field of struct pulsecap_data that another thread may change.  Only the *)
(* handler takes drv->lock, so the lock orders nothing.                    *)
(***************************************************************************)
EXTENDS AxiTimer, Sequences

CONSTANTS Callers,   \* the threads that read and write the sysfs attributes
          Counts,    \* the edge counts they ask for
          MaxCount,  \* PULSECAP_MAX_COUNT
          Ops,       \* the entry points they use: "start", "cancel", "show"
          Overlap    \* what may begin while an interrupt is pending or a
                     \* handler or a call in progress: "edges", "calls"

ASSUME PulsecapAssumption ==
  /\ "isr" \notin Callers
  /\ Counts \subseteq Nat
  /\ MaxCount \in Nat \ {0}
  /\ Ops \subseteq {"start", "cancel", "show"}
  /\ Overlap \subseteq {"edges", "calls"}

VARIABLES flags, edge_ptr, edge_target, stored_edges, \* struct pulsecap_data
          pc,    \* pc[t]: where thread t is
          val,   \* val[t]: the register values t read, by timer
          fl,    \* fl[t]: the flags t read
          cur,   \* the handler's edge_type and edge_count, and its edge_ptr
          arg,   \* arg[c]: the count c asks for
          out    \* out[c]: the edge counts c copied out

mem == <<flags, edge_ptr, edge_target, stored_edges>>
locals == <<val, fl, cur, arg, out>>
vars == <<hw, mem, pc, locals>>

HIGH == 0
LOW == 1
Flags == {"ENABLE", "DONE", "READ", "CANCELLED"}
Slots == 0 .. MaxCount - 1
Threads == Callers \cup {"isr"}

NoVal == [i \in Timers |-> {}]
NoEdge == [type |-> HIGH, count |-> 0, ptr |-> 0]

IsrLabels == {"idle", "status", "flags", "count", "judge",
              "first0", "first1", "first2",
              "compare", "store0", "store1", "more", "advance",
              "ack0", "ack1", "ackw0", "ackw1"}
StopLabels == {"stop0", "stopw0", "stop1", "stopw1", "publish", "publishw"}
CallLabels == {"idle", "init0", "init1", "tlrs", "target", "ptr", "enable",
               "enablew", "run", "runw",
               "int0", "intw0", "int1", "intw1",
               "clamp", "copy", "mark", "markw"}

TypeOK ==
  /\ HwTypeOK
  /\ flags \subseteq Flags
  /\ edge_ptr \in 0..MaxCount /\ edge_target \in 0..MaxCount
  /\ stored_edges \in [Slots -> [edge_type : {HIGH, LOW}, edge_count : 0..MaxEdges]]
  /\ pc \in [Threads -> IsrLabels \cup StopLabels \cup CallLabels]
  /\ pc["isr"] \in IsrLabels \cup StopLabels
  /\ \A c \in Callers : pc[c] \in CallLabels \cup StopLabels
  /\ val \in [Threads -> [Timers -> SUBSET Bits]]
  /\ fl \in [Threads -> SUBSET Flags]
  /\ cur \in [type : {HIGH, LOW}, count : 0..MaxEdges, ptr : 0..MaxCount]
  /\ arg \in [Callers -> 0..MaxCount]
  /\ out \in [Callers -> Seq(0..MaxEdges)]

Init ==
  /\ HwInit
  /\ flags = {} /\ edge_ptr = 0 /\ edge_target = 0
  /\ stored_edges = [k \in Slots |-> [edge_type |-> HIGH, edge_count |-> 0]]
  /\ pc = [t \in Threads |-> "idle"]
  /\ val = [t \in Threads |-> NoVal]
  /\ fl = [t \in Threads |-> {}]
  /\ cur = NoEdge
  /\ arg = [c \in Callers |-> 0]
  /\ out = [c \in Callers |-> <<>>]

Step(t, from, to) == pc[t] = from /\ pc' = [pc EXCEPT ![t] = to]

Quiet == ~ irq /\ \A t \in Threads : pc[t] = "idle"

-----------------------------------------------------------------------------
(* Accesses to registers and to the flags byte.                            *)

RegRead(t, i, from, to) ==
  /\ Step(t, from, to)
  /\ val' = [val EXCEPT ![t][i] = csr[i]]
  /\ UNCHANGED <<hw, mem, fl, cur, arg, out>>

RegWrite(t, i, v, from, to) ==
  /\ Step(t, from, to)
  /\ WriteCsr(i, v)
  /\ val' = [val EXCEPT ![t][i] = {}]
  /\ UNCHANGED <<mem, fl, cur, arg, out>>

FlagsRead(t, from, to) ==
  /\ Step(t, from, to)
  /\ fl' = [fl EXCEPT ![t] = flags]
  /\ UNCHANGED <<hw, edge_ptr, edge_target, stored_edges, flags, val, cur, arg, out>>

\* The last access of an operation: its locals are dead after it.
FlagsWrite(t, f, from, to) ==
  /\ Step(t, from, to)
  /\ flags' = f
  /\ fl' = [fl EXCEPT ![t] = {}]
  /\ UNCHANGED <<hw, edge_ptr, edge_target, stored_edges, val, cur, arg, out>>

FaultyRunning(f) == "ENABLE" \in f

Running(f) == "ENABLE" \in f /\ "DONE" \notin f

\* stop_timer: ENT is taken out of each register in turn.
StopTimer(t, next) ==
  \/ RegRead(t, 0, "stop0", "stopw0")
  \/ RegWrite(t, 0, val[t][0] \ {"ENT"}, "stopw0", "stop1")
  \/ RegRead(t, 1, "stop1", "stopw1")
  \/ RegWrite(t, 1, val[t][1] \ {"ENT"}, "stopw1", next)

-----------------------------------------------------------------------------
(* timer_irq_handler.                                                      *)

Enter ==
  /\ irq /\ irq' = FALSE
  /\ Step("isr", "idle", "status")
  /\ UNCHANGED <<csr, tlr, unread, edges, mem, locals>>

\* The status of timer 0 alone decides what the edge was.
ReadStatus ==
  /\ Step("isr", "status", "flags")
  /\ cur' = [cur EXCEPT !.type = IF "TINT" \in csr[0] THEN HIGH ELSE LOW]
  /\ UNCHANGED <<hw, mem, val, fl, arg, out>>

TestFlags ==
  /\ Step("isr", "flags", IF Running(flags) THEN "count" ELSE "ack0")
  /\ UNCHANGED <<hw, mem, locals>>

ReadCount ==
  /\ Step("isr", "count", "judge")
  /\ ReadTlr(cur.type)
  /\ cur' = [cur EXCEPT !.count = tlr[cur.type]]
  /\ UNCHANGED <<mem, val, fl, arg, out>>

FaultyRises(type) == TRUE

\* The first edge of a capture is always a rising one.
Rises(type) == type = HIGH

Judge ==
  /\ Step("isr", "judge", IF edge_ptr > 0 THEN "compare"
                          ELSE IF Rises(cur.type) THEN "first0" ELSE "ack0")
  /\ cur' = [cur EXCEPT !.ptr = edge_ptr]
  /\ UNCHANGED <<hw, mem, val, fl, arg, out>>

\* The first edge goes to element 0, whatever edge_ptr is by now.
StoreFirst ==
  /\ \/ /\ Step("isr", "first0", "first1")
        /\ stored_edges' = [stored_edges EXCEPT ![0].edge_type = cur.type]
        /\ UNCHANGED edge_ptr
     \/ /\ Step("isr", "first1", "first2")
        /\ stored_edges' = [stored_edges EXCEPT ![0].edge_count = cur.count]
        /\ UNCHANGED edge_ptr
     \/ /\ Step("isr", "first2", "ack0")
        /\ edge_ptr' = 1
        /\ UNCHANGED stored_edges
  /\ UNCHANGED <<hw, flags, edge_target, locals>>

(***************************************************************************)
(* Every later use of drv->edge_ptr: the compiled code works with the      *)
(* value it has in a register or loads the field again, in whose place a   *)
(* start may have put 0 meanwhile.                                         *)
(***************************************************************************)
Pointers == {cur.ptr, edge_ptr}

Use(q, from, to) ==
  /\ Step("isr", from, to)
  /\ cur' = [cur EXCEPT !.ptr = q]
  /\ UNCHANGED <<hw, flags, val, fl, arg, out>>

FaultyDiffers(q, type) == {stored_edges[0].edge_type # type}

\* Whether an edge differs from the one in front of element q.  In front of
\* element 0 are the driver's register addresses, of which nothing is known.
Differs(q, type) ==
  IF q = 0 THEN BOOLEAN ELSE {stored_edges[q - 1].edge_type # type}

Compare ==
  \E q \in Pointers : \E wanted \in Differs(q, cur.type) :
    /\ Use(q, "compare", IF wanted THEN "store0" ELSE "ack0")
    /\ UNCHANGED <<edge_ptr, edge_target, stored_edges>>

(***************************************************************************)
(* The two stores of an element.  Behind the array are edge_ptr, which the *)
(* count of element MaxCount overwrites, and edge_target, whose low byte   *)
(* (0 in MaxCount, the target that lets edge_ptr get there) the type       *)
(* overwrites.  The count is a 32-bit time in the code; it is brought into *)
(* 0..MaxCount here.                                                       *)
(***************************************************************************)
StoreType(q) ==
  /\ Use(q, "store0", "store1")
  /\ \/ /\ q \in Slots
        /\ stored_edges' = [stored_edges EXCEPT ![q].edge_type = cur.type]
        /\ UNCHANGED edge_target
     \/ /\ q \notin Slots
        /\ edge_target' = MaxCount + cur.type
        /\ UNCHANGED stored_edges
  /\ UNCHANGED edge_ptr

StoreCount(q) ==
  /\ Use(q, "store1", "more")
  /\ \/ /\ q \in Slots
        /\ stored_edges' = [stored_edges EXCEPT ![q].edge_count = cur.count]
        /\ UNCHANGED edge_ptr
     \/ /\ q \notin Slots
        /\ edge_ptr' = cur.count % (MaxCount + 1)
        /\ UNCHANGED stored_edges
  /\ UNCHANGED edge_target

FaultyMoreEdgesWanted(p) == p <= edge_target
FaultyMoreEdgesWantedEarly(p) == p + 1 < edge_target

MoreEdgesWanted(p) == p < edge_target

TestTarget(q) ==
  /\ Use(q, "more", IF MoreEdgesWanted(q) THEN "advance" ELSE "stop0")
  /\ UNCHANGED <<edge_ptr, edge_target, stored_edges>>

Advance(q) ==
  /\ Use(q, "advance", "ack0")
  /\ edge_ptr' = q + 1
  /\ UNCHANGED <<edge_target, stored_edges>>

StoreNext ==
  \E q \in Pointers : StoreType(q) \/ StoreCount(q) \/ TestTarget(q) \/ Advance(q)

PublishDone ==
  \/ FlagsRead("isr", "publish", "publishw")
  \/ FlagsWrite("isr", fl["isr"] \cup {"DONE"}, "publishw", "ack0")

FaultyAckBits(v) == v \ {"TINT"}

AckBits(v) == v \cup {"TINT"}

\* Both registers are written back with TINT set, whatever it was.
Acknowledge ==
  \/ RegRead("isr", 0, "ack0", "ack1")
  \/ RegRead("isr", 1, "ack1", "ackw0")
  \/ RegWrite("isr", 0, AckBits(val["isr"][0]), "ackw0", "ackw1")
  \/ /\ Step("isr", "ackw1", "idle")
     /\ WriteCsr(1, AckBits(val["isr"][1]))
     /\ val' = [val EXCEPT !["isr"] = NoVal]
     /\ cur' = NoEdge
     /\ UNCHANGED <<mem, fl, arg, out>>

Isr ==
  \/ Enter \/ ReadStatus \/ TestFlags \/ ReadCount \/ Judge \/ StoreFirst
  \/ Compare \/ StoreNext \/ StopTimer("isr", "publish") \/ PublishDone
  \/ Acknowledge

-----------------------------------------------------------------------------
(* pulsecap_start_capture, behind the attribute "capture".                 *)

MayCall(c, op) ==
  /\ op \in Ops
  /\ pc[c] = "idle"
  /\ "calls" \in Overlap \/ Quiet

FaultyRefused(n) == Running(flags)

\* -EBUSY and -EINVAL
Refused(n) == Running(flags) \/ n > MaxCount

Start(c) ==
  /\ MayCall(c, "start")
  /\ \E n \in Counts :
       \/ ~ Refused(n) /\ Step(c, "idle", "init0") /\ arg' = [arg EXCEPT ![c] = n]
       \/ Refused(n) /\ UNCHANGED <<pc, arg>>
  /\ UNCHANGED <<hw, mem, val, fl, cur, out>>

InitializeTimer(c) ==
  \/ RegWrite(c, 0, {"TINT", "ENIT"}, "init0", "init1")
  \/ RegWrite(c, 1, {"TINT", "ENIT"}, "init1", "tlrs")
  \/ /\ Step(c, "tlrs", "target")
     /\ ClearTlrs
     /\ UNCHANGED <<mem, locals>>

SetUp(c) ==
  \/ /\ Step(c, "target", "ptr")
     /\ edge_target' = arg[c]
     /\ arg' = [arg EXCEPT ![c] = 0]
     /\ UNCHANGED <<hw, flags, edge_ptr, stored_edges, val, fl, cur, out>>
  \/ /\ Step(c, "ptr", "enable")
     /\ edge_ptr' = 0
     /\ UNCHANGED <<hw, flags, edge_target, stored_edges, locals>>

Enabled(f) == (f \cup {"ENABLE"}) \ {"DONE", "READ", "CANCELLED"}

Enable(c) ==
  \/ FlagsRead(c, "enable", "enablew")
  \/ FlagsWrite(c, Enabled(fl[c]), "enablew", "run")

StartTimer(c) ==
  \/ RegRead(c, 0, "run", "runw")
  \/ RegWrite(c, 0, val[c][0] \cup {"ENALL"}, "runw", "idle")

-----------------------------------------------------------------------------
(* pulsecap_cancel_capture, behind the attribute "cancel".                 *)

(***************************************************************************)
(* `!pcap->flags & PULSECAP_ENABLE' is 1 exactly when no flag is set, so   *)
(* -EIO is returned before the first capture only.                         *)
(***************************************************************************)
NothingToCancel == flags = {}

Cancel(c) ==
  /\ MayCall(c, "cancel")
  /\ \/ ~ NothingToCancel /\ Step(c, "idle", "int0")
     \/ NothingToCancel /\ UNCHANGED pc
  /\ UNCHANGED <<hw, mem, locals>>

DisableInterrupts(c) ==
  \/ RegRead(c, 0, "int0", "intw0")
  \/ RegWrite(c, 0, val[c][0] \ {"ENIT"}, "intw0", "int1")
  \/ RegRead(c, 1, "int1", "intw1")
  \/ RegWrite(c, 1, val[c][1] \ {"ENIT"}, "intw1", "stop0")

Cancelled(f) == (f \ {"ENABLE", "DONE"}) \cup {"CANCELLED"}

PublishCancelled(c) ==
  \/ FlagsRead(c, "publish", "publishw")
  \/ FlagsWrite(c, Cancelled(fl[c]), "publishw", "idle")

-----------------------------------------------------------------------------
(* edge_data_show and the pulsecap_read_edges it calls.                    *)

Show(c) ==
  /\ MayCall(c, "show")
  /\ Step(c, "idle", "clamp")
  /\ arg' = [arg EXCEPT ![c] = edge_target]
  /\ UNCHANGED <<hw, mem, val, fl, cur, out>>

Smaller(m, n) == IF m < n THEN m ELSE n

FaultyLimit == edge_target

\* A cancelled capture has the edges that were stored before.
Limit == IF "DONE" \in flags THEN edge_target ELSE edge_ptr

\* -EBUSY when the capture is neither done nor cancelled.
Clamp(c) ==
  /\ \/ /\ {"DONE", "CANCELLED"} \cap flags # {}
        /\ Step(c, "clamp", "copy")
        /\ arg' = [arg EXCEPT ![c] = Smaller(@, Limit)]
     \/ /\ {"DONE", "CANCELLED"} \cap flags = {}
        /\ Step(c, "clamp", "idle")
        /\ arg' = [arg EXCEPT ![c] = 0]
  /\ UNCHANGED <<hw, mem, val, fl, cur, out>>

Copy(c) ==
  /\ \/ /\ Len(out[c]) < arg[c]
        /\ Step(c, "copy", "copy")
        /\ out' = [out EXCEPT ![c] = Append(@, stored_edges[Len(@)].edge_count)]
     \/ /\ Len(out[c]) >= arg[c]
        /\ Step(c, "copy", "mark")
        /\ UNCHANGED out
  /\ UNCHANGED <<hw, mem, val, fl, cur, arg>>

MarkRead(c) ==
  \/ FlagsRead(c, "mark", "markw")
  \/ /\ Step(c, "markw", "idle")
     /\ flags' = fl[c] \cup {"READ"}
     /\ fl' = [fl EXCEPT ![c] = {}]
     /\ arg' = [arg EXCEPT ![c] = 0]
     /\ out' = [out EXCEPT ![c] = <<>>]
     /\ UNCHANGED <<hw, edge_ptr, edge_target, stored_edges, val, cur>>

-----------------------------------------------------------------------------
(* The specification.                                                      *)

Begin(c) == Start(c) \/ Cancel(c) \/ Show(c)

Proceed(c) ==
  \/ InitializeTimer(c) \/ SetUp(c) \/ Enable(c) \/ StartTimer(c)
  \/ DisableInterrupts(c) \/ StopTimer(c, "publish") \/ PublishCancelled(c)
  \/ Clamp(c) \/ Copy(c) \/ MarkRead(c)

\* With "edges" in Overlap the input ends after MaxEdges edges; without it
\* the edges come one at a time, for ever.
InputEdge ==
  /\ IF "edges" \in Overlap THEN edges < MaxEdges ELSE Quiet
  /\ Edge
  /\ UNCHANGED <<mem, pc, locals>>

Next ==
  \/ Isr
  \/ InputEdge
  \/ \E c \in Callers : Begin(c) \/ Proceed(c)

Spec == Init /\ [][Next]_vars

(***************************************************************************)
(* The handler runs when it is pending, a call that began runs to its end, *)
(* and the signal keeps changing.  Nobody has to call anything.            *)
(***************************************************************************)
FairSpec ==
  /\ Spec
  /\ WF_vars(Isr)
  /\ \A c \in Callers : WF_vars(Proceed(c))
  /\ SF_vars(InputEdge)
-----------------------------------------------------------------------------
(* Properties.                                                             *)

\* The handler stores inside the array (pulsecap.c:190, 191), with whichever
\* edge_ptr it works and whatever the callers do meanwhile.
StoreInBounds == pc["isr"] \in {"store0", "store1"} => Pointers \subseteq Slots

\* The captured edges alternate and the first one rises (pulsecap.c:184-215),
\* with whichever edge_ptr the handler works, while starts and read-outs come
\* between its steps.  A cancel that is followed by a start, or two starts at
\* once, would put 0 in edge_ptr under the handler's hands.
Alternating ==
  \A k \in Slots : k < edge_ptr => stored_edges[k].edge_type = k % 2

\* No caller is inside start_capture, which resets the fields one by one.
NotStarting ==
  \A c \in Callers : pc[c] \notin {"init0", "init1", "tlrs", "target", "ptr",
                                   "enable", "enablew"}

\* A capture that says DONE has captured what edges_captured and read_edges
\* promise for DONE: edge_target edges (pulsecap.c:194-203, 288, 337).
DoneMeansComplete ==
  "DONE" \in flags /\ NotStarting => edge_ptr = edge_target

\* A capture that says DONE keeps its edges until the next start: an
\* interrupt that is still served, or served later, changes nothing
\* (pulsecap.c:165, 202).
DoneIsFrozen ==
  [][ "DONE" \in flags /\ NotStarting =>
        UNCHANGED <<stored_edges, edge_ptr, edge_target>> ]_vars

\* What edge_data_show returns is what the array holds when the copy is
\* complete: the elements did not change under it (pulsecap.c:349-351).
ReadOutConsistent ==
  \A c \in Callers : pc[c] \in {"mark", "markw"} =>
    \A k \in 1..Len(out[c]) : out[c][k] = stored_edges[k - 1].edge_count

(***************************************************************************)
(* The driver as an EdgeCapture: a start takes place when it sets the      *)
(* target, and is over for the handler when it publishes ENABLE.           *)
(***************************************************************************)
Mode ==
  IF \E c \in Callers : pc[c] \in {"ptr", "enable", "enablew"} THEN "run"
  ELSE CASE Running(flags) -> "run"
         [] "DONE" \in flags -> "done"
         [] "CANCELLED" \in flags -> "cancelled"
         [] OTHER -> "idle"

Captured ==
  IF \E c \in Callers : pc[c] = "ptr" THEN <<>>
  ELSE [k \in 1..edge_ptr |-> stored_edges[k - 1].edge_count]

Abstract == INSTANCE EdgeCapture
  WITH mode <- Mode, wanted <- edge_target, captured <- Captured, signal <- edges

\* When the handler keeps up with the signal, the driver implements
\* EdgeCapture: no edge is missed, doubled or out of place
\* (pulsecap.c:153-227, 248-311).
ImplementsEdgeCapture == Abstract!Spec

\* A running capture ends: done, cancelled or started again.
CaptureEnds == Running(flags) ~> ~ Running(flags)

\* "clear interrupt flags" (pulsecap.c:217): a handler that returned with no
\* interrupt pending has left no interrupt flag that holds the line high.
LineReleased == pc["isr"] = "idle" /\ ~ irq => ~ Line(csr)
=============================================================================
