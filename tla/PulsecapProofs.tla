--------------------------- MODULE PulsecapProofs ---------------------------
(***************************************************************************)
(* Whatever the callers and the input do, the interrupt handler of         *)
(* pulsecap.c stores inside stored_edges, for every set of callers, every  *)
(* set of counts without MaxCount, and with whichever edge_ptr the         *)
(* compiled code works.                                                    *)
(*                                                                         *)
(* The other parts are about the captures.  When the calls come one at a   *)
(* time, or one caller that does not cancel makes them at any time, the    *)
(* captured edges alternate and a finished capture has the edges that were *)
(* asked for and keeps them.  The copy a read-out returns is consistent    *)
(* when there is one caller, even if it cancels and races the handler.     *)
(***************************************************************************)
EXTENDS Pulsecap, TLAPS

\* Nobody asks for MaxCount edges, which start_capture accepts although the
\* capture then needs element MaxCount (pulsecap.c:258).
CountsFit == MaxCount > 1 /\ MaxCount \notin Counts

Bounded ==
  /\ edge_ptr \in Slots /\ edge_target \in Slots /\ cur.ptr \in Slots
  /\ \A c \in Callers : arg[c] \in Slots

\* The handler stores the first edge of a capture, or a later one.
FirstLabels == {"first0", "first1", "first2"}
UseLabels == {"compare", "store0", "store1", "more", "advance"}

\* From the handler's first load of edge_ptr to its increment, starts may reset
\* edge_ptr, and nothing else may change it.
Carried ==
  /\ pc["isr"] \in FirstLabels => edge_ptr = 0
  /\ pc["isr"] \in UseLabels => edge_ptr \in {0, cur.ptr}
  /\ pc["isr"] = "advance" => cur.ptr + 1 \in Slots

IInv == TypeOK /\ Bounded /\ Carried
-----------------------------------------------------------------------------
(* The timer keeps its types.                                              *)

\* Writing a control register leaves both registers with bits the driver
\* knows, and the rest of the timer well typed.
LEMMA WriteCsrType ==
  ASSUME HwTypeOK, NEW i \in Timers, NEW v \in SUBSET Bits, WriteCsr(i, v)
  PROVE  HwTypeOK'
<1>1. Written(i, v) \in [Timers -> SUBSET Bits]
  BY DEF HwTypeOK, Written, Timers, Bits
<1>2. irq' \in BOOLEAN
  BY DEF HwTypeOK, WriteCsr, Latch, Line
<1> QED
  BY <1>1, <1>2 DEF HwTypeOK, WriteCsr, Latch

\* An input edge keeps the timer well typed: edge numbers wrap after MaxEdges.
LEMMA EdgeType ==
  ASSUME HwTypeOK, Edge
  PROVE  HwTypeOK'
<1>1. edges' \in 0..MaxEdges
  BY AxiTimerAssumption DEF HwTypeOK, Edge
<1>2. TimerOf(edges') \in Timers
  <2>1. \A n \in Nat : (n + 1) % 2 \in {0, 1}
    OBVIOUS
  <2>2. edges' \in Nat
    BY <1>1, AxiTimerAssumption
  <2> QED
    BY <2>1, <2>2 DEF TimerOf, Timers
<1> DEFINE i == TimerOf(edges')
<1> HIDE DEF i
<1>3. CASE "ENT" \in csr[i] /\ Latch([csr EXCEPT ![i] = @ \cup {"TINT"}])
           /\ unread' = (IF HoldUnread THEN unread \cup {i} ELSE {})
           /\ tlr' = (IF i \in unread THEN tlr ELSE [tlr EXCEPT ![i] = edges'])
  <2>1. csr' \in [Timers -> SUBSET Bits]
    BY <1>2, <1>3 DEF HwTypeOK, Latch, Bits, i
  <2>2. irq' \in BOOLEAN
    BY <1>3 DEF HwTypeOK, Latch, Line
  <2>3. unread' \subseteq Timers /\ tlr' \in [Timers -> 0..MaxEdges]
    BY <1>1, <1>2, <1>3 DEF HwTypeOK, i
  <2> QED
    BY <1>1, <2>1, <2>2, <2>3 DEF HwTypeOK
<1>4. CASE UNCHANGED <<csr, tlr, unread, irq>>
  BY <1>1, <1>4 DEF HwTypeOK
<1> QED
  BY <1>3, <1>4 DEF Edge, i

-----------------------------------------------------------------------------
(* Accesses that leave the handler's view of the array alone.              *)

\* Where a step may lead that is not part of storing an edge.
Elsewhere(t) ==
  IF t = "isr" THEN (IsrLabels \cup StopLabels) \ (FirstLabels \cup UseLabels)
  ELSE CallLabels \cup StopLabels

\* A thread that moves to a label of its own program, the handler outside its
\* store, keeps the control state well typed.
LEMMA StepType ==
  ASSUME TypeOK, NEW t \in Threads, NEW from, NEW to \in Elsewhere(t),
         Step(t, from, to)
  PROVE  /\ pc' \in [Threads -> IsrLabels \cup StopLabels \cup CallLabels]
         /\ pc'["isr"] \in IsrLabels \cup StopLabels
         /\ \A c \in Callers : pc'[c] \in CallLabels \cup StopLabels
         /\ pc'["isr"] \in FirstLabels \cup UseLabels => pc'["isr"] = pc["isr"] /\ t # "isr"
<1>1. to \in IsrLabels \cup StopLabels \cup CallLabels
  BY DEF Elsewhere
<1>2. pc' = [pc EXCEPT ![t] = to] /\ pc \in [Threads -> IsrLabels \cup StopLabels \cup CallLabels]
  BY DEF Step, TypeOK
<1>3. CASE t = "isr"
  BY <1>1, <1>2, <1>3, PulsecapAssumption DEF TypeOK, Elsewhere, Threads
<1>4. CASE t # "isr"
  BY <1>1, <1>2, <1>4 DEF TypeOK, Elsewhere, Threads
<1> QED
  BY <1>3, <1>4

\* A step that changes neither the array, edge_ptr, edge_target, the handler's
\* locals nor a caller's count keeps the invariant when it keeps the types.
LEMMA OtherStep ==
  ASSUME IInv, NEW t \in Threads, NEW from, NEW to \in Elsewhere(t),
         Step(t, from, to),
         UNCHANGED <<edge_ptr, edge_target, stored_edges, cur, arg, out>>,
         HwTypeOK', flags' \subseteq Flags,
         val' \in [Threads -> [Timers -> SUBSET Bits]],
         fl' \in [Threads -> SUBSET Flags]
  PROVE  IInv'
<1>1. TypeOK'
  BY StepType DEF IInv, TypeOK
<1>2. Bounded'
  BY DEF IInv, Bounded
<1>3. Carried'
  <2>1. CASE pc'["isr"] \in FirstLabels \cup UseLabels
    <3>1. pc'["isr"] = pc["isr"]
      BY <2>1, StepType DEF IInv
    <3> QED
      BY <3>1 DEF IInv, Carried
  <2>2. CASE pc'["isr"] \notin FirstLabels \cup UseLabels
    BY <2>2 DEF Carried, UseLabels
  <2> QED
    BY <2>1, <2>2
<1> QED
  BY <1>1, <1>2, <1>3 DEF IInv

\* Reading a control register keeps the invariant.
LEMMA RegReadStep ==
  ASSUME IInv, NEW t \in Threads, NEW i \in Timers, NEW from,
         NEW to \in Elsewhere(t), RegRead(t, i, from, to)
  PROVE  IInv'
<1>1. HwTypeOK' /\ flags' \subseteq Flags /\ fl' \in [Threads -> SUBSET Flags]
  BY DEF IInv, TypeOK, HwTypeOK, RegRead, hw, mem
<1>2. val' \in [Threads -> [Timers -> SUBSET Bits]]
  BY DEF IInv, TypeOK, HwTypeOK, RegRead
<1> QED
  BY <1>1, <1>2, OtherStep DEF RegRead, mem

\* Writing a control register keeps the invariant.
LEMMA RegWriteStep ==
  ASSUME IInv, NEW t \in Threads, NEW i \in Timers, NEW v \in SUBSET Bits,
         NEW from, NEW to \in Elsewhere(t), RegWrite(t, i, v, from, to)
  PROVE  IInv'
<1>1. HwTypeOK'
  BY WriteCsrType DEF IInv, TypeOK, RegWrite
<1>2. flags' \subseteq Flags /\ fl' \in [Threads -> SUBSET Flags]
  BY DEF IInv, TypeOK, RegWrite, mem
<1>3. val' \in [Threads -> [Timers -> SUBSET Bits]]
  BY DEF IInv, TypeOK, RegWrite
<1> QED
  BY <1>1, <1>2, <1>3, OtherStep DEF RegWrite, mem

\* Loading the flags byte keeps the invariant.
LEMMA FlagsReadStep ==
  ASSUME IInv, NEW t \in Threads, NEW from, NEW to \in Elsewhere(t),
         FlagsRead(t, from, to)
  PROVE  IInv'
<1>1. HwTypeOK' /\ flags' \subseteq Flags /\ val' \in [Threads -> [Timers -> SUBSET Bits]]
  BY DEF IInv, TypeOK, HwTypeOK, FlagsRead, hw
<1>2. fl' \in [Threads -> SUBSET Flags]
  BY DEF IInv, TypeOK, FlagsRead
<1> QED
  BY <1>1, <1>2, OtherStep DEF FlagsRead

\* Storing the flags byte keeps the invariant.
LEMMA FlagsWriteStep ==
  ASSUME IInv, NEW t \in Threads, NEW f \in SUBSET Flags, NEW from,
         NEW to \in Elsewhere(t), FlagsWrite(t, f, from, to)
  PROVE  IInv'
<1>1. HwTypeOK' /\ flags' \subseteq Flags /\ val' \in [Threads -> [Timers -> SUBSET Bits]]
  BY DEF IInv, TypeOK, HwTypeOK, FlagsWrite, hw
<1>2. fl' \in [Threads -> SUBSET Flags]
  BY DEF IInv, TypeOK, FlagsWrite
<1> QED
  BY <1>1, <1>2, OtherStep DEF FlagsWrite

\* stop_timer keeps the invariant, in the handler and in a cancel.
LEMMA StopTimerStep ==
  ASSUME IInv, NEW t \in Threads, StopTimer(t, "publish")
  PROVE  IInv'
<1>1. {"stopw0", "stop1", "stopw1", "publish"} \subseteq Elsewhere(t)
  BY DEF Elsewhere, StopLabels, FirstLabels, UseLabels
<1>2. \A i \in Timers : val[t][i] \ {"ENT"} \in SUBSET Bits
  BY DEF IInv, TypeOK
<1>3. 0 \in Timers /\ 1 \in Timers
  BY DEF Timers
<1>4. CASE RegRead(t, 0, "stop0", "stopw0")
  BY <1>1, <1>3, <1>4, RegReadStep
<1>5. CASE RegWrite(t, 0, val[t][0] \ {"ENT"}, "stopw0", "stop1")
  BY <1>1, <1>2, <1>3, <1>5, RegWriteStep
<1>6. CASE RegRead(t, 1, "stop1", "stopw1")
  BY <1>1, <1>3, <1>6, RegReadStep
<1>7. CASE RegWrite(t, 1, val[t][1] \ {"ENT"}, "stopw1", "publish")
  BY <1>1, <1>2, <1>3, <1>7, RegWriteStep
<1> QED
  BY <1>4, <1>5, <1>6, <1>7 DEF StopTimer
-----------------------------------------------------------------------------
(* The handler.                                                            *)

\* The steps of the handler before it decides keep the invariant.
LEMMA IsrReadStep ==
  ASSUME IInv, Enter \/ ReadStatus \/ TestFlags \/ ReadCount
  PROVE  IInv'
<1>1. pc' \in [Threads -> IsrLabels \cup StopLabels \cup CallLabels]
      /\ pc'["isr"] \in IsrLabels \cup StopLabels
      /\ pc'["isr"] \notin FirstLabels \cup UseLabels
      /\ \A c \in Callers : pc'[c] \in CallLabels \cup StopLabels
  <2>1. PICK to \in {"status", "flags", "count", "judge", "ack0"} : pc' = [pc EXCEPT !["isr"] = to]
    BY DEF Enter, ReadStatus, TestFlags, ReadCount, Step
  <2>2. to \in IsrLabels /\ to \notin FirstLabels \cup UseLabels
    BY DEF IsrLabels, FirstLabels, UseLabels
  <2> QED
    BY <2>1, <2>2, PulsecapAssumption DEF IInv, TypeOK, Threads
<1>2. HwTypeOK'
  BY DEF IInv, TypeOK, HwTypeOK, Enter, ReadStatus, TestFlags, ReadCount, ReadTlr, hw
<1>3. cur' \in [type : {HIGH, LOW}, count : 0..MaxEdges, ptr : 0..MaxCount]
      /\ cur'.ptr = cur.ptr
  BY DEF IInv, TypeOK, HwTypeOK, Enter, ReadStatus, TestFlags, ReadCount, locals, HIGH, LOW, Timers
<1>4. UNCHANGED <<mem, val, fl, arg, out>>
  BY DEF Enter, ReadStatus, TestFlags, ReadCount, locals
<1>5. TypeOK'
  BY <1>1, <1>2, <1>3, <1>4 DEF IInv, TypeOK, mem
<1>6. Bounded'
  BY <1>3, <1>4 DEF IInv, Bounded, mem
<1>7. Carried'
  BY <1>1 DEF Carried, UseLabels
<1> QED
  BY <1>5, <1>6, <1>7 DEF IInv

\* The handler's first load of edge_ptr.
LEMMA JudgeStep ==
  ASSUME IInv, Judge
  PROVE  IInv'
<1>1. UNCHANGED <<hw, mem, val, fl, arg, out>> /\ cur' = [cur EXCEPT !.ptr = edge_ptr]
  BY DEF Judge
<1>2. cur' \in [type : {HIGH, LOW}, count : 0..MaxEdges, ptr : 0..MaxCount]
      /\ cur'.ptr = edge_ptr
  BY <1>1 DEF IInv, TypeOK
<1>3. PICK to \in {"compare", "first0", "ack0"} :
        pc' = [pc EXCEPT !["isr"] = to] /\ (to = "first0" => ~ (edge_ptr > 0))
  BY DEF Judge, Step
<1>4. pc'["isr"] = to
  BY <1>3 DEF IInv, TypeOK, Threads
<1>5. TypeOK'
  BY <1>1, <1>2, <1>3, PulsecapAssumption
  DEF IInv, TypeOK, HwTypeOK, hw, mem, Threads, IsrLabels
<1>6. Bounded'
  BY <1>1, <1>2 DEF IInv, Bounded, mem
<1>7. Carried'
  BY <1>1, <1>2, <1>3, <1>4 DEF IInv, Bounded, Carried, FirstLabels, UseLabels, mem, Slots
<1> QED
  BY <1>5, <1>6, <1>7 DEF IInv

\* The first edge goes to element 0.
LEMMA FirstStep ==
  ASSUME IInv, CountsFit, StoreFirst
  PROVE  IInv'
<1>1. UNCHANGED <<hw, flags, edge_target, locals>> /\ pc["isr"] \in FirstLabels
  BY DEF StoreFirst, Step, FirstLabels
<1>2. PICK to \in {"first1", "first2", "ack0"} :
        /\ pc' = [pc EXCEPT !["isr"] = to]
        /\ to # "ack0" => UNCHANGED edge_ptr
  BY DEF StoreFirst, Step
<1>3. pc'["isr"] = to
  BY <1>2 DEF IInv, TypeOK, Threads
<1>4. 0 \in Slots /\ 1 \in Slots /\ Slots \subseteq 0..MaxCount
  BY PulsecapAssumption DEF CountsFit, Slots
<1>5. edge_ptr' \in Slots
  BY <1>4 DEF StoreFirst, IInv, Bounded
<1>6. stored_edges' \in [Slots -> [edge_type : {HIGH, LOW}, edge_count : 0..MaxEdges]]
  <2>1. CASE stored_edges' = [stored_edges EXCEPT ![0].edge_type = cur.type]
    BY <1>4, <2>1 DEF IInv, TypeOK
  <2>2. CASE stored_edges' = [stored_edges EXCEPT ![0].edge_count = cur.count]
    BY <1>4, <2>2 DEF IInv, TypeOK
  <2>3. CASE UNCHANGED stored_edges
    BY <2>3 DEF IInv, TypeOK
  <2> QED
    BY <2>1, <2>2, <2>3 DEF StoreFirst
<1>7. TypeOK'
  <2>1. pc' \in [Threads -> IsrLabels \cup StopLabels \cup CallLabels]
        /\ pc'["isr"] \in IsrLabels \cup StopLabels
        /\ \A c \in Callers : pc'[c] \in CallLabels \cup StopLabels
    BY <1>2, PulsecapAssumption DEF IInv, TypeOK, Threads, IsrLabels
  <2> QED
    BY <1>1, <1>4, <1>5, <1>6, <2>1 DEF IInv, TypeOK, HwTypeOK, hw, locals
<1>8. Bounded'
  BY <1>1, <1>5 DEF IInv, Bounded, locals
<1>9. Carried'
  BY <1>1, <1>2, <1>3 DEF IInv, Carried, FirstLabels, UseLabels
<1> QED
  BY <1>7, <1>8, <1>9 DEF IInv

\* Whichever edge_ptr a use works with names an element of the array.
LEMMA UseInBounds ==
  ASSUME IInv, NEW q \in Pointers, NEW from \in UseLabels,
         NEW to \in IsrLabels \cup StopLabels, Use(q, from, to)
  PROVE  /\ pc["isr"] = from /\ pc'["isr"] = to
         /\ \A c \in Callers : pc'[c] = pc[c]
         /\ pc' \in [Threads -> IsrLabels \cup StopLabels \cup CallLabels]
         /\ q \in Slots /\ edge_ptr \in {0, q} /\ q \in {cur.ptr, edge_ptr}
         /\ cur' = [type |-> cur.type, count |-> cur.count, ptr |-> q]
         /\ UNCHANGED <<hw, flags, val, fl, arg, out>>
<1>1. pc["isr"] = from /\ pc' = [pc EXCEPT !["isr"] = to] /\ cur' = [cur EXCEPT !.ptr = q]
      /\ UNCHANGED <<hw, flags, val, fl, arg, out>>
  BY DEF Use, Step
<1>2. pc'["isr"] = to /\ (\A c \in Callers : pc'[c] = pc[c])
      /\ pc' \in [Threads -> IsrLabels \cup StopLabels \cup CallLabels]
  BY <1>1, PulsecapAssumption DEF IInv, TypeOK, Threads
<1>3. q \in Slots /\ edge_ptr \in {0, q} /\ q \in {cur.ptr, edge_ptr}
  BY <1>1 DEF IInv, Bounded, Carried, Pointers
<1>4. cur' = [type |-> cur.type, count |-> cur.count, ptr |-> q]
  BY <1>1 DEF IInv, TypeOK
<1> QED
  BY <1>1, <1>2, <1>3, <1>4

\* What remains to be shown of a use: what it leaves in the array, in edge_ptr
\* and in edge_target.
LEMMA UseStep ==
  ASSUME IInv, NEW q \in Pointers, NEW from \in UseLabels,
         NEW to \in IsrLabels \cup StopLabels, Use(q, from, to), to \notin FirstLabels,
         edge_ptr' \in Slots, edge_target' = edge_target,
         stored_edges' \in [Slots -> [edge_type : {HIGH, LOW}, edge_count : 0..MaxEdges]],
         to \in UseLabels => edge_ptr' = edge_ptr,
         to = "advance" => q + 1 \in Slots
  PROVE  IInv'
<1>1. /\ pc'["isr"] = to /\ q \in Slots /\ edge_ptr \in {0, q}
      /\ \A c \in Callers : pc'[c] = pc[c]
      /\ pc' \in [Threads -> IsrLabels \cup StopLabels \cup CallLabels]
      /\ cur' = [type |-> cur.type, count |-> cur.count, ptr |-> q]
      /\ UNCHANGED <<hw, flags, val, fl, arg, out>>
  BY UseInBounds
<1>2. Slots \subseteq 0..MaxCount
  BY PulsecapAssumption DEF Slots
<1>3. TypeOK'
  BY <1>1, <1>2 DEF IInv, TypeOK, HwTypeOK, hw
<1>4. Bounded'
  BY <1>1 DEF IInv, Bounded
<1>5. Carried'
  BY <1>1 DEF Carried, UseLabels
<1> QED
  BY <1>3, <1>4, <1>5 DEF IInv

\* The handler compares the edge with the last one.
LEMMA CompareStep ==
  ASSUME IInv, Compare
  PROVE  IInv'
<1>1. PICK q \in Pointers, to \in {"store0", "ack0"} : Use(q, "compare", to)
  BY DEF Compare
<1>2. UNCHANGED <<edge_ptr, edge_target, stored_edges>>
  BY DEF Compare
<1>3. "compare" \in UseLabels /\ to \in IsrLabels /\ to \notin FirstLabels
  BY DEF UseLabels, IsrLabels, FirstLabels
<1> QED
  BY <1>1, <1>2, <1>3, UseStep DEF IInv, TypeOK, Bounded

\* The two stores are inside the array, the test and the increment leave edge_ptr
\* below MaxCount.
LEMMA StoreNextStep ==
  ASSUME IInv, CountsFit, StoreNext
  PROVE  IInv'
<1>1. PICK q \in Pointers : StoreType(q) \/ StoreCount(q) \/ TestTarget(q) \/ Advance(q)
  BY DEF StoreNext
<1>2. {"store0", "store1", "more", "advance"} \subseteq UseLabels
      /\ {"store1", "more", "advance", "stop0", "ack0"} \subseteq IsrLabels \cup StopLabels
      /\ FirstLabels \cap {"store1", "more", "advance", "stop0", "ack0"} = {}
      /\ "ack0" \notin UseLabels /\ "stop0" \notin UseLabels
  BY DEF UseLabels, IsrLabels, StopLabels, FirstLabels
<1>3. edge_ptr \in Slots
      /\ stored_edges \in [Slots -> [edge_type : {HIGH, LOW}, edge_count : 0..MaxEdges]]
  BY DEF IInv, TypeOK, Bounded
<1>4. CASE StoreType(q)
  <2>1. Use(q, "store0", "store1")
    BY <1>4 DEF StoreType
  <2>2. q \in Slots
    BY <1>2, <2>1, UseInBounds
  <2>3. stored_edges' = [stored_edges EXCEPT ![q].edge_type = cur.type]
        /\ UNCHANGED <<edge_ptr, edge_target>>
    BY <1>4, <2>2 DEF StoreType
  <2>4. stored_edges' \in [Slots -> [edge_type : {HIGH, LOW}, edge_count : 0..MaxEdges]]
    BY <1>3, <2>2, <2>3 DEF IInv, TypeOK
  <2> QED
    BY <1>2, <1>3, <2>1, <2>3, <2>4, UseStep
<1>5. CASE StoreCount(q)
  <2>1. Use(q, "store1", "more")
    BY <1>5 DEF StoreCount
  <2>2. q \in Slots
    BY <1>2, <2>1, UseInBounds
  <2>3. stored_edges' = [stored_edges EXCEPT ![q].edge_count = cur.count]
        /\ UNCHANGED <<edge_ptr, edge_target>>
    BY <1>5, <2>2 DEF StoreCount
  <2>4. stored_edges' \in [Slots -> [edge_type : {HIGH, LOW}, edge_count : 0..MaxEdges]]
    BY <1>3, <2>2, <2>3 DEF IInv, TypeOK
  <2> QED
    BY <1>2, <1>3, <2>1, <2>3, <2>4, UseStep
<1>6. CASE TestTarget(q)
  <2>1. PICK to \in {"advance", "stop0"} :
          Use(q, "more", to) /\ (to = "advance" => q < edge_target)
    BY <1>6 DEF TestTarget, MoreEdgesWanted
  <2>2. q \in Slots
    BY <1>2, <2>1, UseInBounds
  <2>3. to = "advance" => q + 1 \in Slots
    BY <2>1, <2>2, PulsecapAssumption DEF IInv, Bounded, Slots
  <2> QED
    BY <1>2, <1>3, <1>6, <2>1, <2>3, UseStep DEF TestTarget
<1>7. CASE Advance(q)
  <2>1. Use(q, "advance", "ack0") /\ edge_ptr' = q + 1
        /\ UNCHANGED <<edge_target, stored_edges>>
    BY <1>7 DEF Advance
  <2>2. pc["isr"] = "advance" /\ q \in {cur.ptr, edge_ptr} /\ edge_ptr \in {0, q}
    BY <1>2, <2>1, UseInBounds
  <2>3. q + 1 \in Slots
    BY <2>2, PulsecapAssumption DEF IInv, Carried, UseLabels, CountsFit, Slots
  <2> QED
    BY <1>2, <1>3, <2>1, <2>3, UseStep
<1> QED
  BY <1>1, <1>4, <1>5, <1>6, <1>7

\* Publishing DONE keeps the invariant.
LEMMA PublishDoneStep ==
  ASSUME IInv, PublishDone
  PROVE  IInv'
<1>1. "isr" \in Threads /\ {"publishw", "ack0"} \subseteq Elsewhere("isr")
  BY DEF Threads, Elsewhere, IsrLabels, StopLabels, FirstLabels, UseLabels
<1>2. fl["isr"] \cup {"DONE"} \in SUBSET Flags
  BY <1>1 DEF IInv, TypeOK, Flags
<1>3. CASE FlagsRead("isr", "publish", "publishw")
  BY <1>1, <1>3, FlagsReadStep
<1>4. CASE FlagsWrite("isr", fl["isr"] \cup {"DONE"}, "publishw", "ack0")
  BY <1>1, <1>2, <1>4, FlagsWriteStep
<1> QED
  BY <1>3, <1>4 DEF PublishDone

\* Writing both registers back keeps the invariant.
LEMMA AcknowledgeStep ==
  ASSUME IInv, CountsFit, Acknowledge
  PROVE  IInv'
<1>1. "isr" \in Threads /\ {"ack1", "ackw0", "ackw1", "idle"} \subseteq Elsewhere("isr")
  BY DEF Threads, Elsewhere, IsrLabels, StopLabels, FirstLabels, UseLabels
<1>2. 0 \in Timers /\ 1 \in Timers
  BY DEF Timers
<1>3. \A i \in Timers : AckBits(val["isr"][i]) \in SUBSET Bits
  BY <1>1 DEF IInv, TypeOK, AckBits, Bits
<1>4. CASE RegRead("isr", 0, "ack0", "ack1")
  BY <1>1, <1>2, <1>4, RegReadStep
<1>5. CASE RegRead("isr", 1, "ack1", "ackw0")
  BY <1>1, <1>2, <1>5, RegReadStep
<1>6. CASE RegWrite("isr", 0, AckBits(val["isr"][0]), "ackw0", "ackw1")
  BY <1>1, <1>2, <1>3, <1>6, RegWriteStep
<1>7. CASE /\ Step("isr", "ackw1", "idle")
           /\ WriteCsr(1, AckBits(val["isr"][1]))
           /\ val' = [val EXCEPT !["isr"] = NoVal]
           /\ cur' = NoEdge
           /\ UNCHANGED <<mem, fl, arg, out>>
  <2>1. HwTypeOK'
    BY <1>2, <1>3, <1>7, WriteCsrType DEF IInv, TypeOK
  <2>2. val' \in [Threads -> [Timers -> SUBSET Bits]]
    BY <1>7 DEF IInv, TypeOK, NoVal
  <2>3. cur' \in [type : {HIGH, LOW}, count : 0..MaxEdges, ptr : 0..MaxCount] /\ cur'.ptr \in Slots
    BY <1>7, AxiTimerAssumption, PulsecapAssumption DEF NoEdge, Slots
  <2>4. TypeOK'
    BY <1>1, <1>7, <2>1, <2>2, <2>3, StepType DEF IInv, TypeOK, mem
  <2>5. Bounded'
    BY <1>7, <2>3 DEF IInv, Bounded, mem
  <2>6. Carried'
    BY <1>7, <1>1 DEF IInv, TypeOK, Step, Carried, FirstLabels, UseLabels
  <2> QED
    BY <2>4, <2>5, <2>6 DEF IInv
<1> QED
  BY <1>4, <1>5, <1>6, <1>7 DEF Acknowledge
-----------------------------------------------------------------------------
(* The callers.                                                            *)

\* A caller that moves to a label of its own program leaves the handler where
\* it is.
LEMMA CallerStepType ==
  ASSUME TypeOK, NEW c \in Callers, NEW from, NEW to \in CallLabels \cup StopLabels,
         Step(c, from, to)
  PROVE  /\ pc' \in [Threads -> IsrLabels \cup StopLabels \cup CallLabels]
         /\ pc'["isr"] = pc["isr"]
         /\ \A d \in Callers : pc'[d] \in CallLabels \cup StopLabels
  BY PulsecapAssumption DEF TypeOK, Step, Threads

\* Starting a capture keeps the invariant: the count fits, and edge_ptr goes
\* back to 0, below which nothing is stored.
LEMMA StartStep ==
  ASSUME IInv, CountsFit, NEW c \in Callers,
         Start(c) \/ InitializeTimer(c) \/ SetUp(c) \/ Enable(c) \/ StartTimer(c)
  PROVE  IInv'
<1>1. c \in Threads /\ c # "isr" /\ Elsewhere(c) = CallLabels \cup StopLabels
  BY PulsecapAssumption DEF Threads, Elsewhere
<1>2. 0 \in Timers /\ 1 \in Timers
  BY DEF Timers
<1>3. CASE Start(c)
  <2>1. PICK n \in Counts :
          \/ ~ Refused(n) /\ Step(c, "idle", "init0") /\ arg' = [arg EXCEPT ![c] = n]
          \/ UNCHANGED <<pc, arg>>
    BY <1>3 DEF Start
  <2>2. UNCHANGED <<hw, mem, val, fl, cur, out>>
    BY <1>3 DEF Start
  <2>3. ~ Refused(n) => n \in Slots /\ n \in 0..MaxCount
    BY PulsecapAssumption DEF Refused, CountsFit, Slots
  <2>4. arg' \in [Callers -> 0..MaxCount] /\ \A d \in Callers : arg'[d] \in Slots
    BY <2>1, <2>3 DEF IInv, TypeOK, Bounded
  <2>5. pc' \in [Threads -> IsrLabels \cup StopLabels \cup CallLabels]
        /\ pc'["isr"] = pc["isr"]
        /\ \A d \in Callers : pc'[d] \in CallLabels \cup StopLabels
    <3>1. "init0" \in CallLabels \cup StopLabels
      BY DEF CallLabels
    <3>2. CASE Step(c, "idle", "init0")
      BY <3>1, <3>2, CallerStepType DEF IInv
    <3>3. CASE UNCHANGED pc
      BY <3>3 DEF IInv, TypeOK
    <3> QED
      BY <2>1, <3>2, <3>3
  <2>6. TypeOK'
    BY <2>2, <2>4, <2>5 DEF IInv, TypeOK, HwTypeOK, hw, mem
  <2>7. Bounded'
    BY <2>2, <2>4 DEF IInv, Bounded, mem
  <2>8. Carried'
    BY <2>2, <2>5 DEF IInv, Carried, mem
  <2> QED
    BY <2>6, <2>7, <2>8 DEF IInv
<1>4. CASE InitializeTimer(c)
  <2>1. {"TINT", "ENIT"} \in SUBSET Bits /\ {"init1", "tlrs", "target"} \subseteq Elsewhere(c)
    BY <1>1 DEF Bits, CallLabels
  <2>2. CASE RegWrite(c, 0, {"TINT", "ENIT"}, "init0", "init1")
    BY <1>1, <1>2, <2>1, <2>2, RegWriteStep
  <2>3. CASE RegWrite(c, 1, {"TINT", "ENIT"}, "init1", "tlrs")
    BY <1>1, <1>2, <2>1, <2>3, RegWriteStep
  <2>4. CASE Step(c, "tlrs", "target") /\ ClearTlrs /\ UNCHANGED <<mem, locals>>
    <3>1. HwTypeOK'
      BY <2>4, AxiTimerAssumption DEF IInv, TypeOK, HwTypeOK, ClearTlrs
    <3>2. flags' \subseteq Flags /\ fl' \in [Threads -> SUBSET Flags]
          /\ val' \in [Threads -> [Timers -> SUBSET Bits]]
      BY <2>4 DEF IInv, TypeOK, mem, locals
    <3> QED
      BY <1>1, <2>1, <2>4, <3>1, <3>2, OtherStep DEF mem, locals
  <2> QED
    BY <1>4, <2>2, <2>3, <2>4 DEF InitializeTimer
<1>5. CASE SetUp(c)
  <2>1. pc' \in [Threads -> IsrLabels \cup StopLabels \cup CallLabels]
        /\ pc'["isr"] = pc["isr"]
        /\ \A d \in Callers : pc'[d] \in CallLabels \cup StopLabels
    <3>1. Step(c, "target", "ptr") \/ Step(c, "ptr", "enable")
      BY <1>5 DEF SetUp
    <3>2. "ptr" \in CallLabels \cup StopLabels /\ "enable" \in CallLabels \cup StopLabels
      BY DEF CallLabels
    <3> QED
      BY <3>1, <3>2, CallerStepType DEF IInv
  <2>2. UNCHANGED <<hw, flags, stored_edges, val, fl, cur, out>>
    BY <1>5 DEF SetUp, locals
  <2>3. /\ edge_ptr' \in {0, edge_ptr}
        /\ edge_target' \in {edge_target, arg[c]}
        /\ arg' = [arg EXCEPT ![c] = 0] \/ arg' = arg
    BY <1>5 DEF SetUp, locals
  <2>4. 0 \in Slots /\ 0 \in 0..MaxCount /\ Slots \subseteq 0..MaxCount
    BY PulsecapAssumption DEF Slots
  <2>5. arg' \in [Callers -> 0..MaxCount] /\ \A d \in Callers : arg'[d] \in Slots
    BY <2>3, <2>4 DEF IInv, TypeOK, Bounded
  <2>6. Bounded'
    BY <2>2, <2>3, <2>4, <2>5 DEF IInv, Bounded
  <2>7. TypeOK'
    BY <2>1, <2>2, <2>4, <2>5, <2>6 DEF IInv, TypeOK, HwTypeOK, hw, Bounded
  <2>8. Carried'
    BY <2>1, <2>2, <2>3 DEF IInv, Carried
  <2> QED
    BY <2>6, <2>7, <2>8 DEF IInv
<1>6. CASE Enable(c)
  <2>1. {"enablew", "run"} \subseteq Elsewhere(c)
    BY <1>1 DEF CallLabels
  <2>2. Enabled(fl[c]) \in SUBSET Flags
    BY <1>1 DEF IInv, TypeOK, Enabled, Flags
  <2>3. CASE FlagsRead(c, "enable", "enablew")
    BY <1>1, <2>1, <2>3, FlagsReadStep
  <2>4. CASE FlagsWrite(c, Enabled(fl[c]), "enablew", "run")
    BY <1>1, <2>1, <2>2, <2>4, FlagsWriteStep
  <2> QED
    BY <1>6, <2>3, <2>4 DEF Enable
<1>7. CASE StartTimer(c)
  <2>1. {"runw", "idle"} \subseteq Elsewhere(c)
    BY <1>1 DEF CallLabels
  <2>2. val[c][0] \cup {"ENALL"} \in SUBSET Bits
    BY <1>1, <1>2 DEF IInv, TypeOK, Bits
  <2>3. CASE RegRead(c, 0, "run", "runw")
    BY <1>1, <1>2, <2>1, <2>3, RegReadStep
  <2>4. CASE RegWrite(c, 0, val[c][0] \cup {"ENALL"}, "runw", "idle")
    BY <1>1, <1>2, <2>1, <2>2, <2>4, RegWriteStep
  <2> QED
    BY <1>7, <2>3, <2>4 DEF StartTimer
<1> QED
  BY <1>3, <1>4, <1>5, <1>6, <1>7

\* Cancelling a capture keeps the invariant.
LEMMA CancelStep ==
  ASSUME IInv, NEW c \in Callers,
         \/ Cancel(c) \/ DisableInterrupts(c)
         \/ StopTimer(c, "publish") \/ PublishCancelled(c)
  PROVE  IInv'
<1>1. c \in Threads /\ c # "isr" /\ Elsewhere(c) = CallLabels \cup StopLabels
  BY PulsecapAssumption DEF Threads, Elsewhere
<1>2. 0 \in Timers /\ 1 \in Timers
  BY DEF Timers
<1>3. CASE Cancel(c)
  <2>1. HwTypeOK' /\ flags' \subseteq Flags /\ fl' \in [Threads -> SUBSET Flags]
        /\ val' \in [Threads -> [Timers -> SUBSET Bits]]
    BY <1>3 DEF IInv, TypeOK, HwTypeOK, Cancel, hw, mem, locals
  <2>2. UNCHANGED <<edge_ptr, edge_target, stored_edges, cur, arg, out>>
    BY <1>3 DEF Cancel, mem, locals
  <2>3. CASE Step(c, "idle", "int0")
    BY <1>1, <2>1, <2>2, <2>3, OtherStep DEF CallLabels
  <2>4. CASE UNCHANGED pc
    BY <2>1, <2>2, <2>4 DEF IInv, TypeOK, Bounded, Carried
  <2> QED
    BY <1>3, <2>3, <2>4 DEF Cancel
<1>4. CASE DisableInterrupts(c)
  <2>1. {"intw0", "int1", "intw1", "stop0"} \subseteq Elsewhere(c)
    BY <1>1 DEF CallLabels, StopLabels
  <2>2. \A i \in Timers : val[c][i] \ {"ENIT"} \in SUBSET Bits
    BY <1>1 DEF IInv, TypeOK
  <2>3. CASE RegRead(c, 0, "int0", "intw0")
    BY <1>1, <1>2, <2>1, <2>3, RegReadStep
  <2>4. CASE RegWrite(c, 0, val[c][0] \ {"ENIT"}, "intw0", "int1")
    BY <1>1, <1>2, <2>1, <2>2, <2>4, RegWriteStep
  <2>5. CASE RegRead(c, 1, "int1", "intw1")
    BY <1>1, <1>2, <2>1, <2>5, RegReadStep
  <2>6. CASE RegWrite(c, 1, val[c][1] \ {"ENIT"}, "intw1", "stop0")
    BY <1>1, <1>2, <2>1, <2>2, <2>6, RegWriteStep
  <2> QED
    BY <1>4, <2>3, <2>4, <2>5, <2>6 DEF DisableInterrupts
<1>5. CASE StopTimer(c, "publish")
  BY <1>1, <1>5, StopTimerStep
<1>6. CASE PublishCancelled(c)
  <2>1. {"publishw", "idle"} \subseteq Elsewhere(c)
    BY <1>1 DEF CallLabels, StopLabels
  <2>2. Cancelled(fl[c]) \in SUBSET Flags
    BY <1>1 DEF IInv, TypeOK, Cancelled, Flags
  <2>3. CASE FlagsRead(c, "publish", "publishw")
    BY <1>1, <2>1, <2>3, FlagsReadStep
  <2>4. CASE FlagsWrite(c, Cancelled(fl[c]), "publishw", "idle")
    BY <1>1, <2>1, <2>2, <2>4, FlagsWriteStep
  <2> QED
    BY <1>6, <2>3, <2>4 DEF PublishCancelled
<1> QED
  BY <1>3, <1>4, <1>5, <1>6

\* A step that changes nothing but a caller's own state keeps the invariant.
LEMMA OwnStep ==
  ASSUME IInv, NEW c \in Callers, NEW from, NEW to \in CallLabels \cup StopLabels,
         Step(c, from, to),
         UNCHANGED <<hw, edge_ptr, edge_target, stored_edges, val, cur>>,
         flags' \subseteq Flags, fl' \in [Threads -> SUBSET Flags],
         arg' \in [Callers -> Slots],
         out' \in [Callers -> Seq(0..MaxEdges)]
  PROVE  IInv'
<1>1. pc' \in [Threads -> IsrLabels \cup StopLabels \cup CallLabels]
      /\ pc'["isr"] = pc["isr"]
      /\ \A d \in Callers : pc'[d] \in CallLabels \cup StopLabels
  BY CallerStepType DEF IInv
<1>2. arg' \in [Callers -> 0..MaxCount]
  BY PulsecapAssumption DEF Slots
<1>3. TypeOK'
  BY <1>1, <1>2 DEF IInv, TypeOK, HwTypeOK, hw
<1>4. Bounded' /\ Carried'
  BY <1>1 DEF IInv, Bounded, Carried
<1> QED
  BY <1>3, <1>4 DEF IInv

\* Reading out a capture keeps the invariant: every copied element is inside
\* the array.
LEMMA ShowStep ==
  ASSUME IInv, NEW c \in Callers, Show(c) \/ Clamp(c) \/ Copy(c) \/ MarkRead(c)
  PROVE  IInv'
<1>1. arg \in [Callers -> Slots] /\ 0 \in Slots
  BY PulsecapAssumption DEF IInv, TypeOK, Bounded, Slots
<1>2. edge_ptr \in Slots /\ edge_target \in Slots /\ Limit \in Slots
  BY DEF IInv, Bounded, Limit
<1>3. CASE Show(c)
  <2>1. arg' \in [Callers -> Slots] /\ flags' \subseteq Flags
        /\ fl' \in [Threads -> SUBSET Flags] /\ out' \in [Callers -> Seq(0..MaxEdges)]
    BY <1>1, <1>2, <1>3 DEF Show, mem, IInv, TypeOK
  <2> QED
    BY <1>3, <2>1, OwnStep DEF Show, mem, CallLabels
<1>4. CASE Clamp(c)
  <2>1. Smaller(arg[c], Limit) \in Slots
    BY <1>1, <1>2 DEF Smaller
  <2>2. arg' \in [Callers -> Slots] /\ flags' \subseteq Flags
        /\ fl' \in [Threads -> SUBSET Flags] /\ out' \in [Callers -> Seq(0..MaxEdges)]
    BY <1>1, <1>4, <2>1 DEF Clamp, mem, IInv, TypeOK
  <2>3. Step(c, "clamp", "copy") \/ Step(c, "clamp", "idle")
    BY <1>4 DEF Clamp
  <2> QED
    BY <1>4, <2>2, <2>3, OwnStep DEF Clamp, mem, CallLabels
<1>5. CASE Copy(c)
  <2>1. out' \in [Callers -> Seq(0..MaxEdges)]
    <3>1. out[c] \in Seq(0..MaxEdges) /\ Len(out[c]) \in Nat
      BY DEF IInv, TypeOK
    <3>2. ASSUME Len(out[c]) < arg[c]
          PROVE  stored_edges[Len(out[c])].edge_count \in 0..MaxEdges
      <4>1. Len(out[c]) \in Slots
        BY <1>1, <3>1, <3>2, PulsecapAssumption DEF Slots
      <4> QED
        BY <4>1 DEF IInv, TypeOK
    <3>3. CASE Len(out[c]) < arg[c]
               /\ out' = [out EXCEPT ![c] = Append(@, stored_edges[Len(@)].edge_count)]
      <4> DEFINE e == stored_edges[Len(out[c])].edge_count
      <4>1. e \in 0..MaxEdges
        BY <3>2, <3>3
      <4>2. out' = [out EXCEPT ![c] = Append(out[c], e)]
        BY <3>3
      <4> HIDE DEF e
      <4>3. Append(out[c], e) \in Seq(0..MaxEdges)
        BY <3>1, <4>1
      <4> QED
        BY <4>2, <4>3 DEF IInv, TypeOK
    <3>4. CASE UNCHANGED out
      BY <3>4 DEF IInv, TypeOK
    <3> QED
      BY <1>5, <3>3, <3>4 DEF Copy
  <2>2. arg' \in [Callers -> Slots] /\ flags' \subseteq Flags /\ fl' \in [Threads -> SUBSET Flags]
    BY <1>1, <1>5 DEF Copy, mem, IInv, TypeOK
  <2>3. Step(c, "copy", "copy") \/ Step(c, "copy", "mark")
    BY <1>5 DEF Copy
  <2> QED
    BY <1>5, <2>1, <2>2, <2>3, OwnStep DEF Copy, mem, CallLabels
<1>6. CASE FlagsRead(c, "mark", "markw")
  BY <1>6, PulsecapAssumption, FlagsReadStep DEF Threads, Elsewhere, CallLabels
<1>7. CASE /\ Step(c, "markw", "idle")
           /\ flags' = fl[c] \cup {"READ"}
           /\ fl' = [fl EXCEPT ![c] = {}]
           /\ arg' = [arg EXCEPT ![c] = 0]
           /\ out' = [out EXCEPT ![c] = <<>>]
           /\ UNCHANGED <<hw, edge_ptr, edge_target, stored_edges, val, cur>>
  <2>1. flags' \subseteq Flags /\ fl' \in [Threads -> SUBSET Flags]
    BY <1>7 DEF IInv, TypeOK, Flags, Threads
  <2>2. arg' \in [Callers -> Slots] /\ out' \in [Callers -> Seq(0..MaxEdges)]
    BY <1>1, <1>7 DEF IInv, TypeOK
  <2> QED
    BY <1>7, <2>1, <2>2, OwnStep DEF CallLabels
<1> QED
  BY <1>3, <1>4, <1>5, <1>6, <1>7 DEF MarkRead

-----------------------------------------------------------------------------
(* The invariant of the driver.                                            *)

\* In the zeroed structure nothing is stored.
LEMMA InitIInv == Init /\ CountsFit => IInv
<1> SUFFICES ASSUME Init, CountsFit
             PROVE  IInv
  OBVIOUS
<1>1. MaxCount \in Nat /\ MaxCount > 1 /\ MaxEdges \in Nat
  BY PulsecapAssumption, AxiTimerAssumption DEF CountsFit
<1>2. HwTypeOK
  <2>1. csr \in [Timers -> SUBSET Bits] /\ tlr \in [Timers -> 0..MaxEdges]
    BY <1>1 DEF Init, HwInit
  <2>2. unread \subseteq Timers /\ irq \in BOOLEAN
    BY Zenon DEF Init, HwInit
  <2>3. edges \in 0..MaxEdges
    BY <1>1 DEF Init, HwInit
  <2> QED
    BY <2>1, <2>2, <2>3 DEF HwTypeOK
<1>3. /\ pc \in [Threads -> IsrLabels \cup StopLabels \cup CallLabels]
      /\ pc["isr"] \in IsrLabels
      /\ \A c \in Callers : pc[c] \in CallLabels
      /\ pc["isr"] = "idle"
  BY DEF Init, Threads, IsrLabels, CallLabels
<1>4. TypeOK
  BY <1>1, <1>2, <1>3 DEF Init, TypeOK, NoVal, NoEdge, Threads, HIGH, LOW, Slots
<1>5. Bounded /\ Carried
  BY <1>1, <1>3 DEF Init, Bounded, Carried, FirstLabels, UseLabels, NoEdge, Slots
<1> QED
  BY <1>4, <1>5 DEF IInv

\* Every step keeps the invariant.
LEMMA NextIInv == IInv /\ CountsFit /\ [Next]_vars => IInv'
<1> SUFFICES ASSUME IInv, CountsFit, [Next]_vars
             PROVE  IInv'
  OBVIOUS
<1>1. CASE Isr
  BY <1>1, IsrReadStep, JudgeStep, FirstStep, CompareStep, StoreNextStep, PublishDoneStep,
     AcknowledgeStep, StopTimerStep DEF Isr, Threads
<1>2. CASE InputEdge
  <2>1. HwTypeOK'
    BY <1>2, EdgeType DEF InputEdge, IInv, TypeOK
  <2> QED
    BY <1>2, <2>1 DEF InputEdge, IInv, TypeOK, Bounded, Carried, mem, locals
<1>3. ASSUME NEW c \in Callers, Begin(c) \/ Proceed(c)
      PROVE  IInv'
  BY <1>3, StartStep, CancelStep, ShowStep DEF Begin, Proceed
<1>4. CASE UNCHANGED vars
  BY <1>4 DEF vars, hw, mem, locals, IInv, TypeOK, HwTypeOK, Bounded, Carried
<1> QED
  BY <1>1, <1>2, <1>3, <1>4 DEF Next

\* The invariant holds in every reachable state.
THEOREM Invariance == CountsFit => (Spec => []IInv)
<1> SUFFICES ASSUME CountsFit
             PROVE  Spec => []IInv
  OBVIOUS
<1>1. Init => IInv
  BY InitIInv
<1>2. IInv /\ [Next]_vars => IInv'
  BY NextIInv
<1> QED
  BY <1>1, <1>2, PTL DEF Spec

\* Type correctness of the driver (pulsecap.c:61-71).
THEOREM TypeCorrect == CountsFit => (Spec => []TypeOK)
<1> SUFFICES ASSUME CountsFit
             PROVE  Spec => []TypeOK
  OBVIOUS
<1>1. IInv => TypeOK
  BY DEF IInv
<1>2. Spec => []IInv
  BY Invariance
<1> QED
  BY <1>1, <1>2, PTL

\* The handler never stores behind stored_edges, with whichever edge_ptr it works
\* (pulsecap.c:190, 191).
THEOREM StoresInBounds == CountsFit => (Spec => []StoreInBounds)
<1> SUFFICES ASSUME CountsFit
             PROVE  Spec => []StoreInBounds
  OBVIOUS
<1>1. IInv => StoreInBounds
  BY DEF IInv, Bounded, StoreInBounds, Pointers
<1>2. Spec => []IInv
  BY Invariance
<1> QED
  BY <1>1, <1>2, PTL

-----------------------------------------------------------------------------
(* The calls come one at a time, or one caller makes them and does not     *)
(* cancel.                                                                 *)

\* No call begins while an interrupt or another call is being served; the
\* input may still change at any time.
Serialised == "calls" \notin Overlap

\* One thread uses the attributes. Its calls may race the handler.
OneCaller == \E c \in Callers : Callers = {c}

\* What keeps edge_ptr from being reset under the handler's hands.
Calm == Serialised \/ (OneCaller /\ "cancel" \notin Ops)

\* Nobody asks for 0 edges, for which the handler stores one edge all the same
\* (pulsecap.c:194).
CountsPositive == 0 \notin Counts

\* Inside a start, inside a read-out, in a cancel after it has tested the flags.
StartLabels == {"init0", "init1", "tlrs", "target", "ptr", "enable", "enablew"}
ShowLabels == {"copy", "mark", "markw"}
CancelLabels == {"int0", "intw0", "int1", "intw1"} \cup StopLabels

\* The handler has decided that a capture runs (pulsecap.c:165) and has not
\* reached the acknowledgement.
Serving == pc["isr"] \in {"count", "judge"} \cup FirstLabels \cup UseLabels \cup StopLabels

\* Two callers are never both inside a call.
OneAtATime == \A c, d \in Callers : pc[c] # "idle" /\ pc[d] # "idle" => c = d

\* A start has the structure to itself: no capture runs, and no handler serves
\* one.
StartUnheard ==
  \A c \in Callers : pc[c] \in StartLabels => ~ Serving /\ ~ Running(flags)

\* A running capture has a target, which it never passes.
TargetSet ==
  /\ Running(flags) => 0 < edge_target /\ edge_ptr <= edge_target
  /\ \A c \in Callers :
       /\ pc[c] \in {"init0", "init1", "tlrs", "target"} => 0 < arg[c]
       /\ pc[c] \in {"ptr", "enable", "enablew"} => 0 < edge_target
       /\ pc[c] \in {"enable", "enablew"} => edge_ptr = 0

\* A handler that serves a capture serves one that is not done, holds its
\* present edge_ptr, and stops the timer only when the target is reached.
ServingUndone ==
  Serving =>
    /\ "DONE" \notin flags
    /\ 0 < edge_target /\ edge_ptr <= edge_target
    /\ pc["isr"] \in UseLabels => cur.ptr = edge_ptr
    /\ pc["isr"] = "advance" => edge_ptr < edge_target
    /\ pc["isr"] \in StopLabels => edge_ptr = edge_target

\* No read-out goes on while a capture runs, so the flags it writes back are no
\* older than the capture it read.
FlagsKept ==
  /\ Running(flags) => "CANCELLED" \notin flags
  /\ \A c \in Callers :
       /\ pc[c] \in ShowLabels => ~ Running(flags)
       /\ pc[c] = "markw" => ~ Running(fl[c]) /\ ("DONE" \in fl[c] => "DONE" \in flags)

\* Without cancels a capture runs as long as the handler serves it.
Uncancelled ==
  "cancel" \notin Ops =>
    /\ Serving => Running(flags)
    /\ \A c \in Callers : pc[c] \notin CancelLabels

\* The inductive invariant of a calm driver.
SInv ==
  /\ IInv /\ OneAtATime /\ StartUnheard /\ TargetSet /\ ServingUndone
  /\ FlagsKept /\ Uncancelled /\ DoneMeansComplete

\* A step of the handler that leaves flags, edge_ptr and edge_target alone keeps
\* the invariant when it enters the service of a capture only while one runs.
LEMMA HandlerMoves ==
  ASSUME SInv, IInv',
         \A c \in Callers : pc'[c] = pc[c] /\ fl'[c] = fl[c],
         UNCHANGED <<flags, edge_ptr, edge_target, arg>>,
         Serving' => Serving \/ Running(flags),
         pc'["isr"] \in UseLabels => cur'.ptr = edge_ptr,
         pc'["isr"] = "advance" => edge_ptr < edge_target,
         pc'["isr"] \in StopLabels => pc["isr"] \in StopLabels
  PROVE  SInv'
<1>1. OneAtATime' /\ StartUnheard' /\ DoneMeansComplete'
  BY DEF SInv, OneAtATime, StartUnheard, DoneMeansComplete, NotStarting, Running
<1>2. TargetSet' /\ FlagsKept'
  BY DEF SInv, TargetSet, FlagsKept, Running
<1>3. ServingUndone'
  BY DEF SInv, TargetSet, ServingUndone, Running, Serving
<1>4. Uncancelled'
  BY DEF SInv, Uncancelled, Running
<1> QED
  BY <1>1, <1>2, <1>3, <1>4 DEF SInv

\* The steps up to the decision to store keep the invariant.
LEMMA DecideStep ==
  ASSUME SInv, IInv', Enter \/ ReadStatus \/ TestFlags \/ ReadCount \/ Judge
  PROVE  SInv'
<1>1. \A c \in Callers : pc'[c] = pc[c] /\ fl'[c] = fl[c]
  BY PulsecapAssumption
  DEF SInv, IInv, TypeOK, Enter, ReadStatus, TestFlags, ReadCount, Judge, Step, Threads, locals
<1>2. UNCHANGED <<flags, edge_ptr, edge_target, arg>>
  BY DEF Enter, ReadStatus, TestFlags, ReadCount, Judge, mem, locals
<1>3. Serving' => Serving \/ Running(flags)
  BY SMTT(30) DEF SInv, IInv, TypeOK, Enter, ReadStatus, TestFlags, ReadCount, Judge, Step, Threads,
         Serving, FirstLabels, UseLabels, StopLabels
<1>4. (pc'["isr"] \in UseLabels => cur'.ptr = edge_ptr) /\ pc'["isr"] # "advance"
  BY DEF SInv, IInv, TypeOK, Enter, ReadStatus, TestFlags, ReadCount, Judge, Step, Threads,
         UseLabels
<1>5. pc'["isr"] \notin StopLabels
  BY DEF SInv, IInv, TypeOK, Enter, ReadStatus, TestFlags, ReadCount, Judge, Step, Threads,
         StopLabels
<1> QED
  BY <1>1, <1>2, <1>3, <1>4, <1>5, HandlerMoves

\* A step that ends the service of a capture by counting an edge keeps the
\* invariant when the target was not reached.
LEMMA CountsStep ==
  ASSUME SInv, IInv', Serving,
         pc'["isr"] = "ack0", \A c \in Callers : pc'[c] = pc[c],
         UNCHANGED <<flags, edge_target, fl, arg>>, edge_ptr' \in Nat, edge_ptr' <= edge_target
  PROVE  SInv'
<1>1. NotStarting /\ "DONE" \notin flags /\ ~ Serving'
  BY DEF SInv, ServingUndone, StartUnheard, Serving, NotStarting, StartLabels, FirstLabels,
         UseLabels, StopLabels
<1>2. OneAtATime' /\ StartUnheard' /\ TargetSet' /\ DoneMeansComplete'
  BY <1>1
  DEF SInv, OneAtATime, StartUnheard, TargetSet, DoneMeansComplete, NotStarting, Running,
      StartLabels
<1>3. ServingUndone' /\ FlagsKept' /\ Uncancelled'
  BY <1>1 DEF SInv, ServingUndone, FlagsKept, Uncancelled, Running
<1> QED
  BY <1>2, <1>3 DEF SInv

\* The first edge is stored and counted.
LEMMA StoresFirstStep ==
  ASSUME SInv, IInv', StoreFirst
  PROVE  SInv'
<1>1. pc["isr"] \in FirstLabels /\ UNCHANGED <<flags, edge_target, fl, cur, arg>>
  BY DEF StoreFirst, Step, FirstLabels, locals
<1>2. PICK to \in {"first1", "first2", "ack0"} :
        /\ pc' = [pc EXCEPT !["isr"] = to]
        /\ IF to = "ack0" THEN edge_ptr' = 1 ELSE UNCHANGED edge_ptr
  BY DEF StoreFirst, Step
<1>3. pc'["isr"] = to /\ \A c \in Callers : pc'[c] = pc[c]
  BY <1>2, PulsecapAssumption DEF SInv, IInv, TypeOK, Threads
<1>4. Serving /\ edge_target \in Nat /\ 0 < edge_target
  BY <1>1 DEF Serving, SInv, ServingUndone, IInv, Bounded, Slots
<1>5. CASE to = "ack0"
  BY <1>1, <1>2, <1>3, <1>4, <1>5, CountsStep
<1>6. CASE to # "ack0"
  <2>1. to \notin UseLabels /\ to \notin StopLabels
    BY <1>2 DEF UseLabels, StopLabels
  <2> QED
    BY <1>1, <1>2, <1>3, <1>4, <1>6, <2>1, HandlerMoves DEF UseLabels
<1> QED
  BY <1>5, <1>6

\* A use of edge_ptr finds it as it was loaded first.
LEMMA UseAsLoaded ==
  ASSUME SInv, NEW q \in Pointers, NEW from \in UseLabels,
         NEW to \in IsrLabels \cup StopLabels, Use(q, from, to)
  PROVE  /\ pc["isr"] = from /\ pc'["isr"] = to /\ Serving
         /\ \A c \in Callers : pc'[c] = pc[c]
         /\ q = edge_ptr /\ cur'.ptr = q /\ q = cur.ptr /\ q \in Nat /\ edge_target \in Nat
         /\ UNCHANGED <<flags, fl, arg>>
<1>1. /\ pc["isr"] = from /\ pc'["isr"] = to /\ q \in Slots /\ q \in {cur.ptr, edge_ptr}
      /\ \A c \in Callers : pc'[c] = pc[c]
      /\ cur' = [type |-> cur.type, count |-> cur.count, ptr |-> q]
      /\ UNCHANGED <<hw, flags, val, fl, arg, out>>
  BY UseInBounds DEF SInv
<1>2. Serving /\ cur.ptr = edge_ptr
  BY <1>1 DEF Serving, SInv, ServingUndone
<1> QED
  BY <1>1, <1>2 DEF SInv, IInv, Bounded, Slots

\* A later edge is compared, stored and counted, or the handler leaves for
\* stop_timer with edge_ptr at edge_target.
LEMMA StoresNextStep ==
  ASSUME SInv, IInv', Compare \/ StoreNext
  PROVE  SInv'
<1>1. {"compare", "store0", "store1", "more", "advance"} \subseteq UseLabels
      /\ {"store0", "store1", "more", "advance", "stop0", "ack0"} \subseteq IsrLabels \cup StopLabels
  BY DEF UseLabels, IsrLabels, StopLabels
<1>2. ASSUME NEW q \in Pointers, NEW from \in {"compare", "store0", "store1"},
             NEW to \in {"store0", "store1", "more", "ack0"}, Use(q, from, to),
             UNCHANGED <<edge_ptr, edge_target>>
      PROVE  SInv'
  <2>1. to \notin StopLabels /\ to # "advance"
    BY DEF StopLabels
  <2> QED
    BY <1>1, <1>2, <2>1, UseAsLoaded, HandlerMoves
<1>3. ASSUME NEW q \in Pointers, StoreType(q) \/ StoreCount(q)
      PROVE  q \in Slots
  BY <1>1, <1>3, UseInBounds DEF SInv, StoreType, StoreCount
<1>4. CASE Compare
  BY <1>2, <1>4 DEF Compare
<1>5. ASSUME NEW q \in Pointers, StoreType(q) \/ StoreCount(q)
      PROVE  SInv'
  BY <1>2, <1>3, <1>5 DEF StoreType, StoreCount
<1>6. ASSUME NEW q \in Pointers, TestTarget(q)
      PROVE  SInv'
  <2>1. PICK to \in {"advance", "stop0"} :
          Use(q, "more", to) /\ (to = "advance" <=> q < edge_target)
    BY <1>6 DEF TestTarget, MoreEdgesWanted
  <2>2. UNCHANGED <<edge_ptr, edge_target>>
    BY <1>6 DEF TestTarget
  <2>3. edge_ptr <= edge_target /\ q = edge_ptr /\ edge_ptr \in Nat /\ edge_target \in Nat
    BY <1>1, <2>1, UseAsLoaded DEF SInv, ServingUndone
  <2>4. CASE to = "advance"
    <3>1. "advance" \notin StopLabels
      BY DEF StopLabels
    <3> QED
      BY <1>1, <2>1, <2>2, <2>4, <3>1, UseAsLoaded, HandlerMoves
  <2>5. CASE to = "stop0"
    <3>1. /\ pc'["isr"] = "stop0" /\ Serving /\ \A c \in Callers : pc'[c] = pc[c]
          /\ UNCHANGED <<flags, fl, arg>>
      BY <1>1, <2>1, <2>5, UseAsLoaded
    <3>2. edge_ptr = edge_target
      BY <2>1, <2>3, <2>5
    <3>3. NotStarting /\ "DONE" \notin flags
      BY <3>1 DEF SInv, ServingUndone, StartUnheard, NotStarting, StartLabels
    <3>4. OneAtATime' /\ StartUnheard' /\ TargetSet' /\ DoneMeansComplete'
      BY <2>2, <3>1, <3>3
      DEF SInv, OneAtATime, StartUnheard, TargetSet, DoneMeansComplete, NotStarting, Running,
          StartLabels
    <3>5. FlagsKept' /\ Uncancelled'
      BY <3>1 DEF SInv, FlagsKept, Uncancelled, Running
    <3>6. ServingUndone'
      BY <2>2, <3>1, <3>2 DEF SInv, ServingUndone, UseLabels
    <3> QED
      BY <3>4, <3>5, <3>6 DEF SInv
  <2> QED
    BY <2>1, <2>4, <2>5
<1>7. ASSUME NEW q \in Pointers, Advance(q)
      PROVE  SInv'
  <2>1. Use(q, "advance", "ack0") /\ edge_ptr' = q + 1 /\ UNCHANGED edge_target
    BY <1>7 DEF Advance
  <2>2. /\ pc["isr"] = "advance" /\ pc'["isr"] = "ack0" /\ Serving
        /\ \A c \in Callers : pc'[c] = pc[c]
        /\ q = edge_ptr /\ q \in Nat /\ edge_target \in Nat /\ UNCHANGED <<flags, fl, arg>>
    BY <1>1, <2>1, UseAsLoaded
  <2>3. edge_ptr < edge_target
    BY <2>2 DEF SInv, ServingUndone
  <2> QED
    BY <2>1, <2>2, <2>3, CountsStep
<1> QED
  BY <1>4, <1>5, <1>6, <1>7 DEF StoreNext

\* stop_timer in the handler keeps the invariant.
LEMMA StopsStep ==
  ASSUME SInv, IInv', StopTimer("isr", "publish")
  PROVE  SInv'
<1>1. PICK from \in StopLabels, to \in StopLabels : Step("isr", from, to)
  BY DEF StopTimer, RegRead, RegWrite, StopLabels
<1>2. UNCHANGED <<flags, edge_ptr, edge_target, fl, arg>>
  BY DEF StopTimer, RegRead, RegWrite, mem
<1>3. pc["isr"] = from /\ pc'["isr"] = to /\ \A c \in Callers : pc'[c] = pc[c]
  BY <1>1, PulsecapAssumption DEF SInv, IInv, TypeOK, Step, Threads
<1> QED
  BY <1>1, <1>2, <1>3, HandlerMoves DEF Serving, UseLabels, StopLabels

\* DONE is published when the target is reached.
LEMMA PublishesStep ==
  ASSUME SInv, IInv', PublishDone
  PROVE  SInv'
<1>1. CASE FlagsRead("isr", "publish", "publishw")
  <2>1. pc["isr"] = "publish" /\ pc'["isr"] = "publishw"
        /\ \A c \in Callers : pc'[c] = pc[c] /\ fl'[c] = fl[c]
    BY <1>1, PulsecapAssumption DEF FlagsRead, SInv, IInv, TypeOK, Step, Threads
  <2>2. UNCHANGED <<flags, edge_ptr, edge_target, arg>>
    BY <1>1 DEF FlagsRead
  <2> QED
    BY <2>1, <2>2, HandlerMoves DEF Serving, UseLabels, StopLabels
<1>2. CASE FlagsWrite("isr", fl["isr"] \cup {"DONE"}, "publishw", "ack0")
  <2>1. pc["isr"] = "publishw" /\ pc'["isr"] = "ack0"
        /\ \A c \in Callers : pc'[c] = pc[c] /\ fl'[c] = fl[c]
    BY <1>2, PulsecapAssumption DEF FlagsWrite, SInv, IInv, TypeOK, Step, Threads
  <2>2. UNCHANGED <<edge_ptr, edge_target, arg>> /\ "DONE" \in flags'
    BY <1>2 DEF FlagsWrite
  <2>3. edge_ptr = edge_target
    BY <2>1 DEF SInv, ServingUndone, Serving, StopLabels
  <2> QED
    BY <2>1, <2>2, <2>3
    DEF SInv, OneAtATime, StartUnheard, TargetSet, ServingUndone, FlagsKept, Uncancelled,
        DoneMeansComplete, Running, Serving, FirstLabels, UseLabels, StopLabels
<1> QED
  BY <1>1, <1>2 DEF PublishDone

\* The acknowledgement keeps the invariant.
LEMMA AcknowledgesStep ==
  ASSUME SInv, IInv', Acknowledge
  PROVE  SInv'
<1>1. PICK from \in IsrLabels, to \in {"ack1", "ackw0", "ackw1", "idle"} : Step("isr", from, to)
  BY DEF Acknowledge, RegRead, RegWrite, IsrLabels
<1>2. UNCHANGED <<flags, edge_ptr, edge_target, fl, arg>>
  BY DEF Acknowledge, RegRead, RegWrite, mem
<1>3. pc'["isr"] = to /\ \A c \in Callers : pc'[c] = pc[c]
  BY <1>1, PulsecapAssumption DEF SInv, IInv, TypeOK, Step, Threads
<1> QED
  BY <1>1, <1>2, <1>3, HandlerMoves DEF Serving, FirstLabels, UseLabels, StopLabels

-----------------------------------------------------------------------------
\* A step of a caller moves that caller alone.
LEMMA CallerPc ==
  ASSUME TypeOK, NEW c \in Callers, NEW from, NEW to, Step(c, from, to)
  PROVE  /\ pc[c] = from /\ pc'["isr"] = pc["isr"] 
         /\ \A d \in Callers : pc'[d] = IF d = c THEN to ELSE pc[d]
  BY PulsecapAssumption DEF TypeOK, Step, Threads

\* A step of a caller outside a start that leaves flags, edge_ptr and
\* edge_target alone keeps the invariant.
LEMMA CallerMoves ==
  ASSUME SInv, IInv', NEW c \in Callers, NEW from, NEW to,
         Step(c, from, to), from # "idle", from \notin StartLabels,
         to \notin StartLabels, to # "markw",
         to \in ShowLabels => ~ Running(flags),
         to \in CancelLabels => from \in CancelLabels,
         UNCHANGED <<flags, edge_ptr, edge_target, cur, fl>>,
         \A d \in Callers : d # c => arg'[d] = arg[d]
  PROVE  SInv'
<1>1. /\ pc[c] = from /\ pc'["isr"] = pc["isr"]
      /\ \A d \in Callers : pc'[d] = IF d = c THEN to ELSE pc[d]
  BY CallerPc DEF SInv, IInv
<1>2. OneAtATime' /\ StartUnheard'
  BY <1>1 DEF SInv, OneAtATime, StartUnheard, Serving, Running
<1>3. TargetSet'
  BY <1>1 DEF SInv, TargetSet, Running, StartLabels
<1>4. ServingUndone' /\ FlagsKept'
  BY <1>1 DEF SInv, ServingUndone, Serving, FlagsKept, Running
<1>5. DoneMeansComplete'
  BY <1>1 DEF SInv, DoneMeansComplete, NotStarting, StartLabels
<1>6. Uncancelled'
  BY <1>1 DEF SInv, Uncancelled, Serving, Running, CancelLabels
<1> QED
  BY <1>2, <1>3, <1>4, <1>5, <1>6 DEF SInv

\* A call begins when no other is in progress, a start only when no capture runs
\* or is served, and with a target above 0.
LEMMA BeginsStep ==
  ASSUME SInv, IInv', Calm, CountsPositive, CountsFit, NEW c \in Callers, Begin(c)
  PROVE  SInv'
<1>1. pc[c] = "idle" /\ \A d \in Callers : d # c => pc[d] = "idle"
  BY DEF Begin, Start, Cancel, Show, MayCall, Calm, Serialised, OneCaller, Quiet, Threads
<1>2. ~ Serving \/ ("cancel" \notin Ops /\ (Serving => Running(flags)))
  <2>1. CASE Serialised
    BY <2>1
    DEF Begin, Start, Cancel, Show, MayCall, Serialised, Quiet, Serving, FirstLabels, UseLabels,
        StopLabels, Threads
  <2>2. CASE "cancel" \notin Ops
    BY <2>2 DEF SInv, Uncancelled
  <2> QED
    BY <2>1, <2>2 DEF Calm
<1>3. UNCHANGED <<flags, edge_ptr, edge_target, cur, fl>>
  BY DEF Begin, Start, Cancel, Show, mem, locals
<1>4. CASE UNCHANGED <<pc, arg>>
  BY <1>3, <1>4
  DEF SInv, OneAtATime, StartUnheard, TargetSet, ServingUndone, FlagsKept, Uncancelled,
      DoneMeansComplete, NotStarting, Running, Serving
<1>5. ASSUME NEW to \in {"init0", "int0", "clamp"}, Step(c, "idle", to),
             to = "init0" => ~ Running(flags) /\ 0 < arg'[c],
             to = "int0" => "cancel" \in Ops
      PROVE  SInv'
  <2>1. pc'["isr"] = pc["isr"] /\ \A d \in Callers : pc'[d] = IF d = c THEN to ELSE "idle"
    BY <1>1, <1>5, CallerPc DEF SInv, IInv
  <2>2. OneAtATime' /\ StartUnheard'
    BY <1>2, <1>3, <1>5, <2>1 DEF OneAtATime, StartUnheard, Serving, Running, StartLabels
  <2>3. TargetSet' /\ ServingUndone' /\ FlagsKept'
    BY <1>1, <1>3, <1>5, <2>1
    DEF SInv, TargetSet, ServingUndone, FlagsKept, Serving, Running, ShowLabels
  <2>4. DoneMeansComplete' /\ Uncancelled'
    BY <1>1, <1>3, <1>5, <2>1
    DEF SInv, DoneMeansComplete, NotStarting, Uncancelled, Serving, Running, CancelLabels,
        StopLabels
  <2> QED
    BY <2>2, <2>3, <2>4 DEF SInv
<1>6. CASE Start(c)
  <2>1. PICK n \in Counts :
          \/ ~ Refused(n) /\ Step(c, "idle", "init0") /\ arg' = [arg EXCEPT ![c] = n]
          \/ UNCHANGED <<pc, arg>>
    BY <1>6 DEF Start
  <2>2. ~ Refused(n) => ~ Running(flags) /\ 0 < n
    BY PulsecapAssumption DEF Refused, CountsPositive
  <2>3. arg' = [arg EXCEPT ![c] = n] => arg'[c] = n
    BY DEF SInv, IInv, TypeOK
  <2> QED
    BY <1>4, <1>5, <2>1, <2>2, <2>3
<1>7. CASE Cancel(c)
  BY <1>4, <1>5, <1>7 DEF Cancel, MayCall, locals
<1>8. CASE Show(c)
  BY <1>5, <1>8 DEF Show
<1> QED
  BY <1>6, <1>7, <1>8 DEF Begin

\* A start sets the timers up, then the target, then edge_ptr.
LEMMA SetsUpStep ==
  ASSUME SInv, IInv', NEW c \in Callers, InitializeTimer(c) \/ SetUp(c)
  PROVE  SInv'
<1>1. PICK from \in {"init0", "init1", "tlrs", "target", "ptr"},
           to \in {"init1", "tlrs", "target", "ptr", "enable"} :
        /\ Step(c, from, to)
        /\ \/ from \in {"init0", "init1", "tlrs"} /\ to \in {"init1", "tlrs", "target"}
              /\ UNCHANGED <<edge_ptr, edge_target, arg>>
           \/ from = "target" /\ to = "ptr" /\ edge_target' = arg[c] /\ UNCHANGED edge_ptr
              /\ arg' = [arg EXCEPT ![c] = 0]
           \/ from = "ptr" /\ to = "enable" /\ edge_ptr' = 0 /\ UNCHANGED <<edge_target, arg>>
  BY DEF InitializeTimer, SetUp, RegWrite, mem, locals
<1>2. UNCHANGED <<flags, cur, fl>>
  BY DEF InitializeTimer, SetUp, RegWrite, mem, locals
<1>3. /\ pc[c] = from /\ pc'["isr"] = pc["isr"]
      /\ \A d \in Callers : pc'[d] = IF d = c THEN to ELSE pc[d]
  BY <1>1, CallerPc DEF SInv, IInv
<1>4. \A d \in Callers : d # c => pc[d] = "idle"
  BY <1>3 DEF SInv, OneAtATime
<1>5. OneAtATime' /\ StartUnheard'
  BY <1>2, <1>3, <1>4 DEF SInv, OneAtATime, StartUnheard, Serving, Running, StartLabels
<1>6. ~ Serving /\ ~ Running(flags)
  BY <1>3 DEF SInv, StartUnheard, StartLabels
<1>7. TargetSet'
  BY <1>1, <1>2, <1>3, <1>4, <1>6 DEF SInv, TargetSet, Running
<1>8. ServingUndone' /\ FlagsKept'
  BY <1>2, <1>3, <1>4, <1>6 DEF SInv, ServingUndone, Serving, FlagsKept, Running, ShowLabels
<1>9. DoneMeansComplete' /\ Uncancelled'
  BY <1>2, <1>3, <1>6
  DEF SInv, DoneMeansComplete, NotStarting, Uncancelled, Serving, CancelLabels, StopLabels
<1> QED
  BY <1>5, <1>7, <1>8, <1>9 DEF SInv

\* A start publishes ENABLE when target and edge_ptr are those of the new
\* capture.
LEMMA EnablesStep ==
  ASSUME SInv, IInv', NEW c \in Callers, Enable(c)
  PROVE  SInv'
<1>1. CASE FlagsRead(c, "enable", "enablew")
  <2>1. /\ pc[c] = "enable" /\ pc'["isr"] = pc["isr"]
        /\ \A d \in Callers : pc'[d] = IF d = c THEN "enablew" ELSE pc[d]
    BY <1>1, CallerPc DEF SInv, IInv, FlagsRead
  <2>2. UNCHANGED <<flags, edge_ptr, edge_target, cur, arg>>
        /\ \A d \in Callers : d # c => fl'[d] = fl[d]
    BY <1>1 DEF FlagsRead, SInv, IInv, TypeOK
  <2>3. OneAtATime' /\ StartUnheard' /\ TargetSet' /\ DoneMeansComplete'
    BY <2>1, <2>2
    DEF SInv, OneAtATime, StartUnheard, TargetSet, DoneMeansComplete, NotStarting, Serving,
        Running, StartLabels
  <2>4. ServingUndone' /\ FlagsKept' /\ Uncancelled'
    BY <2>1, <2>2
    DEF SInv, ServingUndone, Serving, FlagsKept, Uncancelled, Running, ShowLabels, CancelLabels,
        StopLabels
  <2> QED
    BY <2>3, <2>4 DEF SInv
<1>2. CASE FlagsWrite(c, Enabled(fl[c]), "enablew", "run")
  <2>1. /\ pc[c] = "enablew" /\ pc'["isr"] = pc["isr"]
        /\ \A d \in Callers : pc'[d] = IF d = c THEN "run" ELSE pc[d]
    BY <1>2, CallerPc DEF SInv, IInv, FlagsWrite
  <2>2. UNCHANGED <<edge_ptr, edge_target, cur, arg>> /\ flags' = Enabled(fl[c])
        /\ \A d \in Callers : d # c => fl'[d] = fl[d]
    BY <1>2 DEF FlagsWrite, SInv, IInv, TypeOK
  <2>3. \A d \in Callers : d # c => pc[d] = "idle"
    BY <2>1 DEF SInv, OneAtATime
  <2>4. ~ Serving /\ edge_ptr = 0 /\ 0 < edge_target /\ edge_target \in Nat
    BY <2>1 DEF SInv, StartUnheard, TargetSet, StartLabels, IInv, Bounded, Slots
  <2>5. OneAtATime' /\ StartUnheard' /\ TargetSet' /\ DoneMeansComplete'
    BY <2>1, <2>2, <2>3, <2>4
    DEF OneAtATime, StartUnheard, TargetSet, DoneMeansComplete, Enabled, StartLabels
  <2>6. ServingUndone' /\ FlagsKept' /\ Uncancelled'
    BY <2>1, <2>2, <2>3, <2>4
    DEF SInv, ServingUndone, Serving, FlagsKept, Uncancelled, Enabled, ShowLabels, CancelLabels,
        StopLabels
  <2> QED
    BY <2>5, <2>6 DEF SInv
<1> QED
  BY <1>1, <1>2 DEF Enable

\* Starting, silencing and stopping the timers keeps the invariant.
LEMMA RegisterStep ==
  ASSUME SInv, IInv', NEW c \in Callers,
         StartTimer(c) \/ DisableInterrupts(c) \/ StopTimer(c, "publish")
  PROVE  SInv'
<1> DEFINE Labels == {"run", "runw", "int0", "intw0", "int1", "intw1"} \cup StopLabels \cup {"idle"}
<1>1. PICK from \in Labels \ {"idle"}, to \in Labels :
        Step(c, from, to) /\ (to \in CancelLabels => from \in CancelLabels)
  BY DEF StartTimer, DisableInterrupts, StopTimer, RegRead, RegWrite, StopLabels, CancelLabels
<1>2. UNCHANGED <<flags, edge_ptr, edge_target, cur, fl, arg>>
  BY DEF StartTimer, DisableInterrupts, StopTimer, RegRead, RegWrite, mem
<1> QED
  BY <1>1, <1>2, CallerMoves DEF StartLabels, ShowLabels, StopLabels

\* A cancel takes ENABLE and DONE away, and makes nothing run.
LEMMA CancelsStep ==
  ASSUME SInv, IInv', NEW c \in Callers, PublishCancelled(c)
  PROVE  SInv'
<1>1. PICK from \in {"publish", "publishw"}, to \in {"publishw", "idle"} :
        Step(c, from, to)
  BY DEF PublishCancelled, FlagsRead, FlagsWrite
<1>2. /\ pc[c] = from /\ pc'["isr"] = pc["isr"]
      /\ \A d \in Callers : pc'[d] = IF d = c THEN to ELSE pc[d]
  BY <1>1, CallerPc DEF SInv, IInv
<1>3. UNCHANGED <<edge_ptr, edge_target, cur, arg>>
      /\ (flags' = flags \/ flags' = Cancelled(fl[c]))
      /\ \A d \in Callers : d # c => fl'[d] = fl[d]
  BY DEF PublishCancelled, FlagsRead, FlagsWrite, SInv, IInv, TypeOK, Threads
<1>4. \A d \in Callers : d # c => pc[d] = "idle"
  BY <1>2 DEF SInv, OneAtATime
<1>5. NotStarting /\ \A d \in Callers : pc'[d] \notin StartLabels \cup ShowLabels
  BY <1>2, <1>4 DEF NotStarting, StartLabels, ShowLabels
<1>6. Running(flags') => Running(flags)
  BY <1>3 DEF Running, Cancelled
<1>7. "DONE" \in flags' => "DONE" \in flags
  BY <1>3 DEF Cancelled
<1>8. OneAtATime' /\ StartUnheard' /\ DoneMeansComplete'
  BY <1>2, <1>3, <1>4, <1>5, <1>7
  DEF SInv, OneAtATime, StartUnheard, DoneMeansComplete
<1>9. TargetSet' /\ ServingUndone' /\ FlagsKept'
  BY <1>2, <1>3, <1>5, <1>6, <1>7
  DEF SInv, TargetSet, ServingUndone, FlagsKept, Serving, Cancelled, StartLabels, ShowLabels,
      Running
<1>10. Uncancelled'
  BY <1>2 DEF SInv, Uncancelled, CancelLabels, StopLabels
<1> QED
  BY <1>8, <1>9, <1>10 DEF SInv

\* A read-out writes back flags that say no more than the present ones.
LEMMA ReadsOutStep ==
  ASSUME SInv, IInv', NEW c \in Callers, Clamp(c) \/ Copy(c) \/ MarkRead(c)
  PROVE  SInv'
<1>1. CASE Clamp(c) \/ Copy(c)
  <2>1. PICK from \in {"clamp", "copy"}, to \in {"copy", "mark", "idle"} :
          Step(c, from, to) /\ (to # "idle" => from = "copy" \/ {"DONE", "CANCELLED"} \cap flags # {})
    BY <1>1 DEF Clamp, Copy
  <2>2. UNCHANGED <<flags, edge_ptr, edge_target, cur, fl>>
        /\ \A d \in Callers : d # c => arg'[d] = arg[d]
    BY <1>1 DEF Clamp, Copy, mem, SInv, IInv, TypeOK
  <2>3. to \in ShowLabels => ~ Running(flags)
    BY <2>1 DEF SInv, FlagsKept, Running, ShowLabels, Step
  <2> QED
    BY <2>1, <2>2, <2>3, CallerMoves DEF StartLabels, CancelLabels, StopLabels
<1>2. CASE FlagsRead(c, "mark", "markw")
  <2>1. /\ pc[c] = "mark" /\ pc'["isr"] = pc["isr"]
        /\ \A d \in Callers : pc'[d] = IF d = c THEN "markw" ELSE pc[d]
    BY <1>2, CallerPc DEF SInv, IInv, FlagsRead
  <2>2. UNCHANGED <<flags, edge_ptr, edge_target, cur, arg>>
        /\ fl'[c] = flags /\ \A d \in Callers : d # c => fl'[d] = fl[d]
    BY <1>2 DEF FlagsRead, SInv, IInv, TypeOK, Threads
  <2>3. OneAtATime' /\ StartUnheard' /\ TargetSet' /\ DoneMeansComplete'
    BY <2>1, <2>2
    DEF SInv, OneAtATime, StartUnheard, TargetSet, DoneMeansComplete, NotStarting, Serving,
        Running, StartLabels
  <2>4. ServingUndone' /\ FlagsKept' /\ Uncancelled'
    BY <2>1, <2>2
    DEF SInv, ServingUndone, Serving, FlagsKept, Uncancelled, Running, ShowLabels, CancelLabels,
        StopLabels
  <2> QED
    BY <2>3, <2>4 DEF SInv
<1>3. CASE /\ Step(c, "markw", "idle")
           /\ flags' = fl[c] \cup {"READ"}
           /\ fl' = [fl EXCEPT ![c] = {}]
           /\ arg' = [arg EXCEPT ![c] = 0]
           /\ UNCHANGED <<edge_ptr, edge_target, cur>>
  <2>1. /\ pc[c] = "markw" /\ pc'["isr"] = pc["isr"]
        /\ \A d \in Callers : pc'[d] = IF d = c THEN "idle" ELSE pc[d]
    BY <1>3, CallerPc DEF SInv, IInv
  <2>2. \A d \in Callers : pc'[d] = "idle" /\ (d # c => pc[d] = "idle")
    BY <2>1 DEF SInv, OneAtATime
  <2>3. ~ Running(flags') /\ ("DONE" \in flags' => "DONE" \in flags) /\ NotStarting
    BY <1>3, <2>1, <2>2 DEF SInv, FlagsKept, Running, NotStarting
  <2>4. OneAtATime' /\ StartUnheard' /\ TargetSet' /\ DoneMeansComplete'
    BY <1>3, <2>2, <2>3
    DEF SInv, OneAtATime, StartUnheard, TargetSet, DoneMeansComplete, StartLabels
  <2>5. ServingUndone' /\ FlagsKept' /\ Uncancelled'
    BY <1>3, <2>1, <2>2, <2>3
    DEF SInv, ServingUndone, Serving, FlagsKept, Uncancelled, ShowLabels, CancelLabels, StopLabels
  <2> QED
    BY <2>4, <2>5 DEF SInv
<1> QED
  BY <1>1, <1>2, <1>3 DEF MarkRead

-----------------------------------------------------------------------------
\* Every step keeps the invariant.
LEMMA NextSInv ==
  SInv /\ Calm /\ CountsPositive /\ CountsFit /\ [Next]_vars => SInv'
<1> SUFFICES ASSUME SInv, Calm, CountsPositive, CountsFit, [Next]_vars
             PROVE  SInv'
  OBVIOUS
<1>1. IInv'
  BY NextIInv DEF SInv
<1>2. CASE Isr
  BY <1>1, <1>2, DecideStep, StoresFirstStep, StoresNextStep, StopsStep, PublishesStep,
     AcknowledgesStep DEF Isr
<1>3. CASE InputEdge
  BY <1>1, <1>3
  DEF InputEdge, mem, locals, SInv, OneAtATime, StartUnheard, TargetSet, ServingUndone,
      FlagsKept, Uncancelled, DoneMeansComplete, NotStarting, Running, Serving
<1>4. ASSUME NEW c \in Callers, Begin(c) \/ Proceed(c)
      PROVE  SInv'
  BY <1>1, <1>4, BeginsStep, SetsUpStep, EnablesStep, RegisterStep, CancelsStep, ReadsOutStep
  DEF Proceed
<1>5. CASE UNCHANGED vars
  BY <1>1, <1>5
  DEF vars, mem, locals, SInv, OneAtATime, StartUnheard, TargetSet, ServingUndone,
      FlagsKept, Uncancelled, DoneMeansComplete, NotStarting, Running, Serving
<1> QED
  BY <1>2, <1>3, <1>4, <1>5 DEF Next

\* The invariant holds after probe.
LEMMA InitSInv == Init /\ CountsFit => SInv
<1> SUFFICES ASSUME Init, CountsFit
             PROVE  SInv
  OBVIOUS
<1>1. IInv
  BY InitIInv
<1>2. flags = {} /\ edge_ptr = 0 /\ edge_target = 0 /\ pc["isr"] = "idle"
      /\ \A c \in Callers : pc[c] = "idle"
  BY DEF Init, Threads
<1> QED
  BY <1>1, <1>2
  DEF SInv, OneAtATime, StartUnheard, TargetSet, ServingUndone, FlagsKept, Uncancelled,
      DoneMeansComplete, NotStarting, Running, Serving, FirstLabels, UseLabels, StartLabels,
      ShowLabels, CancelLabels, StopLabels

\* When the driver is calm, a capture that says DONE has edge_target edges, for
\* every set of callers and every array, whatever the input does meanwhile
\* (pulsecap.c:194-203).
THEOREM DoneIsComplete ==
  Calm /\ CountsPositive /\ CountsFit => (Spec => []DoneMeansComplete)
<1> SUFFICES ASSUME Calm, CountsPositive, CountsFit
             PROVE  Spec => []DoneMeansComplete
  OBVIOUS
<1>1. Init => SInv
  BY InitSInv
<1>2. SInv /\ [Next]_vars => SInv'
  BY NextSInv
<1>3. SInv => DoneMeansComplete
  BY DEF SInv
<1> QED
  BY <1>1, <1>2, <1>3, PTL DEF Spec

\* No step but the end of a start changes a capture that is done: the handler,
\* which tests the flags first, is not serving it.
LEMMA FrozenStep ==
  ASSUME SInv, [Next]_vars, "DONE" \in flags, NotStarting
  PROVE  UNCHANGED <<stored_edges, edge_ptr, edge_target>>
<1>1. ~ Serving
  BY DEF SInv, ServingUndone
<1>2. CASE Isr
  BY <1>1, <1>2
  DEF Isr, Enter, ReadStatus, TestFlags, ReadCount, Judge, StoreFirst, Compare, StoreNext,
      StoreType, StoreCount, TestTarget, Advance, Use, StopTimer, PublishDone, Acknowledge,
      RegRead, RegWrite, FlagsRead, FlagsWrite, Step, Serving, FirstLabels, UseLabels, mem
<1>3. CASE InputEdge
  BY <1>3 DEF InputEdge, mem
<1>4. ASSUME NEW c \in Callers, Begin(c) \/ Proceed(c)
      PROVE  UNCHANGED <<stored_edges, edge_ptr, edge_target>>
  <2>1. ~ SetUp(c)
    BY DEF SetUp, Step, NotStarting
  <2> QED
    BY <1>4, <2>1
    DEF Begin, Start, Cancel, Show, Proceed, InitializeTimer, Enable, StartTimer,
        DisableInterrupts, StopTimer, PublishCancelled, Clamp, Copy, MarkRead, RegRead,
        RegWrite, FlagsRead, FlagsWrite, mem
<1>5. CASE UNCHANGED vars
  BY <1>5 DEF vars, mem
<1> QED
  BY <1>2, <1>3, <1>4, <1>5 DEF Next

\* When the driver is calm, a capture that says DONE keeps its edges, edge_ptr and
\* edge_target until the next start (pulsecap.c:165, 202).
THEOREM DoneStaysFrozen ==
  Calm /\ CountsPositive /\ CountsFit => (Spec => DoneIsFrozen)
<1> SUFFICES ASSUME Calm, CountsPositive, CountsFit
             PROVE  Spec => DoneIsFrozen
  OBVIOUS
<1>1. Init => SInv
  BY InitSInv
<1>2. SInv /\ [Next]_vars => SInv'
  BY NextSInv
<1>3. SInv /\ [Next]_vars =>
        ["DONE" \in flags /\ NotStarting =>
           UNCHANGED <<stored_edges, edge_ptr, edge_target>>]_vars
  BY FrozenStep
<1> QED
  BY <1>1, <1>2, <1>3, PTL DEF Spec, DoneIsFrozen

-----------------------------------------------------------------------------
(* The edges alternate.                                                    *)

\* What the handler holds and has stored of the edge it serves.
InFlight ==
  /\ pc["isr"] \in FirstLabels => cur.type = HIGH
  /\ pc["isr"] \in {"first1", "first2"} => stored_edges[0].edge_type = HIGH
  /\ pc["isr"] \in UseLabels => 0 < cur.ptr
  /\ pc["isr"] \in {"store0", "store1", "more", "advance"} => cur.type = cur.ptr % 2
  /\ pc["isr"] \in {"store1", "more", "advance"} => stored_edges[cur.ptr].edge_type = cur.ptr % 2

AInv == SInv /\ Alternating /\ InFlight

\* A step that leaves the array and edge_ptr alone and does not move the handler
\* keeps the edges alternating.
LEMMA AloneAlternates ==
  ASSUME AInv, SInv', pc'["isr"] = pc["isr"], UNCHANGED <<stored_edges, edge_ptr, cur>>
  PROVE  AInv'
BY DEF AInv, Alternating, InFlight

\* The handler's first load of edge_ptr keeps them alternating: only a rising
\* edge becomes the first one.
LEMMA JudgeAlternates ==
  ASSUME AInv, SInv', Judge
  PROVE  AInv'
<1>1. UNCHANGED <<mem>> /\ cur' = [cur EXCEPT !.ptr = edge_ptr]
  BY DEF Judge
<1>2. cur'.ptr = edge_ptr /\ cur'.type = cur.type /\ edge_ptr \in Nat
  BY <1>1 DEF AInv, SInv, IInv, TypeOK, Bounded, Slots
<1>3. PICK to \in {"compare", "first0", "ack0"} :
        /\ pc' = [pc EXCEPT !["isr"] = to]
        /\ to = "first0" => cur.type = HIGH
        /\ to = "compare" => 0 < edge_ptr
  BY <1>2 DEF Judge, Step, Rises
<1>4. pc'["isr"] = to
  BY <1>3 DEF AInv, SInv, IInv, TypeOK, Threads
<1>5. Alternating'
  BY <1>1 DEF AInv, Alternating, mem
<1>6. InFlight'
  BY <1>2, <1>3, <1>4 DEF InFlight, FirstLabels, UseLabels
<1> QED
  BY <1>5, <1>6 DEF AInv

\* The first edge is a rising one.
LEMMA FirstAlternates ==
  ASSUME AInv, SInv', CountsFit, StoreFirst
  PROVE  AInv'
<1>1. pc["isr"] \in FirstLabels /\ edge_ptr = 0 /\ cur.type = HIGH /\ UNCHANGED cur
  BY DEF StoreFirst, Step, FirstLabels, AInv, SInv, IInv, Carried, InFlight, locals
<1>2. 0 \in Slots /\ HIGH = 0
  BY PulsecapAssumption DEF Slots, HIGH
<1>3. stored_edges \in [Slots -> [edge_type : {HIGH, LOW}, edge_count : 0..MaxEdges]]
  BY DEF AInv, SInv, IInv, TypeOK
<1>4. CASE Step("isr", "first0", "first1")
           /\ stored_edges' = [stored_edges EXCEPT ![0].edge_type = cur.type]
           /\ UNCHANGED edge_ptr
  <2>1. pc'["isr"] = "first1" /\ stored_edges'[0].edge_type = HIGH
    BY <1>1, <1>2, <1>3, <1>4 DEF Step, AInv, SInv, IInv, TypeOK, Threads
  <2>2. Alternating'
    BY <1>1, <1>4 DEF Alternating, Slots
  <2>3. InFlight'
    BY <1>1, <2>1 DEF InFlight, FirstLabels, UseLabels
  <2> QED
    BY <2>2, <2>3 DEF AInv
<1>5. CASE Step("isr", "first1", "first2")
           /\ stored_edges' = [stored_edges EXCEPT ![0].edge_count = cur.count]
           /\ UNCHANGED edge_ptr
  <2>1. pc["isr"] = "first1" /\ pc'["isr"] = "first2"
    BY <1>5 DEF Step, AInv, SInv, IInv, TypeOK, Threads
  <2>2. stored_edges'[0].edge_type = stored_edges[0].edge_type
    BY <1>2, <1>3, <1>5
  <2>3. Alternating'
    BY <1>1, <1>5 DEF Alternating, Slots
  <2>4. InFlight'
    BY <1>1, <2>1, <2>2 DEF AInv, InFlight, FirstLabels, UseLabels
  <2> QED
    BY <2>3, <2>4 DEF AInv
<1>6. CASE Step("isr", "first2", "ack0") /\ edge_ptr' = 1 /\ UNCHANGED stored_edges
  <2>1. pc["isr"] = "first2" /\ pc'["isr"] = "ack0"
    BY <1>6 DEF Step, AInv, SInv, IInv, TypeOK, Threads
  <2>2. stored_edges[0].edge_type = 0
    BY <1>2, <2>1 DEF AInv, InFlight
  <2>3. \A k \in Slots : k < 1 => k = 0
    BY DEF Slots
  <2>4. Alternating'
    BY <1>6, <2>2, <2>3 DEF Alternating
  <2>5. InFlight'
    BY <2>1 DEF InFlight, FirstLabels, UseLabels
  <2> QED
    BY <2>4, <2>5 DEF AInv
<1> QED
  BY <1>4, <1>5, <1>6 DEF StoreFirst

\* An edge that differs from the one in front of it has the type its element
\* calls for.
LEMMA CompareAlternates ==
  ASSUME AInv, SInv', Compare
  PROVE  AInv'
<1>1. PICK q \in Pointers, wanted \in BOOLEAN :
        /\ Use(q, "compare", IF wanted THEN "store0" ELSE "ack0")
        /\ q = edge_ptr /\ (0 < q => wanted \in Differs(q, cur.type))
        /\ UNCHANGED <<edge_ptr, edge_target, stored_edges>>
  <2>1. PICK q \in Pointers, wanted \in BOOLEAN :
          /\ Use(q, "compare", IF wanted THEN "store0" ELSE "ack0")
          /\ wanted \in Differs(q, cur.type)
          /\ UNCHANGED <<edge_ptr, edge_target, stored_edges>>
    BY DEF Compare, Differs
  <2>2. "compare" \in UseLabels /\ (IF wanted THEN "store0" ELSE "ack0") \in IsrLabels
    BY DEF UseLabels, IsrLabels
  <2>3. q = edge_ptr
    BY <2>1, <2>2, UseAsLoaded DEF AInv
  <2> QED
    BY <2>1, <2>3
<1> DEFINE to == IF wanted THEN "store0" ELSE "ack0"
<1>2. "compare" \in UseLabels /\ to \in IsrLabels
  BY DEF UseLabels, IsrLabels
<1>3. /\ pc["isr"] = "compare" /\ pc'["isr"] = to
      /\ cur' = [type |-> cur.type, count |-> cur.count, ptr |-> q]
      /\ q = cur.ptr /\ q \in Slots
  BY <1>1, <1>2, UseInBounds, UseAsLoaded DEF AInv, SInv
<1>4. 0 < q
  BY <1>2, <1>3 DEF AInv, InFlight
<1>5. q - 1 \in Slots /\ q - 1 < edge_ptr /\ q \in Nat
  BY <1>1, <1>3, <1>4, PulsecapAssumption DEF Slots
<1>6. stored_edges[q - 1].edge_type = (q - 1) % 2
  BY <1>5 DEF AInv, Alternating
<1>7. cur.type \in {0, 1}
  BY DEF AInv, SInv, IInv, TypeOK, HIGH, LOW
<1>8. wanted => cur.type = q % 2
  <2>1. q # 0
    BY <1>4, <1>5
  <2>2. wanted = (stored_edges[q - 1].edge_type # cur.type)
    BY <1>1, <1>4, <2>1, Zenon DEF Differs
  <2>3. wanted => (q - 1) % 2 # cur.type
    BY <1>6, <2>2, Zenon
  <2> QED
    BY <1>5, <1>7, <2>3
<1>9. Alternating'
  BY <1>1 DEF AInv, Alternating
<1>10. InFlight'
  <2>1. cur'.type = cur.type /\ cur'.ptr = q
    BY <1>3
  <2>2. CASE wanted
    BY <1>3, <1>4, <1>8, <2>1, <2>2 DEF InFlight, FirstLabels, UseLabels
  <2>3. CASE ~ wanted
    BY <1>3, <2>3 DEF InFlight, FirstLabels, UseLabels
  <2> QED
    BY <2>2, <2>3
<1> QED
  BY <1>9, <1>10 DEF AInv

\* The two stores, the test and the increment.
LEMMA NextAlternates ==
  ASSUME AInv, SInv', StoreNext
  PROVE  AInv'
<1>1. PICK q \in Pointers : StoreType(q) \/ StoreCount(q) \/ TestTarget(q) \/ Advance(q)
  BY DEF StoreNext
<1>2. PICK from \in {"store0", "store1", "more", "advance"},
           to \in {"store1", "more", "advance", "stop0", "ack0"} :
        /\ Use(q, from, to)
        /\ to = "store1" => from = "store0"
        /\ to = "more" => from = "store1"
        /\ to = "advance" => from = "more"
        /\ from = "store0" => StoreType(q) /\ to = "store1"
        /\ from = "store1" => StoreCount(q) /\ to = "more"
        /\ from = "more" => TestTarget(q)
        /\ from = "advance" => Advance(q)
  BY <1>1 DEF StoreType, StoreCount, TestTarget, Advance
<1>3. from \in UseLabels /\ to \in IsrLabels \cup StopLabels
  BY DEF UseLabels, IsrLabels, StopLabels
<1>4. /\ pc["isr"] = from /\ pc'["isr"] = to
      /\ cur' = [type |-> cur.type, count |-> cur.count, ptr |-> q]
      /\ q = cur.ptr /\ q = edge_ptr /\ q \in Slots
  BY <1>2, <1>3, UseInBounds, UseAsLoaded DEF AInv, SInv
<1>5. cur' = cur
  BY <1>4 DEF AInv, SInv, IInv, TypeOK
<1>6. 0 < cur.ptr /\ cur.type = cur.ptr % 2
  BY <1>3, <1>4 DEF AInv, InFlight
<1>7. stored_edges \in [Slots -> [edge_type : {HIGH, LOW}, edge_count : 0..MaxEdges]]
  BY DEF AInv, SInv, IInv, TypeOK
<1>8. CASE from = "store0"
  <2>1. stored_edges' = [stored_edges EXCEPT ![q].edge_type = cur.type] /\ UNCHANGED edge_ptr
    BY <1>2, <1>4, <1>8 DEF StoreType
  <2>2. stored_edges'[q].edge_type = q % 2
    BY <1>4, <1>6, <1>7, <2>1
  <2>3. \A k \in Slots : k < edge_ptr' => stored_edges'[k] = stored_edges[k]
    BY <1>4, <1>7, <2>1 DEF Slots
  <2>4. Alternating'
    BY <2>1, <2>3 DEF AInv, Alternating
  <2>5. InFlight'
    BY <1>2, <1>4, <1>5, <1>6, <1>8, <2>2 DEF InFlight, FirstLabels, UseLabels
  <2> QED
    BY <2>4, <2>5 DEF AInv
<1>9. CASE from = "store1"
  <2>1. stored_edges' = [stored_edges EXCEPT ![q].edge_count = cur.count] /\ UNCHANGED edge_ptr
    BY <1>2, <1>4, <1>9 DEF StoreCount
  <2>2. \A k \in Slots : stored_edges'[k].edge_type = stored_edges[k].edge_type
    BY <1>4, <1>7, <2>1
  <2>3. Alternating'
    BY <2>1, <2>2 DEF AInv, Alternating
  <2>4. stored_edges[q].edge_type = q % 2
    BY <1>4, <1>9 DEF AInv, InFlight
  <2>5. InFlight'
    BY <1>2, <1>4, <1>5, <1>6, <1>9, <2>2, <2>4 DEF InFlight, FirstLabels, UseLabels
  <2> QED
    BY <2>3, <2>5 DEF AInv
<1>10. CASE from = "more"
  <2>1. UNCHANGED <<edge_ptr, stored_edges>>
    BY <1>2, <1>10 DEF TestTarget
  <2>2. Alternating'
    BY <2>1 DEF AInv, Alternating
  <2>3. stored_edges[q].edge_type = q % 2
    BY <1>4, <1>10 DEF AInv, InFlight
  <2>4. InFlight'
    BY <1>2, <1>4, <1>5, <1>6, <1>10, <2>1, <2>3 DEF InFlight, FirstLabels, UseLabels
  <2> QED
    BY <2>2, <2>4 DEF AInv
<1>11. CASE from = "advance"
  <2>1. edge_ptr' = edge_ptr + 1 /\ UNCHANGED stored_edges /\ to = "ack0"
    BY <1>2, <1>4, <1>11, PulsecapAssumption
    DEF Advance, Use, Step, AInv, SInv, IInv, TypeOK, Threads
  <2>2. stored_edges[edge_ptr].edge_type = edge_ptr % 2
    BY <1>4, <1>11 DEF AInv, InFlight
  <2>3. \A k \in Slots : k < edge_ptr + 1 => k < edge_ptr \/ k = edge_ptr
    BY <1>4 DEF Slots
  <2>4. Alternating'
    BY <2>1, <2>2, <2>3 DEF AInv, Alternating
  <2>5. InFlight'
    BY <1>4, <2>1 DEF InFlight, FirstLabels, UseLabels
  <2> QED
    BY <2>4, <2>5 DEF AInv
<1> QED
  BY <1>8, <1>9, <1>10, <1>11

\* The other steps of the handler touch neither the array nor edge_ptr.
LEMMA RestAlternates ==
  ASSUME AInv, SInv',
         \/ Enter \/ ReadStatus \/ TestFlags \/ ReadCount
         \/ StopTimer("isr", "publish") \/ PublishDone \/ Acknowledge
  PROVE  AInv'
<1>1. UNCHANGED <<stored_edges, edge_ptr>>
  BY DEF Enter, ReadStatus, TestFlags, ReadCount, StopTimer, PublishDone, Acknowledge,
         RegRead, RegWrite, FlagsRead, FlagsWrite, mem
<1>2. PICK from \in {"idle", "status", "flags", "count", "ack0", "ack1", "ackw0", "ackw1"}
                    \cup StopLabels,
           to \in {"status", "flags", "count", "judge", "ack0", "ack1", "ackw0", "ackw1", "idle"}
                  \cup StopLabels : Step("isr", from, to)
  BY DEF Enter, ReadStatus, TestFlags, ReadCount, StopTimer, PublishDone, Acknowledge,
         RegRead, RegWrite, FlagsRead, FlagsWrite, StopLabels
<1>3. pc'["isr"] = to
  BY <1>2 DEF Step, AInv, SInv, IInv, TypeOK, Threads
<1>4. to \notin FirstLabels \cup UseLabels
  BY DEF FirstLabels, UseLabels, StopLabels
<1>5. Alternating'
  BY <1>1 DEF AInv, Alternating
<1>6. InFlight'
  BY <1>3, <1>4 DEF InFlight, FirstLabels, UseLabels
<1> QED
  BY <1>5, <1>6 DEF AInv

\* A caller that resets edge_ptr does so while the handler serves nothing.
LEMMA CallerAlternates ==
  ASSUME AInv, SInv', NEW c \in Callers, Begin(c) \/ Proceed(c)
  PROVE  AInv'
<1>1. c # "isr" /\ UNCHANGED <<stored_edges, cur>>
  BY PulsecapAssumption
  DEF Begin, Start, Cancel, Show, Proceed, InitializeTimer, SetUp, Enable, StartTimer,
      DisableInterrupts, StopTimer, PublishCancelled, Clamp, Copy, MarkRead, RegRead, RegWrite,
      FlagsRead, FlagsWrite, mem, locals
<1>2. pc'["isr"] = pc["isr"]
  BY <1>1
  DEF Begin, Start, Cancel, Show, Proceed, InitializeTimer, SetUp, Enable, StartTimer,
      DisableInterrupts, StopTimer, PublishCancelled, Clamp, Copy, MarkRead, RegRead, RegWrite,
      FlagsRead, FlagsWrite, Step, AInv, SInv, IInv, TypeOK, Threads
<1>3. CASE UNCHANGED edge_ptr
  BY <1>1, <1>2, <1>3, AloneAlternates
<1>4. CASE ~ UNCHANGED edge_ptr
  <2>1. pc[c] = "ptr" /\ edge_ptr' = 0
    BY <1>4
    DEF Begin, Start, Cancel, Show, Proceed, InitializeTimer, SetUp, Enable, StartTimer,
        DisableInterrupts, StopTimer, PublishCancelled, Clamp, Copy, MarkRead, RegRead, RegWrite,
        FlagsRead, FlagsWrite, Step, mem
  <2>2. ~ Serving
    BY <2>1 DEF AInv, SInv, StartUnheard, StartLabels
  <2>3. InFlight'
    BY <1>2, <2>2 DEF InFlight, Serving, FirstLabels, UseLabels
  <2>4. Alternating'
    BY <2>1 DEF Alternating, Slots
  <2> QED
    BY <2>3, <2>4 DEF AInv
<1> QED
  BY <1>3, <1>4

\* When the driver is calm, the captured edges alternate and the first one rises
\* (pulsecap.c:184-215).
THEOREM EdgesAlternate ==
  Calm /\ CountsPositive /\ CountsFit => (Spec => []Alternating)
<1> SUFFICES ASSUME Calm, CountsPositive, CountsFit
             PROVE  Spec => []Alternating
  OBVIOUS
<1>1. Init => AInv
  <2> SUFFICES ASSUME Init
               PROVE  AInv
    OBVIOUS
  <2>1. edge_ptr = 0 /\ pc["isr"] = "idle"
    BY DEF Init, Threads
  <2>2. Alternating
    BY <2>1 DEF Alternating, Slots
  <2>3. InFlight
    BY <2>1 DEF InFlight, FirstLabels, UseLabels
  <2> QED
    BY <2>2, <2>3, InitSInv DEF AInv
<1>2. AInv /\ [Next]_vars => AInv'
  <2> SUFFICES ASSUME AInv, [Next]_vars
               PROVE  AInv'
    OBVIOUS
  <2>1. SInv'
    BY NextSInv DEF AInv
  <2>2. CASE Isr
    BY <2>1, <2>2, JudgeAlternates, FirstAlternates, CompareAlternates, NextAlternates,
       RestAlternates DEF Isr
  <2>3. CASE InputEdge \/ UNCHANGED vars
    BY <2>1, <2>3, AloneAlternates DEF InputEdge, vars, mem, locals
  <2> QED
    BY <2>1, <2>2, <2>3, CallerAlternates DEF Next
<1>3. AInv => Alternating
  BY DEF AInv
<1> QED
  BY <1>1, <1>2, <1>3, PTL DEF Spec

-----------------------------------------------------------------------------
(* One caller, which may cancel.                                           *)

\* A handler serves a capture that is not done.
ServingNotDone == Serving => "DONE" \notin flags

\* A read-out has copied the first elements of the array, and stays below
\* edge_ptr unless the capture is done.
CopiedSoFar ==
  \A c \in Callers :
    /\ pc[c] \in ShowLabels =>
         /\ "DONE" \in flags \/ arg[c] <= edge_ptr
         /\ Len(out[c]) <= arg[c]
         /\ \A k \in 1..Len(out[c]) : out[c][k] = stored_edges[k - 1].edge_count
    /\ pc[c] \notin ShowLabels => out[c] = <<>>
    /\ pc[c] = "markw" /\ "DONE" \in fl[c] => "DONE" \in flags

\* The inductive invariant of a driver with one caller.
RInv == IInv /\ ServingNotDone /\ CopiedSoFar

\* A step of the handler that leaves flags, array and edge_ptr alone keeps the
\* copies consistent.
LEMMA HandlerKeepsCopies ==
  ASSUME RInv, IInv',
         \A c \in Callers : pc'[c] = pc[c] /\ fl'[c] = fl[c],
         UNCHANGED <<flags, edge_ptr, stored_edges, arg, out>>,
         Serving' => Serving \/ Running(flags)
  PROVE  RInv'
<1>1. ServingNotDone'
  BY DEF RInv, ServingNotDone, Running
<1>2. CopiedSoFar'
  BY DEF RInv, CopiedSoFar
<1> QED
  BY <1>1, <1>2 DEF RInv

\* A store that hits no element below edge_ptr, and an edge_ptr that does not
\* shrink, keep them consistent while the capture is not done.
LEMMA StoreKeepsCopies ==
  ASSUME RInv, IInv', "DONE" \notin flags, UNCHANGED <<flags, arg, out>>,
         \A c \in Callers : pc'[c] = pc[c] /\ fl'[c] = fl[c],
         edge_ptr <= edge_ptr',
         \A k \in Slots : k < edge_ptr => stored_edges'[k].edge_count = stored_edges[k].edge_count
  PROVE  RInv'
<1>1. edge_ptr \in Nat /\ edge_ptr' \in Nat /\ edge_ptr < MaxCount /\ MaxCount \in Nat
  BY PulsecapAssumption DEF RInv, IInv, Bounded, Slots
<1>2. \A c \in Callers : arg[c] \in Nat /\ Len(out[c]) \in Nat
  BY DEF RInv, IInv, TypeOK
<1>3. ASSUME NEW c \in Callers, pc[c] \in ShowLabels, NEW k \in 1..Len(out[c])
      PROVE  stored_edges'[k - 1].edge_count = stored_edges[k - 1].edge_count
  <2>1. Len(out[c]) <= arg[c] /\ arg[c] <= edge_ptr
    BY <1>3 DEF RInv, CopiedSoFar
  <2>2. k - 1 \in Slots /\ k - 1 < edge_ptr
    BY <1>1, <1>2, <2>1 DEF Slots
  <2> QED
    BY <2>2
<1>4. ServingNotDone'
  BY DEF ServingNotDone
<1>5. CopiedSoFar'
  BY <1>1, <1>2, <1>3 DEF RInv, CopiedSoFar
<1> QED
  BY <1>4, <1>5 DEF RInv

\* Every step of the handler does: it stores at edge_ptr, and the read-out of an
\* unfinished capture stays below edge_ptr.
LEMMA IsrKeepsCopies ==
  ASSUME RInv, IInv', CountsFit, Isr
  PROVE  RInv'
<1>1. \A c \in Callers : pc'[c] = pc[c] /\ fl'[c] = fl[c]
  BY PulsecapAssumption, SMTT(30)
  DEF RInv, IInv, TypeOK, Isr, Enter, ReadStatus, TestFlags, ReadCount, Judge, StoreFirst,
      Compare, StoreNext, StoreType, StoreCount, TestTarget, Advance, Use, StopTimer,
      PublishDone, Acknowledge, RegRead, RegWrite, FlagsRead, FlagsWrite, Step, Threads, locals
<1>2. UNCHANGED <<arg, out>>
  BY DEF Isr, Enter, ReadStatus, TestFlags, ReadCount, Judge, StoreFirst, Compare, StoreNext,
         StoreType, StoreCount, TestTarget, Advance, Use, StopTimer, PublishDone, Acknowledge,
         RegRead, RegWrite, FlagsRead, FlagsWrite, locals
<1>3. CASE Enter \/ ReadStatus \/ TestFlags \/ ReadCount \/ Judge
  <2>1. UNCHANGED <<flags, edge_ptr, stored_edges>>
    BY <1>3 DEF Enter, ReadStatus, TestFlags, ReadCount, Judge, mem
  <2>2. Serving' => Serving \/ Running(flags)
    BY <1>3, SMTT(30)
    DEF RInv, IInv, TypeOK, Enter, ReadStatus, TestFlags, ReadCount, Judge, Step, Threads,
        Serving, FirstLabels, UseLabels, StopLabels
  <2> QED
    BY <1>1, <1>2, <2>1, <2>2, HandlerKeepsCopies
<1>4. CASE StoreFirst
  <2>1. pc["isr"] \in FirstLabels /\ UNCHANGED flags
    BY <1>4 DEF StoreFirst, Step, FirstLabels
  <2>2. edge_ptr = 0 /\ "DONE" \notin flags
    BY <2>1 DEF RInv, IInv, Carried, ServingNotDone, Serving
  <2>3. edge_ptr' \in {0, 1} /\ \A k \in Slots : ~ (k < 0)
    BY <1>4, <2>2 DEF StoreFirst, Slots
  <2> QED
    BY <1>1, <1>2, <2>1, <2>2, <2>3, StoreKeepsCopies
<1>5. CASE Compare \/ StoreNext
  <2>1. PICK q \in Pointers, from \in UseLabels, to \in IsrLabels \cup StopLabels :
          /\ Use(q, from, to)
          /\ from = "compare" => UNCHANGED <<edge_ptr, stored_edges>>
          /\ from = "store0" => StoreType(q)
          /\ from = "store1" => StoreCount(q)
          /\ from = "more" => UNCHANGED <<edge_ptr, stored_edges>>
          /\ from = "advance" => edge_ptr' = q + 1 /\ UNCHANGED stored_edges
    <3>1. {"compare", "store0", "store1", "more", "advance"} \subseteq UseLabels
          /\ {"store0", "store1", "more", "advance", "stop0", "ack0"} \subseteq IsrLabels \cup StopLabels
      BY DEF UseLabels, IsrLabels, StopLabels
    <3>2. CASE Compare
      BY <3>1, <3>2 DEF Compare
    <3>3. CASE StoreNext
      BY <3>1, <3>3 DEF StoreNext, StoreType, StoreCount, TestTarget, Advance
    <3> QED
      BY <1>5, <3>2, <3>3
  <2>2. pc["isr"] = from /\ q \in Slots /\ edge_ptr \in {0, q} /\ UNCHANGED flags
    BY <2>1, UseInBounds DEF RInv
  <2>3. "DONE" \notin flags
    BY <2>2 DEF RInv, ServingNotDone, Serving
  <2>4. stored_edges \in [Slots -> [edge_type : {HIGH, LOW}, edge_count : 0..MaxEdges]]
    BY DEF RInv, IInv, TypeOK
  <2>5. q \in Nat /\ edge_ptr \in Nat
    BY <2>2 DEF Slots
  <2>6. edge_ptr <= edge_ptr'
    BY <2>1, <2>2, <2>5 DEF UseLabels, StoreType, StoreCount
  <2>7. \A k \in Slots : k # q => stored_edges'[k] = stored_edges[k]
    BY <2>1, <2>2, <2>4 DEF UseLabels, StoreType, StoreCount
  <2>8. \A k \in Slots : k < edge_ptr => k # q
    BY <2>2, <2>5 DEF Slots
  <2> QED
    BY <1>1, <1>2, <2>2, <2>3, <2>6, <2>7, <2>8, StoreKeepsCopies
<1>6. CASE StopTimer("isr", "publish") \/ Acknowledge
  <2>1. UNCHANGED <<flags, edge_ptr, stored_edges>>
    BY <1>6 DEF StopTimer, Acknowledge, RegRead, RegWrite, mem
  <2>2. Serving' => Serving
    BY <1>6 DEF StopTimer, Acknowledge, RegRead, RegWrite, RInv, IInv, TypeOK, Step, Threads,
                Serving, FirstLabels, UseLabels, StopLabels
  <2> QED
    BY <1>1, <1>2, <2>1, <2>2, HandlerKeepsCopies
<1>7. CASE PublishDone
  <2>1. UNCHANGED <<edge_ptr, stored_edges>>
        /\ \/ UNCHANGED flags /\ Serving
           \/ "DONE" \in flags' /\ ~ Serving'
    BY <1>7 DEF PublishDone, FlagsRead, FlagsWrite, RInv, IInv, TypeOK, Step, Threads, Serving,
                FirstLabels, UseLabels, StopLabels
  <2>2. ServingNotDone' /\ CopiedSoFar'
    BY <1>1, <1>2, <2>1 DEF RInv, ServingNotDone, CopiedSoFar
  <2> QED
    BY <2>2 DEF RInv
<1> QED
  BY <1>3, <1>4, <1>5, <1>6, <1>7 DEF Isr

\* Every step of the caller does.
LEMMA CallerKeepsCopies ==
  ASSUME RInv, IInv', OneCaller, NEW c \in Callers, Begin(c) \/ Proceed(c)
  PROVE  RInv'
<1>1. Callers = {c} /\ c \in Threads /\ c # "isr"
  BY PulsecapAssumption DEF OneCaller, Threads
<1>2. pc'["isr"] = pc["isr"]
  BY <1>1
  DEF RInv, IInv, TypeOK, Begin, Start, Cancel, Show, Proceed, InitializeTimer, SetUp, Enable,
      StartTimer, DisableInterrupts, StopTimer, PublishCancelled, Clamp, Copy, MarkRead,
      RegRead, RegWrite, FlagsRead, FlagsWrite, Step, Threads
<1>3. SUFFICES ServingNotDone' /\ CopiedSoFar'
  BY DEF RInv
<1>4. ASSUME UNCHANGED <<flags, out>>, pc'[c] \notin ShowLabels, pc[c] \notin ShowLabels
      PROVE  ServingNotDone' /\ CopiedSoFar'
  BY <1>1, <1>2, <1>4 DEF RInv, ServingNotDone, CopiedSoFar, Serving, ShowLabels
<1>5. CASE Begin(c) \/ InitializeTimer(c) \/ SetUp(c) \/ StartTimer(c) \/ DisableInterrupts(c)
           \/ StopTimer(c, "publish")
  <2>1. UNCHANGED <<flags, out>>
    BY <1>5 DEF Begin, Start, Cancel, Show, InitializeTimer, SetUp, StartTimer,
                DisableInterrupts, StopTimer, RegRead, RegWrite, mem, locals
  <2>2. pc'[c] \notin ShowLabels /\ pc[c] \notin ShowLabels
    BY <1>1, <1>5, SMTT(30)
    DEF Begin, Start, Cancel, Show, MayCall, InitializeTimer, SetUp, StartTimer,
        DisableInterrupts, StopTimer, RegRead, RegWrite, Step, RInv, IInv, TypeOK, ShowLabels
  <2> QED
    BY <1>4, <2>1, <2>2
<1>6. CASE Enable(c) \/ PublishCancelled(c)
  <2>1. UNCHANGED out /\ (UNCHANGED flags \/ "DONE" \notin flags')
    BY <1>6 DEF Enable, PublishCancelled, FlagsRead, FlagsWrite, Enabled, Cancelled
  <2>2. pc'[c] \notin ShowLabels /\ pc[c] \notin ShowLabels
    BY <1>1, <1>6
    DEF Enable, PublishCancelled, FlagsRead, FlagsWrite, Step, RInv, IInv, TypeOK, ShowLabels
  <2> QED
    BY <1>1, <1>2, <2>1, <2>2 DEF RInv, ServingNotDone, CopiedSoFar, Serving, ShowLabels
<1>7. CASE Clamp(c)
  <2>1. pc[c] = "clamp" /\ UNCHANGED <<flags, edge_ptr, stored_edges, out, fl>>
    BY <1>7 DEF Clamp, Step, mem
  <2>2. out[c] = <<>>
    BY <2>1 DEF RInv, CopiedSoFar, ShowLabels
  <2>3. pc'[c] = "copy" \/ pc'[c] = "idle"
    BY <1>1, <1>7 DEF Clamp, Step, RInv, IInv, TypeOK
  <2>4. pc'[c] = "copy" => arg'[c] = Smaller(arg[c], Limit)
    BY <1>1, <1>7 DEF Clamp, Step, RInv, IInv, TypeOK
  <2>5. arg[c] \in Nat /\ edge_ptr \in Nat /\ edge_target \in Nat
    BY DEF RInv, IInv, TypeOK
  <2>6. pc'[c] = "copy" => ("DONE" \in flags \/ arg'[c] <= edge_ptr) /\ 0 <= arg'[c]
    BY <2>4, <2>5 DEF Smaller, Limit
  <2> QED
    BY <1>1, <1>2, <2>1, <2>2, <2>3, <2>6
    DEF RInv, ServingNotDone, CopiedSoFar, Serving, ShowLabels
<1>8. CASE Copy(c)
  <2>1. pc[c] = "copy" /\ UNCHANGED <<flags, edge_ptr, stored_edges, arg, fl>>
    BY <1>8 DEF Copy, Step, mem
  <2>2. out[c] \in Seq(0..MaxEdges) /\ Len(out[c]) \in Nat /\ arg[c] \in Slots
    BY DEF RInv, IInv, TypeOK, Bounded
  <2>3. pc'[c] \in {"copy", "mark"}
    BY <1>1, <1>8 DEF Copy, Step, RInv, IInv, TypeOK
  <2>4. Len(out'[c]) <= arg[c]
        /\ \A k \in 1..Len(out'[c]) : out'[c][k] = stored_edges[k - 1].edge_count
    <3> DEFINE e == stored_edges[Len(out[c])].edge_count
    <3>1. CASE Len(out[c]) < arg[c] /\ out' = [out EXCEPT ![c] = Append(out[c], e)]
      <4>1. Len(out[c]) \in Slots
        BY <2>2, <3>1, PulsecapAssumption DEF Slots
      <4>2. e \in 0..MaxEdges
        BY <4>1 DEF RInv, IInv, TypeOK
      <4>3. out'[c] = Append(out[c], e)
        BY <3>1 DEF RInv, IInv, TypeOK
      <4>4. Len(out'[c]) = Len(out[c]) + 1
            /\ \A k \in 1..(Len(out[c]) + 1) :
                 out'[c][k] = IF k = Len(out[c]) + 1 THEN e ELSE out[c][k]
        <5> HIDE DEF e
        <5> QED
          BY <2>2, <4>2, <4>3
      <4>5. \A k \in 1..Len(out[c]) : out[c][k] = stored_edges[k - 1].edge_count
        BY <2>1 DEF RInv, CopiedSoFar, ShowLabels
      <4> QED
        BY <2>2, <3>1, <4>4, <4>5 DEF Slots
    <3>2. CASE UNCHANGED out
      BY <2>1, <3>2 DEF RInv, CopiedSoFar, ShowLabels
    <3> QED
      BY <1>8, <3>1, <3>2 DEF Copy
  <2>5. "DONE" \in flags \/ arg[c] <= edge_ptr
    BY <2>1 DEF RInv, CopiedSoFar, ShowLabels
  <2> QED
    BY <1>1, <1>2, <2>1, <2>3, <2>4, <2>5
    DEF RInv, ServingNotDone, CopiedSoFar, Serving, ShowLabels
<1>9. CASE FlagsRead(c, "mark", "markw")
  <2>1. pc[c] = "mark" /\ pc'[c] = "markw" /\ fl'[c] = flags
    BY <1>1, <1>9 DEF FlagsRead, Step, RInv, IInv, TypeOK
  <2>2. UNCHANGED <<flags, edge_ptr, stored_edges, arg, out>>
    BY <1>9 DEF FlagsRead
  <2> QED
    BY <1>1, <1>2, <2>1, <2>2 DEF RInv, ServingNotDone, CopiedSoFar, Serving, ShowLabels
<1>10. CASE /\ Step(c, "markw", "idle")
            /\ flags' = fl[c] \cup {"READ"}
            /\ out' = [out EXCEPT ![c] = <<>>]
  <2>1. pc[c] = "markw" /\ pc'[c] = "idle" /\ out'[c] = <<>>
    BY <1>1, <1>10 DEF Step, RInv, IInv, TypeOK
  <2>2. "DONE" \in flags' => "DONE" \in flags
    BY <1>10, <2>1 DEF RInv, CopiedSoFar
  <2> QED
    BY <1>1, <1>2, <2>1, <2>2 DEF RInv, ServingNotDone, CopiedSoFar, Serving, ShowLabels
<1> QED
  BY <1>5, <1>6, <1>7, <1>8, <1>9, <1>10 DEF Proceed, MarkRead

\* With one caller, what edge_data_show copied is what the array holds, although
\* cancel and read-out race the handler: a handler that runs on after a cancel
\* stores above what the read-out copies (pulsecap.c:337-351).
THEOREM ReadOutIsConsistent ==
  OneCaller /\ CountsFit => (Spec => []ReadOutConsistent)
<1> SUFFICES ASSUME OneCaller, CountsFit
             PROVE  Spec => []ReadOutConsistent
  OBVIOUS
<1>1. Init => RInv
  <2> SUFFICES ASSUME Init
               PROVE  RInv
    OBVIOUS
  <2>1. flags = {} /\ \A c \in Callers : pc[c] = "idle" /\ out[c] = <<>>
    BY DEF Init, Threads
  <2> QED
    BY <2>1, InitIInv DEF RInv, ServingNotDone, CopiedSoFar, ShowLabels
<1>2. RInv /\ [Next]_vars => RInv'
  <2> SUFFICES ASSUME RInv, [Next]_vars
               PROVE  RInv'
    OBVIOUS
  <2>1. IInv'
    BY NextIInv DEF RInv
  <2>2. CASE InputEdge
    BY <2>1, <2>2 DEF InputEdge, mem, locals, RInv, ServingNotDone, CopiedSoFar, Serving
  <2>3. CASE UNCHANGED vars
    BY <2>1, <2>3 DEF vars, mem, locals, RInv, ServingNotDone, CopiedSoFar, Serving
  <2> QED
    BY <2>1, <2>2, <2>3, IsrKeepsCopies, CallerKeepsCopies DEF Next
<1>3. RInv => ReadOutConsistent
  BY DEF RInv, CopiedSoFar, ReadOutConsistent, ShowLabels
<1> QED
  BY <1>1, <1>2, <1>3, PTL DEF Spec
=============================================================================
