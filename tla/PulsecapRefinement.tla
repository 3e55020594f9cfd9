------------------------- MODULE PulsecapRefinement -------------------------
(***************************************************************************)
(* When the handler keeps up with the signal and the calls come one at a   *)
(* time, the driver implements EdgeCapture: for any callers, any array     *)
(* and any counts that fit, and whatever ENALL and unread times do.        *)
(***************************************************************************)
EXTENDS PulsecapProofs, SequenceTheorems

\* An edge or a call begins only when nothing else goes on.
OneThing == Overlap = {}

\* An interrupt and a call are never served together.
Exclusive ==
  (irq \/ pc["isr"] # "idle") => \A c \in Callers : pc[c] = "idle"

\* What a start has written so far, and what a cancel has taken out.
SetUpBits ==
  \A c \in Callers :
    /\ pc[c] = "init1" => csr[0] = {"ENIT"}
    /\ pc[c] \in {"tlrs", "target", "ptr", "enable", "enablew", "run", "runw"} =>
         csr[0] = {"ENIT"} /\ csr[1] = {"ENIT"}
    /\ pc[c] \in {"target", "ptr", "enable", "enablew", "run", "runw"} => unread = {}
    /\ pc[c] \in {"run", "runw"} => edge_ptr = 0
    /\ pc[c] = "runw" => val[c][0] = {"ENIT"}
    /\ pc[c] \in {"int1", "intw1"} \cup StopLabels => "ENIT" \notin csr[0]
    /\ pc[c] \in StopLabels => "ENIT" \notin csr[1]
    /\ pc[c] = "stopw0" => "ENIT" \notin val[c][0]
    /\ pc[c] = "stopw1" => "ENIT" \notin val[c][1]

\* The flags byte holds one of the four modes of a capture.
FlagsMode ==
  /\ flags = {} \/ Running(flags) \/ "DONE" \in flags \/ "CANCELLED" \in flags
  /\ ~ ({"DONE", "CANCELLED"} \subseteq flags)
  /\ Serving => Running(flags)
  /\ pc["isr"] = "publishw" => fl["isr"] = flags
  /\ \A c \in Callers :
       /\ pc[c] \in CancelLabels => flags # {}
       /\ pc[c] \in ShowLabels => {"DONE", "CANCELLED"} \cap flags # {}
       /\ pc[c] = "markw" => fl[c] = flags

\* What a running timer's registers hold, and the timer of the latest edge.
RunBits == IF EnallSticky THEN {"ENT", "ENIT", "ENALL"} ELSE {"ENT", "ENIT"}
Raised == [i \in Timers |-> IF i = TimerOf(edges) THEN RunBits \cup {"TINT"} ELSE RunBits]

LastEdge == stored_edges[edge_ptr - 1]
Following(n) == (n + 1) % (MaxEdges + 1)

\* The array ends with the latest edge, or with the one before it.
CaughtUp == edge_ptr > 0 => LastEdge.edge_count = edges
OneBehind == edge_ptr > 0 => edges = Following(LastEdge.edge_count)

At(labels) == pc["isr"] \in labels

\* The timer and the handler while a capture runs, from one edge to the next.
InStep ==
  Running(flags) /\ (\A c \in Callers : pc[c] \in {"idle", "clamp"}) =>
    /\ edge_ptr > 0 => LastEdge.edge_type = TimerOf(LastEdge.edge_count)
    /\ At({"idle"}) /\ ~ irq =>
         csr = [i \in Timers |-> RunBits] /\ unread = {} /\ CaughtUp
    /\ irq \/ At({"status", "flags", "count"}) =>
         At(StopLabels) \/ (csr = Raised /\ tlr[TimerOf(edges)] = edges
                             /\ unread \subseteq {TimerOf(edges)} /\ OneBehind)
    /\ At({"judge"} \cup FirstLabels \cup UseLabels) =>
         csr = Raised /\ unread = {} /\ OneBehind /\ cur.count = edges
    /\ At({"flags", "count", "judge"} \cup FirstLabels \cup UseLabels) =>
         cur.type = TimerOf(edges)
    /\ At(FirstLabels) => TimerOf(edges) = HIGH
    /\ At(UseLabels) => 0 < cur.ptr
    /\ At({"first1", "first2"}) => stored_edges[0].edge_type = cur.type
    /\ At({"first2"}) => stored_edges[0].edge_count = cur.count
    /\ At({"store1", "more", "advance"}) => stored_edges[cur.ptr].edge_type = cur.type
    /\ At({"more", "advance"}) => stored_edges[cur.ptr].edge_count = cur.count
    /\ At({"ack0", "ack1", "ackw0"}) => csr = Raised
    /\ At({"ackw1"}) => csr[0] = RunBits /\ csr[1] \ {"TINT"} = RunBits
    /\ At({"ack1", "ackw0"}) => val["isr"][0] = csr[0]
    /\ At({"ackw0", "ackw1"}) => val["isr"][1] = csr[1]
    /\ At({"ack0", "ack1", "ackw0", "ackw1"}) => unread = {} /\ CaughtUp
    /\ irq => At({"idle"} \cup StopLabels)

\* The inductive invariant under which the driver implements EdgeCapture.
TInv == SInv /\ Exclusive /\ SetUpBits /\ FlagsMode /\ InStep
-----------------------------------------------------------------------------
(* The timer.                                                              *)

\* Writing TINT back to a register acknowledges it; nothing else changes.
LEMMA Acknowledged ==
  ASSUME HwTypeOK, NEW i \in Timers, csr[i] \ {"TINT"} = RunBits,
         csr[1 - i] \ {"TINT"} = RunBits, WriteCsr(i, AckBits(csr[i])), Line(csr)
  PROVE  csr'[i] = RunBits /\ csr'[1 - i] = csr[1 - i] /\ irq' = irq
<1>1. csr' = Written(i, AckBits(csr[i])) /\ irq' = irq
  BY DEF WriteCsr, Latch, HwTypeOK
<1>2. i \in {0, 1} /\ 1 - i \in {0, 1} /\ 1 - i # i
  BY DEF Timers
<1> QED
  BY <1>1, <1>2 DEF Written, AckBits, RunBits, HwTypeOK, Timers, Bits

\* An edge and the one after it are of different timers.
LEMMA EdgesAlternateTimers ==
  ASSUME NEW n \in 0..MaxEdges
  PROVE  /\ TimerOf(n) \in Timers
         /\ TimerOf(n) = HIGH <=> n % 2 = 1
         /\ Following(n) \in 0..MaxEdges
         /\ TimerOf(Following(n)) # TimerOf(n)
<1>1. MaxEdges \in Nat /\ MaxEdges % 2 = 1
  BY AxiTimerAssumption
<1>2. Following(n) = IF n = MaxEdges THEN 0 ELSE n + 1
  BY <1>1 DEF Following
<1> QED
  BY <1>1, <1>2 DEF TimerOf, Timers, HIGH

\* The handler runs when all callers rest.
LEMMA HandlerAlone ==
  ASSUME TInv, Isr
  PROVE  \A c \in Callers : pc[c] = "idle" /\ pc'[c] = "idle"
<1>1. irq \/ pc["isr"] # "idle"
  BY DEF Isr, Enter, ReadStatus, TestFlags, ReadCount, Judge, StoreFirst, Compare, StoreNext,
         StoreType, StoreCount, TestTarget, Advance, Use, StopTimer, PublishDone, Acknowledge,
         RegRead, RegWrite, FlagsRead, FlagsWrite, Step
<1>2. \A c \in Callers : pc[c] = "idle"
  BY <1>1 DEF TInv, Exclusive
<1> QED
  BY <1>2, PulsecapAssumption
  DEF TInv, SInv, IInv, TypeOK, Isr, Enter, ReadStatus, TestFlags, ReadCount, Judge, StoreFirst,
      Compare, StoreNext, StoreType, StoreCount, TestTarget, Advance, Use, StopTimer,
      PublishDone, Acknowledge, RegRead, RegWrite, FlagsRead, FlagsWrite, Step, Threads

\* What remains to be shown of a step of the handler.
LEMMA HandlerKeeps ==
  ASSUME TInv, SInv', Isr, UNCHANGED flags, Serving' => Serving \/ Running(flags), InStep',
         pc'["isr"] = "publishw" => fl'["isr"] = flags
  PROVE  TInv'
<1>1. \A c \in Callers : pc'[c] = "idle"
  BY HandlerAlone
<1>2. Exclusive' /\ SetUpBits'
  BY <1>1 DEF Exclusive, SetUpBits, StopLabels
<1>3. FlagsMode'
  BY <1>1 DEF TInv, FlagsMode, CancelLabels, StopLabels, ShowLabels
<1> QED
  BY <1>2, <1>3 DEF TInv

\* An edge that was latched is the one the timer holds when its handler enters.
LEMMA EnterInStep ==
  ASSUME TInv, SInv', Enter
  PROVE  TInv'
<1>1. UNCHANGED <<csr, tlr, unread, edges, flags, edge_ptr, stored_edges>>
  BY DEF Enter, mem
<1>2. irq /\ ~ irq' /\ pc["isr"] = "idle" /\ pc'["isr"] = "status"
  BY DEF Enter, Step, TInv, SInv, IInv, TypeOK, Threads
<1>3. Isr /\ \A c \in Callers : pc[c] = "idle"
  BY HandlerAlone DEF Isr
<1>4. InStep'
  BY <1>1, <1>2, <1>3
  DEF TInv, InStep, At, CaughtUp, OneBehind, LastEdge, Raised, FirstLabels, UseLabels, StopLabels
<1> QED
  BY <1>1, <1>2, <1>3, <1>4, HandlerKeeps DEF Serving, FirstLabels, UseLabels, StopLabels

\* The status names the timer of the edge, the flags let it be stored, and the
\* count is the time of the edge, because no second edge came. Only edges before
\* the first rising one are refused.
LEMMA DecidesInStep ==
  ASSUME TInv, SInv', ReadStatus \/ TestFlags \/ ReadCount \/ Judge
  PROVE  TInv'
<1>1. UNCHANGED <<csr, tlr, edges, irq, flags, edge_ptr, stored_edges>>
  BY DEF ReadStatus, TestFlags, ReadCount, ReadTlr, Judge, hw, mem
<1>2. Isr /\ \A c \in Callers : pc[c] = "idle"
  BY HandlerAlone DEF Isr
<1>3. TimerOf(edges) \in Timers
  BY EdgesAlternateTimers DEF TInv, SInv, IInv, TypeOK, HwTypeOK
<1>4. SUFFICES ASSUME Running(flags)
               PROVE  InStep'
  <2>1. (Serving' => Serving \/ Running(flags)) /\ pc'["isr"] # "publishw"
    BY DEF ReadStatus, TestFlags, ReadCount, Judge, Step, Serving, FirstLabels, UseLabels, StopLabels, TInv, SInv, IInv,
           TypeOK, Threads
  <2>2. ~ Running(flags) => InStep'
    BY <1>1 DEF InStep
  <2> QED
    BY <1>1, <1>2, <1>4, <2>1, <2>2, HandlerKeeps
<1>5. CASE ReadStatus
  <2>1. pc["isr"] = "status" /\ pc'["isr"] = "flags" /\ UNCHANGED unread
    BY <1>5 DEF ReadStatus, Step, TInv, SInv, IInv, TypeOK, Threads, hw
  <2>2. csr = Raised /\ tlr[TimerOf(edges)] = edges /\ unread \subseteq {TimerOf(edges)}
        /\ OneBehind /\ ~ irq
    BY <1>2, <1>4, <2>1 DEF TInv, InStep, At, FirstLabels, UseLabels, StopLabels
  <2>3. cur'.type = TimerOf(edges)
    BY <1>3, <1>5, <2>2
    DEF ReadStatus, Raised, RunBits, HIGH, LOW, Timers, TInv, SInv, IInv, TypeOK
  <2> QED
    BY <1>1, <1>2, <1>4, <2>1, <2>2, <2>3
    DEF TInv, InStep, At, OneBehind, LastEdge, Raised, FirstLabels, UseLabels, StopLabels
<1>6. CASE TestFlags
  <2>1. pc["isr"] = "flags" /\ pc'["isr"] = "count" /\ UNCHANGED <<unread, cur>>
    BY <1>4, <1>6 DEF TestFlags, Step, TInv, SInv, IInv, TypeOK, Threads, hw, locals
  <2> QED
    BY <1>1, <1>2, <1>4, <2>1
    DEF TInv, InStep, At, OneBehind, LastEdge, Raised, FirstLabels, UseLabels, StopLabels
<1>7. CASE ReadCount
  <2>1. pc["isr"] = "count" /\ pc'["isr"] = "judge"
    BY <1>7 DEF ReadCount, Step, TInv, SInv, IInv, TypeOK, Threads
  <2>2. csr = Raised /\ tlr[TimerOf(edges)] = edges /\ unread \subseteq {TimerOf(edges)}
        /\ OneBehind /\ ~ irq /\ cur.type = TimerOf(edges)
    BY <1>2, <1>4, <2>1 DEF TInv, InStep, At, FirstLabels, UseLabels, StopLabels
  <2>3. unread' = {} /\ cur'.type = TimerOf(edges) /\ cur'.count = edges
    BY <1>7, <2>2 DEF ReadCount, ReadTlr, TInv, SInv, IInv, TypeOK
  <2> QED
    BY <1>1, <1>2, <1>4, <2>1, <2>2, <2>3
    DEF TInv, InStep, At, OneBehind, LastEdge, Raised, FirstLabels, UseLabels, StopLabels
<1>8. CASE Judge
  <2>1. /\ pc["isr"] = "judge" /\ UNCHANGED unread
        /\ pc'["isr"] = (IF edge_ptr > 0 THEN "compare" ELSE IF Rises(cur.type) THEN "first0" ELSE "ack0")
        /\ cur' = [cur EXCEPT !.ptr = edge_ptr]
    BY <1>8 DEF Judge, Step, TInv, SInv, IInv, TypeOK, Threads, hw
  <2>2. csr = Raised /\ unread = {} /\ OneBehind /\ ~ irq
        /\ cur.count = edges /\ cur.type = TimerOf(edges)
    BY <1>2, <1>4, <2>1 DEF TInv, InStep, At, StopLabels
  <2>3. cur'.type = cur.type /\ cur'.count = cur.count /\ cur'.ptr = edge_ptr
    BY <2>1 DEF TInv, SInv, IInv, TypeOK
  <2>4. edge_ptr > 0 => LastEdge.edge_type = TimerOf(LastEdge.edge_count)
    BY <1>2, <1>4 DEF TInv, InStep
  <2>5. CASE edge_ptr > 0
    <3>1. pc'["isr"] = "compare"
      BY <2>1, <2>5
    <3> QED
      BY <1>1, <1>2, <1>4, <2>1, <2>2, <2>3, <2>4, <2>5, <3>1
      DEF InStep, At, OneBehind, LastEdge, Raised, FirstLabels, UseLabels, StopLabels
  <2>6. CASE ~ (edge_ptr > 0)
    <3>1. pc'["isr"] \in {"first0", "ack0"} /\ (pc'["isr"] = "first0" => TimerOf(edges) = HIGH)
      BY <2>1, <2>2, <2>6 DEF Rises
    <3> QED
      BY <1>1, <1>2, <1>4, <2>1, <2>2, <2>3, <2>6, <3>1
      DEF InStep, At, CaughtUp, OneBehind, LastEdge, Raised, FirstLabels, UseLabels, StopLabels
  <2> QED
    BY <2>5, <2>6
<1> QED
  BY <1>5, <1>6, <1>7, <1>8

\* The first edge is stored and counted.
LEMMA FirstInStep ==
  ASSUME TInv, SInv', StoreFirst
  PROVE  TInv'
<1>1. Isr /\ \A c \in Callers : pc[c] = "idle"
  BY HandlerAlone DEF Isr
<1>2. pc["isr"] \in FirstLabels /\ UNCHANGED <<hw, flags, cur, fl>>
  BY DEF StoreFirst, Step, FirstLabels, locals
<1>3. Running(flags) /\ edge_ptr = 0
  BY <1>2 DEF TInv, SInv, IInv, Carried, FlagsMode, Serving
<1>4. csr = Raised /\ unread = {} /\ ~ irq /\ cur.count = edges /\ cur.type = TimerOf(edges)
      /\ TimerOf(edges) = HIGH
  BY <1>1, <1>2, <1>3 DEF TInv, InStep, At, FirstLabels, UseLabels, StopLabels
<1>5. 0 \in Slots
      /\ stored_edges \in [Slots -> [edge_type : {HIGH, LOW}, edge_count : 0..MaxEdges]]
  BY PulsecapAssumption DEF TInv, SInv, IInv, TypeOK, Slots
<1>6. InStep' /\ pc'["isr"] \in FirstLabels \cup {"ack0"}
  <2>1. CASE Step("isr", "first0", "first1") /\ UNCHANGED edge_ptr
             /\ stored_edges' = [stored_edges EXCEPT ![0].edge_type = cur.type]
    <3>1. pc'["isr"] = "first1" /\ stored_edges'[0].edge_type = cur.type
      BY <1>5, <2>1 DEF Step, TInv, SInv, IInv, TypeOK, Threads
    <3> QED
      BY <1>1, <1>2, <1>3, <1>4, <2>1, <3>1
      DEF InStep, At, OneBehind, Raised, FirstLabels, UseLabels, StopLabels, hw
  <2>2. CASE Step("isr", "first1", "first2") /\ UNCHANGED edge_ptr
             /\ stored_edges' = [stored_edges EXCEPT ![0].edge_count = cur.count]
    <3>1. pc["isr"] = "first1" /\ pc'["isr"] = "first2"
      BY <2>2 DEF Step, TInv, SInv, IInv, TypeOK, Threads
    <3>2. stored_edges[0].edge_type = cur.type
      BY <1>1, <1>3, <3>1 DEF TInv, InStep, At
    <3>3. stored_edges'[0].edge_count = cur.count /\ stored_edges'[0].edge_type = cur.type
      BY <1>5, <2>2, <3>2
    <3> QED
      BY <1>1, <1>2, <1>3, <1>4, <2>2, <3>1, <3>3
      DEF InStep, At, OneBehind, Raised, FirstLabels, UseLabels, StopLabels, hw
  <2>3. CASE Step("isr", "first2", "ack0") /\ edge_ptr' = 1 /\ UNCHANGED stored_edges
    <3>1. pc["isr"] = "first2" /\ pc'["isr"] = "ack0"
      BY <2>3 DEF Step, TInv, SInv, IInv, TypeOK, Threads
    <3>2. stored_edges[0].edge_type = cur.type /\ stored_edges[0].edge_count = cur.count
      BY <1>1, <1>3, <3>1 DEF TInv, InStep, At
    <3>3. LastEdge' = stored_edges[0]
      BY <2>3 DEF LastEdge
    <3> QED
      BY <1>1, <1>2, <1>3, <1>4, <2>3, <3>1, <3>2, <3>3
      DEF InStep, At, CaughtUp, Raised, FirstLabels, UseLabels, StopLabels, hw
  <2> QED
    BY <2>1, <2>2, <2>3, <1>2, Zenon DEF StoreFirst, FirstLabels, Step, TInv, SInv, IInv, TypeOK, Threads
<1>7. pc'["isr"] # "publishw" /\ Serving
  BY <1>2, <1>6 DEF Serving, FirstLabels
<1> QED
  BY <1>1, <1>2, <1>6, <1>7, HandlerKeeps

\* The edge that follows the last stored one is of the other kind, so that it is
\* wanted.
LEMMA CompareInStep ==
  ASSUME TInv, SInv', Compare
  PROVE  TInv'
<1>1. Isr /\ \A c \in Callers : pc[c] = "idle"
  BY HandlerAlone DEF Isr
<1>2. PICK q \in Pointers, wanted \in BOOLEAN :
        /\ Use(q, "compare", IF wanted THEN "store0" ELSE "ack0")
        /\ wanted \in Differs(q, cur.type)
        /\ UNCHANGED <<edge_ptr, edge_target, stored_edges>>
  BY DEF Compare, Differs
<1>3. "compare" \in UseLabels /\ (IF wanted THEN "store0" ELSE "ack0") \in IsrLabels
  BY DEF UseLabels, IsrLabels
<1>4. /\ pc["isr"] = "compare" /\ pc'["isr"] = (IF wanted THEN "store0" ELSE "ack0")
      /\ cur' = [type |-> cur.type, count |-> cur.count, ptr |-> q]
      /\ q = edge_ptr /\ q = cur.ptr /\ q \in Slots /\ Serving
      /\ UNCHANGED <<hw, flags, fl>>
  BY <1>2, <1>3, UseInBounds, UseAsLoaded DEF TInv, SInv
<1>5. Running(flags)
  BY <1>4 DEF TInv, FlagsMode
<1>6. csr = Raised /\ unread = {} /\ OneBehind /\ ~ irq /\ cur.count = edges
      /\ cur.type = TimerOf(edges) /\ 0 < cur.ptr
      /\ (edge_ptr > 0 => LastEdge.edge_type = TimerOf(LastEdge.edge_count))
  BY <1>1, <1>4, <1>5 DEF TInv, InStep, At, UseLabels, FirstLabels, StopLabels
<1>7. wanted
  <2>1. edge_ptr - 1 \in Slots /\ edge_ptr > 0 /\ q # 0
    BY <1>4, <1>6, PulsecapAssumption DEF Slots
  <2>2. LastEdge.edge_count \in 0..MaxEdges
    BY <2>1 DEF LastEdge, TInv, SInv, IInv, TypeOK
  <2>3. LastEdge.edge_type # cur.type
    BY <1>6, <2>1, <2>2, EdgesAlternateTimers DEF OneBehind
  <2>4. wanted = (stored_edges[q - 1].edge_type # cur.type)
    BY <1>2, <2>1, Zenon DEF Differs
  <2>5. stored_edges[q - 1].edge_type # cur.type
    BY <1>4, <2>3 DEF LastEdge
  <2> QED
    BY <2>4, <2>5, Zenon
<1>8. pc'["isr"] = "store0" /\ cur'.type = cur.type /\ cur'.count = cur.count /\ cur'.ptr = cur.ptr
  BY <1>4, <1>7
<1>9. InStep'
  BY <1>1, <1>2, <1>4, <1>5, <1>6, <1>8
  DEF InStep, At, OneBehind, LastEdge, Raised, FirstLabels, UseLabels, StopLabels, hw
<1> QED
  BY <1>1, <1>4, <1>8, <1>9, HandlerKeeps

\* The stores leave the elements below edge_ptr alone; after the increment the
\* array ends with the latest edge.
LEMMA NextInStep ==
  ASSUME TInv, SInv', StoreNext
  PROVE  TInv'
<1>1. Isr /\ \A c \in Callers : pc[c] = "idle"
  BY HandlerAlone DEF Isr
<1>2. PICK q \in Pointers, from \in {"store0", "store1", "more", "advance"},
           to \in {"store1", "more", "advance", "stop0", "ack0"} :
        /\ Use(q, from, to)
        /\ from = "store0" => StoreType(q) /\ to = "store1"
        /\ from = "store1" => StoreCount(q) /\ to = "more"
        /\ from = "more" => TestTarget(q) /\ to \in {"advance", "stop0"}
        /\ from = "advance" => Advance(q) /\ to = "ack0"
  BY DEF StoreNext, StoreType, StoreCount, TestTarget, Advance
<1>3. from \in UseLabels /\ to \in IsrLabels \cup StopLabels
  BY DEF UseLabels, IsrLabels, StopLabels
<1>4. /\ pc["isr"] = from /\ pc'["isr"] = to
      /\ cur' = [type |-> cur.type, count |-> cur.count, ptr |-> q]
      /\ q = edge_ptr /\ q = cur.ptr /\ q \in Slots /\ Serving
      /\ UNCHANGED <<hw, flags, fl>>
  BY <1>2, <1>3, UseInBounds, UseAsLoaded DEF TInv, SInv
<1>5. cur' = cur /\ edge_ptr \in Nat
  BY <1>4 DEF TInv, SInv, IInv, TypeOK, Slots
<1>6. Running(flags)
  BY <1>4 DEF TInv, FlagsMode
<1>7. csr = Raised /\ unread = {} /\ OneBehind /\ ~ irq /\ cur.count = edges
      /\ cur.type = TimerOf(edges) /\ 0 < cur.ptr
      /\ (edge_ptr > 0 => LastEdge.edge_type = TimerOf(LastEdge.edge_count))
      /\ (from \in {"store1", "more", "advance"} => stored_edges[cur.ptr].edge_type = cur.type)
      /\ (from \in {"more", "advance"} => stored_edges[cur.ptr].edge_count = cur.count)
  BY <1>1, <1>3, <1>4, <1>6 DEF TInv, InStep, At, UseLabels, FirstLabels, StopLabels
<1>8. stored_edges \in [Slots -> [edge_type : {HIGH, LOW}, edge_count : 0..MaxEdges]]
  BY DEF TInv, SInv, IInv, TypeOK
<1>9. edge_ptr - 1 \in Slots /\ edge_ptr - 1 # edge_ptr
  BY <1>4, <1>7, PulsecapAssumption DEF Slots
<1>10. InStep'
  <2>1. CASE from = "store0"
    <3>1. stored_edges' = [stored_edges EXCEPT ![q].edge_type = cur.type] /\ UNCHANGED edge_ptr
      BY <1>2, <1>4, <2>1 DEF StoreType
    <3>2. stored_edges'[q].edge_type = cur.type /\ LastEdge' = LastEdge
      BY <1>4, <1>8, <1>9, <3>1 DEF LastEdge
    <3> QED
      BY <1>1, <1>2, <1>4, <1>5, <1>6, <1>7, <2>1, <3>1, <3>2
      DEF InStep, At, OneBehind, Raised, FirstLabels, UseLabels, StopLabels, hw
  <2>2. CASE from = "store1"
    <3>1. stored_edges' = [stored_edges EXCEPT ![q].edge_count = cur.count] /\ UNCHANGED edge_ptr
      BY <1>2, <1>4, <2>2 DEF StoreCount
    <3>2. stored_edges'[q].edge_type = cur.type /\ stored_edges'[q].edge_count = cur.count
          /\ LastEdge' = LastEdge
      BY <1>4, <1>7, <1>8, <1>9, <2>2, <3>1 DEF LastEdge
    <3> QED
      BY <1>1, <1>2, <1>4, <1>5, <1>6, <1>7, <2>2, <3>1, <3>2
      DEF InStep, At, OneBehind, Raised, FirstLabels, UseLabels, StopLabels, hw
  <2>3. CASE from = "more"
    <3>1. UNCHANGED <<edge_ptr, stored_edges>>
      BY <1>2, <2>3 DEF TestTarget
    <3> QED
      BY <1>1, <1>2, <1>4, <1>5, <1>6, <1>7, <2>3, <3>1
      DEF InStep, At, OneBehind, LastEdge, Raised, FirstLabels, UseLabels, StopLabels, hw
  <2>4. CASE from = "advance"
    <3>1. edge_ptr' = edge_ptr + 1 /\ UNCHANGED stored_edges
      BY <1>2, <1>4, <2>4 DEF Advance
    <3>2. edge_ptr' - 1 = edge_ptr /\ LastEdge' = stored_edges[edge_ptr]
      BY <1>5, <3>1 DEF LastEdge
    <3> QED
      BY <1>1, <1>2, <1>4, <1>5, <1>6, <1>7, <2>4, <3>1, <3>2
      DEF InStep, At, CaughtUp, Raised, FirstLabels, UseLabels, StopLabels, hw
  <2> QED
    BY <2>1, <2>2, <2>3, <2>4
<1>11. to # "publishw"
  OBVIOUS
<1> QED
  BY <1>1, <1>4, <1>10, <1>11, HandlerKeeps

\* Stopping the timer and publishing DONE ends the obligation to keep in step.
LEMMA StopsInStep ==
  ASSUME TInv, SInv', StopTimer("isr", "publish") \/ PublishDone
  PROVE  TInv'
<1>1. Isr /\ \A c \in Callers : pc[c] = "idle" /\ pc'[c] = "idle"
  BY HandlerAlone DEF Isr
<1>2. pc["isr"] \in StopLabels /\ UNCHANGED <<edge_ptr, stored_edges>>
  BY DEF StopTimer, PublishDone, RegRead, RegWrite, FlagsRead, FlagsWrite, Step, StopLabels, mem
<1>3. \/ pc'["isr"] \in StopLabels /\ UNCHANGED flags
           /\ (pc'["isr"] = "publishw" => fl'["isr"] = flags)
      \/ pc'["isr"] = "ack0" /\ flags' = fl["isr"] \cup {"DONE"} /\ pc["isr"] = "publishw"
  BY DEF StopTimer, PublishDone, RegRead, RegWrite, FlagsRead, FlagsWrite, Step, StopLabels, mem,
         TInv, SInv, IInv, TypeOK, Threads
<1>4. Running(flags)
  BY <1>2 DEF TInv, FlagsMode, Serving
<1>5. CASE pc'["isr"] \in StopLabels /\ UNCHANGED flags
           /\ (pc'["isr"] = "publishw" => fl'["isr"] = flags)
  <2>1. InStep'
    BY <1>1, <1>2, <1>4, <1>5 DEF TInv, InStep, At, LastEdge, FirstLabels, UseLabels, StopLabels
  <2> QED
    BY <1>1, <1>2, <1>4, <1>5, <2>1, HandlerKeeps
<1>6. CASE pc'["isr"] = "ack0" /\ flags' = fl["isr"] \cup {"DONE"} /\ pc["isr"] = "publishw"
  <2>1. InStep' /\ Exclusive' /\ SetUpBits'
    BY <1>1, <1>6 DEF InStep, Running, Exclusive, SetUpBits, StopLabels
  <2>2. "CANCELLED" \notin flags'
    BY <1>4, <1>6 DEF TInv, FlagsMode, SInv, FlagsKept
  <2>3. FlagsMode'
    BY <1>1, <1>6, <2>2 DEF FlagsMode, Serving, FirstLabels, UseLabels, CancelLabels, ShowLabels,
           StopLabels
  <2> QED
    BY <2>1, <2>3 DEF TInv
<1> QED
  BY <1>3, <1>5, <1>6

\* The acknowledgement clears the one TINT that is set and leaves both timers
\* running, whether ENALL reads back or not.
LEMMA AcknowledgesInStep ==
  ASSUME TInv, SInv', Acknowledge
  PROVE  TInv'
<1>1. Isr /\ \A c \in Callers : pc[c] = "idle" /\ pc'[c] = "idle"
  BY HandlerAlone DEF Isr
<1>2. UNCHANGED <<tlr, unread, edges, flags, edge_ptr, stored_edges>>
      /\ pc["isr"] \in {"ack0", "ack1", "ackw0", "ackw1"}
      /\ pc'["isr"] \in {"ack1", "ackw0", "ackw1", "idle"}
  BY DEF Acknowledge, RegRead, RegWrite, Step, WriteCsr, hw, mem, TInv, SInv, IInv, TypeOK, Threads
<1>3. SUFFICES ASSUME Running(flags)
               PROVE  InStep'
  <2>1. ~ Running(flags) => InStep'
    BY <1>2 DEF InStep
  <2> QED
    BY <1>1, <1>2, <1>3, <2>1, HandlerKeeps DEF Serving, FirstLabels, UseLabels, StopLabels
<1>4. unread = {} /\ CaughtUp /\ ~ irq
      /\ (edge_ptr > 0 => LastEdge.edge_type = TimerOf(LastEdge.edge_count))
      /\ (pc["isr"] \in {"ack0", "ack1", "ackw0"} => csr = Raised)
  BY <1>1, <1>2, <1>3 DEF TInv, InStep, At, StopLabels
<1>5. HwTypeOK /\ TimerOf(edges) \in Timers /\ (csr = Raised => Line(csr))
  <2>1. TimerOf(edges) \in Timers
    BY EdgesAlternateTimers DEF TInv, SInv, IInv, TypeOK, HwTypeOK
  <2>2. HwTypeOK
    BY DEF TInv, SInv, IInv, TypeOK
  <2>3. csr = Raised => Line(csr)
    BY <2>1 DEF Raised, RunBits, Line
  <2> QED
    BY <2>1, <2>2, <2>3
<1>6. CASE RegRead("isr", 0, "ack0", "ack1") \/ RegRead("isr", 1, "ack1", "ackw0")
  <2>1. UNCHANGED <<csr, irq>>
        /\ \/ pc["isr"] = "ack0" /\ pc'["isr"] = "ack1" /\ val'["isr"][0] = csr[0]
           \/ pc["isr"] = "ack1" /\ pc'["isr"] = "ackw0" /\ val'["isr"][1] = csr[1]
              /\ val'["isr"][0] = val["isr"][0]
    BY <1>6 DEF RegRead, Step, TInv, SInv, IInv, TypeOK, Threads, Timers, hw
  <2>2. pc["isr"] = "ack1" => val["isr"][0] = csr[0]
    BY <1>1, <1>3 DEF TInv, InStep, At
  <2> QED
    BY <1>1, <1>2, <1>3, <1>4, <2>1, <2>2
    DEF InStep, At, CaughtUp, LastEdge, Raised, FirstLabels, UseLabels, StopLabels
<1>7. CASE RegWrite("isr", 0, AckBits(val["isr"][0]), "ackw0", "ackw1")
  <2>1. pc["isr"] = "ackw0" /\ pc'["isr"] = "ackw1" /\ val'["isr"][1] = val["isr"][1]
    BY <1>7 DEF RegWrite, Step, TInv, SInv, IInv, TypeOK, Threads, Timers
  <2>2. csr = Raised /\ val["isr"][0] = csr[0] /\ val["isr"][1] = csr[1]
    BY <1>1, <1>3, <2>1 DEF TInv, InStep, At
  <2>3. csr[0] \ {"TINT"} = RunBits /\ csr[1] \ {"TINT"} = RunBits
    BY <2>2 DEF Raised, RunBits, Timers
  <2>4. csr'[0] = RunBits /\ csr'[1] = csr[1] /\ irq' = irq
    BY <1>5, <1>7, <2>2, <2>3, Acknowledged DEF RegWrite, Timers
  <2> QED
    BY <1>1, <1>2, <1>3, <1>4, <2>1, <2>2, <2>3, <2>4
    DEF InStep, At, CaughtUp, LastEdge, FirstLabels, UseLabels, StopLabels
<1>8. CASE /\ Step("isr", "ackw1", "idle")
           /\ WriteCsr(1, AckBits(val["isr"][1]))
  <2>1. pc["isr"] = "ackw1" /\ pc'["isr"] = "idle"
    BY <1>8 DEF Step, TInv, SInv, IInv, TypeOK, Threads
  <2>2. csr[0] = RunBits /\ csr[1] \ {"TINT"} = RunBits /\ val["isr"][1] = csr[1]
    BY <1>1, <1>3, <2>1 DEF TInv, InStep, At
  <2>3. csr' = [i \in Timers |-> RunBits]
    BY <1>8, <2>2 DEF WriteCsr, Latch, Written, AckBits, RunBits, Timers
  <2>4. ~ irq'
    <3>1. ~ Line(csr')
      BY <2>3 DEF Line, RunBits
    <3> QED
      BY <1>4, <1>8, <3>1 DEF WriteCsr, Latch
  <2> QED
    BY <1>1, <1>2, <1>3, <1>4, <2>1, <2>3, <2>4
    DEF InStep, At, CaughtUp, LastEdge, FirstLabels, UseLabels, StopLabels
<1> QED
  BY <1>6, <1>7, <1>8 DEF Acknowledge

-----------------------------------------------------------------------------
(* The input.                                                              *)

\* An edge finds both timers running, acknowledged and read, is captured by its
\* own timer and raises the interrupt.
LEMMA EdgeInStep ==
  ASSUME TInv, SInv', OneThing, InputEdge
  PROVE  TInv'
<1>1. Quiet /\ Edge /\ UNCHANGED <<mem, pc, locals>>
  BY DEF InputEdge, OneThing
<1>2. ~ irq /\ pc["isr"] = "idle" /\ \A c \in Callers : pc[c] = "idle"
  BY <1>1 DEF Quiet, Threads
<1>3. UNCHANGED <<flags, edge_ptr, stored_edges, pc>>
  BY <1>1 DEF mem
<1>4. Exclusive' /\ SetUpBits' /\ FlagsMode'
  BY <1>2, <1>3
  DEF TInv, Exclusive, SetUpBits, FlagsMode, Serving, FirstLabels, UseLabels, CancelLabels,
      ShowLabels, StopLabels
<1>5. InStep'
  <2> SUFFICES ASSUME Running(flags)
               PROVE  InStep'
    BY <1>3 DEF InStep
  <2>1. csr = [i \in Timers |-> RunBits] /\ unread = {} /\ CaughtUp
        /\ (edge_ptr > 0 => LastEdge.edge_type = TimerOf(LastEdge.edge_count))
    BY <1>2 DEF TInv, InStep, At
  <2>2. edges' = Following(edges) /\ TimerOf(edges') \in Timers /\ edges' \in 0..MaxEdges
    BY <1>1, EdgesAlternateTimers
    DEF Edge, Following, TInv, SInv, IInv, TypeOK, HwTypeOK
  <2> DEFINE i == TimerOf(edges')
  <2>3. "ENT" \in csr[i]
    BY <2>1, <2>2 DEF RunBits
  <2>4. /\ Latch([csr EXCEPT ![i] = @ \cup {"TINT"}])
        /\ unread' \subseteq {i}
        /\ tlr' = [tlr EXCEPT ![i] = edges']
    BY <1>1, <2>1, <2>3 DEF Edge
  <2>5. csr' = Raised'
    BY <2>1, <2>2, <2>4 DEF Latch, Raised
  <2>6. tlr'[i] = edges'
    BY <2>2, <2>4 DEF TInv, SInv, IInv, TypeOK, HwTypeOK
  <2>7. OneBehind'
    BY <1>3, <2>1, <2>2 DEF CaughtUp, OneBehind, LastEdge
  <2>8. irq'
    BY <2>1, <2>2, <2>4, <2>5 DEF Latch, Line, Raised, RunBits
  <2> QED
    BY <1>2, <1>3, <2>1, <2>4, <2>5, <2>6, <2>7, <2>8
    DEF InStep, At, LastEdge, FirstLabels, UseLabels, StopLabels
<1> QED
  BY <1>4, <1>5 DEF TInv

-----------------------------------------------------------------------------
(* The callers.                                                            *)

\* A write that acknowledges the interrupt or does not enable it raises no
\* interrupt.
LEMMA NoRise ==
  ASSUME HwTypeOK, ~ irq, NEW i \in Timers, NEW v \in SUBSET Bits, WriteCsr(i, v),
         "TINT" \in v \/ "ENIT" \notin v
  PROVE  ~ irq'
<1>1. csr' = Written(i, v)
  BY DEF WriteCsr, Latch
<1>2. ~ ({"TINT", "ENIT"} \subseteq csr'[i])
  BY <1>1 DEF Written, Timers
<1>3. \A j \in Timers : j # i /\ {"TINT", "ENIT"} \subseteq csr'[j] => {"TINT", "ENIT"} \subseteq csr[j]
  BY <1>1 DEF Written, Timers
<1>4. Line(csr') => Line(csr)
  BY <1>2, <1>3 DEF Line
<1> QED
  BY <1>4 DEF WriteCsr, Latch

\* A caller that moves finds the handler and the other callers at rest.
LEMMA CallerAlone ==
  ASSUME TInv, OneThing, NEW c \in Callers, Begin(c) \/ Proceed(c)
  PROVE  /\ ~ irq /\ pc["isr"] = "idle" /\ pc'["isr"] = "idle"
         /\ \A d \in Callers : d # c => pc[d] = "idle" /\ pc'[d] = "idle"
<1>1. ~ irq /\ pc["isr"] = "idle" /\ \A d \in Callers : d # c => pc[d] = "idle"
  <2>1. CASE Begin(c)
    BY <2>1 DEF Begin, Start, Cancel, Show, MayCall, OneThing, Quiet, Threads
  <2>2. CASE Proceed(c)
    <3>1. pc[c] # "idle"
      BY <2>2
      DEF Proceed, InitializeTimer, SetUp, Enable, StartTimer, DisableInterrupts, StopTimer,
          PublishCancelled, Clamp, Copy, MarkRead, RegRead, RegWrite, FlagsRead, FlagsWrite, Step
    <3> QED
      BY <3>1 DEF TInv, Exclusive, SInv, OneAtATime
  <2> QED
    BY <2>1, <2>2
<1>2. pc' = pc \/ \E to : pc' = [pc EXCEPT ![c] = to]
  BY DEF Begin, Start, Cancel, Show, Proceed, InitializeTimer, SetUp, Enable, StartTimer,
         DisableInterrupts, StopTimer, PublishCancelled, Clamp, Copy, MarkRead, RegRead, RegWrite,
         FlagsRead, FlagsWrite, Step
<1> QED
  BY <1>1, <1>2, PulsecapAssumption DEF TInv, SInv, IInv, TypeOK, Threads

\* What remains to be shown of a step of a caller, when the others rest.
LEMMA CallerKeeps ==
  ASSUME SInv', NEW c \in Callers, ~ irq', pc'["isr"] = "idle",
         \A d \in Callers : d # c => pc'[d] = "idle",
         SetUpBits' \/ pc'[c] \in {"idle", "init0", "int0", "intw0"} \cup ShowLabels \cup {"clamp"},
         FlagsMode', InStep'
  PROVE  TInv'
<1>1. Exclusive'
  BY DEF Exclusive
<1>2. SetUpBits'
  BY DEF SetUpBits, StopLabels, ShowLabels
<1> QED
  BY <1>1, <1>2 DEF TInv

\* Beginning a call keeps the invariant.
LEMMA BeginsInStep ==
  ASSUME TInv, SInv', OneThing, NEW c \in Callers, Begin(c)
  PROVE  TInv'
<1>1. /\ ~ irq /\ pc["isr"] = "idle" /\ pc'["isr"] = "idle" /\ pc[c] = "idle"
      /\ \A d \in Callers : d # c => pc[d] = "idle" /\ pc'[d] = "idle"
  BY CallerAlone DEF Begin, Start, Cancel, Show, MayCall
<1>2. UNCHANGED <<hw, mem, val, fl, cur>>
  BY DEF Begin, Start, Cancel, Show, locals
<1>3. pc'[c] \in {"idle", "init0", "clamp"} \/ (pc'[c] = "int0" /\ flags # {})
  BY <1>1 DEF Begin, Start, Cancel, Show, NothingToCancel, Step, TInv, SInv, IInv, TypeOK, Threads
<1>4. FlagsMode'
  BY <1>1, <1>2, <1>3
  DEF TInv, FlagsMode, Serving, FirstLabels, UseLabels, CancelLabels,
      ShowLabels, StopLabels, mem
<1>5. InStep'
  BY <1>1, <1>2, <1>3
  DEF TInv, InStep, At, CaughtUp, LastEdge, Raised, FirstLabels, UseLabels, StopLabels, hw, mem
<1> QED
  BY <1>1, <1>2, <1>3, <1>4, <1>5, CallerKeeps DEF hw

\* initialize_timer acknowledges what is left of an earlier capture and raises
\* no interrupt; the target and edge_ptr follow.
LEMMA SetsUpInStep ==
  ASSUME TInv, SInv', OneThing, NEW c \in Callers, InitializeTimer(c) \/ SetUp(c)
  PROVE  TInv'
<1>1. /\ ~ irq /\ pc["isr"] = "idle" /\ pc'["isr"] = "idle"
      /\ \A d \in Callers : d # c => pc[d] = "idle" /\ pc'[d] = "idle"
  BY CallerAlone DEF Proceed
<1>2. pc'[c] \in {"init1", "tlrs", "target", "ptr", "enable"} /\ UNCHANGED flags
  BY DEF InitializeTimer, SetUp, RegWrite, Step, mem, TInv, SInv, IInv, TypeOK, Threads
<1>3. FlagsMode' /\ InStep'
  BY <1>1, <1>2 DEF TInv, FlagsMode, Serving, FirstLabels, UseLabels, CancelLabels,
      ShowLabels, StopLabels, InStep
<1>4. CASE RegWrite(c, 0, {"TINT", "ENIT"}, "init0", "init1")
  <2>1. WriteCsr(0, {"TINT", "ENIT"}) /\ pc'[c] = "init1"
    BY <1>4 DEF RegWrite, Step, TInv, SInv, IInv, TypeOK, Threads
  <2>2. ~ irq'
    BY <1>1, <2>1, NoRise DEF Timers, Bits, TInv, SInv, IInv, TypeOK
  <2>3. csr'[0] = {"ENIT"}
    BY <2>1 DEF WriteCsr, Latch, Written, Timers
  <2>4. SetUpBits'
    BY <1>1, <2>1, <2>3 DEF SetUpBits, StopLabels
  <2> QED
    BY <1>1, <1>3, <2>2, <2>4, CallerKeeps
<1>5. CASE RegWrite(c, 1, {"TINT", "ENIT"}, "init1", "tlrs")
  <2>1. WriteCsr(1, {"TINT", "ENIT"}) /\ pc[c] = "init1" /\ pc'[c] = "tlrs"
    BY <1>5 DEF RegWrite, Step, TInv, SInv, IInv, TypeOK, Threads
  <2>2. ~ irq'
    BY <1>1, <2>1, NoRise DEF Timers, Bits, TInv, SInv, IInv, TypeOK
  <2>3. csr[0] = {"ENIT"}
    BY <2>1 DEF TInv, SetUpBits
  <2>4. csr'[0] = {"ENIT"} /\ csr'[1] = {"ENIT"}
    BY <2>1, <2>3 DEF WriteCsr, Latch, Written, Timers
  <2>5. SetUpBits'
    BY <1>1, <2>1, <2>4 DEF SetUpBits, StopLabels
  <2> QED
    BY <1>1, <1>3, <2>2, <2>5, CallerKeeps
<1>6. CASE (Step(c, "tlrs", "target") /\ ClearTlrs) \/ SetUp(c)
  <2>1. UNCHANGED <<csr, irq>>
        /\ pc[c] \in {"tlrs", "target", "ptr"} /\ pc'[c] \in {"target", "ptr", "enable"}
        /\ (unread' = {} \/ (UNCHANGED unread /\ pc[c] # "tlrs"))
    BY <1>6 DEF SetUp, ClearTlrs, Step, hw, TInv, SInv, IInv, TypeOK, Threads
  <2>2. SetUpBits'
    BY <1>1, <2>1 DEF TInv, SetUpBits, StopLabels
  <2> QED
    BY <1>1, <1>3, <2>1, <2>2, CallerKeeps
<1> QED
  BY <1>4, <1>5, <1>6 DEF InitializeTimer

\* A capture is published with an empty array.
LEMMA EnablesInStep ==
  ASSUME TInv, SInv', OneThing, NEW c \in Callers, Enable(c)
  PROVE  TInv'
<1>1. /\ ~ irq /\ pc["isr"] = "idle" /\ pc'["isr"] = "idle"
      /\ \A d \in Callers : d # c => pc[d] = "idle" /\ pc'[d] = "idle"
  BY CallerAlone DEF Proceed
<1>2. UNCHANGED <<hw, edge_ptr>>
      /\ \/ pc[c] = "enable" /\ pc'[c] = "enablew" /\ UNCHANGED flags
         \/ pc[c] = "enablew" /\ pc'[c] = "run" /\ flags' = Enabled(fl[c])
  BY DEF Enable, FlagsRead, FlagsWrite, Step, TInv, SInv, IInv, TypeOK, Threads
<1>3. pc[c] = "enablew" => edge_ptr = 0
  BY DEF TInv, SInv, TargetSet
<1>4. SetUpBits'
  BY <1>1, <1>2, <1>3 DEF TInv, SetUpBits, StopLabels, hw
<1>5. FlagsMode' /\ InStep'
  BY <1>1, <1>2
  DEF TInv, FlagsMode, Serving, FirstLabels, UseLabels, CancelLabels,
      ShowLabels, StopLabels, InStep, Running, Enabled
<1> QED
  BY <1>1, <1>2, <1>4, <1>5, CallerKeeps DEF hw

\* Writing ENALL starts both timers, with nothing captured.
LEMMA RunsInStep ==
  ASSUME TInv, SInv', OneThing, NEW c \in Callers, StartTimer(c)
  PROVE  TInv'
<1>1. /\ ~ irq /\ pc["isr"] = "idle" /\ pc'["isr"] = "idle"
      /\ \A d \in Callers : d # c => pc[d] = "idle" /\ pc'[d] = "idle"
  BY CallerAlone DEF Proceed
<1>2. pc[c] \in {"run", "runw"} /\ UNCHANGED mem
  BY DEF StartTimer, RegRead, RegWrite, Step
<1>3. csr[0] = {"ENIT"} /\ csr[1] = {"ENIT"} /\ unread = {} /\ edge_ptr = 0
  BY <1>2 DEF TInv, SetUpBits
<1>4. pc'[c] \in {"runw", "idle"}
  BY DEF StartTimer, RegRead, RegWrite, Step, TInv, SInv, IInv, TypeOK, Threads
<1>5. FlagsMode'
  BY <1>1, <1>2, <1>4
  DEF TInv, FlagsMode, Serving, FirstLabels, UseLabels, CancelLabels,
      ShowLabels, StopLabels, mem
<1>6. CASE RegRead(c, 0, "run", "runw")
  <2>1. pc'[c] = "runw" /\ UNCHANGED hw /\ val'[c][0] = csr[0]
    BY <1>6 DEF RegRead, Step, TInv, SInv, IInv, TypeOK, Threads, Timers
  <2>2. SetUpBits' /\ InStep'
    BY <1>1, <1>2, <1>3, <2>1 DEF SetUpBits, StopLabels, InStep, FirstLabels, UseLabels, hw, mem
  <2> QED
    BY <1>1, <1>5, <2>1, <2>2, CallerKeeps DEF hw
<1>7. CASE RegWrite(c, 0, val[c][0] \cup {"ENALL"}, "runw", "idle")
  <2>1. pc[c] = "runw" /\ pc'[c] = "idle" /\ UNCHANGED unread
        /\ WriteCsr(0, val[c][0] \cup {"ENALL"})
    BY <1>7 DEF RegWrite, Step, WriteCsr, TInv, SInv, IInv, TypeOK, Threads
  <2>2. val[c][0] = {"ENIT"}
    BY <2>1 DEF TInv, SetUpBits
  <2>3. csr' = [i \in Timers |-> RunBits]
    BY <1>3, <2>1, <2>2 DEF WriteCsr, Latch, Written, RunBits, Timers
  <2>4. ~ irq'
    <3>1. ~ Line(csr')
      BY <2>3 DEF Line, RunBits
    <3> QED
      BY <1>1, <2>1, <3>1 DEF WriteCsr, Latch
  <2>5. InStep'
    BY <1>1, <1>2, <1>3, <2>1, <2>3, <2>4 DEF InStep, At, CaughtUp, FirstLabels, UseLabels, StopLabels, mem
  <2> QED
    BY <1>1, <1>5, <2>1, <2>4, <2>5, CallerKeeps
<1> QED
  BY <1>6, <1>7 DEF StartTimer

\* Silencing and stopping the timers raises no interrupt.
LEMMA CancelsInStep ==
  ASSUME TInv, SInv', OneThing, NEW c \in Callers,
         DisableInterrupts(c) \/ StopTimer(c, "publish")
  PROVE  TInv'
<1>1. /\ ~ irq /\ pc["isr"] = "idle" /\ pc'["isr"] = "idle"
      /\ \A d \in Callers : d # c => pc[d] = "idle" /\ pc'[d] = "idle"
  BY CallerAlone DEF Proceed
<1>2. pc[c] \in CancelLabels /\ pc'[c] \in CancelLabels /\ UNCHANGED mem
  BY DEF DisableInterrupts, StopTimer, RegRead, RegWrite, Step, CancelLabels, StopLabels,
         TInv, SInv, IInv, TypeOK, Threads
<1>3. FlagsMode' /\ InStep'
  BY <1>1, <1>2
  DEF TInv, FlagsMode, Serving, FirstLabels, UseLabels, CancelLabels,
      ShowLabels, StopLabels, InStep, mem
<1>4. HwTypeOK /\ val[c][0] \in SUBSET Bits /\ val[c][1] \in SUBSET Bits /\ 0 \in Timers /\ 1 \in Timers
  BY DEF TInv, SInv, IInv, TypeOK, Threads, Timers
<1>5. CASE \/ RegRead(c, 0, "int0", "intw0") \/ RegRead(c, 1, "int1", "intw1")
           \/ RegRead(c, 0, "stop0", "stopw0") \/ RegRead(c, 1, "stop1", "stopw1")
  <2>1. UNCHANGED hw
        /\ \/ pc[c] = "int0" /\ pc'[c] = "intw0"
           \/ pc[c] = "int1" /\ pc'[c] = "intw1"
           \/ pc[c] = "stop0" /\ pc'[c] = "stopw0" /\ val'[c][0] = csr[0]
           \/ pc[c] = "stop1" /\ pc'[c] = "stopw1" /\ val'[c][1] = csr[1]
    BY <1>5 DEF RegRead, Step, TInv, SInv, IInv, TypeOK, Threads, Timers
  <2>2. SetUpBits'
    BY <1>1, <2>1 DEF TInv, SetUpBits, StopLabels, hw
  <2> QED
    BY <1>1, <1>3, <2>1, <2>2, CallerKeeps DEF hw
<1>6. CASE \/ RegWrite(c, 0, val[c][0] \ {"ENIT"}, "intw0", "int1")
           \/ RegWrite(c, 0, val[c][0] \ {"ENT"}, "stopw0", "stop1")
  <2>1. PICK v \in {val[c][0] \ {"ENIT"}, val[c][0] \ {"ENT"}} :
          /\ WriteCsr(0, v) /\ "ENIT" \notin v
          /\ \/ pc[c] = "intw0" /\ pc'[c] = "int1"
             \/ pc[c] = "stopw0" /\ pc'[c] = "stop1" /\ "ENIT" \notin csr[1]
    BY <1>6 DEF RegWrite, Step, TInv, SInv, IInv, TypeOK, Threads, SetUpBits, StopLabels
  <2>2. ~ irq'
    BY <1>1, <1>4, <2>1, NoRise
  <2>3. "ENIT" \notin csr'[0] /\ ("ENIT" \notin csr[1] => "ENIT" \notin csr'[1])
    BY <2>1 DEF WriteCsr, Latch, Written, Timers
  <2>4. SetUpBits'
    BY <1>1, <2>1, <2>3 DEF SetUpBits, StopLabels
  <2> QED
    BY <1>1, <1>3, <2>2, <2>4, CallerKeeps
<1>7. CASE \/ RegWrite(c, 1, val[c][1] \ {"ENIT"}, "intw1", "stop0")
           \/ RegWrite(c, 1, val[c][1] \ {"ENT"}, "stopw1", "publish")
  <2>1. PICK v \in {val[c][1] \ {"ENIT"}, val[c][1] \ {"ENT"}} :
          /\ WriteCsr(1, v) /\ "ENIT" \notin v /\ "ENIT" \notin csr[0]
          /\ pc'[c] \in {"stop0", "publish"}
    BY <1>7 DEF RegWrite, Step, TInv, SInv, IInv, TypeOK, Threads, SetUpBits, StopLabels
  <2>2. ~ irq'
    BY <1>1, <1>4, <2>1, NoRise
  <2>3. "ENIT" \notin csr'[0] /\ "ENIT" \notin csr'[1]
    BY <2>1 DEF WriteCsr, Latch, Written, Timers
  <2>4. SetUpBits'
    BY <1>1, <2>1, <2>3 DEF SetUpBits, StopLabels
  <2> QED
    BY <1>1, <1>3, <2>2, <2>4, CallerKeeps
<1> QED
  BY <1>5, <1>6, <1>7 DEF DisableInterrupts, StopTimer

\* A published cancel leaves no capture running.
LEMMA PublishesInStep ==
  ASSUME TInv, SInv', OneThing, NEW c \in Callers, PublishCancelled(c)
  PROVE  TInv'
<1>1. /\ ~ irq /\ pc["isr"] = "idle" /\ pc'["isr"] = "idle"
      /\ \A d \in Callers : d # c => pc[d] = "idle" /\ pc'[d] = "idle"
  BY CallerAlone DEF Proceed
<1>2. UNCHANGED hw
      /\ \/ pc[c] = "publish" /\ pc'[c] = "publishw" /\ UNCHANGED flags
         \/ pc[c] = "publishw" /\ pc'[c] = "idle" /\ flags' = Cancelled(fl[c])
  BY DEF PublishCancelled, FlagsRead, FlagsWrite, Step, TInv, SInv, IInv, TypeOK, Threads
<1>3. SetUpBits'
  BY <1>1, <1>2 DEF TInv, SetUpBits, StopLabels, hw
<1>4. FlagsMode' /\ InStep'
  BY <1>1, <1>2
  DEF TInv, FlagsMode, Serving, FirstLabels, UseLabels, CancelLabels,
      ShowLabels, StopLabels, InStep, Running, Cancelled
<1> QED
  BY <1>1, <1>2, <1>3, <1>4, CallerKeeps DEF hw

\* A read-out ends with the flags it began with, and READ.
LEMMA ReadsOutInStep ==
  ASSUME TInv, SInv', OneThing, NEW c \in Callers, Clamp(c) \/ Copy(c) \/ MarkRead(c)
  PROVE  TInv'
<1>1. /\ ~ irq /\ pc["isr"] = "idle" /\ pc'["isr"] = "idle"
      /\ \A d \in Callers : d # c => pc[d] = "idle" /\ pc'[d] = "idle"
  BY CallerAlone DEF Proceed
<1>2. UNCHANGED <<hw, edge_ptr, stored_edges>>
      /\ \/ pc[c] = "clamp" /\ pc'[c] = "idle" /\ UNCHANGED flags
         \/ pc[c] = "clamp" /\ pc'[c] = "copy" /\ UNCHANGED flags
            /\ {"DONE", "CANCELLED"} \cap flags # {}
         \/ pc[c] \in ShowLabels /\ pc'[c] \in {"copy", "mark"} /\ UNCHANGED flags
         \/ pc[c] = "mark" /\ pc'[c] = "markw" /\ UNCHANGED flags /\ fl'[c] = flags
         \/ pc[c] = "markw" /\ pc'[c] = "idle" /\ flags' = fl[c] \cup {"READ"}
  BY DEF Clamp, Copy, MarkRead, FlagsRead, Step, mem, ShowLabels, TInv, SInv, IInv, TypeOK, Threads
<1>3. pc'[c] \in {"idle"} \cup ShowLabels
  BY <1>2 DEF ShowLabels
<1>4. FlagsMode'
  BY <1>1, <1>2
  DEF TInv, FlagsMode, Serving, FirstLabels, UseLabels, CancelLabels,
      ShowLabels, StopLabels, Running
<1>5. InStep'
  <2>1. CASE pc[c] = "clamp" /\ pc'[c] = "idle" /\ UNCHANGED flags
    BY <1>1, <1>2, <2>1
    DEF TInv, InStep, At, CaughtUp, LastEdge, FirstLabels, UseLabels, StopLabels, hw
  <2>2. CASE ~ Running(flags')
    BY <2>2 DEF InStep
  <2>3. CASE pc'[c] # "idle"
    BY <1>3, <2>3 DEF InStep, ShowLabels
  <2>4. pc[c] = "markw" => ~ Running(flags) /\ fl[c] = flags
    BY DEF TInv, SInv, FlagsKept, FlagsMode, ShowLabels
  <2> QED
    BY <1>2, <2>1, <2>2, <2>3, <2>4 DEF Running, ShowLabels
<1> QED
  BY <1>1, <1>2, <1>3, <1>4, <1>5, CallerKeeps DEF hw

-----------------------------------------------------------------------------
\* The handler keeps up with the signal, and the counts suit the array.
InPhase == OneThing /\ CountsPositive /\ CountsFit

\* Every step keeps the invariant.
LEMMA NextTInv == TInv /\ InPhase /\ [Next]_vars => TInv'
<1> SUFFICES ASSUME TInv, InPhase, [Next]_vars
             PROVE  TInv'
  OBVIOUS
<1>1. SInv'
  BY NextSInv DEF TInv, InPhase, OneThing, Calm, Serialised
<1>2. CASE Isr
  BY <1>1, <1>2, EnterInStep, DecidesInStep, FirstInStep, CompareInStep, NextInStep,
     StopsInStep, AcknowledgesInStep DEF Isr
<1>3. CASE InputEdge
  BY <1>1, <1>3, EdgeInStep DEF InPhase
<1>4. ASSUME NEW c \in Callers, Begin(c) \/ Proceed(c)
      PROVE  TInv'
  BY <1>1, <1>4, BeginsInStep, SetsUpInStep, EnablesInStep, RunsInStep, CancelsInStep,
     PublishesInStep, ReadsOutInStep DEF InPhase, Proceed
<1>5. CASE UNCHANGED vars
  BY <1>1, <1>5
  DEF vars, hw, mem, locals, TInv, Exclusive, SetUpBits, FlagsMode, Serving, InStep, At,
      CaughtUp, OneBehind, LastEdge, Raised
<1> QED
  BY <1>2, <1>3, <1>4, <1>5 DEF Next

\* The invariant holds after probe.
LEMMA InitTInv == Init /\ InPhase => TInv
<1> SUFFICES ASSUME Init, InPhase
             PROVE  TInv
  OBVIOUS
<1>1. SInv
  BY InitSInv DEF InPhase
<1>2. flags = {} /\ ~ irq /\ pc["isr"] = "idle" /\ \A c \in Callers : pc[c] = "idle"
  BY DEF Init, HwInit, Threads
<1> QED
  BY <1>1, <1>2
  DEF TInv, Exclusive, SetUpBits, FlagsMode, Serving, InStep, Running, FirstLabels, UseLabels,
      CancelLabels, ShowLabels, StopLabels

-----------------------------------------------------------------------------
(* Sequences.                                                              *)

\* A function on 1..n is a sequence of length n.
LEMMA SeqOfLength ==
  ASSUME NEW S, NEW n \in Nat, NEW f \in [1..n -> S]
  PROVE  f \in Seq(S) /\ Len(f) = n /\ (n = 0 => f = <<>>)
  BY SeqDef, EmptySeq, LenProperties

\* A sequence that prolongs another by one element is what Append gives.
LEMMA AppendOne ==
  ASSUME NEW S, NEW n \in Nat, NEW f \in [1..n -> S], NEW e \in S, NEW g \in [1..(n + 1) -> S],
         g[n + 1] = e, \A k \in 1..n : g[k] = f[k]
  PROVE  g = Append(f, e)
<1>1. f \in Seq(S) /\ Len(f) = n /\ g \in Seq(S) /\ Len(g) = n + 1
  BY SeqOfLength
<1>2. /\ Append(f, e) \in Seq(S) /\ Len(Append(f, e)) = n + 1
      /\ \A k \in 1..n : Append(f, e)[k] = f[k]
      /\ Append(f, e)[n + 1] = e
  BY <1>1, AppendProperties
<1>3. \A k \in 1..(n + 1) : g[k] = Append(f, e)[k]
  BY <1>2
<1> QED
  BY <1>1, <1>2, <1>3, SeqEqual

-----------------------------------------------------------------------------
(* The refinement.                                                         *)

\* The edges the array holds, as a sequence.
Counted == [k \in 1..edge_ptr |-> stored_edges[k - 1].edge_count]

\* It has length edge_ptr.
LEMMA CountedType ==
  ASSUME SInv
  PROVE  /\ edge_ptr \in Nat
         /\ Counted \in [1..edge_ptr -> 0..MaxEdges]
         /\ Len(Counted) = edge_ptr
         /\ edge_ptr = 0 => Counted = <<>>
<1>1. edge_ptr \in Slots /\ \A k \in 1..edge_ptr : k - 1 \in Slots
  BY PulsecapAssumption DEF SInv, IInv, Bounded, Slots
<1>2. Counted \in [1..edge_ptr -> 0..MaxEdges]
  BY <1>1 DEF Counted, SInv, IInv, TypeOK
<1> QED
  BY <1>1, <1>2, SeqOfLength DEF Slots

\* The mode outside the middle of a start.
LEMMA ModeIs ==
  ASSUME TInv, \A c \in Callers : pc[c] \notin {"ptr", "enable", "enablew"}
  PROVE  /\ Running(flags) => Mode = "run"
         /\ "DONE" \in flags => Mode = "done"
         /\ "CANCELLED" \in flags => Mode = "cancelled"
         /\ flags = {} => Mode = "idle"
  BY DEF Mode, TInv, FlagsMode, SInv, FlagsKept, Running

\* A step that moves no caller across the start of a capture and changes
\* neither the flags nor the array is a stutter of EdgeCapture.
LEMMA Stutters ==
  ASSUME UNCHANGED <<flags, edge_ptr, edge_target, edges>>,
         \A c \in Callers : pc[c] \in {"ptr", "enable", "enablew"} <=>
                              pc'[c] \in {"ptr", "enable", "enablew"},
         \A c \in Callers : pc[c] = "ptr" <=> pc'[c] = "ptr",
         \A k \in 1..edge_ptr : stored_edges'[k - 1].edge_count = stored_edges[k - 1].edge_count
  PROVE  UNCHANGED Abstract!vars
<1>1. Mode' = Mode
  BY DEF Mode
<1>2. Captured' = Captured
  BY DEF Captured
<1> QED
  BY <1>1, <1>2 DEF Abstract!vars

\* Counting the edge the handler has stored is a capture of the latest edge.
LEMMA CountRefines ==
  ASSUME TInv, InPhase, \A c \in Callers : pc[c] = "idle" /\ pc'[c] = "idle",
         UNCHANGED <<edges, flags, edge_target, stored_edges>>,
         Running(flags), edge_ptr' = edge_ptr + 1, edge_ptr < edge_target, OneBehind,
         stored_edges[edge_ptr].edge_count = edges,
         edge_ptr = 0 => TimerOf(edges) = HIGH
  PROVE  Abstract!Capture
<1>1. Captured = Counted /\ Captured' = Counted'
  BY DEF Captured, Counted
<1>2. Mode = "run" /\ Mode' = "run"
  BY ModeIs DEF Mode
<1>3. edge_ptr \in Nat /\ Counted \in [1..edge_ptr -> 0..MaxEdges]
      /\ Len(Counted) = edge_ptr /\ (edge_ptr = 0 => Counted = <<>>)
  BY CountedType DEF TInv
<1>4. edges \in 0..MaxEdges
  BY DEF TInv, SInv, IInv, TypeOK, HwTypeOK
<1>5. Counted' = Append(Counted, edges)
  <2>1. Counted' = [k \in 1..(edge_ptr + 1) |-> stored_edges[k - 1].edge_count]
    BY DEF Counted
  <2>2. Counted'[edge_ptr + 1] = edges /\ \A k \in 1..edge_ptr : Counted'[k] = Counted[k]
    <3>1. Counted = [k \in 1..edge_ptr |-> stored_edges[k - 1].edge_count]
      BY DEF Counted
    <3>2. edge_ptr + 1 \in 1..(edge_ptr + 1) /\ (edge_ptr + 1) - 1 = edge_ptr
          /\ \A k \in 1..edge_ptr : k \in 1..(edge_ptr + 1)
      BY <1>3
    <3> QED
      BY <2>1, <3>1, <3>2
  <2>3. \A k \in 1..(edge_ptr + 1) : Counted'[k] \in 0..MaxEdges
    BY <1>3, <1>4, <2>2
  <2>4. Counted' \in [1..(edge_ptr + 1) -> 0..MaxEdges]
    BY <2>1, <2>3
  <2> DEFINE g == Counted'
  <2> HIDE DEF g
  <2>5. g = Append(Counted, edges)
    BY <1>3, <1>4, <2>2, <2>4, AppendOne DEF g
  <2> QED
    BY <2>5 DEF g
<1>6. IF Counted = <<>> THEN edges % 2 = 1 ELSE edges = Following(Counted[Len(Counted)])
  <2>1. edge_ptr = 0 => Counted = <<>> /\ edges % 2 = 1
    BY <1>3, <1>4, EdgesAlternateTimers
  <2>2. edge_ptr > 0 => Counted # <<>> /\ Counted[Len(Counted)] = LastEdge.edge_count
    BY <1>3 DEF Counted, LastEdge
  <2> QED
    BY <1>3, <2>1, <2>2 DEF OneBehind
<1> QED
  BY <1>1, <1>2, <1>3, <1>5, <1>6 DEF Abstract!Capture, Abstract!After, Following

\* A step of the handler captures an edge, finishes the capture, or stutters.
LEMMA HandlerRefines ==
  ASSUME TInv, TInv', InPhase, Isr
  PROVE  [Abstract!Next]_(Abstract!vars)
<1>1. \A c \in Callers : pc[c] = "idle" /\ pc'[c] = "idle"
  BY HandlerAlone
<1>2. UNCHANGED edges
  BY DEF Isr, Enter, ReadStatus, TestFlags, ReadCount, ReadTlr, Judge, StoreFirst, Compare,
         StoreNext, StoreType, StoreCount, TestTarget, Advance, Use, StopTimer, PublishDone,
         Acknowledge, RegRead, RegWrite, WriteCsr, FlagsRead, FlagsWrite, hw
<1>3. Captured = Counted /\ Captured' = Counted'
  BY <1>1 DEF Captured, Counted
<1>4. CASE UNCHANGED <<flags, edge_ptr, edge_target>> /\ ~ StoreFirst /\ ~ StoreNext
  <2>1. UNCHANGED stored_edges
    BY <1>4 DEF Isr, Enter, ReadStatus, TestFlags, ReadCount, Judge, Compare, StopTimer,
                PublishDone, Acknowledge, RegRead, RegWrite, FlagsRead, FlagsWrite, mem
  <2> QED
    BY <1>1, <1>2, <1>4, <2>1, Stutters
<1>5. CASE StoreFirst
  <2>1. pc["isr"] \in FirstLabels /\ UNCHANGED <<flags, edge_target>>
    BY <1>5 DEF StoreFirst, Step, FirstLabels
  <2>2. edge_ptr = 0 /\ Running(flags) /\ 0 < edge_target
    BY <2>1 DEF TInv, SInv, IInv, Carried, ServingUndone, FlagsMode, Serving
  <2>3. CASE UNCHANGED edge_ptr
    BY <1>1, <1>2, <2>1, <2>2, <2>3, Stutters
  <2>4. CASE ~ UNCHANGED edge_ptr
    <3>1. pc["isr"] = "first2" /\ edge_ptr' = 1 /\ UNCHANGED stored_edges
      BY <1>5, <2>4 DEF StoreFirst, Step
    <3>2. OneBehind /\ stored_edges[0].edge_count = edges /\ TimerOf(edges) = HIGH
      BY <1>1, <2>2, <3>1 DEF TInv, InStep, At, FirstLabels, UseLabels
    <3> QED
      BY <1>1, <1>2, <2>1, <2>2, <3>1, <3>2, CountRefines DEF Abstract!Next
  <2> QED
    BY <2>3, <2>4
<1>6. CASE StoreNext
  <2>1. PICK q \in Pointers, from \in UseLabels, to \in IsrLabels \cup StopLabels :
          /\ Use(q, from, to)
          /\ from \in {"store0", "store1", "more", "advance"}
          /\ from = "store0" => StoreType(q)
          /\ from = "store1" => StoreCount(q)
          /\ from = "more" => UNCHANGED <<edge_ptr, edge_target, stored_edges>>
          /\ from = "advance" => edge_ptr' = q + 1 /\ UNCHANGED <<edge_target, stored_edges>>
    <3>1. {"store0", "store1", "more", "advance"} \subseteq UseLabels
          /\ {"store1", "more", "advance", "stop0", "ack0"} \subseteq IsrLabels \cup StopLabels
      BY DEF UseLabels, IsrLabels, StopLabels
    <3> QED
      BY <1>6, <3>1 DEF StoreNext, StoreType, StoreCount, TestTarget, Advance
  <2>2. /\ pc["isr"] = from /\ q = edge_ptr /\ q = cur.ptr /\ q \in Slots /\ Serving
        /\ UNCHANGED flags
    BY <2>1, UseInBounds, UseAsLoaded DEF TInv, SInv
  <2>3. edge_ptr \in Nat /\ Running(flags)
        /\ stored_edges \in [Slots -> [edge_type : {HIGH, LOW}, edge_count : 0..MaxEdges]]
    BY <2>2 DEF TInv, FlagsMode, SInv, IInv, TypeOK, Slots
  <2>4. CASE from # "advance"
    <3>1. UNCHANGED <<edge_ptr, edge_target>>
      BY <2>1, <2>2, <2>4 DEF StoreType, StoreCount
    <3>2. \A k \in Slots : k # q => stored_edges'[k] = stored_edges[k]
      BY <2>1, <2>2, <2>3, <2>4 DEF StoreType, StoreCount
    <3>3. \A k \in 1..edge_ptr : k - 1 \in Slots /\ k - 1 # q
      BY <2>2, <2>3, PulsecapAssumption DEF Slots
    <3> QED
      BY <1>1, <1>2, <2>2, <3>1, <3>2, <3>3, Stutters
  <2>5. CASE from = "advance"
    <3>1. /\ OneBehind /\ stored_edges[edge_ptr].edge_count = edges /\ 0 < edge_ptr
      BY <1>1, <2>2, <2>3, <2>5 DEF TInv, InStep, At, UseLabels
    <3>2. edge_ptr < edge_target
      BY <2>2, <2>5 DEF TInv, SInv, ServingUndone
    <3> QED
      BY <1>1, <1>2, <2>1, <2>2, <2>3, <2>5, <3>1, <3>2, CountRefines DEF Abstract!Next
  <2> QED
    BY <2>4, <2>5
<1>7. CASE FlagsWrite("isr", fl["isr"] \cup {"DONE"}, "publishw", "ack0")
  <2>1. pc["isr"] = "publishw" /\ "DONE" \in flags'
        /\ UNCHANGED <<edge_ptr, edge_target, stored_edges>>
    BY <1>7 DEF FlagsWrite, Step
  <2>2. Running(flags) /\ edge_ptr = edge_target
    BY <2>1 DEF TInv, FlagsMode, SInv, ServingUndone, Serving, StopLabels
  <2>3. Mode = "run" /\ Mode' = "done"
    <3>1. \A c \in Callers : pc[c] \notin {"ptr", "enable", "enablew"}
                               /\ pc'[c] \notin {"ptr", "enable", "enablew"}
      BY <1>1
    <3>2. ~ Running(flags') /\ "CANCELLED" \notin flags'
      BY <2>1 DEF Running, TInv, FlagsMode
    <3> QED
      BY <2>1, <2>2, <3>1, <3>2, ModeIs DEF Mode
  <2>4. Counted' = Counted /\ Len(Counted) = edge_target
    BY <2>1, <2>2, CountedType DEF TInv, Counted
  <2>5. Abstract!Finish
    BY <1>2, <1>3, <2>1, <2>3, <2>4 DEF Abstract!Finish
  <2> QED
    BY <2>5 DEF Abstract!Next
<1> QED
  <2>1. \/ UNCHANGED <<flags, edge_ptr, edge_target>>
        \/ StoreFirst \/ StoreNext
        \/ FlagsWrite("isr", fl["isr"] \cup {"DONE"}, "publishw", "ack0")
    BY DEF Isr, Enter, ReadStatus, TestFlags, ReadCount, Judge, Compare, Use, StopTimer,
           PublishDone, Acknowledge, RegRead, RegWrite, FlagsRead, mem
  <2> QED
    BY <1>4, <1>5, <1>6, <1>7, <2>1

\* An edge of the input changes the signal.
LEMMA InputRefines ==
  ASSUME InputEdge
  PROVE  Abstract!Change
<1>1. edges' = Following(edges) /\ UNCHANGED <<mem, pc>>
  BY DEF InputEdge, Edge, Following
<1>2. Mode' = Mode /\ Captured' = Captured
  BY <1>1 DEF Mode, Captured, mem
<1> QED
  BY <1>1, <1>2 DEF Abstract!Change, Abstract!After, Following, mem

\* A step of a caller starts a capture, cancels one, or stutters.
LEMMA CallerRefines ==
  ASSUME TInv, TInv', InPhase, NEW c \in Callers, Begin(c) \/ Proceed(c)
  PROVE  [Abstract!Next]_(Abstract!vars)
<1>1. /\ pc["isr"] = "idle"
      /\ \A d \in Callers : d # c => pc[d] = "idle" /\ pc'[d] = "idle"
  BY CallerAlone DEF InPhase
<1>2. UNCHANGED <<edges, stored_edges>>
  BY DEF Begin, Start, Cancel, Show, Proceed, InitializeTimer, ClearTlrs, SetUp, Enable,
         StartTimer, DisableInterrupts, StopTimer, PublishCancelled, Clamp, Copy, MarkRead, RegRead,
         RegWrite, WriteCsr, FlagsRead, FlagsWrite, hw, mem
<1>3. CASE /\ pc[c] \notin {"ptr", "enable", "enablew"} /\ pc'[c] \notin {"ptr", "enable", "enablew"}
           /\ UNCHANGED <<flags, edge_ptr, edge_target>>
  BY <1>1, <1>2, <1>3, Stutters
<1>4. CASE SetUp(c)
  <2>1. CASE pc[c] = "target"
    <3>1. edge_target' = arg[c] /\ pc'[c] = "ptr"
      BY <1>4, <2>1 DEF SetUp, Step, TInv, SInv, IInv, TypeOK, Threads
    <3>2. arg[c] \in 1..MaxCount
      BY <2>1, PulsecapAssumption
      DEF InPhase, TInv, SInv, TargetSet, IInv, Bounded, Slots
    <3>3. ~ Running(flags)
      BY <2>1 DEF TInv, SInv, StartUnheard, StartLabels
    <3>4. Mode # "run"
      <4>1. \A d \in Callers : pc[d] \notin {"ptr", "enable", "enablew"}
        BY <1>1, <2>1
      <4> QED
        BY <3>3, <4>1, ModeIs DEF TInv, FlagsMode
    <3>5. Mode' = "run" /\ Captured' = <<>>
      BY <3>1 DEF Mode, Captured
    <3> QED
      BY <1>2, <3>1, <3>2, <3>4, <3>5 DEF Abstract!Next, Abstract!Start
  <2>2. CASE pc[c] = "ptr"
    <3>1. edge_ptr' = 0 /\ pc'[c] = "enable" /\ UNCHANGED <<flags, edge_target>>
      BY <1>4, <2>2 DEF SetUp, Step, TInv, SInv, IInv, TypeOK, Threads
    <3>2. Mode = "run" /\ Mode' = "run"
      BY <2>2, <3>1 DEF Mode
    <3>3. Captured = <<>>
      BY <2>2 DEF Captured
    <3>4. Captured' = <<>>
      <4>1. \A d \in Callers : pc'[d] # "ptr"
        BY <1>1, <3>1
      <4>2. Captured' = [k \in 1..0 |-> stored_edges'[k - 1].edge_count]
        BY <3>1, <4>1 DEF Captured
      <4>3. [k \in 1..0 |-> stored_edges'[k - 1].edge_count] \in [1..0 -> Nat]
        OBVIOUS
      <4> QED
        BY <4>2, <4>3, SeqOfLength
    <3> QED
      BY <1>2, <3>1, <3>2, <3>3, <3>4 DEF Abstract!vars
  <2> QED
    BY <1>4, <2>1, <2>2 DEF SetUp, Step
<1>5. CASE Enable(c)
  <2>1. UNCHANGED <<edge_ptr, edge_target>>
        /\ \/ pc[c] = "enable" /\ pc'[c] = "enablew" /\ UNCHANGED flags
           \/ pc[c] = "enablew" /\ pc'[c] = "run" /\ flags' = Enabled(fl[c])
    BY <1>5 DEF Enable, FlagsRead, FlagsWrite, Step, TInv, SInv, IInv, TypeOK, Threads
  <2>2. Mode = "run"
    BY <2>1 DEF Mode
  <2>3. Mode' = "run"
    <3>1. CASE pc'[c] = "enablew"
      BY <3>1 DEF Mode
    <3>2. CASE pc'[c] = "run" /\ flags' = Enabled(fl[c])
      <4>1. \A d \in Callers : pc'[d] \notin {"ptr", "enable", "enablew"}
        BY <1>1, <3>2
      <4>2. Running(flags') /\ "DONE" \notin flags' /\ "CANCELLED" \notin flags'
        BY <3>2 DEF Running, Enabled
      <4> QED
        BY <4>1, <4>2 DEF Mode
    <3> QED
      BY <2>1, <3>1, <3>2
  <2>4. Captured' = Captured
    BY <1>1, <1>2, <2>1 DEF Captured
  <2> QED
    BY <1>2, <2>1, <2>2, <2>3, <2>4 DEF Abstract!vars
<1>6. CASE PublishCancelled(c) /\ ~ UNCHANGED flags
  <2>1. /\ pc[c] = "publishw" /\ pc'[c] = "idle" /\ flags' = Cancelled(fl[c])
        /\ UNCHANGED <<edge_ptr, edge_target>>
    BY <1>6 DEF PublishCancelled, FlagsRead, FlagsWrite, Step, TInv, SInv, IInv, TypeOK, Threads
  <2>2. \A d \in Callers : pc[d] \notin {"ptr", "enable", "enablew"}
                             /\ pc'[d] \notin {"ptr", "enable", "enablew"}
    BY <1>1, <2>1
  <2>3. Mode # "idle"
    <3>1. flags # {}
      BY <2>1 DEF TInv, FlagsMode, CancelLabels, StopLabels
    <3> QED
      BY <2>2, <3>1, ModeIs DEF TInv, FlagsMode
  <2>4. Mode' = "cancelled"
    BY <2>1, <2>2 DEF Mode, Running, Cancelled
  <2>5. Captured' = Captured
    BY <1>2, <2>1, <2>2 DEF Captured
  <2> QED
    BY <1>2, <2>1, <2>3, <2>4, <2>5 DEF Abstract!Next, Abstract!Cancel
<1>7. CASE MarkRead(c) /\ ~ UNCHANGED flags
  <2>1. /\ pc[c] = "markw" /\ pc'[c] = "idle" /\ flags' = fl[c] \cup {"READ"}
        /\ UNCHANGED <<edge_ptr, edge_target>>
    BY <1>7 DEF MarkRead, FlagsRead, Step, TInv, SInv, IInv, TypeOK, Threads
  <2>2. \A d \in Callers : pc[d] \notin {"ptr", "enable", "enablew"}
                             /\ pc'[d] \notin {"ptr", "enable", "enablew"}
    BY <1>1, <2>1
  <2>3. fl[c] = flags
    BY <2>1 DEF TInv, FlagsMode
  <2>4. Mode' = Mode
    BY <2>1, <2>2, <2>3 DEF Mode, Running
  <2>5. Captured' = Captured
    BY <1>2, <2>1, <2>2 DEF Captured
  <2> QED
    BY <1>2, <2>1, <2>4, <2>5 DEF Abstract!vars
<1> QED
  <2>1. CASE Begin(c) \/ InitializeTimer(c) \/ StartTimer(c) \/ DisableInterrupts(c)
             \/ StopTimer(c, "publish")
    <3>1. UNCHANGED <<flags, edge_ptr, edge_target>>
      BY <2>1 DEF Begin, Start, Cancel, Show, InitializeTimer, StartTimer, DisableInterrupts,
                  StopTimer, RegRead, RegWrite, mem
    <3>2. pc[c] \notin {"ptr", "enable", "enablew"} /\ pc'[c] \notin {"ptr", "enable", "enablew"}
      BY <2>1 DEF Begin, Start, Cancel, Show, MayCall, InitializeTimer, StartTimer,
                  DisableInterrupts, StopTimer, RegRead, RegWrite, Step, TInv, SInv, IInv, TypeOK,
                  Threads
    <3> QED
      BY <1>3, <3>1, <3>2
  <2>2. CASE (PublishCancelled(c) \/ Clamp(c) \/ Copy(c) \/ MarkRead(c)) /\ UNCHANGED flags
    <3>1. UNCHANGED <<edge_ptr, edge_target>>
      BY <2>2 DEF PublishCancelled, Clamp, Copy, MarkRead, FlagsRead, FlagsWrite, mem
    <3>2. pc[c] \notin {"ptr", "enable", "enablew"} /\ pc'[c] \notin {"ptr", "enable", "enablew"}
      BY <2>2 DEF PublishCancelled, Clamp, Copy, MarkRead, FlagsRead, FlagsWrite, Step, TInv, SInv,
                  IInv, TypeOK, Threads
    <3> QED
      BY <1>3, <2>2, <3>1, <3>2
  <2>3. UNCHANGED flags \/ ~ (Clamp(c) \/ Copy(c))
    BY DEF Clamp, Copy, mem
  <2> QED
    BY <1>4, <1>5, <1>6, <1>7, <2>1, <2>2, <2>3 DEF Proceed

\* After probe the driver is an idle EdgeCapture.
LEMMA InitRefines ==
  ASSUME Init
  PROVE  Abstract!Init
<1>1. \A c \in Callers : pc[c] \notin {"ptr", "enable", "enablew"}
  BY DEF Init, Threads
<1>2. Mode = "idle"
  BY <1>1 DEF Init, Mode, Running
<1>3. Captured = [k \in 1..0 |-> stored_edges[k - 1].edge_count]
  BY <1>1 DEF Init, Captured
<1>4. [k \in 1..0 |-> stored_edges[k - 1].edge_count] \in [1..0 -> Nat]
  OBVIOUS
<1>5. Captured = <<>>
  BY <1>3, <1>4, SeqOfLength
<1> QED
  BY <1>2, <1>5 DEF Init, HwInit, Abstract!Init

\* Every step is a step or a stutter of EdgeCapture.
LEMMA NextRefines ==
  ASSUME TInv, TInv', InPhase, [Next]_vars
  PROVE  [Abstract!Next]_(Abstract!vars)
<1>1. CASE Isr
  BY <1>1, HandlerRefines
<1>2. CASE InputEdge
  BY <1>2, InputRefines DEF Abstract!Next
<1>3. ASSUME NEW c \in Callers, Begin(c) \/ Proceed(c)
      PROVE  [Abstract!Next]_(Abstract!vars)
  BY <1>3, CallerRefines
<1>4. CASE UNCHANGED vars
  BY <1>4 DEF vars, hw, mem, Abstract!vars, Mode, Captured
<1> QED
  BY <1>1, <1>2, <1>3, <1>4 DEF Next

\* A driver whose handler keeps up with the signal implements EdgeCapture: every
\* capture is a run of consecutive edges that begins with a rising one, has the
\* length that was asked for when it is done, and changes only while it runs, for
\* every set of callers, array size and number of edges (pulsecap.c:153-311).
THEOREM CapturesRefine == InPhase => (Spec => ImplementsEdgeCapture)
<1> SUFFICES ASSUME InPhase
             PROVE  Spec => ImplementsEdgeCapture
  OBVIOUS
<1>1. Init => TInv /\ Abstract!Init
  BY InitTInv, InitRefines
<1>2. TInv /\ [Next]_vars => TInv'
  BY NextTInv
<1>3. TInv /\ TInv' /\ [Next]_vars => [Abstract!Next]_(Abstract!vars)
  BY NextRefines
<1> QED
  BY <1>1, <1>2, <1>3, PTL DEF Spec, ImplementsEdgeCapture, Abstract!Spec
=============================================================================
