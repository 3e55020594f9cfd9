------------------------------ MODULE BringUpProofs ------------------------------
(***************************************************************************)
(* Proofs about Boot.tla, for both copies of ps7_init_gpl.c, every silicon *)
(* version and every PS7_MASK_POLL_TIME: what each table of ps7_init sets  *)
(* up is set up when ps7_init returns success, in the order the hardware   *)
(* asks for, and the clocks run at the frequencies the project declares.   *)
(*                                                                         *)
(* The first half is about the tables alone.  Of each it is shown, from    *)
(* how it is put together, that it Achieves(Own[n], Goals[n]): it touches  *)
(* only the tracked registers Own[n], and the writes Goals[n] are among    *)
(* its instructions and are not undone by a later one.  The sets Own of    *)
(* different tables meet in the unlock key only, so no table undoes what   *)
(* another has achieved.  The second half carries this through the steps   *)
(* of the interpreter, the hardware and the loader: a write that lasts     *)
(* stands in its register, unless the SLCR was locked, which RunsInv of    *)
(* BootProofs excludes.                                                    *)
(***************************************************************************)
EXTENDS BootProofs

---------------------------------------------------------------------------------
(* Writes that last.                                                       *)

\* The writes the rest of the proof is about.
Set(r, b) == [op |-> "MASKWRITE", reg |-> r, bits |-> b]

\* The lock key.
LockKey == [op |-> "WRITE", reg |-> SLCR_LOCK, bits |-> NoBits]

\* y does not undo what x has written.
Leaves(y, x) ==
  IsWrite(y) => /\ y.reg = x.reg => DOMAIN y.bits \cap DOMAIN x.bits = {}
                /\ x = LockKey => ~Unlocks(y)

\* What x has written is still there when s comes to its instruction p.
LastsTo(s, p, x) ==
  \E j \in 1 .. (p - 1) : s[j] = x /\ \A k \in (j + 1) .. (p - 1) : Leaves(s[k], x)

\* And when s has come to its end.
Lasts(s, x) == LastsTo(s, Len(s) + 1, x)

\* The registers of which it matters who writes or polls them.
Tracked == Control \cup {SLCR_UNLOCK} \cup ({"ddrc", "uart1", "smc"} \X Nat)

\* Instructions that touch none of them but R.
To(R) == {x \in Instructions \cup Exits : x.op # "EXIT" /\ x.reg \in Tracked => x.reg \in R}

\* What must not be touched if g is to last.
Guard(g) == IF g = LockKey THEN SLCR_UNLOCK ELSE g.reg

\* s touches R and leaves G behind.
Achieves(s, R, G) ==
  s \in Seq(To(R)) /\ \A g \in G : Guard(g) \in Tracked \cap R /\ Lasts(s, g)

\* The next instruction leaves what lasted, or is it.
LEMMA LastsNext ==
  ASSUME NEW s, NEW p \in Nat \ {0}, NEW x, LastsTo(s, p + 1, x)
  PROVE  s[p] = x \/ (LastsTo(s, p, x) /\ Leaves(s[p], x))
<1>1. PICK j \in 1 .. p : s[j] = x /\ \A k \in (j + 1) .. p : Leaves(s[k], x)
  BY DEF LastsTo
<1>2. CASE j = p
  BY <1>1, <1>2
<1>3. CASE j # p
  <2>1. j \in 1 .. (p - 1) /\ p \in (j + 1) .. p /\ (j + 1) .. (p - 1) \subseteq (j + 1) .. p
    BY <1>3
  <2> QED
    BY <1>1, <2>1 DEF LastsTo
<1> QED
  BY <1>2, <1>3

\* What is last lasts.
LEMMA LastLasts ==
  ASSUME NEW S, NEW s \in Seq(S), s # <<>>
  PROVE  Lasts(s, s[Len(s)])
<1>1. Len(s) \in 1 .. Len(s) /\ (Len(s) + 1) .. Len(s) = {}
  OBVIOUS
<1> QED
  BY <1>1 DEF Lasts, LastsTo

\* What lasts in the second of two pieces lasts.
LEMMA LastsAfter ==
  ASSUME NEW S, NEW s \in Seq(S), NEW t \in Seq(S), NEW x, Lasts(t, x)
  PROVE  Lasts(s \o t, x)
<1> DEFINE u == s \o t
<1>1. /\ Len(s) \in Nat /\ Len(t) \in Nat /\ Len(u) = Len(s) + Len(t)
      /\ \A i \in 1 .. (Len(s) + Len(t)) :
            i > Len(s) => u[i] = t[i - Len(s)] /\ i - Len(s) \in 1 .. Len(t)
  BY ConcatIs
<1> HIDE DEF u
<1>2. PICK j \in 1 .. Len(t) : t[j] = x /\ \A k \in (j + 1) .. Len(t) : Leaves(t[k], x)
  BY <1>1 DEF Lasts, LastsTo
<1>3. j + Len(s) \in 1 .. Len(u) /\ u[j + Len(s)] = x
  BY <1>1, <1>2
<1>4. ASSUME NEW k \in (j + Len(s) + 1) .. Len(u) PROVE Leaves(u[k], x)
  <2>1. k - Len(s) \in (j + 1) .. Len(t) /\ u[k] = t[k - Len(s)]
    BY <1>1
  <2> QED
    BY <2>1, <1>2
<1>5. Lasts(u, x)
  BY <1>1, <1>3, <1>4, SMTT(30) DEF Lasts, LastsTo
<1> QED
  BY <1>5 DEF u

\* So does what lasts in the first if the second leaves it.
LEMMA LastsBefore ==
  ASSUME NEW S, NEW s \in Seq(S), NEW t \in Seq(S), NEW x, Lasts(s, x),
         \A i \in DOMAIN t : Leaves(t[i], x)
  PROVE  Lasts(s \o t, x)
<1> DEFINE u == s \o t
<1>1. /\ Len(s) \in Nat /\ Len(t) \in Nat /\ Len(u) = Len(s) + Len(t)
      /\ DOMAIN t = 1 .. Len(t)
      /\ \A i \in 1 .. Len(s) : u[i] = s[i]
      /\ \A i \in 1 .. (Len(s) + Len(t)) :
            i > Len(s) => u[i] = t[i - Len(s)] /\ i - Len(s) \in 1 .. Len(t)
  BY ConcatIs
<1> HIDE DEF u
<1>2. PICK j \in 1 .. Len(s) : s[j] = x /\ \A k \in (j + 1) .. Len(s) : Leaves(s[k], x)
  BY <1>1 DEF Lasts, LastsTo
<1>3. j \in 1 .. Len(u) /\ u[j] = x
  BY <1>1, <1>2
<1>4. ASSUME NEW k \in (j + 1) .. Len(u) PROVE Leaves(u[k], x)
  <2>1. CASE k <= Len(s)
    BY <2>1, <1>1, <1>2
  <2>2. CASE k > Len(s)
    BY <2>2, <1>1, SMTT(30)
  <2> QED
    BY <2>1, <2>2, <1>1
<1>5. Lasts(u, x)
  BY <1>1, <1>3, <1>4 DEF Lasts, LastsTo
<1> QED
  BY <1>5 DEF u

\* What touches other registers leaves it.
LEMMA OthersLeave ==
  ASSUME NEW Q, NEW y \in To(Q), NEW g, Guard(g) \in Tracked, Guard(g) \notin Q
  PROVE  Leaves(y, g)
<1> SUFFICES ASSUME IsWrite(y)
             PROVE  /\ y.reg = g.reg => DOMAIN y.bits \cap DOMAIN g.bits = {}
                    /\ g = LockKey => ~Unlocks(y)
  BY DEF Leaves
<1>1. y.reg # Guard(g)
  BY DEF To, IsWrite
<1>2. CASE g = LockKey
  <2>1. DOMAIN g.bits = {}
    BY <1>2 DEF LockKey, NoBits
  <2> QED
    BY <1>1, <1>2, <2>1 DEF Guard, Unlocks
<1>3. CASE g # LockKey
  BY <1>1, <1>3 DEF Guard
<1> QED
  BY <1>2, <1>3

\* To touch less is to touch no more.
LEMMA ToMore ==
  ASSUME NEW R, NEW Q, R \subseteq Q, NEW s \in Seq(To(R))
  PROVE  s \in Seq(To(Q))
<1>1. To(R) \subseteq To(Q)
  BY DEF To
<1> QED
  BY <1>1

\* Two pieces, of which the second leaves what the first achieves.
LEMMA AchievesBoth ==
  ASSUME NEW R, NEW G, NEW s, Achieves(s, R, G),
         NEW Q, NEW H, NEW t, Achieves(t, Q, H),
         \A g \in G : Guard(g) \notin Q
  PROVE  Achieves(s \o t, R \cup Q, G \cup H)
<1>1. s \in Seq(To(R \cup Q)) /\ t \in Seq(To(R \cup Q)) /\ t \in Seq(To(Q))
  BY ToMore DEF Achieves
<1>2. s \o t \in Seq(To(R \cup Q))
  BY <1>1
<1>3. ASSUME NEW g \in H PROVE Lasts(s \o t, g)
  BY <1>1, LastsAfter DEF Achieves
<1>4. ASSUME NEW g \in G PROVE Lasts(s \o t, g)
  <2>2. Lasts(s, g) /\ Guard(g) \in Tracked
    BY DEF Achieves
  <2>1. \A i \in DOMAIN t : Leaves(t[i], g)
    <3>1. \A i \in DOMAIN t : t[i] \in To(Q)
      BY <1>1
    <3> QED
      BY <3>1, <2>2, OthersLeave
  <2> QED
    BY <1>1, <2>1, <2>2, LastsBefore
<1> QED
  BY <1>2, <1>3, <1>4 DEF Achieves

\* A piece that touches nothing.
LEMMA AchievesStill ==
  ASSUME NEW R, NEW G, NEW s, Achieves(s, R, G), NEW t \in Seq(To({}))
  PROVE  Achieves(s \o t, R, G)
<1>1. Achieves(t, {}, {})
  BY DEF Achieves
<1>2. Achieves(s \o t, R \cup {}, G \cup {})
  BY <1>1, AchievesBoth
<1>3. R \cup {} = R /\ G \cup {} = G
  OBVIOUS
<1> QED
  BY <1>2, <1>3, Zenon

\* One instruction.
LEMMA AchievesOne ==
  ASSUME NEW x \in Instructions, NEW R, x.reg \in Tracked => x.reg \in R
  PROVE  /\ <<x>> \in Seq(To(R))
         /\ Achieves(<<x>>, R, {})
         /\ Guard(x) \in Tracked \cap R => Achieves(<<x>>, R, {x})
<1>1. <<x>> # <<>> /\ Len(<<x>>) = 1 /\ <<x>>[1] = x /\ <<x>> \in Seq({x})
  OBVIOUS
<1>2. Lasts(<<x>>, x)
  BY <1>1, LastLasts
<1>3. x \in To(R)
  BY DEF To
<1> QED
  BY <1>2, <1>3 DEF Achieves

\* One more instruction, about a register no other is about.
LEMMA AchievesNext ==
  ASSUME NEW R, NEW G, NEW s, Achieves(s, R, G),
         NEW x \in Instructions, x.reg \in Tracked \ R, x # LockKey
  PROVE  Achieves(s \o <<x>>, R \cup {x.reg}, G \cup {x})
<1>1. Achieves(<<x>>, {x.reg}, {x})
  BY AchievesOne DEF Guard
<1>2. \A g \in G : Guard(g) \notin {x.reg}
  BY DEF Achieves
<1> QED
  BY <1>1, <1>2, AchievesBoth

\* What is achieved may be stated in less detail.
LEMMA AchievesLess ==
  ASSUME NEW R, NEW G, NEW s, Achieves(s, R, G), NEW Q, R \subseteq Q, NEW H, H \subseteq G
  PROVE  Achieves(s, Q, H)
BY ToMore DEF Achieves

---------------------------------------------------------------------------------
(* The registers a piece of a table touches, and what it leaves behind.    *)

\* The control registers.
LEMMA ControlIs ==
  /\ \A r \in Control :
       \/ r \in {DDRC_CTRL, DDRC_MODE_STS, UART_BAUD_GEN, UART_BAUD_DIV}
       \/ r[1] = "slcr" /\ r[2] \in Nat \ RestOffsets /\ r[2] \notin {\h004, \h008}
  /\ SLCR_UNLOCK = <<"slcr", \h008>>
<1>1. \A p \in Plls : PLL_CTRL[p] \in {<<"slcr", \h100>>, <<"slcr", \h104>>, <<"slcr", \h108>>}
  BY DEF Plls, PLL_CTRL, SLCR
<1>2. \A r \in ClockControls :
         r[1] = "slcr" /\ r[2] \in {\h120, \h124, \h128, \h148, \h150, \h154, \h168, \h170, \h180}
  BY DEF ClockControls, ARM_CLK_CTRL, DDR_CLK_CTRL, DCI_CLK_CTRL, SMC_CLK_CTRL,
         SDIO_CLK_CTRL, UART_CLK_CTRL, PCAP_CLK_CTRL, FPGA0_CLK_CTRL, FPGA1_CLK_CTRL, SLCR
<1>3. \A r \in {PLL_STATUS, APER_CLK_CTRL, DDRIOB_DCI_CTRL, DDRIOB_DCI_STATUS, LVL_SHFTR_EN,
                FPGA_RST_CTRL} :
         r[1] = "slcr" /\ r[2] \in {\h10C, \h12C, \hB70, \hB74, \h900, \h240}
  BY DEF PLL_STATUS, APER_CLK_CTRL, DDRIOB_DCI_CTRL, DDRIOB_DCI_STATUS, LVL_SHFTR_EN,
         FPGA_RST_CTRL, SLCR
<1>4. \A n \in {\h100, \h104, \h108, \h10C, \h120, \h124, \h128, \h12C, \h148, \h150, \h154, \h168,
                \h170, \h180, \h240, \h900, \hB70, \hB74} :
         n \in Nat \ RestOffsets /\ n \notin {\h004, \h008}
  BY DEF RestOffsets, PlainOffsets
<1>5. SLCR_UNLOCK = <<"slcr", \h008>>
  BY DEF SLCR_UNLOCK, SLCR
<1>6. \A r \in Control : \/ r \in {PLL_CTRL[p] : p \in Plls} \cup ClockControls
                         \/ r \in {PLL_STATUS, APER_CLK_CTRL, DDRIOB_DCI_CTRL, DDRIOB_DCI_STATUS,
                                   LVL_SHFTR_EN, FPGA_RST_CTRL}
                         \/ r \in {DDRC_CTRL, DDRC_MODE_STS, UART_BAUD_GEN, UART_BAUD_DIV}
  BY DEF Control
<1> QED
  BY <1>1, <1>2, <1>3, <1>4, <1>5, <1>6

\* What the pieces of the tables touch.
LEMMA PiecesTouch ==
  /\ \A s : s \in Seq(RestWrites) => s \in Seq(To({}))
  /\ \A s : s \in Seq(OutsideWrites) => s \in Seq(To({}))
  /\ \A s : s \in Seq(DdrWrites) => s \in Seq(To({"ddrc"} \X Nat))
  /\ \A s : s \in Seq(PeripheralWrites) => s \in Seq(To({"uart1", "smc"} \X Nat))
  /\ Lock = <<LockKey>> /\ LockKey \in Instructions
  /\ LockKey.reg \notin Tracked
  /\ Lock \in Seq(To({})) /\ EMIT_EXIT \in Seq(To({}))
  /\ Unlock \in Seq(To({SLCR_UNLOCK}))
<1>1. \A r \in Tracked : r[1] = "slcr" => r[2] \notin RestOffsets
  BY ControlIs DEF Tracked, RestOffsets, PlainOffsets, DDRC_CTRL, DDRC_MODE_STS, UART_BAUD_GEN,
                   UART_BAUD_DIV, DDRC, UART1
<1>2. \A r \in Tracked : r[1] \in {"slcr", "ddrc", "uart1", "smc"}
  BY ControlIs DEF Tracked, DDRC_CTRL, DDRC_MODE_STS, UART_BAUD_GEN, UART_BAUD_DIV, DDRC, UART1
<1>3. /\ RestWrites \subseteq Instructions /\ OutsideWrites \subseteq Instructions
      /\ DdrWrites \subseteq Instructions /\ PeripheralWrites \subseteq Instructions
  BY DEF RestWrites, OutsideWrites, DdrWrites, PeripheralWrites, Instructions, NoKeys, Plain,
         SlcrWrites, Unprotected, OtherWrites, WritesTo, Blocks, RestOffsets, DdrOffsets,
         DDRC_MODE_STS, DDRC
<1>4. RestWrites \subseteq To({})
  BY <1>1, <1>3 DEF RestWrites, WritesTo, To
<1>5. OutsideWrites \subseteq To({})
  BY <1>2, <1>3 DEF OutsideWrites, WritesTo, To
<1>6. DdrWrites \subseteq To({"ddrc"} \X Nat)
  BY <1>3 DEF DdrWrites, WritesTo, To, DdrOffsets
<1>7. PeripheralWrites \subseteq To({"uart1", "smc"} \X Nat)
  BY <1>3 DEF PeripheralWrites, WritesTo, To
<1>8. LockKey \in Instructions /\ LockKey.reg \notin Tracked
  <2>1. LockKey \in Instructions
    BY DEF LockKey, Instructions, KeyWrites, WritesTo, Bits
  <2>2. LockKey.reg = <<"slcr", \h004>>
    BY DEF LockKey, SLCR_LOCK, SLCR
  <2>3. <<"slcr", \h004>> \notin Tracked
    BY ControlIs DEF Tracked, DDRC_CTRL, DDRC_MODE_STS, UART_BAUD_GEN, UART_BAUD_DIV, DDRC, UART1
  <2> QED
    BY <2>1, <2>2, <2>3
<1>9. Lock = <<LockKey>>
  BY DEF Lock, EMIT_WRITE, LockKey
<1>10. Lock \in Seq(To({}))
  BY <1>8, <1>9, AchievesOne
<1>11. EMIT_EXIT \in Seq(To({}))
  BY DEF EMIT_EXIT, Exits, To
<1>12. Unlock \in Seq(To({SLCR_UNLOCK}))
  <2>1. PICK x : x = [op |-> "WRITE", reg |-> SLCR_UNLOCK, bits |-> NoBits]
    OBVIOUS
  <2>2. x \in Instructions /\ x.reg = SLCR_UNLOCK
    BY <2>1 DEF Instructions, KeyWrites, WritesTo, Bits
  <2>3. Unlock = <<x>>
    BY <2>1 DEF Unlock, EMIT_WRITE
  <2> QED
    BY <2>2, <2>3, AchievesOne
<1> QED
  BY <1>4, <1>5, <1>6, <1>7, <1>8, <1>9, <1>10, <1>11, <1>12

---------------------------------------------------------------------------------
(* What the tables set up.                                                 *)

\* The registers each table touches.
Own ==
  [mio |-> {SLCR_UNLOCK, DDRIOB_DCI_CTRL},
   pll |-> {SLCR_UNLOCK, ARM_CLK_CTRL, DDR_CLK_CTRL, PLL_STATUS} \cup {PLL_CTRL[p] : p \in Plls},
   clock |-> {SLCR_UNLOCK, DCI_CLK_CTRL, SMC_CLK_CTRL, SDIO_CLK_CTRL, UART_CLK_CTRL, PCAP_CLK_CTRL,
              APER_CLK_CTRL, FPGA0_CLK_CTRL, FPGA1_CLK_CTRL},
   ddr |-> {DDRIOB_DCI_STATUS} \cup {"ddrc"} \X Nat,
   peripherals |-> {SLCR_UNLOCK} \cup {"uart1", "smc"} \X Nat,
   post_config |-> {SLCR_UNLOCK, LVL_SHFTR_EN, FPGA_RST_CTRL},
   debug |-> {}]

\* What the clocks come from.
PllGoals ==
  {Set(PLL_CTRL[p], [bypass |-> 0]) : p \in Plls}
  \cup {Set(PLL_CTRL["arm"], [fdiv |-> 40]), Set(PLL_CTRL["ddr"], [fdiv |-> 32]),
        Set(PLL_CTRL["io"], [fdiv |-> 36]), Set(ARM_CLK_CTRL, Clock("arm", 2, 1)),
        Set(DDR_CLK_CTRL, ActiveClock("ddr", 2, 1))}

\* The clocks of the processing system.
ClockGoals ==
  {Set(DCI_CLK_CTRL, ActiveClock("ddr", 15, 7)), Set(SMC_CLK_CTRL, ActiveClock("io", 12, 1)),
   Set(SDIO_CLK_CTRL, ActiveClock("io", 60, 1)), Set(UART_CLK_CTRL, ActiveClock("io", 12, 1)),
   Set(PCAP_CLK_CTRL, ActiveClock("io", 6, 1)), Set(APER_CLK_CTRL, [uart1 |-> 1, smc |-> 1])}

\* Those of the PL, in the two copies.
PlGoals ==
  IF copy = "platform-init"
    THEN {Set(FPGA0_CLK_CTRL, Clock("io", 4, 3)), Set(FPGA1_CLK_CTRL, Clock("io", 8, 6))}
    ELSE {Set(FPGA0_CLK_CTRL, Clock("io", 8, 6))}

\* The calibration of the DDR interface is started.
Calibrate == Set(DDRIOB_DCI_CTRL, [reset |-> 1, enable |-> 1])

\* The DDR controller is let go.
Release == Set(DDRC_CTRL, [soft_rstb |-> 1])

\* It is held in reset.
Hold == Set(DDRC_CTRL, [soft_rstb |-> 0])

\* The poll for the calibration.
AwaitsDci == [op |-> "MASKPOLL", reg |-> DDRIOB_DCI_STATUS, bit |-> "done"]

\* The poll for the DDR controller.
AwaitsMode == [op |-> "MASKPOLL", reg |-> DDRC_MODE_STS, bit |-> "operating_mode"]

\* The baud rate.
BaudGoals == {Set(UART_BAUD_DIV, [bdiv |-> 6]), Set(UART_BAUD_GEN, [cd |-> 124])}

\* The signals of the PL are connected.
Connect == Set(LVL_SHFTR_EN, [enabled |-> 1])

\* The PL leaves its reset.
Start == Set(FPGA_RST_CTRL, [asserted |-> 0])

\* A masked write, as an instruction.
LEMMA Emits ==
  ASSUME NEW r, NEW b
  PROVE  EMIT_MASKWRITE(r, b) = <<Set(r, b)>>
BY DEF EMIT_MASKWRITE, Set

\* It is one, and what it is about.
LEMMA SetIs ==
  ASSUME NEW r \in ClockControls \cup {APER_CLK_CTRL, DDRIOB_DCI_CTRL, LVL_SHFTR_EN, FPGA_RST_CTRL,
                                       DDRC_CTRL, UART_BAUD_GEN, UART_BAUD_DIV},
         NEW b \in Bits
  PROVE  /\ Set(r, b) \in Instructions /\ Set(r, b).reg = r
         /\ r \in Tracked /\ Set(r, b) # LockKey /\ Guard(Set(r, b)) = r
<1>1. Set(r, b).reg = r /\ Set(r, b) # LockKey /\ Guard(Set(r, b)) = r
  BY DEF Set, LockKey, Guard
<1>2. r \in Tracked
  BY DEF Tracked, Control
<1>3. CASE r \in {DDRC_CTRL, UART_BAUD_GEN, UART_BAUD_DIV}
  <2>1. r \in (Blocks \X Nat) \ {DDRC_MODE_STS}
    BY <1>3 DEF DDRC_CTRL, UART_BAUD_GEN, UART_BAUD_DIV, DDRC_MODE_STS, DDRC, UART1, Blocks
  <2>2. Set(r, b) \in OtherWrites
    BY <2>1 DEF OtherWrites, WritesTo, Set
  <2> QED
    BY <1>1, <1>2, <2>2 DEF Instructions, NoKeys, Plain, Unprotected
<1>4. CASE r \in ClockControls \cup {APER_CLK_CTRL, DDRIOB_DCI_CTRL, LVL_SHFTR_EN, FPGA_RST_CTRL}
  <2>1. PICK n \in {\h120, \h124, \h128, \h148,
                   \h150, \h154, \h168, \h170, \h180, \h12C, \hB70, \h900,
                    \h240} : r = <<"slcr", n>>
    BY <1>4 DEF ClockControls, ARM_CLK_CTRL, DDR_CLK_CTRL, DCI_CLK_CTRL, SMC_CLK_CTRL,
                SDIO_CLK_CTRL, UART_CLK_CTRL, PCAP_CLK_CTRL, FPGA0_CLK_CTRL, FPGA1_CLK_CTRL,
                APER_CLK_CTRL, DDRIOB_DCI_CTRL, LVL_SHFTR_EN, FPGA_RST_CTRL, SLCR
  <2>2. r \in {"slcr"} \X PlainOffsets
    BY <2>1 DEF PlainOffsets
  <2>3. Set(r, b) \in SlcrWrites
    BY <2>2 DEF SlcrWrites, WritesTo, Set
  <2> QED
    BY <1>1, <1>2, <2>3 DEF Instructions, NoKeys, Plain
<1> QED
  BY <1>3, <1>4

\* Tables end with the lock key and EXIT.
LEMMA LockLast ==
  ASSUME NEW R, NEW G, NEW s, Achieves(s, R, G)
  PROVE  /\ Achieves(s \o Lock, R, G)
         /\ SLCR_UNLOCK \in R => Achieves(s \o Lock, R, G \cup {LockKey})
         /\ Achieves(s \o EMIT_EXIT, R, G)
<1>1. Lock \in Seq(To({})) /\ EMIT_EXIT \in Seq(To({}))
  BY PiecesTouch
<1>2. Achieves(s \o Lock, R, G) /\ Achieves(s \o EMIT_EXIT, R, G)
  BY <1>1, AchievesStill
<1>3. ASSUME SLCR_UNLOCK \in R PROVE Achieves(s \o Lock, R, G \cup {LockKey})
  <2>1. s \in Seq(To(R)) /\ Lock \in Seq(To(R))
    BY <1>1, ToMore DEF Achieves
  <2>2. Lasts(Lock, LockKey)
    <3>1. Lock # <<>> /\ Lock[Len(Lock)] = LockKey
      BY PiecesTouch
    <3> QED
      BY <2>1, <3>1, LastLasts
  <2>3. Lasts(s \o Lock, LockKey)
    BY <2>1, <2>2, LastsAfter
  <2>4. Guard(LockKey) \in Tracked \cap R
    BY <1>3 DEF Guard, Tracked
  <2> QED
    BY <1>2, <2>3, <2>4 DEF Achieves
<1> QED
  BY <1>2, <1>3

\* Unlocking disturbs nothing.
LEMMA UnlockFirst ==
  ASSUME NEW R, NEW G, NEW s, Achieves(s, R, G)
  PROVE  Achieves(Unlock \o s, {SLCR_UNLOCK} \cup R, G)
<1>1. Achieves(Unlock, {SLCR_UNLOCK}, {})
  BY PiecesTouch DEF Achieves
<1>2. Achieves(Unlock \o s, {SLCR_UNLOCK} \cup R, {} \cup G)
  BY <1>1, AchievesBoth
<1>3. {} \cup G = G
  OBVIOUS
<1> QED
  BY <1>2, <1>3, Zenon

\* The clocks of the processing system.
LEMMA PeripheralClocksAchieve ==
  /\ Achieves(PeripheralClocks,
              {DCI_CLK_CTRL, SMC_CLK_CTRL, SDIO_CLK_CTRL, UART_CLK_CTRL, PCAP_CLK_CTRL},
              ClockGoals \ {Set(APER_CLK_CTRL, [uart1 |-> 1, smc |-> 1])})
  /\ Achieves(BusClocks, {APER_CLK_CTRL}, {Set(APER_CLK_CTRL, [uart1 |-> 1, smc |-> 1])})
<1>1. PICK dci, smc, sdio, uart, pcap, aper :
        /\ dci = Set(DCI_CLK_CTRL, ActiveClock("ddr", 15, 7))
        /\ smc = Set(SMC_CLK_CTRL, ActiveClock("io", 12, 1))
        /\ sdio = Set(SDIO_CLK_CTRL, ActiveClock("io", 60, 1))
        /\ uart = Set(UART_CLK_CTRL, ActiveClock("io", 12, 1))
        /\ pcap = Set(PCAP_CLK_CTRL, ActiveClock("io", 6, 1))
        /\ aper = Set(APER_CLK_CTRL, [uart1 |-> 1, smc |-> 1])
  OBVIOUS
<1>2. /\ ActiveClock("ddr", 15, 7) \in Bits /\ ActiveClock("io", 12, 1) \in Bits
      /\ ActiveClock("io", 60, 1) \in Bits /\ ActiveClock("io", 6, 1) \in Bits
      /\ [uart1 |-> 1, smc |-> 1] \in Bits
  BY DEF ActiveClock, Bits, Plls
<1>3. \A x \in {dci, smc, sdio, uart, pcap, aper} :
         x \in Instructions /\ x.reg \in Tracked /\ x # LockKey /\ Guard(x) = x.reg
  BY <1>1, <1>2, SetIs DEF ClockControls
<1>4. /\ dci.reg = DCI_CLK_CTRL /\ smc.reg = SMC_CLK_CTRL /\ sdio.reg = SDIO_CLK_CTRL
      /\ uart.reg = UART_CLK_CTRL /\ pcap.reg = PCAP_CLK_CTRL /\ aper.reg = APER_CLK_CTRL
  BY <1>1 DEF Set
<1>5. /\ smc.reg \notin {dci.reg} /\ sdio.reg \notin {dci.reg, smc.reg}
      /\ uart.reg \notin {dci.reg, smc.reg, sdio.reg}
      /\ pcap.reg \notin {dci.reg, smc.reg, sdio.reg, uart.reg}
  BY <1>4 DEF DCI_CLK_CTRL, SMC_CLK_CTRL, SDIO_CLK_CTRL, UART_CLK_CTRL, PCAP_CLK_CTRL, SLCR
<1>6. GigabitClocks \in Seq(To({})) /\ Configure("slcr", <<\h1C4>>) \in Seq(To({}))
  BY ClocksAre, PiecesTouch
<1>7. PICK s1 : s1 = <<dci>> \o GigabitClocks
  OBVIOUS
<1>8. Achieves(s1, {dci.reg}, {dci})
  BY <1>3, <1>6, <1>7, AchievesOne, AchievesStill, ZenonT(40)
<1>9. PICK s2 : s2 = s1 \o <<smc>>
  OBVIOUS
<1>10. Achieves(s2, {dci.reg, smc.reg}, {dci, smc})
  BY <1>3, <1>5, <1>8, <1>9, AchievesNext
<1>11. PICK s3 : s3 = s2 \o <<sdio>>
  OBVIOUS
<1>12. Achieves(s3, {dci.reg, smc.reg, sdio.reg}, {dci, smc, sdio})
  BY <1>3, <1>5, <1>10, <1>11, AchievesNext
<1>13. PICK s4 : s4 = s3 \o <<uart>>
  OBVIOUS
<1>14. Achieves(s4, {dci.reg, smc.reg, sdio.reg, uart.reg}, {dci, smc, sdio, uart})
  BY <1>3, <1>5, <1>12, <1>13, AchievesNext
<1>15. PICK s5 : s5 = s4 \o <<pcap>>
  OBVIOUS
<1>16. Achieves(s5, {dci.reg, smc.reg, sdio.reg, uart.reg, pcap.reg}, {dci, smc, sdio, uart, pcap})
  BY <1>3, <1>5, <1>14, <1>15, AchievesNext
<1>17. PeripheralClocks = s5
  <2>1. /\ EMIT_MASKWRITE(DCI_CLK_CTRL, ActiveClock("ddr", 15, 7)) = <<dci>>
        /\ EMIT_MASKWRITE(SMC_CLK_CTRL, ActiveClock("io", 12, 1)) = <<smc>>
        /\ EMIT_MASKWRITE(SDIO_CLK_CTRL, ActiveClock("io", 60, 1)) = <<sdio>>
        /\ EMIT_MASKWRITE(UART_CLK_CTRL, ActiveClock("io", 12, 1)) = <<uart>>
        /\ EMIT_MASKWRITE(PCAP_CLK_CTRL, ActiveClock("io", 6, 1)) = <<pcap>>
    BY <1>1, Emits, Zenon
  <2> QED
    BY <2>1, <1>7, <1>9, <1>11, <1>13, <1>15, Zenon DEF PeripheralClocks
<1>18. ClockGoals \ {aper} \subseteq {dci, smc, sdio, uart, pcap}
  BY <1>1, Zenon DEF ClockGoals
<1>19. Achieves(PeripheralClocks,
                        {dci.reg, smc.reg, sdio.reg, uart.reg, pcap.reg}, ClockGoals \ {aper})
  BY <1>16, <1>17, <1>18, AchievesLess
<1>20. Achieves(BusClocks, {aper.reg}, {aper})
  <2>1. BusClocks = Configure("slcr", <<\h1C4>>) \o <<aper>>
    BY <1>1, Emits, Zenon DEF BusClocks
  <2>2. Achieves(Configure("slcr", <<\h1C4>>), {}, {})
    BY <1>6 DEF Achieves
  <2>3. Achieves(Configure("slcr", <<\h1C4>>) \o <<aper>>, {} \cup {aper.reg}, {} \cup {aper})
    BY <2>2, <1>3, AchievesNext
  <2>4. {} \cup {aper.reg} = {aper.reg} /\ {} \cup {aper} = {aper}
    OBVIOUS
  <2> QED
    BY <2>1, <2>3, <2>4, Zenon
<1> QED
  BY <1>1, <1>4, <1>19, <1>20, Zenon

\* One instruction more, that leaves what is there.
LEMMA LastsOn ==
  ASSUME NEW S, NEW s \in Seq(S), NEW g, Lasts(s, g), NEW x \in S, Leaves(x, g)
  PROVE  s \o <<x>> \in Seq(S) /\ Lasts(s \o <<x>>, g)
<1>1. PICK t : t = <<x>>
  OBVIOUS
<1>2. t \in Seq(S) /\ DOMAIN t = {1} /\ t[1] = x
  BY <1>1
<1>3. s \o t \in Seq(S)
  BY <1>2
<1>4. Lasts(s \o t, g)
  <2>1. \A i \in DOMAIN t : Leaves(t[i], g)
    BY <1>2
  <2> QED
    BY <1>2, <2>1, LastsBefore
<1> QED
  BY <1>1, <1>3, <1>4, Zenon

\* The steps that bring up a PLL keep its feedback divisor and end with the bypass off.
LEMMA BringUpAchieves ==
  ASSUME NEW p \in Plls, NEW n \in Nat
  PROVE  Achieves(BringUpPll(p, n), {PLL_CTRL[p], PLL_STATUS},
                  {Set(PLL_CTRL[p], [bypass |-> 0]), Set(PLL_CTRL[p], [fdiv |-> n])})
<1>1. PICK R : R = {PLL_CTRL[p], PLL_STATUS}
  OBVIOUS
<1>2. PICK config, fdiv : config = Set(PLL_CFG[p], NoBits) /\ fdiv = Set(PLL_CTRL[p], [fdiv |-> n])
  OBVIOUS
<1>3. /\ config \in To(R) /\ fdiv \in To(R) /\ BypassOn(p) \in To(R) /\ ResetOn(p) \in To(R)
      /\ ResetOff(p) \in To(R) /\ AwaitsLock(p) \in To(R) /\ BypassOff(p) \in To(R)
  <2>2. config \in To({})
    <3>1. <<config>> \in Seq(RestWrites)
      BY <1>2 DEF RestWrites, RestOffsets, WritesTo, PlainOffsets, Bits, PLL_CFG, Plls, SLCR, Set
    <3>2. <<config>> \in Seq(To({}))
      BY <3>1, PiecesTouch
    <3> QED
      BY <3>2
  <2>3. config \in To(R)
    BY <2>2 DEF To
  <2>4. \A x \in PllSteps : x \in Instructions
    BY DEF Instructions, NoKeys
  <2>5. /\ fdiv \in PllSteps /\ BypassOn(p) \in PllSteps /\ ResetOn(p) \in PllSteps
        /\ ResetOff(p) \in PllSteps /\ AwaitsLock(p) \in PllSteps /\ BypassOff(p) \in PllSteps
    BY <1>2 DEF PllSteps, PllWrites, PllBits, BypassOn, ResetOn, ResetOff, BypassOff, Set
  <2>6. /\ fdiv.reg \in R /\ BypassOn(p).reg \in R /\ ResetOn(p).reg \in R
        /\ ResetOff(p).reg \in R /\ AwaitsLock(p).reg \in R /\ BypassOff(p).reg \in R
    BY <1>1, <1>2 DEF BypassOn, ResetOn, ResetOff, BypassOff, AwaitsLock, Set
  <2> QED
    BY <2>3, <2>4, <2>5, <2>6 DEF To
<1>4. /\ Leaves(BypassOn(p), fdiv) /\ Leaves(ResetOn(p), fdiv) /\ Leaves(ResetOff(p), fdiv)
      /\ Leaves(AwaitsLock(p), fdiv) /\ Leaves(BypassOff(p), fdiv)
  <2>1. fdiv # LockKey /\ DOMAIN fdiv.bits = {"fdiv"}
    BY <1>2 DEF LockKey, Set
  <2>2. ~IsWrite(AwaitsLock(p))
    BY DEF AwaitsLock, IsWrite
  <2>3. /\ "fdiv" \notin DOMAIN BypassOn(p).bits /\ "fdiv" \notin DOMAIN ResetOn(p).bits
        /\ "fdiv" \notin DOMAIN ResetOff(p).bits /\ "fdiv" \notin DOMAIN BypassOff(p).bits
    BY DEF BypassOn, ResetOn, ResetOff, BypassOff
  <2> QED
    BY <2>1, <2>2, <2>3 DEF Leaves
<1>5. PICK s2 : s2 = <<config>> \o <<fdiv>>
  OBVIOUS
<1>6. s2 \in Seq(To(R)) /\ Lasts(s2, fdiv)
  <2>1. s2 \in Seq(To(R)) /\ s2 # <<>> /\ s2[Len(s2)] = fdiv
    BY <1>3, <1>5
  <2> QED
    BY <2>1, LastLasts
<1>7. PICK s3 : s3 = s2 \o <<BypassOn(p)>>
  OBVIOUS
<1>8. s3 \in Seq(To(R)) /\ Lasts(s3, fdiv)
  BY <1>3, <1>4, <1>6, <1>7, LastsOn
<1>9. PICK s4 : s4 = s3 \o <<ResetOn(p)>>
  OBVIOUS
<1>10. s4 \in Seq(To(R)) /\ Lasts(s4, fdiv)
  BY <1>3, <1>4, <1>8, <1>9, LastsOn
<1>11. PICK s5 : s5 = s4 \o <<ResetOff(p)>>
  OBVIOUS
<1>12. s5 \in Seq(To(R)) /\ Lasts(s5, fdiv)
  BY <1>3, <1>4, <1>10, <1>11, LastsOn
<1>13. PICK s6 : s6 = s5 \o <<AwaitsLock(p)>>
  OBVIOUS
<1>14. s6 \in Seq(To(R)) /\ Lasts(s6, fdiv)
  BY <1>3, <1>4, <1>12, <1>13, LastsOn
<1>15. PICK s7 : s7 = s6 \o <<BypassOff(p)>>
  OBVIOUS
<1>16. s7 \in Seq(To(R)) /\ Lasts(s7, fdiv)
  BY <1>3, <1>4, <1>14, <1>15, LastsOn
<1>17. Lasts(s7, BypassOff(p))
  <2>1. s7 # <<>> /\ s7[Len(s7)] = BypassOff(p)
    BY <1>3, <1>14, <1>15
  <2> QED
    BY <2>1, <1>16, LastLasts
<1>18. BringUpPll(p, n) = s7
  <2>1. /\ EMIT_MASKWRITE(PLL_CFG[p], NoBits) = <<config>>
        /\ EMIT_MASKWRITE(PLL_CTRL[p], [fdiv |-> n]) = <<fdiv>>
    BY <1>2, Emits, Zenon
  <2>2. /\ EMIT_MASKWRITE(PLL_CTRL[p], [bypass |-> 1]) = <<BypassOn(p)>>
        /\ EMIT_MASKWRITE(PLL_CTRL[p], [reset |-> 1]) = <<ResetOn(p)>>
        /\ EMIT_MASKWRITE(PLL_CTRL[p], [reset |-> 0]) = <<ResetOff(p)>>
        /\ EMIT_MASKPOLL(PLL_STATUS, p) = <<AwaitsLock(p)>>
        /\ EMIT_MASKWRITE(PLL_CTRL[p], [bypass |-> 0]) = <<BypassOff(p)>>
    BY Zenon DEF EMIT_MASKWRITE, EMIT_MASKPOLL, BypassOn, ResetOn, ResetOff, AwaitsLock, BypassOff
  <2> QED
    BY <2>1, <2>2, <1>5, <1>7, <1>9, <1>11, <1>13, <1>15, Zenon DEF BringUpPll
<1>19. /\ BypassOff(p) = Set(PLL_CTRL[p], [bypass |-> 0])
       /\ Guard(BypassOff(p)) = PLL_CTRL[p] /\ Guard(fdiv) = PLL_CTRL[p]
       /\ PLL_CTRL[p] \in Tracked \cap R
  BY <1>1, <1>2 DEF BypassOff, Set, Guard, LockKey, Tracked, Control
<1>20. Achieves(s7, R, {BypassOff(p), fdiv})
  BY <1>16, <1>17, <1>19 DEF Achieves
<1> QED
  BY <1>1, <1>2, <1>18, <1>19, <1>20, Zenon

\* So the PLLs come up, and what is said later of one does not concern the others.
LEMMA PllsAchieve == Achieves(PllSection, Own.pll, PllGoals)
<1>1. "arm" \in Plls /\ "ddr" \in Plls /\ "io" \in Plls /\ 40 \in Nat /\ 32 \in Nat /\ 36 \in Nat
  BY DEF Plls
<1>2. PICK a, b, c : a = PLL_CTRL["arm"] /\ b = PLL_CTRL["ddr"] /\ c = PLL_CTRL["io"]
  OBVIOUS
<1>3. PICK A, B, C :
        /\ A = {Set(a, [bypass |-> 0]), Set(a, [fdiv |-> 40])}
        /\ B = {Set(b, [bypass |-> 0]), Set(b, [fdiv |-> 32])}
        /\ C = {Set(c, [bypass |-> 0]), Set(c, [fdiv |-> 36])}
  OBVIOUS
<1>4. /\ Achieves(BringUpPll("arm", 40), {a, PLL_STATUS}, A)
      /\ Achieves(BringUpPll("ddr", 32), {b, PLL_STATUS}, B)
      /\ Achieves(BringUpPll("io", 36), {c, PLL_STATUS}, C)
  BY <1>1, <1>2, <1>3, BringUpAchieves, Zenon
<1>5. PICK x, y : /\ x = Set(ARM_CLK_CTRL, Clock("arm", 2, 1))
                  /\ y = Set(DDR_CLK_CTRL, ActiveClock("ddr", 2, 1))
  OBVIOUS
<1>6. /\ x \in Instructions /\ x.reg = ARM_CLK_CTRL /\ x.reg \in Tracked /\ x # LockKey
      /\ y \in Instructions /\ y.reg = DDR_CLK_CTRL /\ y.reg \in Tracked /\ y # LockKey
      /\ Guard(x) = ARM_CLK_CTRL
  <2>1. Clock("arm", 2, 1) \in Bits /\ ActiveClock("ddr", 2, 1) \in Bits
    BY DEF Clock, ActiveClock, Bits, Plls
  <2> QED
    BY <1>5, <2>1, SetIs DEF ClockControls
<1>7. /\ a = <<"slcr", \h100>> /\ b = <<"slcr", \h104>> /\ c = <<"slcr", \h108>>
      /\ PLL_STATUS = <<"slcr", \h10C>> /\ x.reg = <<"slcr", \h120>> /\ y.reg = <<"slcr", \h124>>
  BY <1>2, <1>6 DEF PLL_CTRL, PLL_STATUS, ARM_CLK_CTRL, DDR_CLK_CTRL, SLCR
<1>8. /\ x.reg \notin {a, PLL_STATUS} /\ y.reg \notin {b, PLL_STATUS}
      /\ a \notin {b, PLL_STATUS, y.reg} /\ x.reg \notin {b, PLL_STATUS, y.reg}
      /\ a \notin {c, PLL_STATUS} /\ x.reg \notin {c, PLL_STATUS}
      /\ b \notin {c, PLL_STATUS} /\ y.reg \notin {c, PLL_STATUS}
  BY <1>7
<1>9. /\ \A g \in A : Guard(g) = a
      /\ \A g \in B : Guard(g) = b
      /\ Guard(y) = y.reg
  BY <1>3, <1>6 DEF Guard, Set, LockKey
<1>10. PICK s, t, u : s = ArmPll /\ t = DdrPll /\ u = IoPll
  OBVIOUS
<1>11. s = BringUpPll("arm", 40) \o <<x>> /\ t = BringUpPll("ddr", 32) \o <<y>>
          /\ u = BringUpPll("io", 36)
  BY <1>5, <1>10, Emits, Zenon DEF ArmPll, DdrPll, IoPll
<1>12. Achieves(s, {a, PLL_STATUS} \cup {x.reg}, A \cup {x})
  BY <1>4, <1>6, <1>8, <1>11, AchievesNext
<1>13. Achieves(t, {b, PLL_STATUS} \cup {y.reg}, B \cup {y})
  BY <1>4, <1>6, <1>8, <1>11, AchievesNext
<1>14. Achieves(u, {c, PLL_STATUS}, C)
  BY <1>4, <1>11
<1>15. Achieves(Unlock \o s, {SLCR_UNLOCK} \cup ({a, PLL_STATUS} \cup {x.reg}), A \cup {x})
  BY <1>12, UnlockFirst
<1>16. PICK v : v = Unlock \o s \o t
  OBVIOUS
<1>17. Achieves(v, ({SLCR_UNLOCK} \cup ({a, PLL_STATUS} \cup {x.reg}))
                      \cup ({b, PLL_STATUS} \cup {y.reg}),
                (A \cup {x}) \cup (B \cup {y}))
  <2>1. \A g \in A \cup {x} : Guard(g) \notin {b, PLL_STATUS} \cup {y.reg}
    BY <1>6, <1>8, <1>9
  <2> QED
    BY <2>1, <1>13, <1>15, <1>16, AchievesBoth
<1>18. PICK R, G :
         /\ R = ({SLCR_UNLOCK} \cup ({a, PLL_STATUS} \cup {x.reg}))
                  \cup ({b, PLL_STATUS} \cup {y.reg})
                   /\ G = (A \cup {x}) \cup (B \cup {y})
  OBVIOUS
<1>19. Achieves(v \o u, R \cup {c, PLL_STATUS}, G \cup C)
  <2>1. \A g \in G : Guard(g) \notin {c, PLL_STATUS}
    BY <1>6, <1>8, <1>9, <1>18
  <2> QED
    BY <2>1, <1>14, <1>17, <1>18, AchievesBoth
<1>20. Achieves(v \o u \o Lock \o EMIT_EXIT, R \cup {c, PLL_STATUS}, G \cup C)
  BY <1>19, LockLast
<1>21. R \cup {c, PLL_STATUS} \subseteq Own.pll
  BY <1>2, <1>6, <1>18, <1>1 DEF Own
<1>22. PllGoals \subseteq G \cup C
  BY <1>2, <1>3, <1>5, <1>18 DEF PllGoals, Plls
<1>23. PllSection = v \o u \o Lock \o EMIT_EXIT
  BY <1>10, <1>16, Zenon DEF PllSection
<1> QED
  BY <1>20, <1>21, <1>22, <1>23, AchievesLess

\* The clocks of the PL.
LEMMA PlClocksAchieve ==
  /\ Achieves(PlClocks, {FPGA0_CLK_CTRL, FPGA1_CLK_CTRL},
              {Set(FPGA0_CLK_CTRL, Clock("io", 4, 3)), Set(FPGA1_CLK_CTRL, Clock("io", 8, 6))})
  /\ Achieves(PlClocksUboot, {FPGA0_CLK_CTRL, FPGA1_CLK_CTRL},
              {Set(FPGA0_CLK_CTRL, Clock("io", 8, 6))})
<1>1. PICK a, b, c : /\ a = Set(FPGA0_CLK_CTRL, Clock("io", 4, 3))
                     /\ b = Set(FPGA1_CLK_CTRL, Clock("io", 8, 6))
                     /\ c = Set(FPGA0_CLK_CTRL, Clock("io", 8, 6))
  OBVIOUS
<1>2. Clock("io", 4, 3) \in Bits /\ Clock("io", 8, 6) \in Bits
  BY DEF Clock, Bits, Plls
<1>3. /\ a \in Instructions /\ a.reg = FPGA0_CLK_CTRL /\ a.reg \in Tracked /\ Guard(a) = a.reg
      /\ b \in Instructions /\ b.reg = FPGA1_CLK_CTRL /\ b.reg \in Tracked /\ b # LockKey
      /\ c \in Instructions /\ c.reg = FPGA0_CLK_CTRL /\ c.reg \in Tracked /\ Guard(c) = c.reg
  BY <1>1, <1>2, SetIs DEF ClockControls
<1>4. b.reg \notin {a.reg}
  BY <1>3 DEF FPGA0_CLK_CTRL, FPGA1_CLK_CTRL, SLCR
<1>5. Achieves(<<a>>, {a.reg}, {a}) /\ Achieves(<<c>>, {c.reg}, {c})
  BY <1>3, AchievesOne
<1>6. Achieves(<<a>> \o <<b>>, {a.reg} \cup {b.reg}, {a} \cup {b})
  BY <1>3, <1>4, <1>5, AchievesNext
<1>7. Achieves(<<a>> \o <<b>>, {a.reg, b.reg}, {a, b}) /\ Achieves(<<c>>, {a.reg, b.reg}, {c})
  BY <1>3, <1>5, <1>6, AchievesLess
<1>8. PlClocks = <<a>> \o <<b>> /\ PlClocksUboot = <<c>>
  BY <1>1, Emits, Zenon DEF PlClocks, PlClocksUboot
<1> QED
  BY <1>1, <1>3, <1>7, <1>8, Zenon

\* The clocks.
LEMMA ClocksAchieve ==
  ASSUME NEW c, NEW G, Achieves(c, {FPGA0_CLK_CTRL, FPGA1_CLK_CTRL}, G)
  PROVE  Achieves(ClockSection(c), Own.clock, ClockGoals \cup G)
<1>1. PICK aper, P, Q, F :
        /\ aper = Set(APER_CLK_CTRL, [uart1 |-> 1, smc |-> 1])
        /\ P = {DCI_CLK_CTRL, SMC_CLK_CTRL, SDIO_CLK_CTRL, UART_CLK_CTRL, PCAP_CLK_CTRL}
        /\ Q = ClockGoals \ {aper} /\ F = {FPGA0_CLK_CTRL, FPGA1_CLK_CTRL}
  OBVIOUS
<1>2. Achieves(PeripheralClocks, P, Q) /\ Achieves(BusClocks, {APER_CLK_CTRL}, {aper})
  BY <1>1, PeripheralClocksAchieve, Zenon
<1>3. \A r \in F : r \notin {SLCR_UNLOCK} \cup P
  BY <1>1 DEF FPGA0_CLK_CTRL, FPGA1_CLK_CTRL, DCI_CLK_CTRL, SMC_CLK_CTRL, SDIO_CLK_CTRL,
              UART_CLK_CTRL, PCAP_CLK_CTRL, SLCR_UNLOCK, SLCR
<1>4. APER_CLK_CTRL \notin ({SLCR_UNLOCK} \cup P) \cup F
  BY <1>1 DEF FPGA0_CLK_CTRL, FPGA1_CLK_CTRL, DCI_CLK_CTRL, SMC_CLK_CTRL, SDIO_CLK_CTRL,
              UART_CLK_CTRL, PCAP_CLK_CTRL, SLCR_UNLOCK, APER_CLK_CTRL, SLCR
<1>5. Achieves(Unlock \o PeripheralClocks, {SLCR_UNLOCK} \cup P, Q)
  BY <1>2, UnlockFirst
<1>6. PICK s, R : s = Unlock \o PeripheralClocks /\ R = {SLCR_UNLOCK} \cup P
  OBVIOUS
<1>7. Achieves(s \o c, R \cup F, Q \cup G)
  <2>1. \A g \in Q : Guard(g) \notin F
    BY <1>3, <1>5, <1>6 DEF Achieves
  <2> QED
    BY <2>1, <1>1, <1>5, <1>6, AchievesBoth
<1>8. Achieves(s \o c \o BusClocks, (R \cup F) \cup {APER_CLK_CTRL}, (Q \cup G) \cup {aper})
  <2>1. \A g \in Q \cup G : Guard(g) \notin {APER_CLK_CTRL}
    BY <1>4, <1>6, <1>7 DEF Achieves
  <2> QED
    BY <2>1, <1>2, <1>7, AchievesBoth
<1>9. Achieves(s \o c \o BusClocks \o Lock \o EMIT_EXIT, (R \cup F) \cup {APER_CLK_CTRL},
               (Q \cup G) \cup {aper})
  BY <1>8, LockLast
<1>10. (R \cup F) \cup {APER_CLK_CTRL} \subseteq Own.clock
  BY <1>1, <1>6 DEF Own
<1>11. ClockGoals \cup G \subseteq (Q \cup G) \cup {aper}
  BY <1>1
<1>12. ClockSection(c) = s \o c \o BusClocks \o Lock \o EMIT_EXIT
  BY <1>6, Zenon DEF ClockSection
<1> QED
  BY <1>9, <1>10, <1>11, <1>12, AchievesLess

\* The calibration, which resets first.
LEMMA MioAchieves == Achieves(MioSection, Own.mio, {Calibrate})
<1>1. PICK a, b : /\ a = Set(DDRIOB_DCI_CTRL, [reset |-> 1])
                  /\ b = Set(DDRIOB_DCI_CTRL, [reset |-> 0])
  OBVIOUS
<1>2. /\ [reset |-> 1] \in Bits /\ [reset |-> 0] \in Bits /\ [reset |-> 1, enable |-> 1] \in Bits
  BY DEF Bits
<1>3. PICK D : D = {DDRIOB_DCI_CTRL}
  OBVIOUS
<1>4. /\ a \in Instructions /\ a.reg \in D /\ b \in Instructions /\ b.reg \in D
      /\ Calibrate \in Instructions /\ Calibrate.reg \in D /\ Guard(Calibrate) \in Tracked \cap D
  BY <1>1, <1>2, <1>3, SetIs DEF Calibrate
<1>5. PICK A, B, C : A = <<a>> /\ B = <<b>> /\ C = <<Calibrate>>
  OBVIOUS
<1>6. Achieves(A, D, {}) /\ Achieves(B, D, {}) /\ Achieves(C, D, {Calibrate})
  BY <1>4, <1>5, AchievesOne
<1>7. Achieves(A \o B, D \cup D, {} \cup {})
  BY <1>6, AchievesBoth
<1>8. Achieves(A \o B, D, {})
  BY <1>7, AchievesLess
<1>9. Achieves(A \o B \o C, D \cup D, {} \cup {Calibrate})
  BY <1>6, <1>8, AchievesBoth
<1>10. Achieves(A \o B \o C, D, {Calibrate})
  BY <1>9, AchievesLess
<1>11. DdrIoCalibration = A \o B \o C
  BY <1>1, <1>5, Emits, Zenon DEF DdrIoCalibration, Calibrate
<1>12. /\ DdrIoBuffers \in Seq(To({})) /\ DdrIoBuffersDqs \in Seq(To({}))
       /\ DdrIoDrive \in Seq(To({})) /\ MioPins \in Seq(To({}))
  BY MioIs, PiecesTouch
<1>13. PICK s : s = Unlock \o DdrIoBuffers \o DdrIoBuffersDqs \o DdrIoDrive
  OBVIOUS
<1>14. Achieves(s, {SLCR_UNLOCK}, {})
  <2>1. Achieves(Unlock, {SLCR_UNLOCK}, {})
    BY PiecesTouch DEF Achieves
  <2> QED
    BY <2>1, <1>12, <1>13, AchievesStill
<1>15. Achieves(s \o DdrIoCalibration, {SLCR_UNLOCK} \cup D, {} \cup {Calibrate})
  BY <1>10, <1>11, <1>14, AchievesBoth
<1>16. Achieves(s \o DdrIoCalibration \o MioPins, {SLCR_UNLOCK} \cup D, {} \cup {Calibrate})
  BY <1>12, <1>15, AchievesStill
<1>17. Achieves(s \o DdrIoCalibration \o MioPins \o Lock \o EMIT_EXIT, {SLCR_UNLOCK} \cup D,
                {} \cup {Calibrate})
  BY <1>16, LockLast
<1>18. {SLCR_UNLOCK} \cup D \subseteq Own.mio
  BY <1>3 DEF Own
<1>19. MioSection = s \o DdrIoCalibration \o MioPins \o Lock \o EMIT_EXIT
  BY <1>13, Zenon DEF MioSection
<1> QED
  BY <1>17, <1>18, <1>19, AchievesLess

\* The baud rate; the termination is set first, and the SLCR protected before the UART is set up.
LEMMA PeripheralsAchieve == Achieves(PeripheralSection, Own.peripherals, BaudGoals \cup {LockKey})
<1>1. PICK a, b, c, d : /\ a = Set(UART_BAUD_DIV, [bdiv |-> 6])
                        /\ b = Set(UART_BAUD_GEN, [cd |-> 124])
                        /\ c = Set(UART_CONTROL, NoBits) /\ d = Set(UART1(\h004), NoBits)
  OBVIOUS
<1>2. [bdiv |-> 6] \in Bits /\ [cd |-> 124] \in Bits /\ NoBits \in Bits
  BY DEF Bits
<1>3. /\ a \in Instructions /\ a.reg = UART_BAUD_DIV /\ a.reg \in Tracked /\ Guard(a) = a.reg
      /\ b \in Instructions /\ b.reg = UART_BAUD_GEN /\ b.reg \in Tracked /\ b # LockKey
  BY <1>1, <1>2, SetIs
<1>4. /\ c \in Instructions /\ c.reg = UART_CONTROL /\ c.reg \in Tracked /\ c # LockKey
      /\ d \in Instructions /\ d.reg = UART1(\h004) /\ d.reg \in Tracked /\ d # LockKey
  <2>1. c \in PeripheralWrites /\ d \in PeripheralWrites
    BY <1>1, <1>2 DEF PeripheralWrites, WritesTo, UART_CONTROL, UART1, Set
  <2>2. PeripheralWrites \subseteq Instructions
    BY DEF PeripheralWrites, WritesTo, Instructions, NoKeys, Plain, Unprotected, OtherWrites,
           Blocks,
           DDRC_MODE_STS, DDRC
  <2>3. c.reg \in Tracked /\ d.reg \in Tracked
    BY <1>1 DEF Tracked, UART_CONTROL, UART1, Set
  <2> QED
    BY <1>1, <2>1, <2>2, <2>3 DEF Set, LockKey
<1>5. /\ b.reg \notin {a.reg} /\ c.reg \notin {a.reg, b.reg} /\ d.reg \notin {a.reg, b.reg, c.reg}
  BY <1>3, <1>4 DEF UART_BAUD_DIV, UART_BAUD_GEN, UART_CONTROL, UART1
<1>6. PICK s1 : s1 = <<a>>
  OBVIOUS
<1>7. PICK s2 : s2 = s1 \o <<b>>
  OBVIOUS
<1>8. PICK s3 : s3 = s2 \o <<c>>
  OBVIOUS
<1>9. Achieves(s1, {a.reg}, {a})
  BY <1>3, <1>6, AchievesOne
<1>10. Achieves(s2, {a.reg, b.reg}, {a, b})
  BY <1>3, <1>5, <1>7, <1>9, AchievesNext
<1>11. Achieves(s3, {a.reg, b.reg, c.reg}, {a, b, c})
  BY <1>4, <1>5, <1>8, <1>10, AchievesNext
<1>12. Achieves(s3 \o <<d>>, {a.reg, b.reg, c.reg, d.reg}, {a, b, c, d})
  BY <1>4, <1>5, <1>11, AchievesNext
<1>13. UartSetUp = s3 \o <<d>>
  BY <1>1, <1>6, <1>7, <1>8, Emits, Zenon DEF UartSetUp
<1>14. Achieves(UartSetUp, {"uart1"} \X Nat, {a, b})
  <2>1. {a.reg, b.reg, c.reg, d.reg} \subseteq {"uart1"} \X Nat
    <3>1. /\ a.reg = <<"uart1", \h034>> /\ b.reg = <<"uart1", \h018>>
          /\ c.reg = <<"uart1", \h000>> /\ d.reg = <<"uart1", \h004>>
      BY <1>1 DEF UART_BAUD_DIV, UART_BAUD_GEN, UART_CONTROL, UART1, Set
    <3>2. \A r \in {a.reg, b.reg, c.reg, d.reg} : r \in {"uart1"} \X Nat
      BY <3>1
    <3> QED
      BY <3>2
  <2>2. {a, b} \subseteq {a, b, c, d}
    OBVIOUS
  <2>3. PICK R, G : R = {a.reg, b.reg, c.reg, d.reg} /\ G = {a, b, c, d}
    OBVIOUS
  <2>4. Achieves(UartSetUp, R, G)
    BY <1>12, <1>13, <2>3, Zenon
  <2> QED
    BY <2>1, <2>2, <2>3, <2>4, AchievesLess
<1>15. PICK s : s = Unlock \o DdrTermination
  OBVIOUS
<1>16. Achieves(s, {SLCR_UNLOCK}, {})
  <2>1. Achieves(Unlock, {SLCR_UNLOCK}, {}) /\ DdrTermination \in Seq(To({}))
    BY PiecesTouch, PeripheralsAre DEF Achieves
  <2> QED
    BY <2>1, <1>15, AchievesStill
<1>17. PICK t : t = s \o Lock
  OBVIOUS
<1>18. Achieves(t, {SLCR_UNLOCK}, {LockKey})
  <2>1. Achieves(t, {SLCR_UNLOCK}, {} \cup {LockKey})
    BY <1>16, <1>17, LockLast
  <2> QED
    BY <2>1, AchievesLess
<1>19. \A g \in {LockKey} : Guard(g) \notin {"uart1"} \X Nat
  <2>1. Guard(LockKey) = <<"slcr", \h008>>
    BY ControlIs DEF Guard
  <2>2. <<"slcr", \h008>> \notin {"uart1"} \X Nat
    OBVIOUS
  <2> QED
    BY <2>1, <2>2
<1>20. PICK U, W : U = {"uart1"} \X Nat /\ W = {"smc"} \X Nat
  OBVIOUS
<1>21. Achieves(t \o UartSetUp, {SLCR_UNLOCK} \cup U, {LockKey} \cup {a, b})
  BY <1>14, <1>18, <1>19, <1>20, AchievesBoth
<1>22. QspiAndPcapSetUp \in Seq(To({}))
  BY PeripheralsAre, PiecesTouch
<1>23. Achieves(t \o UartSetUp \o QspiAndPcapSetUp, {SLCR_UNLOCK} \cup U, {LockKey} \cup {a, b})
  BY <1>21, <1>22, AchievesStill
<1>24. Achieves(SmcSetUp, W, {})
  <2>1. \A x \in PeripheralWrites : x \in Instructions
    BY DEF PeripheralWrites, WritesTo, Instructions, NoKeys, Plain, Unprotected, OtherWrites,
           Blocks,
           DDRC_MODE_STS, DDRC
  <2>2. WritesTo(W) \subseteq To(W)
    BY <1>20, <2>1 DEF PeripheralWrites, WritesTo, To
  <2>3. SmcSetUp \in Seq(WritesTo(W))
    BY <1>20 DEF SmcSetUp, EMIT_MASKWRITE, EMIT_WRITE, SMC, WritesTo, Bits
  <2>4. SmcSetUp \in Seq(To(W))
    BY <2>2, <2>3
  <2> QED
    BY <2>4 DEF Achieves
<1>25. \A g \in {LockKey} \cup {a, b} : Guard(g) \notin W
  <2>1. Guard(LockKey) = <<"slcr", \h008>>
    BY ControlIs DEF Guard
  <2>2. /\ Guard(a) = <<"uart1", \h034>> /\ Guard(b) = <<"uart1", \h018>>
    BY <1>3 DEF Guard, UART_BAUD_DIV, UART_BAUD_GEN, UART1
  <2>3. /\ <<"slcr", \h008>> \notin W /\ <<"uart1", \h034>> \notin W /\ <<"uart1", \h018>> \notin W
    BY <1>20
  <2> QED
    BY <2>1, <2>2, <2>3
<1>26. PICK v : v = t \o UartSetUp \o QspiAndPcapSetUp
  OBVIOUS
<1>27. Achieves(v \o SmcSetUp, ({SLCR_UNLOCK} \cup U) \cup W, ({LockKey} \cup {a, b}) \cup {})
  BY <1>23, <1>24, <1>25, <1>26, AchievesBoth
<1>28. Achieves(v \o SmcSetUp \o EMIT_EXIT, ({SLCR_UNLOCK} \cup U) \cup W,
                ({LockKey} \cup {a, b}) \cup {})
  BY <1>27, LockLast
<1>29. PeripheralSection = v \o SmcSetUp \o EMIT_EXIT
  BY <1>15, <1>17, <1>26, Zenon DEF PeripheralSection
<1>30. ({SLCR_UNLOCK} \cup U) \cup W \subseteq Own.peripherals
  <2>1. PICK O : O = Own.peripherals
    OBVIOUS
  <2>2. O = {SLCR_UNLOCK} \cup {"uart1", "smc"} \X Nat
    BY <2>1 DEF Own
  <2> QED
    BY <1>20, <2>1, <2>2
<1>31. BaudGoals \cup {LockKey} \subseteq ({LockKey} \cup {a, b}) \cup {}
  BY <1>1 DEF BaudGoals
<1> QED
  BY <1>28, <1>29, <1>30, <1>31, AchievesLess

\* One more instruction.
LEMMA AppendIs ==
  ASSUME NEW S, NEW s \in Seq(S), NEW x \in S
  PROVE  /\ s \o <<x>> \in Seq(S) /\ Len(s \o <<x>>) = Len(s) + 1 /\ Len(s) \in Nat
         /\ \A i \in 1 .. Len(s) : (s \o <<x>>)[i] = s[i]
         /\ (s \o <<x>>)[Len(s) + 1] = x
OBVIOUS

\* A sequence of what it consists of.
LEMMA SeqOf ==
  ASSUME NEW A, NEW s \in Seq(A), NEW B, \A i \in DOMAIN s : s[i] \in B
  PROVE  s \in Seq(B)
<1>1. PICK n \in Nat : s \in [1 .. n -> A] /\ DOMAIN s = 1 .. n
  OBVIOUS
<1>2. s \in [1 .. n -> B]
  BY <1>1
<1> QED
  BY <1>2

\* The DDR controller: how the table is put together.
LEMMA DdrIsSo ==
  ASSUME NEW timers \in Seq(DdrOffsets)
  PROVE  \E c \in Seq(DdrWrites) :
           DdrSection(timers) =
             <<Hold>> \o c \o <<AwaitsDci>> \o <<Release>> \o <<AwaitsMode>> \o EMIT_EXIT
<1>1. PICK c : c = DdrSettings(timers)
  OBVIOUS
<1>2. c \in Seq(DdrWrites)
  BY <1>1, DdrIs
<1>3. PICK a, b, d : a = <<AwaitsDci>> /\ b = <<Release>> /\ d = <<AwaitsMode>>
  OBVIOUS
<1>4. HoldDdrInReset = <<Hold>>
  BY Emits, Zenon DEF HoldDdrInReset, Hold
<1>5. /\ EMIT_MASKPOLL(DDRIOB_DCI_STATUS, "done") = a
      /\ EMIT_MASKWRITE(DDRC_CTRL, [soft_rstb |-> 1]) = b
      /\ EMIT_MASKPOLL(DDRC_MODE_STS, "operating_mode") = d
  BY <1>3, Emits, Zenon DEF EMIT_MASKPOLL, AwaitsDci, AwaitsMode, Release
<1>6. ReleaseDdr = a \o b \o d
  BY <1>5, Zenon DEF ReleaseDdr
<1>7. PICK h : h = <<Hold>> \o c
  OBVIOUS
<1>8. /\ h \in Seq(DdrWrites \cup {Hold}) /\ a \in Seq({AwaitsDci}) /\ b \in Seq({Release})
      /\ d \in Seq({AwaitsMode})
  BY <1>2, <1>3, <1>7
<1>9. PICK S : S = (DdrWrites \cup {Hold}) \cup {AwaitsDci} \cup {Release} \cup {AwaitsMode}
  OBVIOUS
<1>10. h \in Seq(S) /\ a \in Seq(S) /\ b \in Seq(S) /\ d \in Seq(S)
  BY <1>8, <1>9
<1>11. h \o (a \o b \o d) = h \o a \o b \o d
  BY <1>10
<1>12. DdrSection(timers) = h \o (a \o b \o d) \o EMIT_EXIT
  BY <1>1, <1>4, <1>6, <1>7, ZenonT(40) DEF DdrSection
<1>13. DdrSection(timers) =
         <<Hold>> \o c \o <<AwaitsDci>> \o <<Release>> \o <<AwaitsMode>> \o EMIT_EXIT
  BY <1>3, <1>7, <1>11, <1>12, Zenon
<1> QED
  BY <1>2, <1>13, Zenon

\* Its instructions one by one.
LEMMA DdrStepByStep ==
  ASSUME NEW timers \in Seq(DdrOffsets)
  PROVE  LET s == DdrSection(timers) IN
         \E n \in Nat :
           /\ Len(s) = n + 5 /\ DOMAIN s = 1 .. (n + 5)
           /\ s[1] = Hold /\ s[n + 2] = AwaitsDci /\ s[n + 3] = Release /\ s[n + 4] = AwaitsMode
           /\ s[n + 5] = [op |-> "EXIT"]
           /\ \A i \in 2 .. (n + 1) : s[i] \in DdrWrites
<1>1. PICK c \in Seq(DdrWrites) :
        DdrSection(timers) =
          <<Hold>> \o c \o <<AwaitsDci>> \o <<Release>> \o <<AwaitsMode>> \o EMIT_EXIT
  BY DdrIsSo
<1>2. PICK h, a, r, m, e :
         h = Hold /\ a = AwaitsDci /\ r = Release /\ m = AwaitsMode /\ e = [op |-> "EXIT"]
  OBVIOUS
<1>3. PICK n \in Nat : n = Len(c) /\ \A i \in 1 .. n : c[i] \in DdrWrites
  OBVIOUS
<1>4. PICK S : S = DdrWrites \cup {h, a, r, m, e}
  OBVIOUS
<1>5. c \in Seq(S) /\ h \in S /\ a \in S /\ r \in S /\ m \in S /\ e \in S
  BY <1>4
<1>6. PICK s1 : s1 = <<h>> \o c
  OBVIOUS
<1>7. /\ s1 \in Seq(S) /\ Len(s1) = n + 1 /\ s1[1] = h /\ \A i \in 2 .. (n + 1) : s1[i] = c[i - 1]
  BY <1>3, <1>5, <1>6
<1>8. PICK s2 : s2 = s1 \o <<a>>
  OBVIOUS
<1>9. /\ s2 \in Seq(S) /\ Len(s2) = n + 2 /\ \A i \in 1 .. (n + 1) : s2[i] = s1[i]
      /\ s2[n + 2] = a
  BY <1>3, <1>5, <1>7, <1>8
<1>10. PICK s3 : s3 = s2 \o <<r>>
  OBVIOUS
<1>11. /\ s3 \in Seq(S) /\ Len(s3) = n + 3 /\ \A i \in 1 .. (n + 2) : s3[i] = s2[i]
       /\ s3[n + 3] = r
  BY <1>3, <1>5, <1>9, <1>10
<1>12. PICK s4 : s4 = s3 \o <<m>>
  OBVIOUS
<1>13. /\ s4 \in Seq(S) /\ Len(s4) = n + 4 /\ \A i \in 1 .. (n + 3) : s4[i] = s3[i]
       /\ s4[n + 4] = m
  BY <1>3, <1>5, <1>11, <1>12
<1>14. PICK s : s = s4 \o <<e>>
  OBVIOUS
<1>15. /\ Len(s) = n + 5 /\ DOMAIN s = 1 .. (n + 5) /\ \A i \in 1 .. (n + 4) : s[i] = s4[i]
       /\ s[n + 5] = e
  BY <1>3, <1>5, <1>13, <1>14
<1>16. DdrSection(timers) = s
  BY <1>1, <1>2, <1>6, <1>8, <1>10, <1>12, <1>14, Zenon DEF EMIT_EXIT
<1>17. \A i \in 2 .. (n + 1) : s[i] \in DdrWrites
  BY <1>3, <1>7, <1>9, <1>11, <1>13, <1>15
<1>18. s[1] = h /\ s[n + 2] = a /\ s[n + 3] = r /\ s[n + 4] = m
  <2>1. /\ 1 \in 1 .. (n + 1) /\ 1 \in 1 .. (n + 2) /\ 1 \in 1 .. (n + 3) /\ 1 \in 1 .. (n + 4)
        /\ n + 2 \in 1 .. (n + 2) /\ n + 2 \in 1 .. (n + 3) /\ n + 2 \in 1 .. (n + 4)
        /\ n + 3 \in 1 .. (n + 3) /\ n + 3 \in 1 .. (n + 4) /\ n + 4 \in 1 .. (n + 4)
    OBVIOUS
  <2>2. s[1] = h
    BY <2>1, <1>7, <1>9, <1>11, <1>13, <1>15
  <2>3. s[n + 2] = a
    BY <2>1, <1>9, <1>11, <1>13, <1>15
  <2>4. s[n + 3] = r /\ s[n + 4] = m
    BY <2>1, <1>11, <1>13, <1>15
  <2> QED
    BY <2>2, <2>3, <2>4
<1> QED
  BY <1>2, <1>15, <1>16, <1>17, <1>18

\* What the table does: the settings are made in reset, the mode is awaited at the end, after the
\* calibration and with the reset released.
LEMMA DdrAchieves ==
  ASSUME NEW s, NEW timers \in Seq(DdrOffsets), s = DdrSection(timers)
  PROVE  /\ Achieves(s, Own.ddr, {Release})
         /\ \A i \in DOMAIN s :
              /\ IsWrite(s[i]) /\ s[i].reg # DDRC_CTRL => LastsTo(s, i, Hold)
              /\ s[i].op = "MASKPOLL" => s[i] \in {AwaitsDci, AwaitsMode}
              /\ s[i] = AwaitsMode => /\ i = Len(s) - 1 /\ LastsTo(s, i, Release)
                                      /\ \E j \in 1 .. (i - 1) : s[j] = AwaitsDci
         /\ s[Len(s) - 1] = AwaitsMode
<1>1. PICK n \in Nat :
        /\ Len(s) = n + 5 /\ DOMAIN s = 1 .. (n + 5)
        /\ s[1] = Hold /\ s[n + 2] = AwaitsDci /\ s[n + 3] = Release /\ s[n + 4] = AwaitsMode
        /\ s[n + 5] = [op |-> "EXIT"]
        /\ \A i \in 2 .. (n + 1) : s[i] \in DdrWrites
  BY DdrStepByStep
<1>2. \A i \in 1 .. (n + 5) : \/ i = 1 \/ i \in 2 .. (n + 1) \/ i = n + 2 \/ i = n + 3
                              \/ i = n + 4 \/ i = n + 5
  OBVIOUS
<1>3. /\ IsWrite(Hold) /\ Hold.reg = DDRC_CTRL /\ Hold # AwaitsMode /\ Hold # LockKey
      /\ IsWrite(Release) /\ Release.reg = DDRC_CTRL /\ Release # AwaitsMode /\ Release # LockKey
      /\ ~IsWrite(AwaitsDci) /\ AwaitsDci # AwaitsMode /\ ~IsWrite(AwaitsMode)
      /\ ~IsWrite([op |-> "EXIT"]) /\ [op |-> "EXIT"] # AwaitsMode
       /\ [op |-> "EXIT"].op # "MASKPOLL"
      /\ Hold.op # "MASKPOLL" /\ Release.op # "MASKPOLL"
  BY DEF Hold, Release, AwaitsDci, AwaitsMode, Set, IsWrite, LockKey, DDRIOB_DCI_STATUS,
         DDRC_MODE_STS, SLCR, DDRC
<1>4. \A x \in DdrWrites : x.reg # DDRC_CTRL /\ x.op # "MASKPOLL" /\ x # AwaitsMode
  BY DEF DdrWrites, WritesTo, DdrOffsets, DDRC_CTRL, DDRC, AwaitsMode
<1>5. ASSUME NEW i \in 2 .. (n + 1) PROVE LastsTo(s, i, Hold)
  <2>1. \A k \in 2 .. (i - 1) : s[k].reg # Hold.reg
    BY <1>1, <1>3, <1>4
  <2>2. \A k \in (1 + 1) .. (i - 1) : Leaves(s[k], Hold)
    BY <2>1, <1>3 DEF Leaves
  <2> QED
    BY <2>2, <1>1 DEF LastsTo
<1>6. LastsTo(s, n + 4, Release) /\ Lasts(s, Release)
  <2>1. Leaves(s[n + 4], Release) /\ Leaves(s[n + 5], Release)
    BY <1>1, <1>3 DEF Leaves
  <2>2. n + 3 \in 1 .. ((n + 4) - 1) /\ n + 3 \in 1 .. ((n + 6) - 1)
        /\ (n + 3 + 1) .. ((n + 4) - 1) = {} /\ (n + 3 + 1) .. ((n + 6) - 1) = {n + 4, n + 5}
    OBVIOUS
  <2>3. LastsTo(s, n + 4, Release)
    BY <2>2, <1>1 DEF LastsTo
  <2>4. LastsTo(s, n + 6, Release)
    BY <2>1, <2>2, <1>1 DEF LastsTo
  <2>5. Len(s) + 1 = n + 6
    BY <1>1
  <2> QED
    BY <2>3, <2>4, <2>5 DEF Lasts
<1>7. \E j \in 1 .. ((n + 4) - 1) : s[j] = AwaitsDci
  <2>1. n + 2 \in 1 .. ((n + 4) - 1)
    OBVIOUS
  <2> QED
    BY <2>1, <1>1
<1>8. s \in Seq(To(Own.ddr))
  <2>1. PICK O : O = Own.ddr /\ O = {DDRIOB_DCI_STATUS} \cup {"ddrc"} \X Nat
    BY DEF Own
  <2>2. DdrWrites \subseteq To(O)
    <3>1. DdrWrites \subseteq Instructions
      BY DEF DdrWrites, WritesTo, DdrOffsets, Instructions, NoKeys, Plain, Unprotected, OtherWrites,
             Blocks, DDRC_MODE_STS, DDRC
    <3> QED
      BY <2>1, <3>1 DEF DdrWrites, WritesTo, To, DdrOffsets
  <2>3. DDRC_CTRL \in O /\ DDRC_MODE_STS \in O /\ DDRIOB_DCI_STATUS \in O
    BY <2>1 DEF DDRC_CTRL, DDRC_MODE_STS, DDRC
  <2>4. Hold \in Instructions /\ Release \in Instructions
    <3>1. [soft_rstb |-> 0] \in Bits /\ [soft_rstb |-> 1] \in Bits
      BY DEF Bits
    <3> QED
      BY <3>1, SetIs DEF Hold, Release
  <2>5. AwaitsDci \in Instructions /\ AwaitsMode \in Instructions
    BY DEF AwaitsDci, AwaitsMode, Instructions, NoKeys, Plain, Unprotected, Polls
  <2>6. Hold \in To(O) /\ Release \in To(O) /\ AwaitsDci \in To(O) /\ AwaitsMode \in To(O)
    BY <2>3, <2>4, <2>5, <1>3 DEF To, AwaitsDci, AwaitsMode
  <2>7. [op |-> "EXIT"] \in To(O)
    BY DEF To, Exits
  <2>8. \A i \in 1 .. (n + 5) : s[i] \in To(O)
    BY <1>1, <1>2, <2>2, <2>6, <2>7
  <2>9. Complete(s)
    BY SectionsAreTables
  <2>10. s \in Seq(Instructions \cup Exits)
    BY <2>9 DEF Complete
  <2> QED
    BY <2>1, <2>8, <2>10, <1>1, SeqOf
<1>9. Guard(Release) \in Tracked \cap Own.ddr
  <2>1. Guard(Release) = DDRC_CTRL /\ DDRC_CTRL = <<"ddrc", 0>>
    BY <1>3 DEF Guard, DDRC_CTRL, DDRC
  <2>2. <<"ddrc", 0>> \in Tracked /\ <<"ddrc", 0>> \in Own.ddr
    BY DEF Tracked, Own
  <2> QED
    BY <2>1, <2>2
<1>10. Achieves(s, Own.ddr, {Release})
  BY <1>6, <1>8, <1>9 DEF Achieves
<1>11. s[Len(s) - 1] = AwaitsMode
  <2>1. Len(s) - 1 = n + 4
    BY <1>1
  <2> QED
    BY <1>1, <2>1
<1>12. ASSUME NEW i \in DOMAIN s
       PROVE  /\ IsWrite(s[i]) /\ s[i].reg # DDRC_CTRL => LastsTo(s, i, Hold)
              /\ s[i].op = "MASKPOLL" => s[i] \in {AwaitsDci, AwaitsMode}
              /\ s[i] = AwaitsMode => /\ i = Len(s) - 1 /\ LastsTo(s, i, Release)
                                      /\ \E j \in 1 .. (i - 1) : s[j] = AwaitsDci
  <2>1. CASE i = 1
    BY <2>1, <1>1, <1>3
  <2>2. CASE i \in 2 .. (n + 1)
    BY <2>2, <1>1, <1>4, <1>5
  <2>3. CASE i = n + 2
    BY <2>3, <1>1, <1>3
  <2>4. CASE i = n + 3
    BY <2>4, <1>1, <1>3
  <2>5. CASE i = n + 4
    <3>1. s[i] = AwaitsMode /\ i = Len(s) - 1
      BY <2>5, <1>1
    <3> QED
      BY <3>1, <2>5, <1>3, <1>6, <1>7
  <2>6. CASE i = n + 5
    BY <2>6, <1>1, <1>3
  <2> QED
    BY <1>1, <1>2, <2>1, <2>2, <2>3, <2>4, <2>5, <2>6
<1> QED
  BY <1>10, <1>11, <1>12

\* After the bitstream: the signals are connected before the PL leaves its reset.
LEMMA PostConfigAchieves ==
  ASSUME NEW s, NEW afi \in Seq(OutsideWrites), s = PostConfigSection(afi)
  PROVE  /\ Achieves(s, Own.post_config, {LockKey})
         /\ \A i \in DOMAIN s : IsWrite(s[i]) =>
              /\ s[i].reg = FPGA_RST_CTRL => LastsTo(s, i, Connect)
              /\ s[i].reg = LVL_SHFTR_EN => s[i].bits = [enabled |-> 1]
<1>1. PICK u, c, d : /\ u = [op |-> "WRITE", reg |-> SLCR_UNLOCK, bits |-> NoBits]
                     /\ c = Connect /\ d = Start
  OBVIOUS
<1>2. Unlock = <<u>> /\ Lock = <<LockKey>>
  BY <1>1, PiecesTouch DEF Unlock, EMIT_WRITE
<1>3. /\ EMIT_MASKWRITE(LVL_SHFTR_EN, [enabled |-> 1]) = <<c>>
      /\ EMIT_MASKWRITE(FPGA_RST_CTRL, [asserted |-> 0]) = <<d>>
  BY <1>1, Emits, Zenon DEF Connect, Start
<1>4. PICK l, e : l = LockKey /\ e = [op |-> "EXIT"]
  OBVIOUS
<1>5. s = <<u>> \o <<c>> \o <<d>> \o afi \o <<l>> \o <<e>>
  BY <1>2, <1>3, <1>4, Zenon DEF PostConfigSection, EMIT_EXIT
<1>6. PICK h : h = <<u>> \o <<c>> \o <<d>>
  OBVIOUS
<1>7. /\ c \in Instructions /\ c.reg = LVL_SHFTR_EN /\ c.bits = [enabled |-> 1]
      /\ d \in Instructions /\ d.reg = FPGA_RST_CTRL
  <2>1. [enabled |-> 1] \in Bits /\ [asserted |-> 0] \in Bits
    BY DEF Bits
  <2> QED
    BY <1>1, <2>1, SetIs DEF Connect, Start, Set
<1>8. PICK R : R = {SLCR_UNLOCK, LVL_SHFTR_EN, FPGA_RST_CTRL}
  OBVIOUS
<1>9. h \in Seq(To(R)) /\ Len(h) = 3 /\ h[1] = u /\ h[2] = c /\ h[3] = d
  <2>1. u \in Instructions /\ u.reg = SLCR_UNLOCK
    BY <1>1 DEF Instructions, KeyWrites, WritesTo, Bits
  <2>2. u \in To(R) /\ c \in To(R) /\ d \in To(R)
    BY <2>1, <1>7, <1>8 DEF To
  <2>3. PICK T : T = To(R)
    OBVIOUS
  <2>4. PICK g : g = <<u>> \o <<c>>
    OBVIOUS
  <2>5. g \in Seq(T) /\ Len(g) = 2 /\ g[1] = u /\ g[2] = c
    BY <2>2, <2>3, <2>4
  <2>6. h = g \o <<d>>
    BY <2>4, <1>6
  <2>7. h \in Seq(T) /\ Len(h) = 3 /\ h[1] = u /\ h[2] = c /\ h[3] = d
    <3>1. /\ g \o <<d>> \in Seq(T) /\ Len(g \o <<d>>) = Len(g) + 1
          /\ \A i \in 1 .. Len(g) : (g \o <<d>>)[i] = g[i]
          /\ (g \o <<d>>)[Len(g) + 1] = d
      <4>1. g \in Seq(T) /\ d \in T
        BY <2>2, <2>3, <2>5
      <4> QED
        BY <4>1
    <3>2. 1 \in 1 .. Len(g) /\ 2 \in 1 .. Len(g) /\ Len(g) + 1 = 3
      BY <2>5
    <3> QED
      BY <2>5, <2>6, <3>1, <3>2
  <2> QED
    BY <2>3, <2>7
<1>10. Achieves(h, R, {})
  BY <1>9 DEF Achieves
<1>11. PICK t : t = h \o afi
  OBVIOUS
<1>12. Achieves(t, R, {})
  BY <1>10, <1>11, PiecesTouch, AchievesStill
<1>13. Achieves(t \o Lock, R, {} \cup {LockKey})
  BY <1>8, <1>12, LockLast
<1>14. Achieves(t \o Lock \o EMIT_EXIT, R, {} \cup {LockKey})
  BY <1>13, LockLast
<1>15. s = t \o Lock \o EMIT_EXIT
  BY <1>2, <1>4, <1>5, <1>6, <1>11, Zenon DEF EMIT_EXIT
<1>16. Own.post_config = R
  BY <1>8 DEF Own
<1>17. Achieves(s, Own.post_config, {LockKey})
  BY <1>14, <1>15, <1>16, AchievesLess
<1>18. PICK S : S = OutsideWrites \cup {u, c, d, l, e}
  OBVIOUS
<1>19. afi \in Seq(S) /\ u \in S /\ c \in S /\ d \in S /\ l \in S /\ e \in S
  BY <1>18
<1>20. PICK n \in Nat : n = Len(afi) /\ \A i \in 1 .. n : afi[i] \in OutsideWrites
  OBVIOUS
<1>21. h \in Seq(S)
  BY <1>6, <1>19
<1>22. t \in Seq(S) /\ Len(t) = n + 3 /\ t[1] = u /\ t[2] = c /\ t[3] = d
  <2>1. /\ t \in Seq(S) /\ Len(t) = Len(h) + Len(afi) /\ \A i \in 1 .. Len(h) : t[i] = h[i]
    BY <1>11, <1>19, <1>21, ConcatIs
  <2> QED
    BY <2>1, <1>9, <1>20
<1>23. \A i \in 4 .. (n + 3) : t[i] \in OutsideWrites
  <2>1. \A i \in 4 .. (n + 3) : t[i] = afi[i - 3] /\ i - 3 \in 1 .. n
    <3>1. \A i \in 1 .. (Len(h) + Len(afi)) :
             i > Len(h) => t[i] = afi[i - Len(h)] /\ i - Len(h) \in 1 .. Len(afi)
      BY <1>11, <1>19, <1>21, ConcatIs
    <3> QED
      BY <3>1, <1>9, <1>20
  <2> QED
    BY <2>1, <1>20
<1>24. PICK v : v = t \o <<l>>
  OBVIOUS
<1>25. /\ v \in Seq(S) /\ Len(v) = n + 4 /\ v[n + 4] = l /\ \A i \in 1 .. (n + 3) : v[i] = t[i]
  BY <1>19, <1>22, <1>24
<1>26. s = v \o <<e>>
  BY <1>5, <1>6, <1>11, <1>24, Zenon
<1>27. /\ DOMAIN s = 1 .. (n + 5) /\ s[n + 5] = e /\ \A i \in 1 .. (n + 4) : s[i] = v[i]
  BY <1>19, <1>25, <1>26
<1>28. /\ s[1] = u /\ s[2] = c /\ s[3] = d /\ s[n + 4] = l
       /\ \A i \in 4 .. (n + 3) : s[i] \in OutsideWrites
  <2>1. /\ 1 \in 1 .. (n + 3) /\ 2 \in 1 .. (n + 3) /\ 3 \in 1 .. (n + 3)
        /\ 1 \in 1 .. (n + 4) /\ 2 \in 1 .. (n + 4) /\ 3 \in 1 .. (n + 4) /\ n + 4 \in 1 .. (n + 4)
        /\ \A i \in 4 .. (n + 3) : i \in 1 .. (n + 3) /\ i \in 1 .. (n + 4)
    OBVIOUS
  <2> QED
    BY <2>1, <1>22, <1>23, <1>25, <1>27
<1>29. /\ LVL_SHFTR_EN = <<"slcr", \h900>> /\ FPGA_RST_CTRL = <<"slcr", \h240>>
       /\ SLCR_UNLOCK = <<"slcr", \h008>> /\ SLCR_LOCK = <<"slcr", \h004>>
  BY DEF LVL_SHFTR_EN, FPGA_RST_CTRL, SLCR_UNLOCK, SLCR_LOCK, SLCR
<1>30. /\ u.reg \notin {LVL_SHFTR_EN, FPGA_RST_CTRL} /\ l.reg \notin {LVL_SHFTR_EN, FPGA_RST_CTRL}
       /\ ~IsWrite(e)
       /\ \A x \in OutsideWrites : x.reg \notin {LVL_SHFTR_EN, FPGA_RST_CTRL}
  BY <1>1, <1>4, <1>29 DEF LockKey, IsWrite, OutsideWrites, WritesTo
<1>31. LastsTo(s, 3, Connect)
  <2>1. 2 \in 1 .. (3 - 1) /\ (2 + 1) .. (3 - 1) = {}
    OBVIOUS
  <2> QED
    BY <2>1, <1>1, <1>28 DEF LastsTo
<1>32. ASSUME NEW i \in DOMAIN s, IsWrite(s[i])
       PROVE  /\ s[i].reg = FPGA_RST_CTRL => LastsTo(s, i, Connect)
              /\ s[i].reg = LVL_SHFTR_EN => s[i].bits = [enabled |-> 1]
  <2>1. CASE i = 1 \/ i \in 4 .. (n + 3) \/ i = n + 4 \/ i = n + 5
    BY <2>1, <1>27, <1>28, <1>30, <1>32
  <2>2. CASE i = 2
    BY <2>2, <1>7, <1>28, <1>29
  <2>3. CASE i = 3
    BY <2>3, <1>7, <1>28, <1>29, <1>31
  <2>4. i \in 1 .. (n + 5)
    BY <1>27
  <2> QED
    BY <2>1, <2>2, <2>3, <2>4
<1> QED
  BY <1>17, <1>32

\* The trace components are no concern of the rest.
LEMMA DebugAchieves == Achieves(DebugSection, Own.debug, {})
<1>1. PICK a, b, c : /\ a = EMIT_WRITE(<<"cti", 0>>, NoBits) /\ b = EMIT_WRITE(<<"cti", 1>>, NoBits)
                     /\ c = EMIT_WRITE(<<"cti", 2>>, NoBits)
  OBVIOUS
<1>2. a \in Seq(To({})) /\ b \in Seq(To({})) /\ c \in Seq(To({})) /\ EMIT_EXIT \in Seq(To({}))
  BY <1>1, PeripheralsAre, PiecesTouch
<1>3. DebugSection = a \o b \o c \o EMIT_EXIT
  BY <1>1, Zenon DEF DebugSection
<1>4. DebugSection \in Seq(To({}))
  BY <1>2, <1>3
<1>5. Own.debug = {}
  BY DEF Own
<1> QED
  BY <1>4, <1>5 DEF Achieves

\* The pins of UART 1 are connected, and no write undoes that.
LEMMA PinsLast ==
  /\ Lasts(MioSection, Set(MIO_PIN(24), NoBits))
  /\ Lasts(MioSection, Set(MIO_PIN(25), NoBits))
<1>1. PICK x, y : x = Set(MIO_PIN(24), NoBits) /\ y = Set(MIO_PIN(25), NoBits)
  OBVIOUS
<1>2. \A g \in {x, y} : \A z : Leaves(z, g)
  BY <1>1 DEF Set, NoBits, Leaves, LockKey
<1>3. PICK p : p = UartPins
  OBVIOUS
<1>4. Lasts(p, x) /\ Lasts(p, y)
  <2>1. Len(p) = 2 /\ p[1] = x /\ p[2] = y
    <3>1. PICK o : o = [i \in 1 .. 2 |-> \h700 + 4 * (24 + i - 1)]
      OBVIOUS
    <3>2. /\ o \in Seq(Nat) /\ DOMAIN o = 1 .. 2 /\ o[1] = \h700 + 4 * 24 /\ o[2] = \h700 + 4 * 25
      BY <3>1
    <3>3. p = Configure("slcr", o)
      BY <1>3, <3>1 DEF UartPins, Pins
    <3>4. p = [i \in 1 .. 2 |-> [op |-> "MASKWRITE", reg |-> <<"slcr", o[i]>>, bits |-> NoBits]]
      BY <3>2, <3>3 DEF Configure, EMIT_MASKWRITE
    <3>5. 1 \in 1 .. 2 /\ 2 \in 1 .. 2
      OBVIOUS
    <3>6. /\ p[1] = [op |-> "MASKWRITE", reg |-> <<"slcr", o[1]>>, bits |-> NoBits]
          /\ p[2] = [op |-> "MASKWRITE", reg |-> <<"slcr", o[2]>>, bits |-> NoBits]
      BY <3>4, <3>5
    <3>7. Len(p) = 2
      BY <3>4
    <3>8. MIO_PIN(24) = <<"slcr", o[1]>> /\ MIO_PIN(25) = <<"slcr", o[2]>>
      BY <3>2 DEF MIO_PIN, SLCR
    <3> QED
      BY <1>1, <3>6, <3>7, <3>8, Zenon DEF Set
  <2>2. 1 \in 1 .. Len(p) /\ 2 \in 1 .. Len(p) /\ Len(p) + 1 - 1 = Len(p)
    BY <2>1
  <2> QED
    BY <2>1, <2>2, <1>2 DEF Lasts, LastsTo
<1>5. PICK S : S = RestWrites
  OBVIOUS
<1>6. /\ NandPinsLow \in Seq(S) /\ NandPinsMiddle \in Seq(S) /\ NandPinsHigh \in Seq(S)
      /\ GpioPins15 \in Seq(S) /\ GpioPins20 \in Seq(S) /\ p \in Seq(S) /\ I2cPins \in Seq(S)
      /\ GpioPins28 \in Seq(S) /\ GpioPins33 \in Seq(S) /\ GpioPins36 \in Seq(S)
      /\ SdioPins \in Seq(S) /\ GpioPins46 \in Seq(S) /\ GpioPins50 \in Seq(S)
      /\ SdioSelect \in Seq(S)
  BY <1>3, <1>5, MioIs
<1>7. PICK a : a = NandPinsLow \o NandPinsMiddle \o NandPinsHigh \o GpioPins15 \o GpioPins20
  OBVIOUS
<1>8. PICK m : m = MioPins
  OBVIOUS
<1>9. ASSUME NEW A, NEW u \in Seq(A), NEW w \in Seq(A), NEW g \in {x, y}, Lasts(u, g)
      PROVE  Lasts(u \o w, g)
  BY <1>2, <1>9, LastsBefore
<1>10. a \in Seq(S)
  BY <1>6, <1>7
<1>11. ASSUME NEW g \in {x, y} PROVE Lasts(m, g)
  <2>1. Lasts(p, g)
    BY <1>4
  <2>19. PICK q : q = a \o p
    OBVIOUS
  <2>2. q \in Seq(S) /\ Lasts(q, g)
    BY <1>6, <1>10, <2>1, <2>19, LastsAfter
  <2>3. PICK b : b = q \o I2cPins
    OBVIOUS
  <2>4. b \in Seq(S) /\ Lasts(b, g)
    BY <1>6, <1>9, <2>2, <2>3, SMTT(30)
  <2>5. PICK c : c = b \o GpioPins28
    OBVIOUS
  <2>6. c \in Seq(S) /\ Lasts(c, g)
    BY <1>6, <1>9, <2>4, <2>5, SMTT(30)
  <2>7. PICK d : d = c \o GpioPins33
    OBVIOUS
  <2>8. d \in Seq(S) /\ Lasts(d, g)
    BY <1>6, <1>9, <2>6, <2>7, SMTT(30)
  <2>9. PICK e : e = d \o GpioPins36
    OBVIOUS
  <2>10. e \in Seq(S) /\ Lasts(e, g)
    BY <1>6, <1>9, <2>8, <2>9, SMTT(30)
  <2>11. PICK f : f = e \o SdioPins
    OBVIOUS
  <2>12. f \in Seq(S) /\ Lasts(f, g)
    BY <1>6, <1>9, <2>10, <2>11, SMTT(30)
  <2>13. PICK h : h = f \o GpioPins46
    OBVIOUS
  <2>14. h \in Seq(S) /\ Lasts(h, g)
    BY <1>6, <1>9, <2>12, <2>13, SMTT(30)
  <2>15. PICK k : k = h \o GpioPins50
    OBVIOUS
  <2>16. k \in Seq(S) /\ Lasts(k, g)
    BY <1>6, <1>9, <2>14, <2>15, SMTT(30)
  <2>17. Lasts(k \o SdioSelect, g)
    BY <1>6, <1>9, <2>16
  <2>18. m = k \o SdioSelect
    BY <1>3, <1>7, <1>8, <2>19, <2>3, <2>5, <2>7, <2>9, <2>11, <2>13, <2>15, Zenon DEF MioPins
  <2> QED
    BY <2>17, <2>18
<1>12. PICK T : T = Instructions \cup Exits
  OBVIOUS
<1>13. /\ Unlock \in Seq(T) /\ DdrIoBuffers \in Seq(T) /\ DdrIoBuffersDqs \in Seq(T)
       /\ DdrIoDrive \in Seq(T) /\ DdrIoCalibration \in Seq(T) /\ m \in Seq(T)
       /\ Lock \in Seq(T) /\ EMIT_EXIT \in Seq(T)
  <2>1. \A R, z : z \in Seq(To(R)) => z \in Seq(T)
    <3>1. \A R : To(R) \subseteq T
      BY <1>12 DEF To
    <3> QED
      BY <3>1
  <2>2. DdrIoCalibration \in Seq(T)
    <3>1. SlcrWrites \subseteq T
      BY <1>12 DEF Instructions, NoKeys, Plain
    <3> QED
      BY <3>1, ClocksAre
  <2> QED
    BY <2>1, <2>2, <1>8, PiecesTouch, MioIs
<1>14. PICK n : n = Unlock \o DdrIoBuffers \o DdrIoBuffersDqs \o DdrIoDrive \o DdrIoCalibration
  OBVIOUS
<1>15. n \in Seq(T)
  BY <1>13, <1>14
<1>16. ASSUME NEW g \in {x, y} PROVE Lasts(MioSection, g)
  <2>6. PICK q : q = n \o m
    OBVIOUS
  <2>1. q \in Seq(T) /\ Lasts(q, g)
    BY <1>11, <1>13, <1>15, <2>6, LastsAfter
  <2>2. PICK o : o = q \o Lock
    OBVIOUS
  <2>3. o \in Seq(T) /\ Lasts(o, g)
    BY <1>9, <1>13, <2>1, <2>2
  <2>4. Lasts(o \o EMIT_EXIT, g)
    BY <1>9, <1>13, <2>3
  <2>5. MioSection = o \o EMIT_EXIT
    BY <1>8, <1>14, <2>2, <2>6, Zenon DEF MioSection
  <2> QED
    BY <2>4, <2>5
<1> QED
  BY <1>1, <1>16

---------------------------------------------------------------------------------
(* The tables of each silicon version, in both copies of the file.         *)

\* The tables of the copy of platform-init.
LEMMA PlatformTables ==
  ASSUME NEW v \in {Version_1_0, Version_2_0, Version_3_0}
  PROVE  /\ v.mio = MioSection /\ v.pll = PllSection /\ v.clock = ClockSection(PlClocks)
         /\ \E timers \in Seq(DdrOffsets) : v.ddr = DdrSection(timers)
         /\ v.peripherals = PeripheralSection /\ v.post_config = PostConfigSection(AfiWidth)
         /\ v.debug = DebugSection
<1>1. PICK t1, t2, t3 : /\ t1 = <<\h0A0>> /\ t2 = <<\h078, \h07C, \h0A0>> /\ t3 = <<\h078, \h07C>>
  OBVIOUS
<1>2. t1 \in Seq(DdrOffsets) /\ t2 \in Seq(DdrOffsets) /\ t3 \in Seq(DdrOffsets)
  BY <1>1 DEF DdrOffsets
<1>3. /\ ps7_ddr_init_data_1_0 = DdrSection(t1) /\ ps7_ddr_init_data_2_0 = DdrSection(t2)
      /\ ps7_ddr_init_data_3_0 = DdrSection(t3)
  BY <1>1, Zenon DEF ps7_ddr_init_data_1_0, ps7_ddr_init_data_2_0, ps7_ddr_init_data_3_0
<1>4. CASE v = Version_1_0
  BY <1>2, <1>3, <1>4
     DEF Version_1_0, ps7_mio_init_data_1_0, ps7_pll_init_data_1_0, ps7_clock_init_data_1_0,
         ps7_peripherals_init_data_1_0, ps7_post_config_1_0, ps7_debug_1_0
<1>5. CASE v = Version_2_0
  BY <1>2, <1>3, <1>5
     DEF Version_2_0, ps7_mio_init_data_2_0, ps7_pll_init_data_2_0, ps7_clock_init_data_2_0,
         ps7_peripherals_init_data_2_0, ps7_post_config_2_0, ps7_debug_2_0
<1>6. CASE v = Version_3_0
  BY <1>2, <1>3, <1>6
     DEF Version_3_0, ps7_mio_init_data_3_0, ps7_pll_init_data_3_0, ps7_clock_init_data_3_0,
         ps7_peripherals_init_data_3_0, ps7_post_config_3_0, ps7_debug_3_0
<1> QED
  BY <1>4, <1>5, <1>6

\* Those of the copy of u-boot.
LEMMA UbootTables ==
  ASSUME NEW v \in {Version_1_0_uboot, Version_2_0_uboot, Version_3_0_uboot}
  PROVE  /\ v.mio = MioSection /\ v.pll = PllSection /\ v.clock = ClockSection(PlClocksUboot)
         /\ \E timers \in Seq(DdrOffsets) : v.ddr = DdrSection(timers)
         /\ v.peripherals = PeripheralSection /\ v.post_config = PostConfigSection(AfiWidthUboot)
         /\ v.debug = DebugSection
<1>1. PICK t1, t2, t3 : /\ t1 = <<\h0A0>> /\ t2 = <<\h078, \h07C, \h0A0>> /\ t3 = <<\h078, \h07C>>
  OBVIOUS
<1>2. t1 \in Seq(DdrOffsets) /\ t2 \in Seq(DdrOffsets) /\ t3 \in Seq(DdrOffsets)
  BY <1>1 DEF DdrOffsets
<1>3. /\ ps7_ddr_init_data_1_0_uboot = DdrSection(t1)
      /\ ps7_ddr_init_data_2_0_uboot = DdrSection(t2)
      /\ ps7_ddr_init_data_3_0_uboot = DdrSection(t3)
  BY <1>1, Zenon DEF ps7_ddr_init_data_1_0_uboot, ps7_ddr_init_data_2_0_uboot,
     ps7_ddr_init_data_3_0_uboot
<1>4. CASE v = Version_1_0_uboot
  BY <1>2, <1>3, <1>4
     DEF Version_1_0_uboot, ps7_mio_init_data_1_0_uboot, ps7_pll_init_data_1_0_uboot,
         ps7_clock_init_data_1_0_uboot, ps7_peripherals_init_data_1_0_uboot,
         ps7_post_config_1_0_uboot, ps7_debug_1_0_uboot
<1>5. CASE v = Version_2_0_uboot
  BY <1>2, <1>3, <1>5
     DEF Version_2_0_uboot, ps7_mio_init_data_2_0_uboot, ps7_pll_init_data_2_0_uboot,
         ps7_clock_init_data_2_0_uboot, ps7_peripherals_init_data_2_0_uboot,
         ps7_post_config_2_0_uboot, ps7_debug_2_0_uboot
<1>6. CASE v = Version_3_0_uboot
  BY <1>2, <1>3, <1>6
     DEF Version_3_0_uboot, ps7_mio_init_data_3_0_uboot, ps7_pll_init_data_3_0_uboot,
         ps7_clock_init_data_3_0_uboot, ps7_peripherals_init_data_3_0_uboot,
         ps7_post_config_3_0_uboot, ps7_debug_3_0_uboot
<1> QED
  BY <1>4, <1>5, <1>6

\* So these are the tables that are run.
LEMMA TableIs ==
  ASSUME copy \in Copies, si_ver \in 0..3
  PROVE  /\ Table("mio") = MioSection /\ Table("pll") = PllSection
         /\ Table("clock") = IF copy = "platform-init" THEN ClockSection(PlClocks)
                                                       ELSE ClockSection(PlClocksUboot)
         /\ \E timers \in Seq(DdrOffsets) : Table("ddr") = DdrSection(timers)
         /\ Table("peripherals") = PeripheralSection
         /\ \E afi \in Seq(OutsideWrites) : Table("post_config") = PostConfigSection(afi)
         /\ Table("debug") = DebugSection
<1>1. AfiWidth \in Seq(OutsideWrites) /\ AfiWidthUboot \in Seq(OutsideWrites)
  BY PeripheralsAre
<1>2. CASE copy = "platform-init"
  <2>1. PICK v \in {Version_1_0, Version_2_0, Version_3_0} : v = Tables(si_ver)
    BY DEF Tables
  <2>2. \A name : Table(name) = v[name]
    BY <1>2, <2>1 DEF Table
  <2> QED
    BY <1>1, <1>2, <2>2, PlatformTables
<1>3. CASE copy # "platform-init"
  <2>1. PICK v \in {Version_1_0_uboot, Version_2_0_uboot, Version_3_0_uboot} :
          v = TablesUboot(si_ver)
    BY DEF TablesUboot
  <2>2. \A name : Table(name) = v[name]
    BY <1>3, <2>1 DEF Table
  <2> QED
    BY <1>1, <1>3, <2>2, UbootTables
<1> QED
  BY <1>2, <1>3

\* What the tables leave behind.
Goals ==
  [mio |-> {Calibrate}, pll |-> PllGoals, clock |-> ClockGoals \cup PlGoals, ddr |-> {Release},
   peripherals |-> BaudGoals \cup {LockKey}, post_config |-> {LockKey}, debug |-> {}]

\* They do.
LEMMA TablesAchieve ==
  ASSUME copy \in Copies, si_ver \in 0..3, NEW n \in Names
  PROVE  Achieves(Table(n), Own[n], Goals[n])
<1>1. CASE n = "mio"
  <2>1. Goals[n] = {Calibrate} /\ Own[n] = Own.mio /\ Table(n) = MioSection
    BY <1>1, TableIs DEF Goals
  <2> QED
    BY <2>1, MioAchieves
<1>2. CASE n = "pll"
  <2>1. Goals[n] = PllGoals /\ Own[n] = Own.pll /\ Table(n) = PllSection
    BY <1>2, TableIs DEF Goals
  <2> QED
    BY <2>1, PllsAchieve
<1>3. CASE n = "clock"
  <2>1. Goals[n] = ClockGoals \cup PlGoals /\ Own[n] = Own.clock
    BY <1>3 DEF Goals
  <2>2. CASE copy = "platform-init"
    <3>1. PICK G :
           G = {Set(FPGA0_CLK_CTRL, Clock("io", 4, 3)), Set(FPGA1_CLK_CTRL, Clock("io", 8, 6))}
      OBVIOUS
    <3>2. Achieves(PlClocks, {FPGA0_CLK_CTRL, FPGA1_CLK_CTRL}, G)
      BY <3>1, PlClocksAchieve, Zenon
    <3>3. PlGoals = G
      BY <2>2, <3>1, Zenon DEF PlGoals
    <3>4. Table(n) = ClockSection(PlClocks)
      BY <1>3, <2>2, TableIs
    <3> QED
      BY <2>1, <3>2, <3>3, <3>4, ClocksAchieve
  <2>3. CASE copy # "platform-init"
    <3>1. PICK G : G = {Set(FPGA0_CLK_CTRL, Clock("io", 8, 6))}
      OBVIOUS
    <3>2. Achieves(PlClocksUboot, {FPGA0_CLK_CTRL, FPGA1_CLK_CTRL}, G)
      BY <3>1, PlClocksAchieve, Zenon
    <3>3. PlGoals = G
      BY <2>3, <3>1, Zenon DEF PlGoals
    <3>4. Table(n) = ClockSection(PlClocksUboot)
      BY <1>3, <2>3, TableIs
    <3> QED
      BY <2>1, <3>2, <3>3, <3>4, ClocksAchieve
  <2> QED
    BY <2>2, <2>3
<1>4. CASE n = "ddr"
  <2>1. Goals[n] = {Release} /\ Own[n] = Own.ddr
    BY <1>4 DEF Goals
  <2>2. PICK timers \in Seq(DdrOffsets) : Table(n) = DdrSection(timers)
    BY <1>4, TableIs
  <2> QED
    BY <2>1, <2>2, DdrAchieves
<1>5. CASE n = "peripherals"
  <2>1. Goals[n] = BaudGoals \cup {LockKey} /\ Own[n] = Own.peripherals
          /\ Table(n) = PeripheralSection
    BY <1>5, TableIs DEF Goals
  <2> QED
    BY <2>1, PeripheralsAchieve
<1>6. CASE n = "post_config"
  <2>1. Goals[n] = {LockKey} /\ Own[n] = Own.post_config
    BY <1>6 DEF Goals
  <2>2. PICK afi \in Seq(OutsideWrites) : Table(n) = PostConfigSection(afi)
    BY <1>6, TableIs
  <2> QED
    BY <2>1, <2>2, PostConfigAchieves
<1>7. CASE n = "debug"
  <2>1. Goals[n] = {} /\ Own[n] = Own.debug /\ Table(n) = DebugSection
    BY <1>7, TableIs DEF Goals
  <2> QED
    BY <2>1, DebugAchieves
<1> QED
  BY <1>1, <1>2, <1>3, <1>4, <1>5, <1>6, <1>7 DEF Names

\* No table touches what another does, but for the key.
LEMMA OwnsAreApart ==
  ASSUME NEW n \in Names, NEW m \in Names, n # m, NEW r \in Own[n], r \in Own[m]
  PROVE  r = SLCR_UNLOCK
<1> DEFINE Home(x) ==
      IF x[1] = "ddrc" \/ x = <<"slcr", \hB74>> THEN "ddr"
      ELSE IF x[1] \in {"uart1", "smc"} THEN "peripherals"
      ELSE IF x = <<"slcr", \hB70>> THEN "mio"
      ELSE IF x \in {<<"slcr", \h900>>, <<"slcr", \h240>>} THEN "post_config"
      ELSE IF x \in {<<"slcr", \h100>>, <<"slcr", \h104>>, <<"slcr", \h108>>, <<"slcr", \h10C>>,
                     <<"slcr", \h120>>, <<"slcr", \h124>>} THEN "pll"
      ELSE "clock"
<1>1. ASSUME NEW x \in Own.mio PROVE x = SLCR_UNLOCK \/ Home(x) = "mio"
  BY <1>1 DEF Own, DDRIOB_DCI_CTRL, SLCR
<1>2. ASSUME NEW x \in Own.pll PROVE x = SLCR_UNLOCK \/ Home(x) = "pll"
  BY <1>2 DEF Own, ARM_CLK_CTRL, DDR_CLK_CTRL, PLL_STATUS, PLL_CTRL, Plls, SLCR
<1>3. ASSUME NEW x \in Own.clock PROVE x = SLCR_UNLOCK \/ Home(x) = "clock"
  BY <1>3 DEF Own, DCI_CLK_CTRL, SMC_CLK_CTRL, SDIO_CLK_CTRL, UART_CLK_CTRL, PCAP_CLK_CTRL,
              APER_CLK_CTRL, FPGA0_CLK_CTRL, FPGA1_CLK_CTRL, SLCR
<1>4. ASSUME NEW x \in Own.ddr PROVE Home(x) = "ddr"
  BY <1>4 DEF Own, DDRIOB_DCI_STATUS, SLCR
<1>5. ASSUME NEW x \in Own.peripherals PROVE x = SLCR_UNLOCK \/ Home(x) = "peripherals"
  BY <1>5 DEF Own
<1>6. ASSUME NEW x \in Own.post_config PROVE x = SLCR_UNLOCK \/ Home(x) = "post_config"
  BY <1>6 DEF Own, LVL_SHFTR_EN, FPGA_RST_CTRL, SLCR
<1>7. Own.debug = {}
  BY DEF Own
<1> HIDE DEF Home
<1>8. \A k \in Names : r \in Own[k] => r = SLCR_UNLOCK \/ Home(r) = k
  BY <1>1, <1>2, <1>3, <1>4, <1>5, <1>6, <1>7 DEF Names
<1> QED
  BY <1>8

---------------------------------------------------------------------------------
(* The registers.                                                          *)

\* The registers that only report.
Statuses == {PLL_STATUS, DDRIOB_DCI_STATUS, DDRC_MODE_STS}

\* The bits of a control register.
Fields(r) == DOMAIN AfterBootRom(0)[r]

\* No control register is two things.
LEMMA RegistersApart ==
  /\ \A r \in ClockControls : r \notin Others \cup {PLL_STATUS} /\ \A p \in Plls : r # PLL_CTRL[p]
  /\ \A p \in Plls : PLL_CTRL[p] \notin Others \cup {PLL_STATUS}
  /\ PLL_STATUS \notin Others
  /\ \A r \in Control : \/ r \in ClockControls \cup Others \cup {PLL_STATUS}
                        \/ \E p \in Plls : r = PLL_CTRL[p]
  /\ ClockControls \subseteq Control /\ Others \subseteq Control
<1>1. /\ \A p \in Plls : PLL_CTRL[p] \in {<<"slcr", \h100>>, <<"slcr", \h104>>, <<"slcr", \h108>>}
      /\ PLL_STATUS = <<"slcr", \h10C>>
  BY DEF Plls, PLL_CTRL, PLL_STATUS, SLCR
<1>2. \A r \in ClockControls :
         r[1] = "slcr" /\ r[2] \in {\h120, \h124, \h128, \h148, \h150, \h154, \h168, \h170, \h180}
  BY DEF ClockControls, ARM_CLK_CTRL, DDR_CLK_CTRL, DCI_CLK_CTRL, SMC_CLK_CTRL,
         SDIO_CLK_CTRL, UART_CLK_CTRL, PCAP_CLK_CTRL, FPGA0_CLK_CTRL, FPGA1_CLK_CTRL, SLCR
<1>3. \A r \in Others : r[1] # "slcr" \/ r[2] \in {\h12C, \hB70, \hB74, \h900, \h240}
  BY DEF Others, APER_CLK_CTRL, DDRIOB_DCI_CTRL, DDRIOB_DCI_STATUS, DDRC_CTRL, DDRC_MODE_STS,
         UART_BAUD_GEN, UART_BAUD_DIV, LVL_SHFTR_EN, FPGA_RST_CTRL, SLCR, DDRC, UART1
<1>4. /\ \A r \in Control : \/ r \in ClockControls \cup Others \cup {PLL_STATUS}
                            \/ \E p \in Plls : r = PLL_CTRL[p]
      /\ ClockControls \subseteq Control /\ Others \subseteq Control
  BY DEF Control, Others
<1> QED
  BY <1>1, <1>2, <1>3, <1>4

\* The others are different ones.
LEMMA OthersApart ==
  /\ APER_CLK_CTRL \notin Others \ {APER_CLK_CTRL}
  /\ DDRIOB_DCI_CTRL \notin {APER_CLK_CTRL}
  /\ DDRIOB_DCI_STATUS \notin {APER_CLK_CTRL, DDRIOB_DCI_CTRL}
  /\ DDRC_CTRL \notin {APER_CLK_CTRL, DDRIOB_DCI_CTRL, DDRIOB_DCI_STATUS}
  /\ DDRC_MODE_STS \notin {APER_CLK_CTRL, DDRIOB_DCI_CTRL, DDRIOB_DCI_STATUS, DDRC_CTRL}
  /\ UART_BAUD_GEN \notin {APER_CLK_CTRL, DDRIOB_DCI_CTRL, DDRIOB_DCI_STATUS, DDRC_CTRL,
                           DDRC_MODE_STS}
  /\ UART_BAUD_DIV \notin {APER_CLK_CTRL, DDRIOB_DCI_CTRL, DDRIOB_DCI_STATUS, DDRC_CTRL,
                           DDRC_MODE_STS, UART_BAUD_GEN}
  /\ LVL_SHFTR_EN \notin {APER_CLK_CTRL, DDRIOB_DCI_CTRL, DDRIOB_DCI_STATUS, DDRC_CTRL,
                          DDRC_MODE_STS, UART_BAUD_GEN, UART_BAUD_DIV}
  /\ FPGA_RST_CTRL \notin {APER_CLK_CTRL, DDRIOB_DCI_CTRL, DDRIOB_DCI_STATUS, DDRC_CTRL,
                           DDRC_MODE_STS, UART_BAUD_GEN, UART_BAUD_DIV, LVL_SHFTR_EN}
<1>1. /\ APER_CLK_CTRL = <<"slcr", \h12C>> /\ DDRIOB_DCI_CTRL = <<"slcr", \hB70>>
      /\ DDRIOB_DCI_STATUS = <<"slcr", \hB74>> /\ DDRC_CTRL = <<"ddrc", 0>>
      /\ DDRC_MODE_STS = <<"ddrc", \h054>> /\ UART_BAUD_GEN = <<"uart1", \h018>>
      /\ UART_BAUD_DIV = <<"uart1", \h034>> /\ LVL_SHFTR_EN = <<"slcr", \h900>>
      /\ FPGA_RST_CTRL = <<"slcr", \h240>>
  BY DEF APER_CLK_CTRL, DDRIOB_DCI_CTRL, DDRIOB_DCI_STATUS, DDRC_CTRL, DDRC_MODE_STS,
         UART_BAUD_GEN, UART_BAUD_DIV, LVL_SHFTR_EN, FPGA_RST_CTRL, SLCR, DDRC, UART1
<1> QED
  BY <1>1

\* What the boot ROM leaves in them.
LEMMA BootRomLeaves ==
  ASSUME NEW on
  PROVE  /\ \A p \in Plls :
              AfterBootRom(on)[PLL_CTRL[p]] = [fdiv |-> 1, bypass |-> 0, reset |-> 0]
         /\ \A r \in ClockControls :
              AfterBootRom(on)[r] = [active |-> on, pll |-> "io", div0 |-> 1, div1 |-> 1]
         /\ AfterBootRom(on)[PLL_STATUS] = [arm |-> 1, ddr |-> 1, io |-> 1]
         /\ AfterBootRom(on)[APER_CLK_CTRL] = [uart1 |-> on, smc |-> on]
         /\ AfterBootRom(on)[DDRIOB_DCI_CTRL] = [reset |-> 0, enable |-> 0]
         /\ AfterBootRom(on)[DDRIOB_DCI_STATUS] = [done |-> 0]
         /\ AfterBootRom(on)[DDRC_CTRL] = [soft_rstb |-> 0]
         /\ AfterBootRom(on)[DDRC_MODE_STS] = [operating_mode |-> 0]
         /\ AfterBootRom(on)[UART_BAUD_GEN] = [cd |-> 1]
         /\ AfterBootRom(on)[UART_BAUD_DIV] = [bdiv |-> 1]
         /\ AfterBootRom(on)[LVL_SHFTR_EN] = [enabled |-> 0]
         /\ AfterBootRom(on)[FPGA_RST_CTRL] = [asserted |-> 1]
<1>1. ASSUME NEW p \in Plls
      PROVE  AfterBootRom(on)[PLL_CTRL[p]] = [fdiv |-> 1, bypass |-> 0, reset |-> 0]
  <2>1. PICK r : r = PLL_CTRL[p]
    OBVIOUS
  <2>2. r \in Control /\ r \notin ClockControls /\ r \notin Others /\ r # PLL_STATUS
    BY <2>1, RegistersApart, PllRegisters
  <2>3. AfterBootRom(on)[r] = [fdiv |-> 1, bypass |-> 0, reset |-> 0]
    BY <2>1, <2>2 DEF AfterBootRom, Others
  <2> QED
    BY <2>1, <2>3
<1>2. ASSUME NEW r \in ClockControls
      PROVE  AfterBootRom(on)[r] = [active |-> on, pll |-> "io", div0 |-> 1, div1 |-> 1]
  <2>1. r \in Control /\ r \notin Others /\ r # PLL_STATUS /\ \A p \in Plls : r # PLL_CTRL[p]
    BY RegistersApart
  <2> QED
    BY <2>1 DEF AfterBootRom, Others
<1>3. AfterBootRom(on)[PLL_STATUS] = [arm |-> 1, ddr |-> 1, io |-> 1]
  <2>1. PICK r : r = PLL_STATUS
    OBVIOUS
  <2>2. /\ r \in Control /\ r \notin ClockControls /\ r \notin Others
        /\ \A p \in Plls : r # PLL_CTRL[p]
    BY <2>1, RegistersApart, PllRegisters
  <2>3. AfterBootRom(on)[r] = [arm |-> 1, ddr |-> 1, io |-> 1]
    BY <2>1, <2>2 DEF AfterBootRom, Others
  <2> QED
    BY <2>1, <2>3
<1>4. ASSUME NEW r \in Others
      PROVE  /\ r \in Control /\ r \notin ClockControls /\ r # PLL_STATUS
             /\ \A p \in Plls : r # PLL_CTRL[p]
  BY RegistersApart
<1>5. AfterBootRom(on)[APER_CLK_CTRL] = [uart1 |-> on, smc |-> on]
  <2>1. PICK r : r = APER_CLK_CTRL
    OBVIOUS
  <2>2. r \in Control /\ r \notin ClockControls /\ r # PLL_STATUS /\ \A p \in Plls : r # PLL_CTRL[p]
    BY <2>1, <1>4 DEF Others
  <2>3. AfterBootRom(on)[r] = [uart1 |-> on, smc |-> on]
    BY <2>1, <2>2, OthersApart DEF AfterBootRom
  <2> QED
    BY <2>1, <2>3
<1>6. AfterBootRom(on)[DDRIOB_DCI_CTRL] = [reset |-> 0, enable |-> 0]
  <2>1. PICK r : r = DDRIOB_DCI_CTRL
    OBVIOUS
  <2>2. r \in Control /\ r \notin ClockControls /\ r # PLL_STATUS /\ \A p \in Plls : r # PLL_CTRL[p]
    BY <2>1, <1>4 DEF Others
  <2>3. AfterBootRom(on)[r] = [reset |-> 0, enable |-> 0]
    BY <2>1, <2>2, OthersApart DEF AfterBootRom
  <2> QED
    BY <2>1, <2>3
<1>7. AfterBootRom(on)[DDRIOB_DCI_STATUS] = [done |-> 0]
  <2>1. PICK r : r = DDRIOB_DCI_STATUS
    OBVIOUS
  <2>2. r \in Control /\ r \notin ClockControls /\ r # PLL_STATUS /\ \A p \in Plls : r # PLL_CTRL[p]
    BY <2>1, <1>4 DEF Others
  <2>3. AfterBootRom(on)[r] = [done |-> 0]
    BY <2>1, <2>2, OthersApart DEF AfterBootRom
  <2> QED
    BY <2>1, <2>3
<1>8. AfterBootRom(on)[DDRC_CTRL] = [soft_rstb |-> 0]
  <2>1. PICK r : r = DDRC_CTRL
    OBVIOUS
  <2>2. r \in Control /\ r \notin ClockControls /\ r # PLL_STATUS /\ \A p \in Plls : r # PLL_CTRL[p]
    BY <2>1, <1>4 DEF Others
  <2>3. AfterBootRom(on)[r] = [soft_rstb |-> 0]
    BY <2>1, <2>2, OthersApart DEF AfterBootRom
  <2> QED
    BY <2>1, <2>3
<1>9. AfterBootRom(on)[DDRC_MODE_STS] = [operating_mode |-> 0]
  <2>1. PICK r : r = DDRC_MODE_STS
    OBVIOUS
  <2>2. r \in Control /\ r \notin ClockControls /\ r # PLL_STATUS /\ \A p \in Plls : r # PLL_CTRL[p]
    BY <2>1, <1>4 DEF Others
  <2>3. AfterBootRom(on)[r] = [operating_mode |-> 0]
    BY <2>1, <2>2, OthersApart DEF AfterBootRom
  <2> QED
    BY <2>1, <2>3
<1>10. AfterBootRom(on)[UART_BAUD_GEN] = [cd |-> 1]
  <2>1. PICK r : r = UART_BAUD_GEN
    OBVIOUS
  <2>2. r \in Control /\ r \notin ClockControls /\ r # PLL_STATUS /\ \A p \in Plls : r # PLL_CTRL[p]
    BY <2>1, <1>4 DEF Others
  <2>3. AfterBootRom(on)[r] = [cd |-> 1]
    BY <2>1, <2>2, OthersApart DEF AfterBootRom
  <2> QED
    BY <2>1, <2>3
<1>11. AfterBootRom(on)[UART_BAUD_DIV] = [bdiv |-> 1]
  <2>1. PICK r : r = UART_BAUD_DIV
    OBVIOUS
  <2>2. r \in Control /\ r \notin ClockControls /\ r # PLL_STATUS /\ \A p \in Plls : r # PLL_CTRL[p]
    BY <2>1, <1>4 DEF Others
  <2>3. AfterBootRom(on)[r] = [bdiv |-> 1]
    BY <2>1, <2>2, OthersApart DEF AfterBootRom
  <2> QED
    BY <2>1, <2>3
<1>12. AfterBootRom(on)[LVL_SHFTR_EN] = [enabled |-> 0]
  <2>1. PICK r : r = LVL_SHFTR_EN
    OBVIOUS
  <2>2. r \in Control /\ r \notin ClockControls /\ r # PLL_STATUS /\ \A p \in Plls : r # PLL_CTRL[p]
    BY <2>1, <1>4 DEF Others
  <2>3. AfterBootRom(on)[r] = [enabled |-> 0]
    BY <2>1, <2>2, OthersApart DEF AfterBootRom
  <2> QED
    BY <2>1, <2>3
<1>13. AfterBootRom(on)[FPGA_RST_CTRL] = [asserted |-> 1]
  <2>1. PICK r : r = FPGA_RST_CTRL
    OBVIOUS
  <2>2. r \in Control /\ r \notin ClockControls /\ r # PLL_STATUS /\ \A p \in Plls : r # PLL_CTRL[p]
    BY <2>1, <1>4 DEF Others
  <2>3. AfterBootRom(on)[r] = [asserted |-> 1]
    BY <2>1, <2>2, OthersApart DEF AfterBootRom
  <2> QED
    BY <2>1, <2>3
<1> QED
  BY <1>1, <1>2, <1>3, <1>5, <1>6, <1>7, <1>8, <1>9, <1>10, <1>11, <1>12, <1>13

\* So these are their bits, whatever the clocks were.
LEMMA FieldsAre ==
  /\ \A p \in Plls : Fields(PLL_CTRL[p]) = {"fdiv", "bypass", "reset"}
  /\ \A r \in ClockControls : Fields(r) = {"active", "pll", "div0", "div1"}
  /\ Fields(PLL_STATUS) = Plls /\ Fields(APER_CLK_CTRL) = {"uart1", "smc"}
  /\ Fields(DDRIOB_DCI_CTRL) = {"reset", "enable"} /\ Fields(DDRIOB_DCI_STATUS) = {"done"}
  /\ Fields(DDRC_CTRL) = {"soft_rstb"} /\ Fields(DDRC_MODE_STS) = {"operating_mode"}
  /\ Fields(UART_BAUD_GEN) = {"cd"} /\ Fields(UART_BAUD_DIV) = {"bdiv"}
  /\ Fields(LVL_SHFTR_EN) = {"enabled"} /\ Fields(FPGA_RST_CTRL) = {"asserted"}
<1>0. PICK on : on = 0
  OBVIOUS
<1>1. PICK m : m = AfterBootRom(on)
  OBVIOUS
<1>2. \A r : Fields(r) = DOMAIN m[r]
  BY <1>0, <1>1 DEF Fields
<1>3. \A p \in Plls : DOMAIN m[PLL_CTRL[p]] = {"fdiv", "bypass", "reset"}
  <2>1. \A p \in Plls : m[PLL_CTRL[p]] = [fdiv |-> 1, bypass |-> 0, reset |-> 0]
    BY <1>1, BootRomLeaves
  <2> QED
    BY <2>1
<1>4. \A r \in ClockControls : DOMAIN m[r] = {"active", "pll", "div0", "div1"}
  <2>1. \A r \in ClockControls : m[r] = [active |-> on, pll |-> "io", div0 |-> 1, div1 |-> 1]
    BY <1>1, BootRomLeaves
  <2> QED
    BY <2>1
<1>5. DOMAIN m[PLL_STATUS] = {"arm", "ddr", "io"}
  <2>1. m[PLL_STATUS] = [arm |-> 1, ddr |-> 1, io |-> 1]
    BY <1>1, BootRomLeaves
  <2> QED
    BY <2>1
<1>6. DOMAIN m[APER_CLK_CTRL] = {"uart1", "smc"}
  <2>1. m[APER_CLK_CTRL] = [uart1 |-> on, smc |-> on]
    BY <1>1, BootRomLeaves
  <2> QED
    BY <2>1
<1>7. DOMAIN m[DDRIOB_DCI_CTRL] = {"reset", "enable"}
  <2>1. m[DDRIOB_DCI_CTRL] = [reset |-> 0, enable |-> 0]
    BY <1>1, BootRomLeaves
  <2> QED
    BY <2>1
<1>8. DOMAIN m[DDRIOB_DCI_STATUS] = {"done"}
  <2>1. m[DDRIOB_DCI_STATUS] = [done |-> 0]
    BY <1>1, BootRomLeaves
  <2> QED
    BY <2>1
<1>9. DOMAIN m[DDRC_CTRL] = {"soft_rstb"}
  <2>1. m[DDRC_CTRL] = [soft_rstb |-> 0]
    BY <1>1, BootRomLeaves
  <2> QED
    BY <2>1
<1>10. DOMAIN m[DDRC_MODE_STS] = {"operating_mode"}
  <2>1. m[DDRC_MODE_STS] = [operating_mode |-> 0]
    BY <1>1, BootRomLeaves
  <2> QED
    BY <2>1
<1>11. DOMAIN m[UART_BAUD_GEN] = {"cd"}
  <2>1. m[UART_BAUD_GEN] = [cd |-> 1]
    BY <1>1, BootRomLeaves
  <2> QED
    BY <2>1
<1>12. DOMAIN m[UART_BAUD_DIV] = {"bdiv"}
  <2>1. m[UART_BAUD_DIV] = [bdiv |-> 1]
    BY <1>1, BootRomLeaves
  <2> QED
    BY <2>1
<1>13. DOMAIN m[LVL_SHFTR_EN] = {"enabled"}
  <2>1. m[LVL_SHFTR_EN] = [enabled |-> 0]
    BY <1>1, BootRomLeaves
  <2> QED
    BY <2>1
<1>14. DOMAIN m[FPGA_RST_CTRL] = {"asserted"}
  <2>1. m[FPGA_RST_CTRL] = [asserted |-> 1]
    BY <1>1, BootRomLeaves
  <2> QED
    BY <2>1
<1> QED
  BY <1>2, <1>3, <1>4, <1>5, <1>6, <1>7, <1>8, <1>9, <1>10, <1>11, <1>12, <1>13, <1>14 DEF Plls

\* Each register keeps its bits.
FieldsInv == \A r \in Control : mem[r] = [b \in Fields(r) |-> mem[r][b]]

\* To begin with.
LEMMA FieldsStart == ASSUME Init PROVE FieldsInv
<1>1. PICK on : mem = AfterBootRom(on)
  BY DEF Init, Ps7Init
<1>2. ASSUME NEW r \in Control PROVE mem[r] = [b \in Fields(r) |-> mem[r][b]]
  <2>1. CASE r \in ClockControls
    <3>1. mem[r] = [active |-> on, pll |-> "io", div0 |-> 1, div1 |-> 1]
      BY <1>1, <2>1, BootRomLeaves
    <3>2. Fields(r) = {"active", "pll", "div0", "div1"}
      BY <2>1, FieldsAre
    <3> QED
      BY <3>1, <3>2
  <2>2. CASE \E p \in Plls : r = PLL_CTRL[p]
    <3>0. PICK p \in Plls : r = PLL_CTRL[p]
      BY <2>2
    <3>1. mem[r] = [fdiv |-> 1, bypass |-> 0, reset |-> 0]
      BY <1>1, <3>0, BootRomLeaves
    <3>2. Fields(r) = {"fdiv", "bypass", "reset"}
      BY <2>2, FieldsAre
    <3> QED
      BY <3>1, <3>2
  <2>3. CASE r = PLL_STATUS
    <3>1. mem[r] = [arm |-> 1, ddr |-> 1, io |-> 1] /\ Fields(r) = {"arm", "ddr", "io"}
      BY <1>1, <2>3, BootRomLeaves, FieldsAre DEF Plls
    <3> QED
      BY <3>1
  <2>4. CASE r \in {APER_CLK_CTRL, DDRIOB_DCI_CTRL}
    <3>1. \/ mem[r] = [uart1 |-> on, smc |-> on] /\ Fields(r) = {"uart1", "smc"}
          \/ mem[r] = [reset |-> 0, enable |-> 0] /\ Fields(r) = {"reset", "enable"}
      BY <1>1, <2>4, BootRomLeaves, FieldsAre, ZenonT(40)
    <3> QED
      BY <3>1
  <2>5. CASE r \in {DDRIOB_DCI_STATUS, DDRC_CTRL, DDRC_MODE_STS}
    <3>1. \/ mem[r] = [done |-> 0] /\ Fields(r) = {"done"}
          \/ mem[r] = [soft_rstb |-> 0] /\ Fields(r) = {"soft_rstb"}
          \/ mem[r] = [operating_mode |-> 0] /\ Fields(r) = {"operating_mode"}
      BY <1>1, <2>5, BootRomLeaves, FieldsAre, ZenonT(40)
    <3> QED
      BY <3>1
  <2>6. CASE r \in {UART_BAUD_GEN, UART_BAUD_DIV}
    <3>1. \/ mem[r] = [cd |-> 1] /\ Fields(r) = {"cd"}
          \/ mem[r] = [bdiv |-> 1] /\ Fields(r) = {"bdiv"}
      BY <1>1, <2>6, BootRomLeaves, FieldsAre, ZenonT(40)
    <3> QED
      BY <3>1
  <2>7. CASE r \in {LVL_SHFTR_EN, FPGA_RST_CTRL}
    <3>1. \/ mem[r] = [enabled |-> 0] /\ Fields(r) = {"enabled"}
          \/ mem[r] = [asserted |-> 1] /\ Fields(r) = {"asserted"}
      BY <1>1, <2>7, BootRomLeaves, FieldsAre
    <3> QED
      BY <3>1
  <2> QED
    BY <2>1, <2>2, <2>3, <2>4, <2>5, <2>6, <2>7, RegistersApart DEF Others
<1> QED
  BY <1>2 DEF FieldsInv

\* No instruction writes a register that only reports.
LEMMA StatusesUnwritten ==
  ASSUME NEW x \in Instructions, IsWrite(x)
  PROVE  x.reg \notin Statuses
<1>1. /\ PLL_STATUS = <<"slcr", \h10C>> /\ DDRIOB_DCI_STATUS = <<"slcr", \hB74>>
      /\ DDRC_MODE_STS = <<"ddrc", \h054>>
  BY DEF PLL_STATUS, DDRIOB_DCI_STATUS, DDRC_MODE_STS, SLCR, DDRC
<1>2. CASE x \in SlcrWrites
  BY <1>1, <1>2 DEF SlcrWrites, WritesTo, PlainOffsets, Statuses
<1>3. CASE x \in OtherWrites
  <2>1. x.reg # DDRC_MODE_STS /\ x.reg[1] # "slcr"
    BY <1>3 DEF OtherWrites, WritesTo, Blocks
  <2> QED
    BY <1>1, <2>1 DEF Statuses
<1>4. CASE x \in PllWrites
  BY <1>4, PllRegisters DEF PllWrites, Statuses
<1>5. CASE x \in KeyWrites
  BY <1>1, <1>5 DEF KeyWrites, WritesTo, Statuses, SLCR_LOCK, SLCR_UNLOCK, SLCR
<1>6. ~(x \in Polls) /\ \A p \in Plls : x # AwaitsLock(p)
  BY DEF IsWrite, Polls, AwaitsLock
<1> QED
  BY <1>2, <1>3, <1>4, <1>5, <1>6 DEF Instructions, NoKeys, Plain, Unprotected, PllSteps

\* What a reset takes back.
LEMMA ReactionIs ==
  ASSUME NEW m, DOMAIN m = Control, \A r \in Control : m[r] = [b \in Fields(r) |-> m[r][b]]
  PROVE  /\ DOMAIN React(m) = Control
         /\ \A r \in Control : React(m)[r] = [b \in Fields(r) |-> React(m)[r][b]]
         /\ \A r \in Control \ Statuses : React(m)[r] = m[r]
         /\ \/ React(m)[DDRIOB_DCI_STATUS].done = m[DDRIOB_DCI_STATUS].done
            \/ m[DDRIOB_DCI_CTRL].reset = 0
         /\ \/ React(m)[DDRC_MODE_STS].operating_mode = m[DDRC_MODE_STS].operating_mode
            \/ m[DDRC_CTRL].soft_rstb = 0
<1>1. PICK a, b, c : /\ a = PLL_STATUS /\ b = DDRIOB_DCI_STATUS /\ c = DDRC_MODE_STS
  OBVIOUS
<1>2. /\ a \in Control /\ b \in Control /\ c \in Control /\ a # b /\ a # c /\ b # c
      /\ Statuses = {a, b, c}
  BY <1>1, PllRegisters, OthersApart DEF Statuses
<1>3. PICK s, d, o :
        /\ s = [p \in Plls |-> IF m[PLL_CTRL[p]].reset = 1 THEN 0 ELSE m[a][p]]
        /\ d = IF m[DDRIOB_DCI_CTRL].reset = 0 THEN 0 ELSE m[b].done
        /\ o = IF m[DDRC_CTRL].soft_rstb = 0 THEN 0 ELSE m[c].operating_mode
  OBVIOUS
<1>4. React(m) = [m EXCEPT ![a] = s, ![b].done = d, ![c].operating_mode = o]
  BY <1>1, <1>3 DEF React
<1>5. /\ m[b] = [f \in {"done"} |-> m[b][f]] /\ m[c] = [f \in {"operating_mode"} |-> m[c][f]]
      /\ Fields(a) = Plls /\ Fields(b) = {"done"} /\ Fields(c) = {"operating_mode"}
  BY <1>1, <1>2, FieldsAre
<1>6. /\ DOMAIN React(m) = Control /\ React(m)[a] = s
      /\ React(m)[b] = [m[b] EXCEPT !.done = d] /\ React(m)[c] = [m[c] EXCEPT !.operating_mode = o]
      /\ \A r \in Control \ {a, b, c} : React(m)[r] = m[r]
  BY <1>2, <1>4
<1>7. React(m)[b] = [f \in {"done"} |-> d] /\ React(m)[c] = [f \in {"operating_mode"} |-> o]
  BY <1>5, <1>6
<1>8. React(m)[a] = [f \in Plls |-> React(m)[a][f]]
  BY <1>3, <1>6
<1>9. React(m)[b].done = d /\ React(m)[c].operating_mode = o
  BY <1>7
<1>10. /\ React(m)[b] = [f \in {"done"} |-> React(m)[b][f]]
       /\ React(m)[c] = [f \in {"operating_mode"} |-> React(m)[c][f]]
  BY <1>7
<1>11. \A r \in Control : React(m)[r] = [f \in Fields(r) |-> React(m)[r][f]]
  <2>1. ASSUME NEW r \in Control \ {a, b, c}
        PROVE React(m)[r] = [f \in Fields(r) |-> React(m)[r][f]]
    BY <1>6
  <2> QED
    BY <2>1, <1>5, <1>8, <1>10
<1> QED
  BY <1>1, <1>2, <1>3, <1>6, <1>9, <1>11

\* What a write does.
LEMMA WriteDoes ==
  ASSUME RunsInv, FieldsInv, Write
  PROVE  /\ Running /\ Running' /\ IsWrite(Instruction) /\ Instruction = Current[ptr]
         /\ Instruction \in Instructions /\ ptr \in Nat \ {0} /\ ptr' = ptr + 1
         /\ Current' = Current /\ UNCHANGED <<routine, section, ret, copy, si_ver>>
         /\ configured \subseteq configured'
         /\ ~Unlocks(Instruction) /\ ~Locks(Instruction) => Instruction.reg \in configured'
         /\ Locks(Instruction) => slcr' = "locked"
         /\ ~Unlocks(Instruction) /\ slcr = "locked" => slcr' = "locked"
         /\ \A r \in Control \ Statuses :
              mem'[r] = IF r = Instruction.reg THEN Overwrite(mem[r], Instruction.bits) ELSE mem[r]
         /\ mem'[DDRIOB_DCI_STATUS].done = mem[DDRIOB_DCI_STATUS].done
               \/ mem'[DDRIOB_DCI_CTRL].reset = 0
         /\ \/ mem'[DDRC_MODE_STS].operating_mode = mem[DDRC_MODE_STS].operating_mode
            \/ mem'[DDRC_CTRL].soft_rstb = 0
         /\ FieldsInv'
<1>1. /\ Running /\ IsWrite(Instruction) /\ ptr' = ptr + 1
      /\ UNCHANGED <<routine, section, ret, copy, si_ver>>
  BY DEF Write, Advance, IsWrite
<1>2. /\ Instruction = Current[ptr] /\ ptr \in Nat \ {0} /\ Instruction \in Instructions
  <2>1. /\ Complete(Current) /\ Instruction = Current[ptr] /\ ptr \in 1 .. Len(Current)
        /\ DOMAIN Current = 1 .. Len(Current) /\ Current \in Seq(Instructions \cup Exits)
    BY <1>1, CurrentIs, CompleteIs
  <2>2. Instruction \in Instructions \cup Exits
    BY <2>1
  <2> QED
    BY <2>1, <2>2, <1>1 DEF Exits, IsWrite
<1>3. Current' = Current /\ Running'
  BY <1>1, SameTable DEF Current, Running
<1>4. ~Ignored(Instruction.reg)
  BY <1>1, RunsTake DEF SlcrWritesTake, AboutToWrite, IsWrite
<1>5. PICK q : q = Instruction.reg
  OBVIOUS
<1>6. PICK m : m = [mem EXCEPT ![q] = Overwrite(@, Instruction.bits)]
  OBVIOUS
<1>7. mem' = IF q \in Control THEN React(m) ELSE mem
  BY <1>4, <1>5, <1>6 DEF Write
<1>8. DOMAIN mem = Control /\ slcr \in {"locked", "unlocked"}
  BY DEF RunsInv
<1>9. q \notin Statuses
  BY <1>1, <1>2, <1>5, StatusesUnwritten
<1>10. SLCR_LOCK # SLCR_UNLOCK
  BY DEF SLCR_LOCK, SLCR_UNLOCK, SLCR
<1>11. /\ configured \subseteq configured'
       /\ ~Unlocks(Instruction) /\ ~Locks(Instruction) => Instruction.reg \in configured'
  BY <1>1, <1>4 DEF Write, Unlocks, Locks
<1>12. slcr' = IF Instruction.reg = SLCR_LOCK THEN "locked"
               ELSE IF Instruction.reg = SLCR_UNLOCK THEN "unlocked" ELSE slcr
  BY <1>10 DEF Write
<1>13. /\ Locks(Instruction) => slcr' = "locked"
       /\ ~Unlocks(Instruction) /\ slcr = "locked" => slcr' = "locked"
  BY <1>1, <1>12 DEF Locks, Unlocks
<1>14. DDRIOB_DCI_CTRL \in Control \ Statuses /\ DDRC_CTRL \in Control \ Statuses
  BY RegistersApart, OthersApart DEF Others, Statuses
<1>15. CASE q \notin Control
  <2>1. mem' = mem
    BY <1>7, <1>15
  <2>2. FieldsInv'
    BY <2>1 DEF FieldsInv
  <2> QED
    BY <2>1, <2>2, <1>1, <1>2, <1>3, <1>5, <1>11, <1>13, <1>15
<1>16. CASE q \in Control
  <2>1. mem' = React(m)
    BY <1>7, <1>16
  <2>2. /\ DOMAIN m = Control /\ m[q] = Overwrite(mem[q], Instruction.bits)
        /\ \A r \in Control : r # q => m[r] = mem[r]
    BY <1>6, <1>8, <1>16
  <2>3. \A r \in Control : m[r] = [b \in Fields(r) |-> m[r][b]]
    <3>1. ASSUME NEW r \in Control PROVE m[r] = [b \in Fields(r) |-> m[r][b]]
      <4>1. mem[r] = [b \in Fields(r) |-> mem[r][b]]
        BY DEF FieldsInv
      <4>2. CASE r = q
        BY <2>2, <4>1, <4>2 DEF Overwrite
      <4>3. CASE r # q
        BY <2>2, <4>1, <4>3
      <4> QED
        BY <4>2, <4>3
    <3> QED
      BY <3>1
  <2>4. /\ \A r \in Control : React(m)[r] = [b \in Fields(r) |-> React(m)[r][b]]
        /\ \A r \in Control \ Statuses : React(m)[r] = m[r]
        /\ \/ React(m)[DDRIOB_DCI_STATUS].done = m[DDRIOB_DCI_STATUS].done
           \/ m[DDRIOB_DCI_CTRL].reset = 0
        /\ \/ React(m)[DDRC_MODE_STS].operating_mode = m[DDRC_MODE_STS].operating_mode
           \/ m[DDRC_CTRL].soft_rstb = 0
    BY <2>2, <2>3, ReactionIs
  <2>5. \A r \in Control \ Statuses :
          mem'[r] = IF r = q THEN Overwrite(mem[r], Instruction.bits) ELSE mem[r]
    BY <2>1, <2>2, <2>4
  <2>6. m[DDRIOB_DCI_STATUS] = mem[DDRIOB_DCI_STATUS] /\ m[DDRC_MODE_STS] = mem[DDRC_MODE_STS]
    BY <1>9, <2>2, PllRegisters DEF Statuses
  <2>7. mem'[DDRIOB_DCI_STATUS].done = mem[DDRIOB_DCI_STATUS].done
            \/ mem'[DDRIOB_DCI_CTRL].reset = 0
    BY <1>14, <2>1, <2>4, <2>6
  <2>8. \/ mem'[DDRC_MODE_STS].operating_mode = mem[DDRC_MODE_STS].operating_mode
        \/ mem'[DDRC_CTRL].soft_rstb = 0
    BY <1>14, <2>1, <2>4, <2>6
  <2>9. FieldsInv'
    BY <2>1, <2>4 DEF FieldsInv
  <2> QED
    BY <2>5, <2>7, <2>8, <2>9, <1>1, <1>2, <1>3, <1>5, <1>11, <1>13
<1> QED
  BY <1>15, <1>16

\* What the hardware does.
LEMMA HardwareDoes ==
  ASSUME RunsInv, FieldsInv, Hardware
  PROVE  /\ UNCHANGED <<routine, section, ptr, ret, copy, si_ver, configured, slcr>>
         /\ Current' = Current /\ FieldsInv'
         /\ \A r \in Control \ Statuses : mem'[r] = mem[r]
         /\ mem[DDRIOB_DCI_STATUS].done = 1 => mem'[DDRIOB_DCI_STATUS].done = 1
         /\ mem[DDRC_MODE_STS].operating_mode = 1 => mem'[DDRC_MODE_STS].operating_mode = 1
<1>1. PICK r, b : r \in Statuses /\ SetBit(r, b) /\ b \in Fields(r)
  BY FieldsAre DEF Hardware, PllLocks, DciCompletes, DdrOperates, Statuses
<1>2. /\ UNCHANGED <<routine, section, ptr, ret, copy, si_ver, configured, slcr>>
      /\ mem' = [mem EXCEPT ![r][b] = 1]
  BY <1>1 DEF SetBit, interpreter
<1>3. Current' = Current
  BY <1>2, SameTable DEF Current
<1>4. DOMAIN mem = Control /\ Statuses \subseteq Control
  BY PllRegisters DEF RunsInv, Statuses
<1>5. mem'[r] = [mem[r] EXCEPT ![b] = 1] /\ \A q \in Control : q # r => mem'[q] = mem[q]
  BY <1>1, <1>2, <1>4
<1>6. \A q \in Control : mem[q] = [f \in Fields(q) |-> mem[q][f]]
  BY DEF FieldsInv
<1>7. PICK v : v = mem[r] /\ v = [f \in Fields(r) |-> v[f]]
  <2>1. r \in Control
    BY <1>1, <1>4
  <2>2. mem[r] = [f \in Fields(r) |-> mem[r][f]]
    BY <2>1, <1>6
  <2> QED
    BY <2>2
<1>8. /\ mem'[r] = [f \in Fields(r) |-> mem'[r][f]]
      /\ \A f \in Fields(r) : v[f] = 1 => mem'[r][f] = 1
  BY <1>5, <1>7
<1>9. FieldsInv'
  <2>1. ASSUME NEW q \in Control PROVE mem'[q] = [f \in Fields(q) |-> mem'[q][f]]
    BY <1>5, <1>6, <1>8
  <2> QED
    BY <2>1 DEF FieldsInv
<1>10. /\ mem[DDRIOB_DCI_STATUS].done = 1 => mem'[DDRIOB_DCI_STATUS].done = 1
       /\ mem[DDRC_MODE_STS].operating_mode = 1 => mem'[DDRC_MODE_STS].operating_mode = 1
  <2>1. "done" \in Fields(DDRIOB_DCI_STATUS) /\ "operating_mode" \in Fields(DDRC_MODE_STS)
    BY FieldsAre
  <2>2. DDRIOB_DCI_STATUS \in Control /\ DDRC_MODE_STS \in Control
    BY PllRegisters
  <2> QED
    BY <2>1, <2>2, <1>5, <1>7, <1>8
<1> QED
  BY <1>1, <1>2, <1>3, <1>5, <1>9, <1>10

---------------------------------------------------------------------------------
(* The invariant.                                                          *)

\* What x has written is in its register, or the SLCR locked.
Stands(x) ==
  IF x = LockKey THEN slcr = "locked"
  ELSE /\ x.reg \in configured
       /\ x.reg \in Control =>
            \A b \in DOMAIN x.bits \cap Fields(x.reg) : mem[x.reg][b] = x.bits[b]

\* The writes that may stand.
Standing == {x \in Instructions : IsWrite(x) /\ (x = LockKey \/ (~Locks(x) /\ ~Unlocks(x)))}

\* The order of the tables, and the name of the one that is run.
InitOrder == <<"mio", "pll", "clock", "ddr", "peripherals">>

\* The table that is run.
CurrentName == Sections(routine)[section]

\* The pins of UART 1.
UartGoals == {Set(MIO_PIN(24), NoBits), Set(MIO_PIN(25), NoBits)}

\* What the code after it relies on, of a table of ps7_init.
TableGoals(k) == (Goals[InitOrder[k]] \ {LockKey}) \cup (IF k = 1 THEN UartGoals ELSE {})

\* The table is done.
Passed(k) ==
  \/ stage \notin {"power_on", "init", "fallback"}
  \/ ret = "PS7_INIT_SUCCESS"
  \/ routine = "ps7_init" /\ section > k

\* Which routine runs in which stage of the loader, and what it has returned.
OrderInv ==
  /\ routine = "ps7_init" => stage = "init" /\ ret = "none"
  /\ routine = "ps7_debug" => stage = "debug" /\ slcr = "locked"
  /\ routine = "ps7_post_config" => stage = "post_config"
  /\ stage = "power_on" => ret = "none"
  /\ stage = "initialised" => ret = "PS7_INIT_SUCCESS"
  /\ ret = "PS7_INIT_SUCCESS" /\ routine = "none" => slcr = "locked"

\* What the table that is run has written and not undone is there.
SettledInv == Running => \A x \in Standing : LastsTo(Current, ptr, x) => Stands(x)

\* The status it has awaited is still there, too: nothing resets it within the table.
PassedInv ==
  Running => \A j \in 1 .. (ptr - 1) :
    /\ Current[j] = AwaitsDci  => mem[DDRIOB_DCI_STATUS].done = 1
    /\ Current[j] = AwaitsMode => mem[DDRC_MODE_STS].operating_mode = 1

\* What the tables before it have set up stands: the later tables touch other registers.
UpInv ==
  \A k \in 1..5 : Passed(k) =>
    /\ \A g \in TableGoals(k) : Stands(g)
    /\ k = 4 => mem[DDRC_MODE_STS].operating_mode = 1

\* The PL is out of its reset only with its signals connected.
LevelInv == mem[FPGA_RST_CTRL].asserted = 0 => mem[LVL_SHFTR_EN].enabled = 1

\* The keys.
LEMMA KeysAre ==
  /\ SLCR_LOCK \notin Control /\ SLCR_UNLOCK \notin Control /\ SLCR_LOCK # SLCR_UNLOCK
  /\ IsWrite(LockKey) /\ LockKey.reg = SLCR_LOCK /\ LockKey \in Standing
<1>1. SLCR_LOCK = <<"slcr", \h004>> /\ SLCR_UNLOCK = <<"slcr", \h008>>
  BY DEF SLCR_LOCK, SLCR_UNLOCK, SLCR
<1>2. \A r \in {DDRC_CTRL, DDRC_MODE_STS, UART_BAUD_GEN, UART_BAUD_DIV} : r[1] # "slcr"
  BY DEF DDRC_CTRL, DDRC_MODE_STS, UART_BAUD_GEN, UART_BAUD_DIV, DDRC, UART1
<1>3. SLCR_LOCK \notin Control /\ SLCR_UNLOCK \notin Control
  BY <1>1, <1>2, ControlIs
<1>4. IsWrite(LockKey) /\ LockKey.reg = SLCR_LOCK
  BY DEF IsWrite, LockKey
<1>5. LockKey \in Instructions
  BY DEF LockKey, Instructions, KeyWrites, WritesTo, Bits
<1> QED
  BY <1>1, <1>3, <1>4, <1>5 DEF Standing

\* The goals are writes to control registers, but for the lock key.
LEMMA GoalsAre ==
  ASSUME NEW n \in Names, NEW g \in Goals[n], g # LockKey
  PROVE  \E r \in Control : \E b : g = Set(r, b)
<1>1. ASSUME g \in PllGoals PROVE \E r \in Control : \E b : g = Set(r, b)
  <2>1. CASE \E p \in Plls : g = Set(PLL_CTRL[p], [bypass |-> 0])
    BY <2>1, PllRegisters
  <2>2. CASE \E b : \/ g = Set(PLL_CTRL["arm"], b) \/ g = Set(PLL_CTRL["ddr"], b)
                    \/ g = Set(PLL_CTRL["io"], b)
    BY <2>2, PllRegisters DEF Plls
  <2>3. CASE \E b : g = Set(ARM_CLK_CTRL, b) \/ g = Set(DDR_CLK_CTRL, b)
    BY <2>3, RegistersApart DEF ClockControls
  <2> QED
    BY <1>1, <2>1, <2>2, <2>3, Zenon DEF PllGoals
<1>2. ASSUME g \in ClockGoals PROVE \E r \in Control : \E b : g = Set(r, b)
  <2>1. \E r \in ClockControls \cup {APER_CLK_CTRL} : \E b : g = Set(r, b)
    BY <1>2 DEF ClockGoals, ClockControls
  <2> QED
    BY <2>1, RegistersApart DEF Others
<1>3. ASSUME g \in PlGoals PROVE \E r \in Control : \E b : g = Set(r, b)
  <2>1. \E r \in ClockControls : \E b : g = Set(r, b)
    BY <1>3 DEF PlGoals, ClockControls
  <2> QED
    BY <2>1, RegistersApart
<1>4. ASSUME g \in BaudGoals \cup {Calibrate, Release} PROVE \E r \in Control : \E b : g = Set(r, b)
  <2>1. \E r \in Others : \E b : g = Set(r, b)
    BY <1>4 DEF BaudGoals, Calibrate, Release, Others
  <2> QED
    BY <2>1, RegistersApart
<1>5. \/ g \in PllGoals \/ g \in ClockGoals \/ g \in PlGoals
      \/ g \in BaudGoals \cup {Calibrate, Release}
  BY DEF Goals, Names
<1> QED
  BY <1>1, <1>2, <1>3, <1>4, <1>5

\* Lasting instructions come from the table.
LEMMA LastingIs ==
  ASSUME NEW S, NEW s \in Seq(S), NEW p \in 1 .. (Len(s) + 1), NEW x, LastsTo(s, p, x)
  PROVE  x \in S
<1>1. PICK j \in 1 .. (p - 1) : s[j] = x
  BY DEF LastsTo
<1>2. j \in 1 .. Len(s)
  BY <1>1
<1> QED
  BY <1>1, <1>2

\* The pins, in the first of the tables.
LEMMA PinsStand ==
  ASSUME copy \in Copies, si_ver \in 0..3, NEW g \in UartGoals
  PROVE  /\ Lasts(Table("mio"), g) /\ \A y : Leaves(y, g)
         /\ IsWrite(g) /\ ~Locks(g) /\ ~Unlocks(g) /\ g # LockKey
<1>1. Lasts(Table("mio"), g)
  <2>1. Table("mio") = MioSection
    BY TableIs
  <2>2. Lasts(MioSection, g)
    BY PinsLast DEF UartGoals
  <2> QED
    BY <2>1, <2>2
<1>2. PICK n \in {24, 25} : g = Set(MIO_PIN(n), NoBits)
  BY DEF UartGoals
<1>3. MIO_PIN(n) = <<"slcr", \h700 + 4 * n>>
  BY DEF MIO_PIN, SLCR
<1>4. MIO_PIN(n) # SLCR_LOCK /\ MIO_PIN(n) # SLCR_UNLOCK
  BY <1>3 DEF SLCR_LOCK, SLCR_UNLOCK, SLCR
<1>5. /\ g.op = "MASKWRITE" /\ g.reg = MIO_PIN(n) /\ DOMAIN g.bits = {} /\ g # LockKey
  BY <1>2 DEF Set, NoBits, LockKey
<1> QED
  BY <1>1, <1>4, <1>5 DEF Leaves, IsWrite, Locks, Unlocks

\* So these are the goals: writes that stand at the end of their table.
LEMMA TableGoalsAre ==
  ASSUME copy \in Copies, si_ver \in 0..3, NEW k \in 1..5, NEW g \in TableGoals(k)
  PROVE  /\ g \in Standing /\ g # LockKey /\ InitOrder[k] \in Names
         /\ Lasts(Table(InitOrder[k]), g)
         /\ \/ \A y : Leaves(y, g)
            \/ Guard(g) \in Control \cap Own[InitOrder[k]]
<1>1. PICK n \in Names : n = InitOrder[k] /\ (k = 1 => n = "mio")
  BY DEF InitOrder, Names
<1>2. Achieves(Table(n), Own[n], Goals[n])
  BY TablesAchieve
<1>3. PICK s \in Seq(To(Own[n])) : s = Table(n)
  BY <1>2 DEF Achieves
<1>4. ASSUME Lasts(s, g), IsWrite(g) PROVE g \in Instructions
  <2>1. Len(s) + 1 \in 1 .. (Len(s) + 1)
    BY <1>3
  <2>2. g \in To(Own[n])
    BY <1>3, <1>4, <2>1, LastingIs DEF Lasts
  <2> QED
    BY <1>4, <2>2 DEF To, Exits, IsWrite
<1>5. CASE g \in Goals[n] \ {LockKey}
  <2>1. PICK r, b : r \in Control /\ g = Set(r, b)
    BY <1>5, GoalsAre
  <2>2. g.op = "MASKWRITE" /\ g.reg = r /\ IsWrite(g)
    BY <2>1 DEF Set, IsWrite
  <2>3. ~Locks(g) /\ ~Unlocks(g)
    BY <2>1, <2>2, KeysAre DEF Locks, Unlocks
  <2>4. Lasts(s, g) /\ Guard(g) \in Own[n] /\ Guard(g) = r
    BY <1>2, <1>3, <1>5, <2>2 DEF Achieves, Guard
  <2> QED
    BY <1>1, <1>3, <1>4, <1>5, <2>1, <2>2, <2>3, <2>4 DEF Standing
<1>6. CASE g \in UartGoals /\ k = 1
  <2>1. /\ Lasts(s, g) /\ (\A y : Leaves(y, g)) /\ IsWrite(g) /\ ~Locks(g) /\ ~Unlocks(g)
        /\ g # LockKey
    BY <1>1, <1>3, <1>6, PinsStand
  <2> QED
    BY <1>1, <1>3, <1>4, <2>1 DEF Standing
<1>7. \/ g \in Goals[n] \ {LockKey}
      \/ g \in UartGoals /\ k = 1
  BY <1>1 DEF TableGoals
<1> QED
  BY <1>5, <1>6, <1>7

\* Which table is run.
LEMMA WhichTable ==
  ASSUME RunsInv, Running
  PROVE  /\ CurrentName \in Names /\ Current = Table(CurrentName)
         /\ Achieves(Current, Own[CurrentName], Goals[CurrentName])
         /\ Instruction \in To(Own[CurrentName])
         /\ \/ /\ routine = "ps7_init" /\ section \in 1..5 /\ CurrentName = InitOrder[section]
               /\ section < Len(Sections(routine)) <=> section # 5
            \/ routine = "ps7_post_config" /\ CurrentName = "post_config"
            \/ routine = "ps7_debug" /\ CurrentName = "debug"
<1>1. /\ routine \in Routines /\ section \in DOMAIN Sections(routine)
      /\ copy \in Copies /\ si_ver \in 0..3
      /\ Instruction = Current[ptr] /\ ptr \in 1 .. Len(Current)
  BY CurrentIs DEF RunsInv
<1>2. CurrentName \in Names /\ Current = Table(CurrentName)
  BY <1>1, SectionNames DEF CurrentName, Current
<1>3. Achieves(Current, Own[CurrentName], Goals[CurrentName])
  BY <1>1, <1>2, TablesAchieve
<1>4. Instruction \in To(Own[CurrentName])
  <2>1. Current \in Seq(To(Own[CurrentName]))
    BY <1>3 DEF Achieves
  <2> QED
    BY <1>1, <2>1
<1>5. \/ /\ routine = "ps7_init" /\ section \in 1..5 /\ CurrentName = InitOrder[section]
         /\ section < Len(Sections(routine)) <=> section # 5
      \/ routine = "ps7_post_config" /\ CurrentName = "post_config"
      \/ routine = "ps7_debug" /\ CurrentName = "debug"
  <2>1. CASE routine = "ps7_init"
    <3>1. Sections(routine) = InitOrder
      BY <2>1 DEF Sections, InitOrder
    <3>2. DOMAIN InitOrder = 1..5 /\ Len(InitOrder) = 5
      BY DEF InitOrder
    <3>3. section \in 1..5 /\ CurrentName = InitOrder[section]
      <4>1. section \in 1..5
        BY <1>1, <3>1, <3>2
      <4>2. CurrentName = InitOrder[section]
        BY <3>1, Zenon DEF CurrentName
      <4> QED
        BY <4>1, <4>2
    <3>4. Len(Sections(routine)) = 5
      BY <3>1, <3>2, Zenon
    <3>5. section < Len(Sections(routine)) <=> section # 5
      <4>1. PICK l : l = Len(Sections(routine)) /\ l = 5
        BY <3>4, Zenon
      <4>2. section < l <=> section # 5
        BY <3>3, <4>1
      <4> QED
        BY <4>1, <4>2, Zenon
    <3> QED
      BY <2>1, <3>3, <3>5, Zenon
  <2>2. CASE routine = "ps7_post_config"
    BY <1>1, <2>2 DEF CurrentName, Sections
  <2>3. CASE routine = "ps7_debug"
    BY <1>1, <2>3 DEF CurrentName, Sections
  <2> QED
    BY <1>1, <2>1, <2>2, <2>3 DEF Routines
<1> QED
  BY <1>2, <1>3, <1>4, <1>5

\* A write leaves standing what it leaves, or is.
LEMMA StandsOnWrite ==
  ASSUME RunsInv, FieldsInv, Write, NEW x \in Standing,
         Instruction = x \/ (Stands(x) /\ Leaves(Instruction, x))
  PROVE  Stands(x)'
<1>1. /\ IsWrite(Instruction) /\ configured \subseteq configured'
      /\ ~Unlocks(Instruction) /\ ~Locks(Instruction) => Instruction.reg \in configured'
      /\ Locks(Instruction) => slcr' = "locked"
      /\ ~Unlocks(Instruction) /\ slcr = "locked" => slcr' = "locked"
      /\ \A r \in Control \ Statuses :
           mem'[r] = IF r = Instruction.reg THEN Overwrite(mem[r], Instruction.bits) ELSE mem[r]
  BY WriteDoes
<1>2. CASE x = LockKey
  <2>1. slcr' = "locked"
    <3>1. CASE Instruction = x
      BY <1>1, <1>2, <3>1, KeysAre DEF Locks
    <3>2. CASE Stands(x) /\ Leaves(Instruction, x)
      BY <1>1, <1>2, <3>2 DEF Stands, Leaves
    <3> QED
      BY <3>1, <3>2
  <2> QED
    BY <1>2, <2>1 DEF Stands
<1>3. CASE x # LockKey
  <2>1. IsWrite(x) /\ ~Locks(x) /\ ~Unlocks(x) /\ x \in Instructions
    BY <1>3 DEF Standing
  <2>2. x.reg \in configured'
    BY <1>1, <1>3, <2>1 DEF Stands
  <2>3. ASSUME x.reg \in Control, NEW b \in DOMAIN x.bits \cap Fields(x.reg)
        PROVE  mem'[x.reg][b] = x.bits[b]
    <3>1. PICK r \in Control \ Statuses : r = x.reg
      BY <2>1, <2>3, StatusesUnwritten
    <3>2. mem'[r] = IF r = Instruction.reg THEN Overwrite(mem[r], Instruction.bits) ELSE mem[r]
      BY <1>1
    <3>3. b \in DOMAIN mem[r]
      BY <2>3, <3>1 DEF FieldsInv
    <3>4. CASE Instruction = x
      BY <3>1, <3>2, <3>3, <3>4, <2>3 DEF Overwrite
    <3>5. CASE Stands(x) /\ Leaves(Instruction, x)
      <4>1. mem[r][b] = x.bits[b]
        BY <1>3, <2>3, <3>1, <3>5 DEF Stands
      <4>2. r = Instruction.reg => b \notin DOMAIN Instruction.bits
        BY <1>1, <2>3, <3>1, <3>5 DEF Leaves
      <4> QED
        BY <3>1, <3>2, <3>3, <4>1, <4>2 DEF Overwrite
    <3> QED
      BY <3>4, <3>5
  <2> QED
    BY <1>3, <2>2, <2>3 DEF Stands
<1> QED
  BY <1>2, <1>3

\* All else leaves standing what stands.
LEMMA StandsOtherwise ==
  ASSUME NEW x \in Standing, Stands(x), UNCHANGED <<slcr, configured>>,
         \A r \in Control \ Statuses : mem'[r] = mem[r]
  PROVE  Stands(x)'
<1>1. CASE x = LockKey
  BY <1>1 DEF Stands
<1>2. CASE x # LockKey
  <2>1. x \in Instructions /\ IsWrite(x)
    BY DEF Standing
  <2>2. x.reg \notin Statuses
    BY <2>1, StatusesUnwritten
  <2> QED
    BY <1>2, <2>2 DEF Stands
<1> QED
  BY <1>1, <1>2

\* What a table that is done has set up is not touched by another.
LEMMA GoalsLeft ==
  ASSUME RunsInv, OrderInv, Running, NEW k \in 1..5, Passed(k), NEW g \in TableGoals(k)
  PROVE  Leaves(Instruction, g)
<1>1. CurrentName \in Names /\ Instruction \in To(Own[CurrentName])
  BY WhichTable
<1>2. CurrentName # InitOrder[k]
  <2>1. InitOrder[k] \in {"mio", "pll", "clock", "ddr", "peripherals"}
    BY DEF InitOrder
  <2>2. CASE routine = "ps7_init"
    <3>1. section \in 1..5 /\ CurrentName = InitOrder[section]
      BY <2>2, WhichTable
    <3>2. section > k
      BY <2>2 DEF OrderInv, Passed
    <3> QED
      BY <3>1, <3>2 DEF InitOrder
  <2>3. CASE routine # "ps7_init"
    BY <2>1, <2>3, WhichTable
  <2> QED
    BY <2>2, <2>3
<1>3. /\ InitOrder[k] \in Names
      /\ (\A y : Leaves(y, g)) \/ Guard(g) \in Control \cap Own[InitOrder[k]]
  BY TableGoalsAre DEF RunsInv
<1>4. CASE Guard(g) \in Control \cap Own[InitOrder[k]]
  <2>1. Guard(g) \in Tracked /\ Guard(g) # SLCR_UNLOCK
    BY <1>4, KeysAre DEF Tracked
  <2>2. Guard(g) \notin Own[CurrentName]
    BY <1>1, <1>2, <1>3, <1>4, <2>1, OwnsAreApart
  <2> QED
    BY <1>1, <2>1, <2>2, OthersLeave
<1> QED
  BY <1>3, <1>4

\* At its EXIT a table has achieved what it is for.
LEMMA AtExit ==
  ASSUME RunsInv, SettledInv, Running, Instruction.op = "EXIT",
         NEW g \in Standing, Lasts(Current, g)
  PROVE  Stands(g)
<1>1. /\ Instruction = Current[ptr] /\ ptr = Len(Current) /\ ptr \in Nat \ {0}
  BY CurrentIs
<1>2. Instruction # g
  BY DEF Standing, IsWrite
<1>3. LastsTo(Current, ptr, g)
  BY <1>1, <1>2, LastsNext DEF Lasts
<1> QED
  BY <1>3 DEF SettledInv

\* The last tables of the routines leave the SLCR locked.
LEMMA LockedAtExit ==
  ASSUME RunsInv, SettledInv, OrderInv, Running, Instruction.op = "EXIT",
         ~(section < Len(Sections(routine)))
  PROVE  slcr = "locked"
<1>1. CASE routine = "ps7_debug"
  BY <1>1 DEF OrderInv
<1>2. CASE routine # "ps7_debug"
  <2>1. CurrentName \in {"peripherals", "post_config"}
    BY <1>2, WhichTable DEF InitOrder
  <2>2. LockKey \in Goals[CurrentName]
    BY <2>1 DEF Goals
  <2>3. Lasts(Current, LockKey)
    BY <2>2, WhichTable DEF Achieves
  <2> QED
    BY <2>3, AtExit, KeysAre DEF Stands
<1> QED
  BY <1>1, <1>2

\* Only the other tables unlock the SLCR.
LEMMA DebugUnlocksNothing ==
  ASSUME RunsInv, Running, routine = "ps7_debug"
  PROVE  ~Unlocks(Instruction)
<1>1. Instruction \in To(Own.debug)
  BY WhichTable
<1>2. Own.debug = {} /\ SLCR_UNLOCK \in Tracked
  BY DEF Own, Tracked
<1> QED
  BY <1>1, <1>2 DEF To, Unlocks, IsWrite

\* The order, in the steps of the interpreter.
LEMMA OrderOfInterpret ==
  ASSUME RunsInv, FieldsInv, SettledInv, OrderInv, stage' = stage, Interpret
  PROVE  OrderInv'
<1>1. CASE Write
  <2>1. UNCHANGED <<routine, ret>> /\ Running
          /\ (~Unlocks(Instruction) /\ slcr = "locked" => slcr' = "locked")
    BY <1>1, WriteDoes
  <2>2. routine = "ps7_debug" => slcr' = "locked"
    BY <2>1, DebugUnlocksNothing DEF OrderInv
  <2> QED
    BY <2>1, <2>2 DEF OrderInv, Running
<1>2. CASE PollSucceeds \/ PollAgain
  <2>1. UNCHANGED <<routine, ret, slcr>>
    BY <1>2 DEF PollSucceeds, PollAgain, Advance
  <2> QED
    BY <2>1 DEF OrderInv
<1>3. CASE PollTimeOut
  <2>1. /\ Running /\ routine' = "none" /\ ret' = "PS7_INIT_TIMEOUT" /\ slcr' = slcr
        /\ routine \in Routines
    BY <1>3, CurrentIs DEF PollTimeOut, PollPending, Return
  <2>2. stage \notin {"power_on", "initialised"}
    BY <2>1 DEF OrderInv, Routines
  <2> QED
    BY <2>1, <2>2 DEF OrderInv
<1>4. CASE Exit /\ section < Len(Sections(routine))
  <2>1. UNCHANGED <<routine, ret, slcr>>
    BY <1>4 DEF Exit
  <2> QED
    BY <2>1 DEF OrderInv
<1>5. CASE Exit /\ ~(section < Len(Sections(routine)))
  <2>1. /\ Running /\ Instruction.op = "EXIT" /\ routine' = "none" /\ ret' = "PS7_INIT_SUCCESS"
        /\ slcr' = slcr /\ routine \in Routines
    BY <1>5, CurrentIs DEF Exit, Return
  <2>2. slcr = "locked"
    BY <1>5, <2>1, LockedAtExit
  <2>3. stage \notin {"power_on", "initialised"}
    BY <2>1 DEF OrderInv, Routines
  <2> QED
    BY <2>1, <2>2, <2>3 DEF OrderInv
<1> QED
  BY <1>1, <1>2, <1>3, <1>4, <1>5 DEF Interpret

\* And in those of the loader, which goes on only when the routine it called has returned.
LEMMA OrderOfLoader ==
  ASSUME RunsInv, OrderInv, Loader
  PROVE  /\ OrderInv'
         /\ UNCHANGED <<ret, mem, configured, slcr, copy, si_ver>>
         /\ UNCHANGED <<routine, section, ptr>> \/ ptr' = 1
         /\ \A k \in 1..5 : Passed(k)' => Passed(k)
<1>1. CASE CallRoutine("power_on", "ps7_init", "init")
  <2>1. /\ stage = "power_on" /\ stage' = "init" /\ routine' = "ps7_init" /\ section' = 1
       /\ ptr' = 1
        /\ UNCHANGED <<ret, mem, configured, slcr, copy, si_ver>>
    BY <1>1 DEF CallRoutine, Move, Call
  <2> QED
    BY <2>1 DEF OrderInv, Passed
<1>2. CASE Debug
  <2>1. /\ stage = "initialised" /\ stage' = "debug" /\ routine = "none" /\ routine' = "ps7_debug"
        /\ ptr' = 1 /\ UNCHANGED <<ret, mem, configured, slcr, copy, si_ver>>
    BY <1>2 DEF Debug, CallRoutine, Move, Call
  <2> QED
    BY <2>1 DEF OrderInv, Passed
<1>3. CASE AfterDownload
  <2>1. /\ stage = "downloaded" /\ stage' = "post_config" /\ routine' = "ps7_post_config"
        /\ ptr' = 1 /\ UNCHANGED <<ret, mem, configured, slcr, copy, si_ver>>
    BY <1>3 DEF AfterDownload, Call
  <2> QED
    BY <2>1 DEF OrderInv, Passed
<1>4. CASE InitReturned
  <2>1. /\ stage = "init" /\ routine = "none"
        /\ stage' = IF ret = "PS7_INIT_SUCCESS" THEN "initialised" ELSE "fallback"
        /\ UNCHANGED <<routine, section, ptr, ret, mem, configured, slcr, copy, si_ver>>
    BY <1>4 DEF InitReturned, Returned, ps7vars, interpreter
  <2> QED
    BY <2>1 DEF OrderInv, Passed
<1>5. CASE \/ NoDebug \/ DebugReturned \/ BeforeDownload \/ NoBitstream \/ Download
           \/ PostConfigReturned \/ BeforeHandoff \/ HookReturned \/ NoHook
  <2>1. /\ stage \notin {"power_on", "init", "fallback"}
        /\ stage' \notin {"power_on", "initialised"}
        /\ stage \notin {"debug", "post_config"} \/ routine = "none"
        /\ UNCHANGED <<routine, section, ptr, ret, mem, configured, slcr, copy, si_ver>>
    <3>1. CASE NoDebug \/ NoBitstream \/ BeforeDownload \/ Download
      BY <3>1 DEF NoDebug, NoBitstream, BeforeDownload, Download, Move, ps7vars, interpreter
    <3>2. CASE DebugReturned \/ PostConfigReturned
      BY <3>2 DEF DebugReturned, PostConfigReturned, Returned, Move, ps7vars, interpreter
    <3>3. CASE BeforeHandoff \/ HookReturned \/ NoHook
      BY <3>3 DEF BeforeHandoff, HookReturned, NoHook, Move, ps7vars, interpreter
    <3> QED
      BY <1>5, <3>1, <3>2, <3>3
  <2>2. routine = "none"
    BY <2>1 DEF OrderInv, RunsInv, Routines
  <2> QED
    BY <2>1, <2>2 DEF OrderInv, Passed
<1> QED
  BY <1>1, <1>2, <1>3, <1>4, <1>5 DEF Loader

\* The inductive invariant of the bring-up, next to RunsInv and PllInv: the registers hold
\* the fields the boot ROM left them with, the routines run in the order of the loader, the
\* table that is run and the tables before it have had their effect, and the level shifters
\* were connected before the PL was let go.
BringUpInv ==
  FieldsInv /\ OrderInv /\ SettledInv /\ PassedInv /\ UpInv /\ LevelInv

\* The goals stay.
LEMMA SameGoals ==
  ASSUME copy' = copy
  PROVE  Goals' = Goals /\ \A k \in 1..5 : TableGoals(k)' = TableGoals(k)
<1>1. PlGoals' = PlGoals
  BY DEF PlGoals
<1>2. Goals' = Goals
  BY <1>1 DEF Goals
<1> QED
  BY <1>2 DEF TableGoals

\* At its first instruction a table has done nothing.
LEMMA NothingLasts == ASSUME NEW s, NEW x PROVE ~LastsTo(s, 1, x)
BY DEF LastsTo

\* The level shifters are among the registers that do not react.
LEMMA LevelRegisters ==
  /\ FPGA_RST_CTRL \in Control \ Statuses /\ LVL_SHFTR_EN \in Control \ Statuses
  /\ FPGA_RST_CTRL # LVL_SHFTR_EN /\ FPGA_RST_CTRL # SLCR_UNLOCK /\ LVL_SHFTR_EN # SLCR_UNLOCK
  /\ FPGA_RST_CTRL \in Own.post_config /\ LVL_SHFTR_EN \in Own.post_config
<1>1. FPGA_RST_CTRL \in Others /\ LVL_SHFTR_EN \in Others /\ FPGA_RST_CTRL # LVL_SHFTR_EN
  BY OthersApart DEF Others
<1>2. /\ FPGA_RST_CTRL \notin {DDRIOB_DCI_STATUS, DDRC_MODE_STS}
      /\ LVL_SHFTR_EN \notin {DDRIOB_DCI_STATUS, DDRC_MODE_STS}
  BY OthersApart
<1> QED
  BY <1>1, <1>2, RegistersApart, KeysAre DEF Statuses, Own

\* A step that executes no instruction, or goes back to the beginning of a table.
LEMMA QuietKeeps ==
  ASSUME RunsInv, BringUpInv, FieldsInv', OrderInv',
         UNCHANGED <<copy, si_ver, slcr, configured>>,
         \A r \in Control \ Statuses : mem'[r] = mem[r],
         mem[DDRIOB_DCI_STATUS].done = 1 => mem'[DDRIOB_DCI_STATUS].done = 1,
         mem[DDRC_MODE_STS].operating_mode = 1 => mem'[DDRC_MODE_STS].operating_mode = 1,
         UNCHANGED <<routine, section, ptr>> \/ ptr' = 1 \/ ~Running',
         \A k \in 1..5 : Passed(k)' => Passed(k)
  PROVE  BringUpInv'
<1>1. \A x \in Standing : Stands(x) => Stands(x)'
  BY StandsOtherwise
<1>2. SettledInv' /\ PassedInv'
  <2>1. CASE UNCHANGED <<routine, section, ptr>>
    <3>1. Current' = Current /\ Running' = Running
      BY <2>1, SameTable DEF Current, Running
    <3>2. SettledInv'
      BY <1>1, <2>1, <3>1 DEF SettledInv, BringUpInv
    <3>3. PassedInv'
      BY <2>1, <3>1 DEF PassedInv, BringUpInv
    <3> QED
      BY <3>2, <3>3
  <2>2. CASE ptr' = 1
    <3>1. SettledInv'
      BY <2>2, NothingLasts DEF SettledInv
    <3>2. 1 .. (ptr' - 1) = {}
      BY <2>2
    <3>3. PassedInv'
      BY <3>2 DEF PassedInv
    <3> QED
      BY <3>1, <3>3
  <2>3. CASE ~Running'
    BY <2>3 DEF SettledInv, PassedInv
  <2> QED
    BY <2>1, <2>2, <2>3
<1>3. UpInv'
  <2>1. ASSUME NEW k \in 1..5, Passed(k)'
        PROVE  /\ \A g \in TableGoals(k)' : Stands(g)'
               /\ k = 4 => mem'[DDRC_MODE_STS].operating_mode = 1
    <3>1. /\ \A g \in TableGoals(k) : Stands(g)
          /\ k = 4 => mem[DDRC_MODE_STS].operating_mode = 1
      BY <2>1 DEF BringUpInv, UpInv
    <3>2. \A g \in TableGoals(k) : g \in Standing
      BY TableGoalsAre DEF RunsInv
    <3>3. TableGoals(k)' = TableGoals(k)
      BY SameGoals
    <3> QED
      BY <1>1, <3>1, <3>2, <3>3
  <2> QED
    BY <2>1 DEF UpInv
<1>4. LevelInv'
  BY LevelRegisters DEF BringUpInv, LevelInv
<1> QED
  BY <1>2, <1>3, <1>4 DEF BringUpInv

\* What is in the control registers is what stands.
LEMMA BitStands ==
  ASSUME NEW r \in Control, NEW b, Stands(Set(r, b)), NEW f \in DOMAIN b, f \in Fields(r)
  PROVE  mem[r][f] = b[f]
<1>1. /\ Set(r, b).reg = r /\ Set(r, b).bits = b /\ Set(r, b) # LockKey
  BY DEF Set, LockKey
<1>2. PICK x : x = Set(r, b)
  OBVIOUS
<1> QED
  BY <1>1, <1>2 DEF Stands

\* The first table started the calibration.
LEMMA CalibrateMeans ==
  Stands(Calibrate) => mem[DDRIOB_DCI_CTRL].reset = 1 /\ mem[DDRIOB_DCI_CTRL].enable = 1
<1> SUFFICES ASSUME Stands(Calibrate)
             PROVE  mem[DDRIOB_DCI_CTRL].reset = 1 /\ mem[DDRIOB_DCI_CTRL].enable = 1
  OBVIOUS
<1>1. PICK b : b = [reset |-> 1, enable |-> 1]
  OBVIOUS
<1>2. Stands(Set(DDRIOB_DCI_CTRL, b)) /\ DDRIOB_DCI_CTRL \in Control
  BY <1>1, RegistersApart DEF Calibrate, Others
<1>3. "reset" \in Fields(DDRIOB_DCI_CTRL) /\ "enable" \in Fields(DDRIOB_DCI_CTRL)
  BY FieldsAre
<1> QED
  BY <1>1, <1>2, <1>3, BitStands

\* Also after a step.
LEMMA CalibrateThen ==
  (Stands(Calibrate) => mem[DDRIOB_DCI_CTRL].reset = 1 /\ mem[DDRIOB_DCI_CTRL].enable = 1)'
BY CalibrateMeans, PTL

\* The fourth let the DDR controller go.
LEMMA ReleaseMeans == Stands(Release) => mem[DDRC_CTRL].soft_rstb = 1
<1> SUFFICES ASSUME Stands(Release) PROVE mem[DDRC_CTRL].soft_rstb = 1
  OBVIOUS
<1>1. PICK b : b = [soft_rstb |-> 1]
  OBVIOUS
<1>2. Stands(Set(DDRC_CTRL, b)) /\ DDRC_CTRL \in Control
  BY <1>1, RegistersApart DEF Release, Others
<1>3. "soft_rstb" \in Fields(DDRC_CTRL)
  BY FieldsAre
<1> QED
  BY <1>1, <1>2, <1>3, BitStands

\* Also after a step.
LEMMA ReleaseThen == (Stands(Release) => mem[DDRC_CTRL].soft_rstb = 1)'
BY ReleaseMeans, PTL

\* Which held it in reset before.
LEMMA HoldMeans == ASSUME Stands(Hold) PROVE mem[DDRC_CTRL].soft_rstb = 0
<1>1. PICK b : b = [soft_rstb |-> 0]
  OBVIOUS
<1>2. Stands(Set(DDRC_CTRL, b)) /\ DDRC_CTRL \in Control
  BY <1>1, RegistersApart DEF Hold, Others
<1>3. "soft_rstb" \in Fields(DDRC_CTRL)
  BY FieldsAre
<1> QED
  BY <1>1, <1>2, <1>3, BitStands

\* The table after the bitstream connected the signals.
LEMMA ConnectMeans == ASSUME Stands(Connect) PROVE mem[LVL_SHFTR_EN].enabled = 1
<1>1. PICK b : b = [enabled |-> 1]
  OBVIOUS
<1>2. Stands(Set(LVL_SHFTR_EN, b)) /\ LVL_SHFTR_EN \in Control
  BY <1>1, RegistersApart DEF Connect, Others
<1>3. "enabled" \in Fields(LVL_SHFTR_EN)
  BY FieldsAre
<1> QED
  BY <1>1, <1>2, <1>3, BitStands

\* These are among what stands.
LEMMA StepsStanding ==
  /\ Calibrate \in TableGoals(1) /\ Release \in TableGoals(4)
  /\ Release \in Standing /\ Hold \in Standing /\ Connect \in Standing
<1>1. PICK b1, b2, b3 : b1 = [soft_rstb |-> 1] /\ b2 = [soft_rstb |-> 0] /\ b3 = [enabled |-> 1]
  OBVIOUS
<1>2. b1 \in Bits /\ b2 \in Bits /\ b3 \in Bits
  BY <1>1 DEF Bits
<1>3. Release = Set(DDRC_CTRL, b1) /\ Hold = Set(DDRC_CTRL, b2) /\ Connect = Set(LVL_SHFTR_EN, b3)
  BY <1>1 DEF Release, Hold, Connect
<1>4. /\ Release \in Instructions /\ Hold \in Instructions /\ Connect \in Instructions
      /\ Release.reg = DDRC_CTRL /\ Hold.reg = DDRC_CTRL /\ Connect.reg = LVL_SHFTR_EN
  BY <1>2, <1>3, SetIs
<1>5. /\ IsWrite(Release) /\ IsWrite(Hold) /\ IsWrite(Connect)
      /\ Release # LockKey /\ Calibrate # LockKey
  BY DEF Release, Hold, Connect, Calibrate, Set, IsWrite, LockKey
<1>6. /\ DDRC_CTRL \notin {SLCR_LOCK, SLCR_UNLOCK} /\ LVL_SHFTR_EN \notin {SLCR_LOCK, SLCR_UNLOCK}
  BY KeysAre, RegistersApart DEF Others
<1>7. Release \in Standing /\ Hold \in Standing /\ Connect \in Standing
  BY <1>4, <1>5, <1>6 DEF Standing, Locks, Unlocks
<1>8. InitOrder[1] = "mio" /\ InitOrder[4] = "ddr"
  BY DEF InitOrder
<1>9. Calibrate \in Goals.mio /\ Release \in Goals.ddr
  BY DEF Goals
<1> QED
  BY <1>5, <1>7, <1>8, <1>9 DEF TableGoals

\* Only the table of the DDR controller awaits something of the DDR interface.
LEMMA DdrPolls ==
  ASSUME RunsInv, Running, NEW j \in 1 .. Len(Current), Current[j] \in {AwaitsDci, AwaitsMode}
  PROVE  /\ CurrentName = "ddr" /\ routine = "ps7_init" /\ section = 4
         /\ Current[j] = AwaitsMode => j = Len(Current) - 1 /\ LastsTo(Current, j, Release)
                                       /\ \E i \in 1 .. (j - 1) : Current[i] = AwaitsDci
<1>1. /\ CurrentName \in Names /\ Current = Table(CurrentName)
      /\ Current \in Seq(To(Own[CurrentName]))
  BY WhichTable DEF Achieves
<1>2. PICK r : r = Current[j].reg
  OBVIOUS
<1>3. r \in {DDRIOB_DCI_STATUS, DDRC_MODE_STS} /\ Current[j].op # "EXIT"
  BY <1>2 DEF AwaitsDci, AwaitsMode
<1>4. r \in Control /\ r \in Tracked /\ r # SLCR_UNLOCK
  BY <1>3, PllRegisters, KeysAre DEF Tracked
<1>5. r \in Own[CurrentName]
  BY <1>1, <1>2, <1>3, <1>4 DEF To
<1>6. r \in Own["ddr"]
  BY <1>3 DEF Own, DDRC_MODE_STS, DDRC
<1>7. CurrentName = "ddr"
  BY <1>1, <1>4, <1>5, <1>6, OwnsAreApart DEF Names
<1>8. routine = "ps7_init" /\ section = 4
  BY <1>7, WhichTable DEF InitOrder
<1>9. PICK timers \in Seq(DdrOffsets) : Current = DdrSection(timers)
  BY <1>1, <1>7, TableIs DEF RunsInv
<1>10. j \in DOMAIN Current
  BY <1>1
<1> QED
  BY <1>7, <1>8, <1>9, <1>10, DdrAchieves

---------------------------------------------------------------------------------
(* The invariant is kept.                                                  *)

\* What a write does to the rest of its table.
LEMMA SettledOfWrite == ASSUME RunsInv, FieldsInv, SettledInv, Write PROVE SettledInv'
<1>1. /\ Running /\ Instruction = Current[ptr] /\ ptr \in Nat \ {0} /\ ptr' = ptr + 1
      /\ Current' = Current
  BY WriteDoes
<1>2. ASSUME NEW x \in Standing, LastsTo(Current, ptr + 1, x) PROVE Stands(x)'
  <2>1. Instruction = x \/ (LastsTo(Current, ptr, x) /\ Leaves(Instruction, x))
    BY <1>1, <1>2, LastsNext
  <2>2. Instruction = x \/ (Stands(x) /\ Leaves(Instruction, x))
    BY <1>1, <2>1 DEF SettledInv
  <2> QED
    BY <2>2, StandsOnWrite
<1> QED
  BY <1>1, <1>2 DEF SettledInv

\* And to the tables before it.
LEMMA GoalsOfWrite ==
  ASSUME RunsInv, FieldsInv, OrderInv, UpInv, stage' = stage, Write, NEW k \in 1..5, Passed(k)
  PROVE  \A g \in TableGoals(k) : Stands(g)'
<1>1. Running
  BY WriteDoes
<1>2. ASSUME NEW g \in TableGoals(k) PROVE Stands(g)'
  <2>1. g \in Standing
    BY TableGoalsAre DEF RunsInv
  <2>2. Stands(g)
    BY DEF UpInv
  <2>3. Leaves(Instruction, g)
    BY <1>1, GoalsLeft
  <2> QED
    BY <2>1, <2>2, <2>3, StandsOnWrite
<1> QED
  BY <1>2

\* A write resets nothing that is up.
LEMMA UpOfWrite ==
  ASSUME RunsInv, FieldsInv, OrderInv, UpInv, stage' = stage, Write
  PROVE  UpInv'
<1>1. /\ UNCHANGED <<routine, section, ret, copy>>
      /\ \/ mem'[DDRC_MODE_STS].operating_mode = mem[DDRC_MODE_STS].operating_mode
         \/ mem'[DDRC_CTRL].soft_rstb = 0
  BY WriteDoes
<1>2. ASSUME NEW k \in 1..5, Passed(k)'
      PROVE  /\ \A g \in TableGoals(k)' : Stands(g)'
             /\ k = 4 => mem'[DDRC_MODE_STS].operating_mode = 1
  <2>1. Passed(k)
    BY <1>1, <1>2 DEF Passed
  <2>2. \A g \in TableGoals(k) : Stands(g)'
    BY <2>1, GoalsOfWrite
  <2>3. \A g \in TableGoals(k)' : Stands(g)'
    BY <1>1, <2>2, SameGoals
  <2>4. ASSUME k = 4 PROVE mem'[DDRC_MODE_STS].operating_mode = 1
    <3>1. Stands(Release)'
      BY <2>2, <2>4, StepsStanding
    <3>2. mem'[DDRC_CTRL].soft_rstb = 1
      BY <3>1, ReleaseThen
    <3>3. mem[DDRC_MODE_STS].operating_mode = 1
      BY <2>1, <2>4 DEF UpInv
    <3> QED
      BY <1>1, <3>2, <3>3
  <2> QED
    BY <2>3, <2>4
<1> QED
  BY <1>2 DEF UpInv

\* A write takes back nothing the table has awaited.
LEMMA PassedOfWrite ==
  ASSUME RunsInv, FieldsInv, OrderInv, UpInv, PassedInv, stage' = stage, Write
  PROVE  PassedInv'
<1>1. /\ Running /\ Instruction = Current[ptr] /\ ptr \in Nat \ {0} /\ ptr' = ptr + 1
      /\ Current' = Current /\ IsWrite(Instruction)
      /\ mem'[DDRIOB_DCI_STATUS].done = mem[DDRIOB_DCI_STATUS].done
            \/ mem'[DDRIOB_DCI_CTRL].reset = 0
  BY WriteDoes
<1>2. /\ ptr \in 1 .. Len(Current) /\ Len(Current) \in Nat /\ ptr # Len(Current)
  <2>1. Instruction.op # "EXIT"
    BY <1>1 DEF IsWrite
  <2> QED
    BY <1>1, <2>1, CurrentIs
<1>3. ASSUME NEW j \in 1 .. ptr, Current[j] \in {AwaitsDci, AwaitsMode}
      PROVE  /\ Current[j] = AwaitsDci /\ j \in 1 .. (ptr - 1)
             /\ mem'[DDRIOB_DCI_STATUS].done = 1
  <2>1. ~IsWrite(AwaitsDci) /\ ~IsWrite(AwaitsMode)
    BY DEF AwaitsDci, AwaitsMode, IsWrite
  <2>2. j # ptr
    BY <1>1, <1>3, <2>1
  <2>3. j \in 1 .. (ptr - 1) /\ j \in 1 .. Len(Current) /\ j # Len(Current) - 1
    BY <1>1, <1>2, <2>2
  <2>4. Current[j] = AwaitsDci /\ routine = "ps7_init" /\ section = 4
    BY <1>1, <1>3, <2>3, DdrPolls
  <2>5. Passed(1)
    BY <2>4 DEF Passed
  <2>6. Stands(Calibrate)'
    BY <2>5, GoalsOfWrite, StepsStanding
  <2>7. mem'[DDRIOB_DCI_CTRL].reset = 1
    BY <2>6, CalibrateThen
  <2>8. mem[DDRIOB_DCI_STATUS].done = 1
    BY <1>1, <2>3, <2>4 DEF PassedInv
  <2> QED
    BY <1>1, <2>3, <2>4, <2>7, <2>8
<1>4. AwaitsDci # AwaitsMode
  BY DEF AwaitsDci, AwaitsMode
<1> QED
  BY <1>1, <1>3, <1>4 DEF PassedInv

\* A write does not let the PL out of its reset before its signals are connected.
LEMMA LevelOfWrite ==
  ASSUME RunsInv, FieldsInv, SettledInv, LevelInv, Write
  PROVE  LevelInv'
<1>1. /\ Running /\ Instruction = Current[ptr] /\ IsWrite(Instruction)
      /\ \A r \in Control \ Statuses :
           mem'[r] = IF r = Instruction.reg THEN Overwrite(mem[r], Instruction.bits) ELSE mem[r]
  BY WriteDoes
<1>2. CASE Instruction.reg \notin {FPGA_RST_CTRL, LVL_SHFTR_EN}
  BY <1>1, <1>2, LevelRegisters DEF LevelInv
<1>3. CASE Instruction.reg \in {FPGA_RST_CTRL, LVL_SHFTR_EN}
  <2>1. PICK r : r = Instruction.reg
    OBVIOUS
  <2>2. r \in Own["post_config"] /\ r \in Tracked /\ r # SLCR_UNLOCK
    BY <1>3, <2>1, LevelRegisters DEF Tracked
  <2>3. CurrentName \in Names /\ r \in Own[CurrentName] /\ Current = Table(CurrentName)
    BY <1>1, <2>1, <2>2, WhichTable DEF To, IsWrite
  <2>4. CurrentName = "post_config"
    BY <2>2, <2>3, OwnsAreApart DEF Names
  <2>5. PICK afi \in Seq(OutsideWrites) : Current = PostConfigSection(afi)
    BY <2>3, <2>4, TableIs DEF RunsInv
  <2>6. ptr \in DOMAIN Current
    BY <1>1 DEF RunsInv, Running
  <2>7. /\ Instruction.reg = FPGA_RST_CTRL => LastsTo(Current, ptr, Connect)
        /\ Instruction.reg = LVL_SHFTR_EN => Instruction.bits = [enabled |-> 1]
    BY <1>1, <2>5, <2>6, PostConfigAchieves
  <2>8. CASE Instruction.reg = FPGA_RST_CTRL
    <3>1. Stands(Connect)
      BY <1>1, <2>7, <2>8, StepsStanding DEF SettledInv
    <3>2. mem'[LVL_SHFTR_EN] = mem[LVL_SHFTR_EN]
      BY <1>1, <2>8, LevelRegisters
    <3> QED
      BY <3>1, <3>2, ConnectMeans DEF LevelInv
  <2>9. CASE Instruction.reg = LVL_SHFTR_EN
    <3>1. "enabled" \in DOMAIN mem[LVL_SHFTR_EN]
      BY FieldsAre, LevelRegisters DEF FieldsInv
    <3>2. PICK old, b : old = mem[LVL_SHFTR_EN] /\ b = Instruction.bits
      OBVIOUS
    <3>3. mem'[LVL_SHFTR_EN] = Overwrite(old, b) /\ b = [enabled |-> 1]
      BY <1>1, <2>7, <2>9, <3>2, LevelRegisters
    <3>4. Overwrite(old, b).enabled = 1
      BY <3>1, <3>2, <3>3 DEF Overwrite
    <3> QED
      BY <3>3, <3>4 DEF LevelInv
  <2> QED
    BY <1>3, <2>8, <2>9
<1> QED
  BY <1>2, <1>3

\* A poll that succeeds has seen what it awaits.
LEMMA BringUpOfPoll ==
  ASSUME RunsInv, BringUpInv, OrderInv', stage' = stage, PollSucceeds
  PROVE  BringUpInv'
<1>1. /\ Running /\ Instruction.op = "MASKPOLL" /\ PollTrue /\ ptr' = ptr + 1
      /\ UNCHANGED <<routine, section, ret, copy, si_ver, mem, configured, slcr>>
  BY DEF PollSucceeds, PollPending, Advance
<1>2. /\ Instruction = Current[ptr] /\ ptr \in 1 .. Len(Current) /\ Len(Current) \in Nat
      /\ ptr \in Nat \ {0}
  BY <1>1, CurrentIs
<1>3. Current' = Current /\ (Running' <=> Running)
  BY <1>1, SameTable DEF Current, Running
<1>4. \A x : Stands(x)' <=> Stands(x)
  BY <1>1 DEF Stands
<1>5. SettledInv'
  <2>1. ASSUME NEW x \in Standing, LastsTo(Current, ptr + 1, x) PROVE Stands(x)
    <3>1. Instruction # x
      BY <1>1 DEF Standing, IsWrite
    <3>2. LastsTo(Current, ptr, x)
      BY <1>2, <2>1, <3>1, LastsNext
    <3> QED
      BY <1>1, <3>2 DEF BringUpInv, SettledInv
  <2> QED
    BY <1>1, <1>3, <1>4, <2>1 DEF SettledInv
<1>6. PassedInv'
  <2>1. /\ Instruction = AwaitsDci => mem[DDRIOB_DCI_STATUS].done = 1
        /\ Instruction = AwaitsMode => mem[DDRC_MODE_STS].operating_mode = 1
    BY <1>1 DEF PollTrue, AwaitsDci, AwaitsMode
  <2>2. \A j \in 1 .. (ptr' - 1) : j = ptr \/ j \in 1 .. (ptr - 1)
    BY <1>1, <1>2
  <2> QED
    BY <1>1, <1>2, <1>3, <2>1, <2>2 DEF PassedInv, BringUpInv
<1>7. UpInv'
  <2>1. \A k \in 1..5 : Passed(k)' => Passed(k)
    BY <1>1 DEF Passed
  <2>2. \A k \in 1..5 : TableGoals(k)' = TableGoals(k)
    BY <1>1, SameGoals
  <2> QED
    BY <1>1, <1>4, <2>1, <2>2 DEF UpInv, BringUpInv
<1>8. FieldsInv' /\ LevelInv'
  BY <1>1 DEF BringUpInv, FieldsInv, LevelInv
<1> QED
  BY <1>5, <1>6, <1>7, <1>8 DEF BringUpInv

\* A table that comes to its end has done its part.
LEMMA BringUpOfExit ==
  ASSUME RunsInv, BringUpInv, OrderInv', stage' = stage, Exit
  PROVE  BringUpInv'
<1>1. /\ Running /\ Instruction.op = "EXIT" /\ UNCHANGED <<copy, si_ver, mem, configured, slcr>>
      /\ ptr' = 1
  BY DEF Exit, Return
<1>2. \A x : Stands(x)' <=> Stands(x)
  BY <1>1 DEF Stands
<1>3. SettledInv' /\ PassedInv'
  <2>1. 1 .. (ptr' - 1) = {}
    BY <1>1
  <2> QED
    BY <1>1, <2>1, NothingLasts DEF SettledInv, PassedInv
<1>4. ASSUME NEW k \in 1..5, Passed(k)', ~Passed(k)
      PROVE  routine = "ps7_init" /\ section = k
  <2>1. CASE section < Len(Sections(routine))
    <3>1. section' = section + 1 /\ UNCHANGED <<routine, ret>>
      BY <2>1 DEF Exit
    <3>2. routine = "ps7_init" /\ section + 1 > k /\ ~(section > k)
      BY <1>4, <3>1 DEF Passed
    <3> QED
      BY <1>1, <3>2, WhichTable
  <2>2. CASE ~(section < Len(Sections(routine)))
    <3>1. stage \in {"power_on", "init", "fallback"}
      BY <1>4 DEF Passed
    <3>2. routine = "ps7_init"
      BY <1>1, <3>1, CurrentIs DEF OrderInv, BringUpInv, Routines
    <3>3. section = 5
      BY <1>1, <2>2, <3>2, WhichTable
    <3>4. ~(section > k)
      BY <1>4, <3>2 DEF Passed
    <3> QED
      BY <3>2, <3>3, <3>4
  <2> QED
    BY <2>1, <2>2
<1>5. ASSUME NEW k \in 1..5, routine = "ps7_init", section = k
      PROVE  /\ \A g \in TableGoals(k) : Stands(g)
             /\ k = 4 => mem[DDRC_MODE_STS].operating_mode = 1
  <2>1. Current = Table(InitOrder[k]) /\ CurrentName = InitOrder[k]
    BY <1>1, <1>5, WhichTable
  <2>2. \A g \in TableGoals(k) : Stands(g)
    <3>1. ASSUME NEW g \in TableGoals(k) PROVE Stands(g)
      <4>1. g \in Standing /\ Lasts(Current, g)
        BY <2>1, TableGoalsAre DEF RunsInv
      <4> QED
        BY <1>1, <4>1, AtExit DEF BringUpInv
    <3> QED
      BY <3>1
  <2>3. ASSUME k = 4 PROVE mem[DDRC_MODE_STS].operating_mode = 1
    <3>1. Current = Table("ddr")
      BY <2>1, <2>3 DEF InitOrder
    <3>2. PICK timers \in Seq(DdrOffsets) : Current = DdrSection(timers)
      BY <3>1, TableIs DEF RunsInv
    <3>3. Current[Len(Current) - 1] = AwaitsMode
      BY <3>2, DdrAchieves
    <3>4. ptr = Len(Current) /\ ptr \in Nat \ {0} /\ Instruction = Current[ptr]
      BY <1>1, CurrentIs
    <3>5. Current[1] # [op |-> "EXIT"]
      BY <3>2, DdrStepByStep DEF Hold, Set
    <3>6. ptr # 1
      <4>1. Instruction \in Exits
        <5>1. Instruction \in To(Own[CurrentName])
          BY <1>1, WhichTable
        <5>2. \A x \in Instructions : x.op # "EXIT"
          BY DEF Instructions, NoKeys, Plain, PllSteps, AwaitsLock, PllWrites, SlcrWrites,
                 Unprotected, OtherWrites, Polls, KeyWrites, WritesTo
        <5> QED
          BY <1>1, <5>1, <5>2 DEF To
      <4> QED
        BY <3>4, <3>5, <4>1 DEF Exits
    <3>7. ptr - 1 \in 1 .. (ptr - 1)
      BY <3>4, <3>6
    <3> QED
      BY <1>1, <3>3, <3>4, <3>7 DEF PassedInv, BringUpInv
  <2> QED
    BY <2>2, <2>3
<1>6. UpInv'
  <2>1. ASSUME NEW k \in 1..5, Passed(k)'
        PROVE  /\ \A g \in TableGoals(k) : Stands(g)
               /\ k = 4 => mem[DDRC_MODE_STS].operating_mode = 1
    <3>1. CASE Passed(k)
      BY <3>1 DEF UpInv, BringUpInv
    <3>2. CASE ~Passed(k)
      BY <1>4, <1>5, <2>1, <3>2
    <3> QED
      BY <3>1, <3>2
  <2>2. \A k \in 1..5 : TableGoals(k)' = TableGoals(k)
    BY <1>1, SameGoals
  <2> QED
    BY <1>1, <1>2, <2>1, <2>2 DEF UpInv
<1>7. FieldsInv' /\ LevelInv'
  BY <1>1 DEF BringUpInv, FieldsInv, LevelInv
<1> QED
  BY <1>3, <1>6, <1>7 DEF BringUpInv

\* The steps of the interpreter.
LEMMA BringUpOfInterpret ==
  ASSUME RunsInv, BringUpInv, stage' = stage, Interpret
  PROVE  BringUpInv'
<1>1. OrderInv'
  BY OrderOfInterpret DEF BringUpInv
<1>2. CASE Write
  <2>1. FieldsInv'
    BY <1>2, WriteDoes DEF BringUpInv
  <2> QED
    BY <1>1, <1>2, <2>1, SettledOfWrite, UpOfWrite, PassedOfWrite, LevelOfWrite DEF BringUpInv
<1>3. CASE PollSucceeds
  BY <1>1, <1>3, BringUpOfPoll
<1>4. CASE PollAgain
  <2>1. UNCHANGED <<routine, section, ptr, ret, copy, si_ver, mem, configured, slcr>>
    BY <1>4 DEF PollAgain
  <2>2. FieldsInv' /\ \A k \in 1..5 : Passed(k)' => Passed(k)
    BY <2>1 DEF BringUpInv, FieldsInv, Passed
  <2> QED
    BY <1>1, <2>1, <2>2, QuietKeeps
<1>5. CASE PollTimeOut
  <2>1. /\ routine' = "none" /\ ret' = "PS7_INIT_TIMEOUT" /\ ~Running'
        /\ UNCHANGED <<copy, si_ver, mem, configured, slcr>>
    BY <1>5 DEF PollTimeOut, Return, Running
  <2>2. FieldsInv' /\ \A k \in 1..5 : Passed(k)' => Passed(k)
    BY <2>1 DEF BringUpInv, FieldsInv, Passed
  <2> QED
    BY <1>1, <2>1, <2>2, QuietKeeps
<1>6. CASE Exit
  BY <1>1, <1>6, BringUpOfExit
<1> QED
  BY <1>2, <1>3, <1>4, <1>5, <1>6 DEF Interpret

\* Those of the hardware.
LEMMA BringUpOfHardware ==
  ASSUME RunsInv, BringUpInv, stage' = stage, Hardware
  PROVE  BringUpInv'
<1>1. /\ UNCHANGED <<routine, section, ptr, ret, copy, si_ver, configured, slcr>>
      /\ FieldsInv'
      /\ \A r \in Control \ Statuses : mem'[r] = mem[r]
      /\ mem[DDRIOB_DCI_STATUS].done = 1 => mem'[DDRIOB_DCI_STATUS].done = 1
      /\ mem[DDRC_MODE_STS].operating_mode = 1 => mem'[DDRC_MODE_STS].operating_mode = 1
  BY HardwareDoes DEF BringUpInv
<1>2. OrderInv' /\ \A k \in 1..5 : Passed(k)' => Passed(k)
  BY <1>1 DEF BringUpInv, OrderInv, Passed
<1> QED
  BY <1>1, <1>2, QuietKeeps

\* And those of the loader and of the hooks.
LEMMA BringUpOfOthers ==
  ASSUME RunsInv, BringUpInv, Loader \/ UNCHANGED <<ps7vars, stage>>
  PROVE  BringUpInv'
<1>1. /\ OrderInv'
      /\ UNCHANGED <<ret, mem, configured, slcr, copy, si_ver>>
      /\ UNCHANGED <<routine, section, ptr>> \/ ptr' = 1
      /\ \A k \in 1..5 : Passed(k)' => Passed(k)
  <2>1. CASE Loader
    BY <2>1, OrderOfLoader DEF BringUpInv
  <2>2. CASE UNCHANGED <<ps7vars, stage>>
    BY <2>2 DEF BringUpInv, OrderInv, Passed, ps7vars, interpreter
  <2> QED
    BY <2>1, <2>2
<1>2. FieldsInv'
  BY <1>1 DEF BringUpInv, FieldsInv
<1> QED
  BY <1>1, <1>2, QuietKeeps

\* To begin with no table has done anything.
LEMMA BringUpStarts == ASSUME Init PROVE BringUpInv
<1>1. routine = "none" /\ ret = "none" /\ stage = "power_on" /\ ~Running
  BY DEF Init, Ps7Init, Running
<1>2. OrderInv /\ SettledInv /\ PassedInv /\ UpInv
  BY <1>1 DEF OrderInv, SettledInv, PassedInv, UpInv, Passed
<1>3. LevelInv
  <2>1. PICK on : mem = AfterBootRom(on)
    BY DEF Init, Ps7Init
  <2>2. mem[FPGA_RST_CTRL] = [asserted |-> 1]
    BY <2>1, BootRomLeaves
  <2> QED
    BY <2>2 DEF LevelInv
<1> QED
  BY <1>2, <1>3, FieldsStart DEF BringUpInv

\* So it is in every step.
LEMMA BringUpInductive == Spec => []BringUpInv
<1>1. RunsInv /\ BringUpInv /\ [Next]_vars => BringUpInv'
  <2> SUFFICES ASSUME RunsInv, BringUpInv, [Next]_vars PROVE BringUpInv'
    OBVIOUS
  <2>1. CASE Interpret /\ stage' = stage
    BY <2>1, BringUpOfInterpret
  <2>2. CASE Hardware /\ stage' = stage
    BY <2>2, BringUpOfHardware
  <2>3. CASE Loader \/ UNCHANGED <<ps7vars, stage>>
    BY <2>3, BringUpOfOthers
  <2> QED
    BY <2>1, <2>2, <2>3 DEF Next, Software, vars
<1>2. Init => BringUpInv
  BY BringUpStarts
<1> QED
  BY <1>1, <1>2, RunInductive, PTL DEF Spec

---------------------------------------------------------------------------------
(* What that means.                                                        *)

\* A clock is set up in full.
LEMMA ClockStands ==
  ASSUME NEW r \in ClockControls, NEW p, NEW d, NEW e, Stands(Set(r, Clock(p, d, e)))
  PROVE  mem[r].pll = p /\ mem[r].div0 = d /\ mem[r].div1 = e
<1>1. PICK b : b = Clock(p, d, e) /\ DOMAIN b = {"pll", "div0", "div1"}
  BY DEF Clock
<1>2. b.pll = p /\ b.div0 = d /\ b.div1 = e
  BY <1>1 DEF Clock
<1>3. r \in Control /\ Fields(r) = {"active", "pll", "div0", "div1"} /\ Stands(Set(r, b))
  BY <1>1, RegistersApart, FieldsAre
<1> QED
  BY <1>1, <1>2, <1>3, BitStands

\* And runs.
LEMMA ActiveStands ==
  ASSUME NEW r \in ClockControls, NEW p, NEW d, NEW e, Stands(Set(r, ActiveClock(p, d, e)))
  PROVE  mem[r].active = 1 /\ mem[r].pll = p /\ mem[r].div0 = d /\ mem[r].div1 = e
<1>1. PICK b : b = ActiveClock(p, d, e) /\ DOMAIN b = {"active", "pll", "div0", "div1"}
  BY DEF ActiveClock
<1>2. b.active = 1 /\ b.pll = p /\ b.div0 = d /\ b.div1 = e
  BY <1>1 DEF ActiveClock
<1>3. r \in Control /\ Fields(r) = {"active", "pll", "div0", "div1"} /\ Stands(Set(r, b))
  BY <1>1, RegistersApart, FieldsAre
<1> QED
  BY <1>1, <1>2, <1>3, BitStands

\* The second table set up the PLLs, and put them in use.
LEMMA PllTableMeans ==
  ASSUME UpInv, Passed(2)
  PROVE  /\ \A p \in Plls : mem[PLL_CTRL[p]].bypass = 0
         /\ mem[PLL_CTRL["arm"]].fdiv = 40 /\ mem[PLL_CTRL["ddr"]].fdiv = 32
         /\ mem[PLL_CTRL["io"]].fdiv = 36
         /\ mem[ARM_CLK_CTRL].pll = "arm" /\ mem[ARM_CLK_CTRL].div0 = 2
          /\ mem[ARM_CLK_CTRL].div1 = 1
         /\ mem[DDR_CLK_CTRL].active = 1 /\ mem[DDR_CLK_CTRL].pll = "ddr"
         /\ mem[DDR_CLK_CTRL].div0 = 2 /\ mem[DDR_CLK_CTRL].div1 = 1
<1>1. \A g \in PllGoals : g # LockKey => Stands(g)
  <2>1. InitOrder[2] = "pll" /\ Goals.pll = PllGoals
    BY DEF InitOrder, Goals
  <2> QED
    BY <2>1 DEF UpInv, TableGoals
<1>2. \A r, b : Set(r, b) # LockKey
  BY DEF Set, LockKey
<1>3. ASSUME NEW p \in Plls PROVE mem[PLL_CTRL[p]].bypass = 0
  <2>1. PICK b : b = [bypass |-> 0]
    OBVIOUS
  <2>2. Stands(Set(PLL_CTRL[p], b))
    <3>1. Set(PLL_CTRL[p], b) \in PllGoals
      BY <2>1 DEF PllGoals
    <3> QED
      BY <1>1, <1>2, <3>1
  <2> QED
    BY <2>1, <2>2, BitStands, FieldsAre, PllRegisters
<1>4. ASSUME NEW p \in Plls, NEW n, Set(PLL_CTRL[p], [fdiv |-> n]) \in PllGoals
      PROVE  mem[PLL_CTRL[p]].fdiv = n
  <2>1. PICK b : b = [fdiv |-> n]
    OBVIOUS
  <2>2. Stands(Set(PLL_CTRL[p], b))
    BY <1>1, <1>2, <1>4, <2>1
  <2> QED
    BY <2>1, <2>2, BitStands, FieldsAre, PllRegisters
<1>5. /\ Set(PLL_CTRL["arm"], [fdiv |-> 40]) \in PllGoals
      /\ Set(PLL_CTRL["ddr"], [fdiv |-> 32]) \in PllGoals
      /\ Set(PLL_CTRL["io"], [fdiv |-> 36]) \in PllGoals
      /\ "arm" \in Plls /\ "ddr" \in Plls /\ "io" \in Plls
  BY DEF PllGoals, Plls
<1>6. /\ Set(ARM_CLK_CTRL, Clock("arm", 2, 1)) \in PllGoals
      /\ Set(DDR_CLK_CTRL, ActiveClock("ddr", 2, 1)) \in PllGoals
      /\ ARM_CLK_CTRL \in ClockControls /\ DDR_CLK_CTRL \in ClockControls
  BY DEF PllGoals, ClockControls
<1>7. /\ Stands(Set(ARM_CLK_CTRL, Clock("arm", 2, 1)))
      /\ Stands(Set(DDR_CLK_CTRL, ActiveClock("ddr", 2, 1)))
  BY <1>1, <1>2, <1>6
<1>8. /\ mem[PLL_CTRL["arm"]].fdiv = 40 /\ mem[PLL_CTRL["ddr"]].fdiv = 32
      /\ mem[PLL_CTRL["io"]].fdiv = 36
  BY <1>4, <1>5
<1> QED
  BY <1>3, <1>6, <1>7, <1>8, ClockStands, ActiveStands

\* The third set up the clocks.
LEMMA ClockTableMeans ==
  ASSUME UpInv, Passed(3)
  PROVE  /\ mem[DCI_CLK_CTRL].active = 1 /\ mem[DCI_CLK_CTRL].pll = "ddr"
         /\ mem[DCI_CLK_CTRL].div0 = 15 /\ mem[DCI_CLK_CTRL].div1 = 7
         /\ mem[SMC_CLK_CTRL].active = 1 /\ mem[SMC_CLK_CTRL].pll = "io"
         /\ mem[SMC_CLK_CTRL].div0 = 12 /\ mem[SMC_CLK_CTRL].div1 = 1
         /\ mem[SDIO_CLK_CTRL].pll = "io"
         /\ mem[SDIO_CLK_CTRL].div0 = 60 /\ mem[SDIO_CLK_CTRL].div1 = 1
         /\ mem[UART_CLK_CTRL].active = 1 /\ mem[UART_CLK_CTRL].pll = "io"
         /\ mem[UART_CLK_CTRL].div0 = 12 /\ mem[UART_CLK_CTRL].div1 = 1
         /\ mem[PCAP_CLK_CTRL].pll = "io"
         /\ mem[PCAP_CLK_CTRL].div0 = 6 /\ mem[PCAP_CLK_CTRL].div1 = 1
         /\ mem[APER_CLK_CTRL].uart1 = 1 /\ mem[APER_CLK_CTRL].smc = 1
         /\ copy = "platform-init" =>
              /\ mem[FPGA0_CLK_CTRL].pll = "io"
              /\ mem[FPGA0_CLK_CTRL].div0 = 4 /\ mem[FPGA0_CLK_CTRL].div1 = 3
              /\ mem[FPGA1_CLK_CTRL].pll = "io"
              /\ mem[FPGA1_CLK_CTRL].div0 = 8 /\ mem[FPGA1_CLK_CTRL].div1 = 6
         /\ copy # "platform-init" =>
              /\ mem[FPGA0_CLK_CTRL].pll = "io"
              /\ mem[FPGA0_CLK_CTRL].div0 = 8 /\ mem[FPGA0_CLK_CTRL].div1 = 6
<1>1. \A g \in ClockGoals \cup PlGoals : g # LockKey => Stands(g)
  <2>1. InitOrder[3] = "clock" /\ Goals.clock = ClockGoals \cup PlGoals
    BY DEF InitOrder, Goals
  <2> QED
    BY <2>1 DEF UpInv, TableGoals
<1>2. \A r, b : Set(r, b) # LockKey
  BY DEF Set, LockKey
<1>3. {DCI_CLK_CTRL, SMC_CLK_CTRL, SDIO_CLK_CTRL, UART_CLK_CTRL, PCAP_CLK_CTRL, FPGA0_CLK_CTRL,
       FPGA1_CLK_CTRL} \subseteq ClockControls
  BY DEF ClockControls
<1>4. /\ Stands(Set(DCI_CLK_CTRL, ActiveClock("ddr", 15, 7)))
      /\ Stands(Set(SMC_CLK_CTRL, ActiveClock("io", 12, 1)))
      /\ Stands(Set(SDIO_CLK_CTRL, ActiveClock("io", 60, 1)))
      /\ Stands(Set(UART_CLK_CTRL, ActiveClock("io", 12, 1)))
      /\ Stands(Set(PCAP_CLK_CTRL, ActiveClock("io", 6, 1)))
      /\ Stands(Set(APER_CLK_CTRL, [uart1 |-> 1, smc |-> 1]))
  <2>1. \A g \in ClockGoals \cup PlGoals : Stands(g) \/ g = LockKey
    BY <1>1
  <2> QED
    BY <1>2, <2>1, Zenon DEF ClockGoals
<1>5. mem[APER_CLK_CTRL].uart1 = 1 /\ mem[APER_CLK_CTRL].smc = 1
  <2>1. PICK b : b = [uart1 |-> 1, smc |-> 1]
    OBVIOUS
  <2>2. Stands(Set(APER_CLK_CTRL, b)) /\ APER_CLK_CTRL \in Control
    BY <1>4, <2>1, RegistersApart DEF Others
  <2> QED
    BY <2>1, <2>2, BitStands, FieldsAre
<1>6. /\ mem[DCI_CLK_CTRL].active = 1 /\ mem[DCI_CLK_CTRL].pll = "ddr"
      /\ mem[DCI_CLK_CTRL].div0 = 15 /\ mem[DCI_CLK_CTRL].div1 = 7
  BY <1>3, <1>4, ActiveStands
<1>7. /\ mem[SMC_CLK_CTRL].active = 1 /\ mem[SMC_CLK_CTRL].pll = "io"
      /\ mem[SMC_CLK_CTRL].div0 = 12 /\ mem[SMC_CLK_CTRL].div1 = 1
  BY <1>3, <1>4, ActiveStands
<1>8. /\ mem[SDIO_CLK_CTRL].pll = "io"
      /\ mem[SDIO_CLK_CTRL].div0 = 60 /\ mem[SDIO_CLK_CTRL].div1 = 1
  BY <1>3, <1>4, ActiveStands
<1>9. /\ mem[UART_CLK_CTRL].active = 1 /\ mem[UART_CLK_CTRL].pll = "io"
      /\ mem[UART_CLK_CTRL].div0 = 12 /\ mem[UART_CLK_CTRL].div1 = 1
  BY <1>3, <1>4, ActiveStands
<1>10. /\ mem[PCAP_CLK_CTRL].pll = "io"
       /\ mem[PCAP_CLK_CTRL].div0 = 6 /\ mem[PCAP_CLK_CTRL].div1 = 1
  BY <1>3, <1>4, ActiveStands
<1>11. ASSUME copy = "platform-init"
       PROVE  /\ mem[FPGA0_CLK_CTRL].pll = "io"
              /\ mem[FPGA0_CLK_CTRL].div0 = 4 /\ mem[FPGA0_CLK_CTRL].div1 = 3
              /\ mem[FPGA1_CLK_CTRL].pll = "io"
              /\ mem[FPGA1_CLK_CTRL].div0 = 8 /\ mem[FPGA1_CLK_CTRL].div1 = 6
  <2>1. /\ Set(FPGA0_CLK_CTRL, Clock("io", 4, 3)) \in PlGoals
        /\ Set(FPGA1_CLK_CTRL, Clock("io", 8, 6)) \in PlGoals
    BY <1>11 DEF PlGoals
  <2>2. /\ Stands(Set(FPGA0_CLK_CTRL, Clock("io", 4, 3)))
        /\ Stands(Set(FPGA1_CLK_CTRL, Clock("io", 8, 6)))
    BY <1>1, <1>2, <2>1
  <2> QED
    BY <1>3, <2>2, ClockStands
<1>12. ASSUME copy # "platform-init"
       PROVE  /\ mem[FPGA0_CLK_CTRL].pll = "io"
              /\ mem[FPGA0_CLK_CTRL].div0 = 8 /\ mem[FPGA0_CLK_CTRL].div1 = 6
  <2>1. Set(FPGA0_CLK_CTRL, Clock("io", 8, 6)) \in PlGoals
    BY <1>12 DEF PlGoals
  <2>2. Stands(Set(FPGA0_CLK_CTRL, Clock("io", 8, 6)))
    BY <1>1, <1>2, <2>1
  <2> QED
    BY <1>3, <2>2, ClockStands
<1> QED
  BY <1>5, <1>6, <1>7, <1>8, <1>9, <1>10, <1>11, <1>12

\* The fifth set up the baud rate.
LEMMA PeripheralTableMeans ==
  ASSUME UpInv, Passed(5)
  PROVE  mem[UART_BAUD_GEN].cd = 124 /\ mem[UART_BAUD_DIV].bdiv = 6
<1>1. \A g \in BaudGoals : g # LockKey => Stands(g)
  <2>1. InitOrder[5] = "peripherals" /\ Goals.peripherals = BaudGoals \cup {LockKey}
    BY DEF InitOrder, Goals
  <2> QED
    BY <2>1 DEF UpInv, TableGoals
<1>2. \A r, b : Set(r, b) # LockKey
  BY DEF Set, LockKey
<1>3. PICK c, d : c = [cd |-> 124] /\ d = [bdiv |-> 6]
  OBVIOUS
<1>4. /\ Stands(Set(UART_BAUD_GEN, c)) /\ Stands(Set(UART_BAUD_DIV, d))
      /\ UART_BAUD_GEN \in Control /\ UART_BAUD_DIV \in Control
  BY <1>1, <1>2, <1>3, RegistersApart DEF BaudGoals, Others
<1> QED
  BY <1>3, <1>4, BitStands, FieldsAre

\* The pins of UART 1 are set up by the first.
LEMMA PinsMean ==
  ASSUME copy \in Copies, si_ver \in 0..3, UpInv, Passed(1)
  PROVE  {MIO_PIN(24), MIO_PIN(25)} \subseteq configured
<1>1. \A g \in UartGoals : Stands(g) /\ g # LockKey
  BY PinsStand DEF UpInv, TableGoals
<1>2. \A r, b : Set(r, b).reg = r
  BY DEF Set
<1>3. \A g \in UartGoals : g.reg \in configured
  BY <1>1 DEF Stands
<1> QED
  BY <1>2, <1>3 DEF UartGoals

---------------------------------------------------------------------------------
(* The theorems.                                                           *)

\* What ps7_config awaits.
LEMMA PollsAre ==
  ASSUME RunsInv, PollPending
  PROVE  \/ /\ \E p \in Plls : Instruction = AwaitsLock(p) /\ Current[ptr - 1] = ResetOff(p)
            /\ ptr > 1
         \/ Instruction \in {AwaitsDci, AwaitsMode}
<1>1. /\ Running /\ Instruction.op = "MASKPOLL" /\ Complete(Current) /\ Instruction = Current[ptr]
      /\ ptr \in 1 .. Len(Current) /\ DOMAIN Current = 1 .. Len(Current)
      /\ Current \in Seq(Instructions \cup Exits)
  BY CurrentIs, CompleteIs DEF PollPending
<1>2. Instruction \in Instructions
  <2>1. Instruction \in Instructions \cup Exits
    BY <1>1
  <2> QED
    BY <1>1, <2>1 DEF Exits
<1>3. Instruction \in Polls \/ \E p \in Plls : Instruction = AwaitsLock(p)
  BY <1>1, <1>2 DEF Instructions, NoKeys, Plain, PllSteps, PllWrites, SlcrWrites, Unprotected,
                    OtherWrites, KeyWrites, WritesTo
<1>4. CASE \E p \in Plls : Instruction = AwaitsLock(p)
  BY <1>1, <1>4 DEF Complete, Orderly
<1>5. CASE Instruction \in Polls
  <2>1. PICK r : r = Instruction.reg
    OBVIOUS
  <2>2. r \in {DDRIOB_DCI_STATUS, DDRC_MODE_STS}
    BY <1>5, <2>1 DEF Polls
  <2>3. r \in Tracked /\ r # SLCR_UNLOCK
    BY <2>2, PllRegisters, KeysAre DEF Tracked
  <2>4. r \in Own[CurrentName] /\ CurrentName \in Names /\ Current = Table(CurrentName)
    BY <1>1, <2>1, <2>3, WhichTable DEF To
  <2>5. r \in Own["ddr"]
    BY <2>2 DEF Own, DDRC_MODE_STS, DDRC
  <2>6. CurrentName = "ddr"
    BY <2>3, <2>4, <2>5, OwnsAreApart DEF Names
  <2>7. PICK timers \in Seq(DdrOffsets) : Current = DdrSection(timers)
    BY <2>4, <2>6, TableIs DEF RunsInv
  <2> QED
    BY <1>1, <2>7, DdrAchieves
<1> QED
  BY <1>3, <1>4, <1>5

\* What is awaited may come, whatever is awaited.
LEMMA PollsHaveCause == RunsInv /\ PllInv /\ BringUpInv => PollsCanSucceed
<1> SUFFICES ASSUME RunsInv, PllInv, BringUpInv, PollPending
             PROVE  CASE Instruction.reg = PLL_STATUS -> CanLock(Instruction.bit)
                      [] Instruction.reg = DDRIOB_DCI_STATUS -> CanCalibrate
                      [] Instruction.reg = DDRC_MODE_STS -> CanOperate
  BY DEF PollsCanSucceed
<1>0. /\ PLL_STATUS # DDRIOB_DCI_STATUS /\ PLL_STATUS # DDRC_MODE_STS
      /\ DDRIOB_DCI_STATUS # DDRC_MODE_STS
  BY PllRegisters, OthersApart
<1>1. /\ Running /\ Instruction = Current[ptr] /\ ptr \in 1 .. Len(Current)
  BY CurrentIs DEF PollPending
<1>2. \A p \in Plls : mem[PLL_CTRL[p]].bypass = 0 => Locked(p)
  BY DEF PllInv, Ctrl, Locked
<1>3. CASE \E p \in Plls : Instruction = AwaitsLock(p) /\ Current[ptr - 1] = ResetOff(p) /\ ptr > 1
  <2>1. PICK p \in Plls : Instruction = AwaitsLock(p) /\ Current[ptr - 1] = ResetOff(p) /\ ptr > 1
    BY <1>3
  <2>2. Instruction.reg = PLL_STATUS /\ Instruction.bit = p
    BY <2>1 DEF AwaitsLock
  <2>3. CanLock(p)
    BY <1>1, <2>1 DEF PllInv, CanLock, Ctrl
  <2> QED
    BY <1>0, <2>2, <2>3
<1>4. ASSUME Instruction \in {AwaitsDci, AwaitsMode}
      PROVE  /\ Passed(1) /\ Passed(2) /\ Passed(3)
             /\ Instruction = AwaitsMode => LastsTo(Current, ptr, Release)
                                            /\ \E i \in 1 .. (ptr - 1) : Current[i] = AwaitsDci
  BY <1>1, <1>4, DdrPolls DEF Passed
<1>5. CASE Instruction = AwaitsDci
  <2>1. /\ mem[DCI_CLK_CTRL].active = 1 /\ mem[DCI_CLK_CTRL].pll = "ddr"
    BY <1>4, <1>5, ClockTableMeans DEF BringUpInv
  <2>2. Locked("ddr")
    BY <1>2, <1>4, <1>5, PllTableMeans DEF BringUpInv, Plls
  <2>3. mem[DDRIOB_DCI_CTRL].reset = 1 /\ mem[DDRIOB_DCI_CTRL].enable = 1
    BY <1>4, <1>5, StepsStanding, CalibrateMeans DEF BringUpInv, UpInv
  <2>4. mem[DDRIOB_DCI_CTRL] = [reset |-> 1, enable |-> 1]
    <3>1. PICK m : m = mem[DDRIOB_DCI_CTRL]
      OBVIOUS
    <3>2. m = [b \in {"reset", "enable"} |-> m[b]]
      <4>1. DDRIOB_DCI_CTRL \in Control
        BY RegistersApart DEF Others
      <4> QED
        BY <3>1, <4>1, FieldsAre, SMTT(30) DEF BringUpInv, FieldsInv
    <3> QED
      BY <2>3, <3>1, <3>2
  <2>5. CanCalibrate
    BY <2>1, <2>2, <2>4 DEF CanCalibrate
  <2>6. Instruction.reg = DDRIOB_DCI_STATUS
    BY <1>5 DEF AwaitsDci
  <2> QED
    BY <1>0, <2>5, <2>6
<1>6. CASE Instruction = AwaitsMode
  <2>1. /\ mem[DDR_CLK_CTRL].active = 1 /\ mem[DDR_CLK_CTRL].pll = "ddr" /\ Locked("ddr")
    BY <1>2, <1>4, <1>6, PllTableMeans DEF BringUpInv, Plls
  <2>2. mem[DDRC_CTRL].soft_rstb = 1
    BY <1>1, <1>4, <1>6, StepsStanding, ReleaseMeans DEF BringUpInv, SettledInv
  <2>3. mem[DDRIOB_DCI_STATUS].done = 1
    BY <1>1, <1>4, <1>6 DEF BringUpInv, PassedInv
  <2>4. CanOperate
    BY <2>1, <2>2, <2>3 DEF CanOperate
  <2>5. Instruction.reg = DDRC_MODE_STS
    BY <1>6 DEF AwaitsMode
  <2> QED
    BY <1>0, <2>4, <2>5
<1> QED
  BY <1>3, <1>5, <1>6, PollsAre

\* No table awaits what its own instructions and those of the tables before it have not
\* started: a poll that times out is the hardware's failure, never the tables'.
THEOREM PollsAwaitWhatIsStarted == Spec => []PollsCanSucceed
BY PollsHaveCause, RunInductive, PllInductive, BringUpInductive, PTL

\* Where a write goes decides what must be up.
LEMMA WritesInOrder == RunsInv /\ BringUpInv => BringUpOrder
<1> SUFFICES ASSUME RunsInv, BringUpInv PROVE BringUpOrder
  OBVIOUS
<1>1. ASSUME AboutToWrite, Instruction.reg[1] \in {"ddrc", "uart1", "smc"}
      PROVE  /\ Running /\ IsWrite(Instruction) /\ Instruction = Current[ptr]
             /\ CurrentName = IF Instruction.reg[1] = "ddrc" THEN "ddr" ELSE "peripherals"
             /\ Current = Table(CurrentName) /\ ptr \in DOMAIN Current
  <2>1. Running /\ IsWrite(Instruction) /\ Instruction = Current[ptr] /\ ptr \in DOMAIN Current
    BY <1>1, CurrentIs DEF AboutToWrite, IsWrite, RunsInv, Running
  <2>2. Instruction \in To(Own[CurrentName]) /\ CurrentName \in Names
          /\ Current = Table(CurrentName)
    BY <2>1, WhichTable
  <2>3. PICK r : r = Instruction.reg
    OBVIOUS
  <2>4. r \in {"ddrc", "uart1", "smc"} \X Nat
    <3>1. Instruction \in Instructions
      BY <2>1, <2>2 DEF To, Exits, IsWrite
    <3>2. Instruction \in SlcrWrites \cup OtherWrites \cup PllWrites \cup KeyWrites
      BY <2>1, <3>1 DEF Instructions, NoKeys, Plain, PllSteps, AwaitsLock, Unprotected, Polls,
                        IsWrite
    <3>3. CASE Instruction \in OtherWrites
      <4>1. r \in Blocks \X Nat
        BY <2>3, <3>3 DEF OtherWrites, WritesTo
      <4> QED
        BY <1>1, <2>3, <4>1
    <3>4. CASE Instruction \in SlcrWrites
      <4>1. r[1] = "slcr"
        BY <2>3, <3>4 DEF SlcrWrites, WritesTo
      <4> QED
        BY <1>1, <2>3, <4>1
    <3>5. CASE Instruction \in PllWrites
      <4>1. PICK p \in Plls : r = PLL_CTRL[p]
        BY <2>3, <3>5 DEF PllWrites
      <4>2. r[1] = "slcr"
        BY <4>1 DEF Plls, PLL_CTRL, SLCR
      <4> QED
        BY <1>1, <2>3, <4>2
    <3>6. CASE Instruction \in KeyWrites
      <4>1. r[1] = "slcr"
        BY <2>3, <3>6 DEF KeyWrites, WritesTo, SLCR_LOCK, SLCR_UNLOCK, SLCR
      <4> QED
        BY <1>1, <2>3, <4>1
    <3> QED
      BY <3>2, <3>3, <3>4, <3>5, <3>6
  <2>5. PICK n : n = IF r[1] = "ddrc" THEN "ddr" ELSE "peripherals"
    OBVIOUS
  <2>6. n \in Names /\ r \in Own[n] /\ r \in Tracked
    BY <2>4, <2>5 DEF Names, Own, Tracked
  <2>7. r # SLCR_UNLOCK
    BY <2>4 DEF SLCR_UNLOCK, SLCR
  <2>8. r \in Own[CurrentName]
    BY <2>1, <2>2, <2>3, <2>6 DEF To, IsWrite
  <2>9. CurrentName = n
    BY <2>2, <2>6, <2>7, <2>8, OwnsAreApart
  <2> QED
    BY <2>1, <2>2, <2>3, <2>5, <2>9
<1>2. ASSUME AboutToWrite, Instruction.reg[1] = "ddrc", Instruction.reg # DDRC_CTRL
      PROVE  mem[DDRC_CTRL].soft_rstb = 0
  <2>1. /\ Running /\ IsWrite(Instruction) /\ Instruction = Current[ptr] /\ ptr \in DOMAIN Current
        /\ Current = Table("ddr")
    BY <1>1, <1>2
  <2>2. PICK timers \in Seq(DdrOffsets) : Current = DdrSection(timers)
    BY <2>1, TableIs DEF RunsInv
  <2>3. LastsTo(Current, ptr, Hold)
    BY <1>2, <2>1, <2>2, DdrAchieves
  <2> QED
    BY <2>1, <2>3, StepsStanding, HoldMeans DEF BringUpInv, SettledInv
<1>3. ASSUME AboutToWrite, Instruction.reg[1] \in {"uart1", "smc"}
      PROVE  /\ mem[APER_CLK_CTRL].uart1 = 1 /\ mem[UART_CLK_CTRL].active = 1
             /\ {MIO_PIN(24), MIO_PIN(25)} \subseteq configured
             /\ mem[APER_CLK_CTRL].smc = 1 /\ mem[SMC_CLK_CTRL].active = 1
  <2>1. Running /\ CurrentName = "peripherals"
    BY <1>1, <1>3
  <2>2. routine = "ps7_init" /\ section \in 1..5 /\ InitOrder[section] = "peripherals"
    BY <2>1, WhichTable
  <2>3. section = 5
    BY <2>2 DEF InitOrder
  <2>4. Passed(1) /\ Passed(3)
    BY <2>2, <2>3 DEF Passed
  <2> QED
    BY <2>4, PinsMean, ClockTableMeans DEF BringUpInv, RunsInv
<1> QED
  BY <1>2, <1>3 DEF BringUpOrder, BringUpInv, LevelInv

\* The parts come up in their order: the DDR controller is set up in reset, the UART and the
\* memory controller with their clocks and pins, the PL leaves its reset connected.
THEOREM BringsUpInOrder == Spec => []BringUpOrder
BY WritesInOrder, RunInductive, BringUpInductive, PTL

\* Success is reported of what is up, and it stays up.
THEOREM UpOnSuccess == Spec => []UpWhenSuccessful
<1>1. PllInv /\ BringUpInv => UpWhenSuccessful
  <2> SUFFICES ASSUME PllInv, BringUpInv, ret = "PS7_INIT_SUCCESS", routine = "none"
               PROVE  /\ \A p \in Plls : Locked(p) /\ mem[PLL_CTRL[p]].bypass = 0
                      /\ mem[DDRC_MODE_STS].operating_mode = 1
                      /\ slcr = "locked"
    BY DEF UpWhenSuccessful
  <2>1. Passed(2) /\ Passed(4)
    BY DEF Passed
  <2>2. \A p \in Plls : mem[PLL_CTRL[p]].bypass = 0
    BY <2>1, PllTableMeans DEF BringUpInv
  <2>3. \A p \in Plls : Locked(p)
    BY <2>2 DEF PllInv, Ctrl, Locked
  <2>4. mem[DDRC_MODE_STS].operating_mode = 1
    BY <2>1 DEF BringUpInv, UpInv
  <2>5. slcr = "locked"
    BY DEF BringUpInv, OrderInv
  <2> QED
    BY <2>2, <2>3, <2>4, <2>5
<1> QED
  BY <1>1, PllInductive, BringUpInductive, PTL

\* The frequency of a clock set up in full.
LEMMA FrequencyIs ==
  ASSUME NEW r, NEW p, NEW f \in Nat, NEW d \in Nat, NEW e \in Nat,
         mem[r].pll = p, mem[r].div0 = d, mem[r].div1 = e, mem[PLL_CTRL[p]].fdiv = f
  PROVE  Frequency(r) = (100000 * f) \div (3 * d * e)
BY DEF Frequency

\* Integers that are near each other.
LEMMA NearBy ==
  ASSUME NEW a \in Int, NEW b \in Int, NEW e \in Nat, a - b <= e, b - a <= e
  PROVE  Near(a, b, e)
BY DEF Near

\* The clocks and the baud rate are those of the header.
LEMMA ClocksMatch == RunsInv /\ BringUpInv => ClocksAsDeclared
<1> SUFFICES ASSUME RunsInv, BringUpInv, ret = "PS7_INIT_SUCCESS" PROVE ClocksAsDeclared
  BY DEF ClocksAsDeclared
<1>1. UpInv /\ Passed(2) /\ Passed(3) /\ Passed(5) /\ copy \in Copies
  BY DEF Passed, BringUpInv, RunsInv
<1>2. Frequency(ARM_CLK_CTRL) = 666666
  <2>1. Frequency(ARM_CLK_CTRL) = (100000 * 40) \div (3 * 2 * 1)
    BY <1>1, PllTableMeans, FrequencyIs
  <2> QED
    BY <2>1
<1>3. Frequency(DDR_CLK_CTRL) = 533333
  <2>1. Frequency(DDR_CLK_CTRL) = (100000 * 32) \div (3 * 2 * 1)
    BY <1>1, PllTableMeans, FrequencyIs
  <2> QED
    BY <2>1
<1>4. Frequency(DCI_CLK_CTRL) = 10158
  <2>1. Frequency(DCI_CLK_CTRL) = (100000 * 32) \div (3 * 15 * 7)
    BY <1>1, PllTableMeans, ClockTableMeans, FrequencyIs
  <2> QED
    BY <2>1
<1>5. Frequency(SMC_CLK_CTRL) = 100000 /\ Frequency(UART_CLK_CTRL) = 100000
  <2>1. /\ Frequency(SMC_CLK_CTRL) = (100000 * 36) \div (3 * 12 * 1)
        /\ Frequency(UART_CLK_CTRL) = (100000 * 36) \div (3 * 12 * 1)
    BY <1>1, PllTableMeans, ClockTableMeans, FrequencyIs
  <2> QED
    BY <2>1
<1>6. Frequency(SDIO_CLK_CTRL) = 20000
  <2>1. Frequency(SDIO_CLK_CTRL) = (100000 * 36) \div (3 * 60 * 1)
    BY <1>1, PllTableMeans, ClockTableMeans, FrequencyIs
  <2> QED
    BY <2>1
<1>7. Frequency(PCAP_CLK_CTRL) = 200000
  <2>1. Frequency(PCAP_CLK_CTRL) = (100000 * 36) \div (3 * 6 * 1)
    BY <1>1, PllTableMeans, ClockTableMeans, FrequencyIs
  <2> QED
    BY <2>1
<1>8. copy = "platform-init" => Frequency(FPGA0_CLK_CTRL) = 100000
                                      /\ Frequency(FPGA1_CLK_CTRL) = 25000
  <2>1. copy = "platform-init" => /\ Frequency(FPGA0_CLK_CTRL) = (100000 * 36) \div (3 * 4 * 3)
                                  /\ Frequency(FPGA1_CLK_CTRL) = (100000 * 36) \div (3 * 8 * 6)
    BY <1>1, PllTableMeans, ClockTableMeans, FrequencyIs
  <2> QED
    BY <2>1
<1>9. copy # "platform-init" => Frequency(FPGA0_CLK_CTRL) = 25000
  <2>1. copy # "platform-init" => Frequency(FPGA0_CLK_CTRL) = (100000 * 36) \div (3 * 8 * 6)
    BY <1>1, PllTableMeans, ClockTableMeans, FrequencyIs
  <2> QED
    BY <2>1
<1>10. (1000 * Frequency(UART_CLK_CTRL)) \div (mem[UART_BAUD_GEN].cd * (mem[UART_BAUD_DIV].bdiv + 1))
         = 115207
  <2>1. mem[UART_BAUD_GEN].cd = 124 /\ mem[UART_BAUD_DIV].bdiv = 6
    BY <1>1, PeripheralTableMeans
  <2> QED
    BY <1>5, <2>1
<1> QED
  <2>1. PICK v : v = Declared
    OBVIOUS
  <2>2. /\ v.apu = 666667 /\ v.ddr = 533333 /\ v.dci = 10159 /\ v.smc = 100000 /\ v.sdio = 20000
        /\ v.uart = 100000 /\ v.pcap = 200000
        /\ v.fpga0 = IF copy = "platform-init" THEN 100000 ELSE 25000
        /\ copy = "platform-init" => v.fpga1 = 25000
    BY <2>1 DEF Declared, DeclaredPlatform, DeclaredUboot
  <2>3. /\ Near(Frequency(ARM_CLK_CTRL), v.apu, 1) /\ Near(Frequency(DDR_CLK_CTRL), v.ddr, 1)
        /\ Near(Frequency(DCI_CLK_CTRL), v.dci, 1) /\ Near(Frequency(SMC_CLK_CTRL), v.smc, 1)
    BY <1>2, <1>3, <1>4, <1>5, <2>2, NearBy
  <2>4. /\ Near(Frequency(SDIO_CLK_CTRL), v.sdio, 1) /\ Near(Frequency(UART_CLK_CTRL), v.uart, 1)
        /\ Near(Frequency(PCAP_CLK_CTRL), v.pcap, 1)
    BY <1>5, <1>6, <1>7, <2>2, NearBy
  <2>5. /\ Near(Frequency(FPGA0_CLK_CTRL), v.fpga0, 1)
        /\ HasHooks => Near(Frequency(FPGA1_CLK_CTRL), v.fpga1, 1)
    BY <1>8, <1>9, <2>2, NearBy DEF HasHooks
  <2>6. Near(115207, 115200, 1152)
    BY NearBy
  <2> QED
    BY <1>10, <2>1, <2>3, <2>4, <2>5, <2>6 DEF ClocksAsDeclared

\* After ps7_init the clocks run as its header declares them to the code compiled against it.
THEOREM ClocksAreDeclared == Spec => []ClocksAsDeclared
BY ClocksMatch, RunInductive, BringUpInductive, PTL
=================================================================================
