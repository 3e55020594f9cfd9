------------------------------- MODULE BootProofs -------------------------------
(***************************************************************************)
(* Proofs about Boot.tla, for both copies of ps7_init_gpl.c, every silicon *)
(* version and every PS7_MASK_POLL_TIME: no write of a table is lost on    *)
(* the write protection, no PLL feeds clocks before it has locked, also    *)
(* when a poll times out, and the hook reads back what the port delivered. *)
(*                                                                         *)
(* The first half is about the tables alone.  Complete(s) says what the    *)
(* interpreter relies on: s ends with its only EXIT, each write to the     *)
(* SLCR follows an unlock that no lock has undone (Protected), and bypass  *)
(* and reset of a PLL are written in their places (Orderly).  It is shown  *)
(* of the sections by how they are put together, in the order they are     *)
(* written: Open(s), a piece of a table after which the SLCR is unlocked,  *)
(* may be continued by anything but the keys.  The second half carries     *)
(* what the table has done so far through the steps of the interpreter.    *)
(***************************************************************************)
EXTENDS Boot, TLAPS

\* The instructions.  Those that concern the write protection are kept apart from those
\* that do not: the keys, the SLCR but its keys and its PLLs, the other blocks.
Blocks == {"ddrc", "uart1", "smc", "qspi", "devcfg", "cti", "afi0"}

\* The bits a write sets, of each of the registers.
Bits ==
  {NoBits} \cup [fdiv : Nat] \cup [bypass : 0..1] \cup [reset : 0..1]
  \cup [pll : Plls, div0 : Nat, div1 : Nat] \cup [active : {1}, pll : Plls, div0 : Nat, div1 : Nat]
  \cup [uart1 : {1}, smc : {1}] \cup [soft_rstb : 0..1] \cup [reset : {1}, enable : {1}]
  \cup [bdiv : Nat] \cup [cd : Nat] \cup [enabled : {1}] \cup [asserted : {0}]

\* Writes of any such bits.
WritesTo(regs) == [op : {"WRITE", "MASKWRITE"}, reg : regs, bits : Bits]

\* The SLCR but for its keys, the control of the PLLs, and what only reports.
PlainOffsets == Nat \ {\h004, \h008, \h100, \h104, \h108, \h10C, \hB74}

\* Writes to these, which need the SLCR unlocked.
SlcrWrites == WritesTo({"slcr"} \X PlainOffsets)

\* Those of them no property is about.
RestOffsets ==
  PlainOffsets \ {\h120, \h124, \h128, \h12C, \h148, \h150, \h154, \h168, \h170, \h180, \h240,
                  \h900, \hB70}

\* Writes to these.
RestWrites == WritesTo({"slcr"} \X RestOffsets)

\* Writes that do not.
OtherWrites == WritesTo((Blocks \X Nat) \ {DDRC_MODE_STS})

\* Among them those of the settings of the DDR controller, made while it is held in reset.
DdrOffsets == Nat \ {\h000, \h054}

\* Writes of these.
DdrWrites == WritesTo({"ddrc"} \X DdrOffsets)

\* Those of the peripherals that need their clocks.
PeripheralWrites == WritesTo({"uart1", "smc"} \X Nat)

\* And those no property is about.
OutsideWrites == WritesTo({"qspi", "devcfg", "cti", "afi0"} \X Nat)

\* The polls for the DDR interface.
Polls == [op : {"MASKPOLL"}, reg : {DDRIOB_DCI_STATUS, DDRC_MODE_STS},
          bit : {"done", "operating_mode"}]

\* What needs no unlocking.
Unprotected == OtherWrites \cup Polls

\* The bits of the control of a PLL, one at a time.
PllBits == [fdiv : Nat] \cup [bypass : 0..1] \cup [reset : 0..1]

\* Writes to it.
PllWrites == [op : {"MASKWRITE"}, reg : {PLL_CTRL[p] : p \in Plls}, bits : PllBits]

\* The poll for its lock.
AwaitsLock(p) == [op |-> "MASKPOLL", reg |-> PLL_STATUS, bit |-> p]

\* What a PLL is brought up with.
PllSteps == PllWrites \cup {AwaitsLock(p) : p \in Plls}

\* Whatever may stand anywhere in a table.
Plain == SlcrWrites \cup Unprotected

\* All but the keys.
NoKeys == Plain \cup PllSteps

\* The keys.
KeyWrites == WritesTo({SLCR_LOCK, SLCR_UNLOCK})

\* Configure writes to registers of its block.
LEMMA ConfigureIs ==
  ASSUME NEW block, NEW numbers, NEW offsets \in Seq(numbers)
  PROVE  Configure(block, offsets) \in Seq(WritesTo({block} \X numbers))
<1> DEFINE c == Configure(block, offsets)
<1>1. ASSUME NEW i \in DOMAIN offsets
      PROVE  c[i] \in WritesTo({block} \X numbers)
  BY DEF Configure, EMIT_MASKWRITE, WritesTo, Bits
<1>2. c = [i \in DOMAIN offsets |-> c[i]]
  BY DEF Configure
<1> HIDE DEF c
<1>3. PICK n \in Nat : DOMAIN offsets = 1 .. n
  OBVIOUS
<1>4. PICK S : S = WritesTo({block} \X numbers)
  OBVIOUS
<1>5. c \in [1 .. n -> S]
  BY <1>1, <1>2, <1>3, <1>4
<1>6. c \in Seq(S)
  BY <1>5
<1> QED
  BY <1>4, <1>6 DEF c

--------------------------------------------------------------------------------
(* What an instruction does to the write protection, and what comes when.  *)

\* OPCODE_WRITE and OPCODE_MASKWRITE.
IsWrite(x) == x.op \in {"WRITE", "MASKWRITE"}

\* The key that ends the write protection.
Unlocks(x) == IsWrite(x) /\ x.reg = SLCR_UNLOCK

\* The key that restores it.
Locks(x)   == IsWrite(x) /\ x.reg = SLCR_LOCK

\* Without it, the interpreter would lose this instruction and not notice.
NeedsUnlock(x) == IsWrite(x) /\ x.reg[1] = "slcr" /\ ~Unlocks(x) /\ ~Locks(x)

\* Before its instruction p, s has unlocked the SLCR and not locked it again.
UnlockedAt(s, p) ==
  \E j \in 1 .. (p - 1) : Unlocks(s[j]) /\ \A k \in (j + 1) .. (p - 1) : ~Locks(s[k])

\* No instruction of s is lost.
Protected(s) == \A i \in DOMAIN s : NeedsUnlock(s[i]) => UnlockedAt(s, i)

\* All there are, but EXIT.
Instructions == NoKeys \cup KeyWrites

\* The steps by which a PLL is brought up.
BypassOn(p)   == [op |-> "MASKWRITE", reg |-> PLL_CTRL[p], bits |-> [bypass |-> 1]]

\* The clocks come from the PLL again.
BypassOff(p)  == [op |-> "MASKWRITE", reg |-> PLL_CTRL[p], bits |-> [bypass |-> 0]]

\* Its reset is asserted; it loses its lock.
ResetOn(p)    == [op |-> "MASKWRITE", reg |-> PLL_CTRL[p], bits |-> [reset |-> 1]]

\* Its reset is released; it may lock.
ResetOff(p)   == [op |-> "MASKWRITE", reg |-> PLL_CTRL[p], bits |-> [reset |-> 0]]

\* The bypass of a PLL ends with the instruction after the poll for its lock, its reset
\* begins with the one after the bypass, and the poll comes right after the end of the reset.
Orderly(s) ==
  \A i \in DOMAIN s, p \in Plls :
    /\ s[i] = BypassOff(p) => i > 1 /\ s[i - 1] = AwaitsLock(p)
    /\ s[i] = ResetOn(p)   => i > 1 /\ s[i - 1] = BypassOn(p)
    /\ s[i] = AwaitsLock(p) => i > 1 /\ s[i - 1] = ResetOff(p)

\* A piece of a table that may stand alone.
Safe(s) == s \in Seq(Instructions) /\ Protected(s) /\ Orderly(s)

\* One after which the SLCR is unlocked.
Open(s) == Safe(s) /\ UnlockedAt(s, Len(s) + 1)

\* Neither plain writes nor the keys concern a PLL.
LEMMA PlainElsewhere ==
  ASSUME NEW x \in Plain \cup KeyWrites
  PROVE  /\ \A p \in Plls : x.reg # PLL_CTRL[p]
         /\ x.reg # PLL_STATUS
<1>1. \A p \in Plls : PLL_CTRL[p] \in {<<"slcr", \h100>>, <<"slcr", \h104>>, <<"slcr", \h108>>}
  BY DEF Plls, PLL_CTRL, SLCR
<1>2. PLL_STATUS = <<"slcr", \h10C>>
  BY DEF PLL_STATUS, SLCR
<1>3. CASE x \in SlcrWrites
  BY <1>1, <1>2, <1>3 DEF SlcrWrites, WritesTo, PlainOffsets
<1>4. CASE x \in OtherWrites
  BY <1>1, <1>2, <1>4 DEF OtherWrites, WritesTo, Blocks
<1>5. CASE x \in Polls
  BY <1>1, <1>2, <1>5 DEF Polls, DDRIOB_DCI_STATUS, DDRC_MODE_STS, SLCR, DDRC
<1>6. CASE x \in KeyWrites
  BY <1>1, <1>2, <1>6 DEF KeyWrites, WritesTo, SLCR_LOCK, SLCR_UNLOCK, SLCR
<1> QED
  BY <1>3, <1>4, <1>5, <1>6 DEF Plain, Unprotected

\* So they may come in any order.
LEMMA PlainIsOrderly ==
  ASSUME NEW t \in Seq(Plain \cup KeyWrites)
  PROVE  Orderly(t)
<1>1. \A x \in Plain \cup KeyWrites, p \in Plls :
         x # BypassOff(p) /\ x # ResetOn(p) /\ x # AwaitsLock(p)
  BY PlainElsewhere DEF BypassOff, ResetOn, AwaitsLock
<1> QED
  BY <1>1 DEF Orderly

\* A table starts with the unlock key.
LEMMA Opens == Open(Unlock)
<1>1. Unlock \in Seq(Instructions) /\ Len(Unlock) = 1 /\ Unlocks(Unlock[1]) /\ DOMAIN Unlock = {1}
  BY DEF Unlock, EMIT_WRITE, Instructions, KeyWrites, WritesTo, Bits, Unlocks, IsWrite
<1>2. Orderly(Unlock)
  <2>1. Unlock \in Seq(Plain \cup KeyWrites)
    BY DEF Unlock, EMIT_WRITE, KeyWrites, WritesTo, Bits
  <2> QED
    BY <2>1, PlainIsOrderly
<1> QED
  BY <1>1, <1>2 DEF Open, Safe, Protected, UnlockedAt, NeedsUnlock

--------------------------------------------------------------------------------
(* How tables are put together.                                            *)

\* What there is in a concatenation.
LEMMA ConcatIs ==
  ASSUME NEW S, NEW s \in Seq(S), NEW t \in Seq(S)
  PROVE  /\ s \o t \in Seq(S) /\ Len(s \o t) = Len(s) + Len(t)
         /\ Len(s) \in Nat /\ Len(t) \in Nat
         /\ DOMAIN s = 1 .. Len(s) /\ DOMAIN t = 1 .. Len(t)
         /\ DOMAIN (s \o t) = 1 .. (Len(s) + Len(t))
         /\ \A i \in 1 .. Len(s) : (s \o t)[i] = s[i]
         /\ \A i \in 1 .. (Len(s) + Len(t)) : i > Len(s) => (s \o t)[i] = t[i - Len(s)]
         /\ \A i \in 1 .. (Len(s) + Len(t)) : i > Len(s) => i - Len(s) \in 1 .. Len(t)
OBVIOUS

\* Orderly pieces make an orderly table: the instruction before is in the same piece.
LEMMA OrderlyConcat ==
  ASSUME NEW S, NEW s \in Seq(S), NEW t \in Seq(S), Orderly(s), Orderly(t)
  PROVE  Orderly(s \o t)
<1> DEFINE u == s \o t
<1>1. /\ Len(s) \in Nat /\ Len(t) \in Nat /\ DOMAIN s = 1 .. Len(s) /\ DOMAIN t = 1 .. Len(t)
      /\ DOMAIN u = 1 .. (Len(s) + Len(t))
      /\ \A i \in 1 .. Len(s) : u[i] = s[i]
      /\ \A i \in 1 .. (Len(s) + Len(t)) : i > Len(s) => u[i] = t[i - Len(s)]
  BY ConcatIs
<1> HIDE DEF u
<1>2. ASSUME NEW i \in DOMAIN u, NEW p \in Plls
      PROVE  /\ u[i] = BypassOff(p) => i > 1 /\ u[i - 1] = AwaitsLock(p)
             /\ u[i] = ResetOn(p)   => i > 1 /\ u[i - 1] = BypassOn(p)
             /\ u[i] = AwaitsLock(p) => i > 1 /\ u[i - 1] = ResetOff(p)
  <2>1. CASE i <= Len(s)
    <3>1. i \in DOMAIN s /\ u[i] = s[i] /\ (i > 1 => u[i - 1] = s[i - 1])
      BY <2>1, <1>1
    <3> QED
      BY <3>1 DEF Orderly
  <2>2. CASE i > Len(s)
    <3>1. PICK k : k = i - Len(s)
      OBVIOUS
    <3>2. /\ k \in DOMAIN t /\ u[i] = t[k]
          /\ k > 1 => i > 1 /\ u[i - 1] = t[k - 1]
      BY <3>1, <2>2, <1>1
    <3> QED
      BY <3>2 DEF Orderly
  <2> QED
    BY <2>1, <2>2, <1>1
<1>3. Orderly(u)
  BY <1>2 DEF Orderly
<1> QED
  BY <1>3 DEF u

\* What is unlocked at a place of s is so there in s \o t.
LEMMA UnlockedIn ==
  ASSUME NEW s \in Seq(Instructions), NEW t \in Seq(Instructions),
         NEW i \in 1 .. (Len(s) + 1), UnlockedAt(s, i)
  PROVE  UnlockedAt(s \o t, i)
<1> DEFINE u == s \o t
<1>1. Len(s) \in Nat /\ \A k \in 1 .. Len(s) : u[k] = s[k]
  BY ConcatIs
<1> HIDE DEF u
<1> SUFFICES UnlockedAt(u, i)
  BY DEF u
<1>2. PICK j \in 1 .. (i - 1) : Unlocks(s[j]) /\ \A k \in (j + 1) .. (i - 1) : ~Locks(s[k])
  BY DEF UnlockedAt
<1>3. Unlocks(u[j]) /\ \A k \in (j + 1) .. (i - 1) : ~Locks(u[k])
  BY <1>1, <1>2
<1> QED
  BY <1>3 DEF UnlockedAt

\* What is unlocked after s stays so without a key.
LEMMA UnlockedOn ==
  ASSUME NEW s \in Seq(Instructions), NEW t \in Seq(NoKeys), UnlockedAt(s, Len(s) + 1),
         NEW i \in 1 .. (Len(s) + Len(t) + 1), i > Len(s)
  PROVE  UnlockedAt(s \o t, i)
<1> DEFINE u == s \o t
<1>0. s \in Seq(Instructions) /\ t \in Seq(Instructions)
  BY DEF Instructions
<1>1. /\ Len(s) \in Nat /\ Len(t) \in Nat /\ \A k \in 1 .. Len(s) : u[k] = s[k]
      /\ \A k \in 1 .. (Len(s) + Len(t)) :
            k > Len(s) => u[k] = t[k - Len(s)] /\ k - Len(s) \in 1 .. Len(t)
  BY <1>0, ConcatIs
<1>2. \A k \in 1 .. Len(t) : ~Locks(t[k])
  <2>1. \A x \in NoKeys : ~Locks(x)
    <3>1. \A x \in Plain : ~Locks(x)
      BY DEF Plain, SlcrWrites, Unprotected, OtherWrites, Polls, WritesTo, PlainOffsets, Locks,
             IsWrite, SLCR_LOCK, SLCR, Blocks
    <3>2. \A x \in PllSteps : ~Locks(x)
      BY DEF PllSteps, AwaitsLock, PllWrites, PLL_CTRL, Plls, Locks, IsWrite, SLCR_LOCK, SLCR
    <3> QED
      BY <3>1, <3>2 DEF NoKeys
  <2> QED
    BY <2>1
<1> HIDE DEF u
<1> SUFFICES UnlockedAt(u, i)
  BY DEF u
<1>3. PICK j \in 1 .. Len(s) : Unlocks(s[j]) /\ \A k \in (j + 1) .. Len(s) : ~Locks(s[k])
  BY <1>1 DEF UnlockedAt
<1>4. Unlocks(u[j]) /\ \A k \in (j + 1) .. (i - 1) : ~Locks(u[k])
  <2>1. ASSUME NEW k \in (j + 1) .. (i - 1) PROVE ~Locks(u[k])
    <3>1. CASE k <= Len(s)
      BY <3>1, <1>1, <1>3
    <3>2. CASE k > Len(s)
      BY <3>2, <1>1, <1>2
    <3> QED
      BY <3>1, <3>2, <1>1
  <2> QED
    BY <2>1, <1>1, <1>3
<1>5. j \in 1 .. (i - 1)
  BY <1>1
<1> QED
  BY <1>4, <1>5 DEF UnlockedAt

\* An open piece may be continued by anything but the keys.
LEMMA Extends ==
  ASSUME NEW s, Open(s), NEW t \in Seq(NoKeys), Orderly(t)
  PROVE  Open(s \o t)
<1>1. /\ s \in Seq(Instructions) /\ t \in Seq(Instructions)
      /\ Protected(s) /\ UnlockedAt(s, Len(s) + 1) /\ Orderly(s)
  BY DEF Open, Safe, Instructions
<1>2. /\ s \o t \in Seq(Instructions) /\ Len(s \o t) = Len(s) + Len(t)
      /\ Len(s) \in Nat /\ Len(t) \in Nat
      /\ DOMAIN s = 1 .. Len(s) /\ DOMAIN (s \o t) = 1 .. (Len(s) + Len(t))
      /\ \A i \in 1 .. Len(s) : (s \o t)[i] = s[i]
  BY <1>1, ConcatIs
<1>3. ASSUME NEW i \in DOMAIN (s \o t), NeedsUnlock((s \o t)[i])
      PROVE  UnlockedAt(s \o t, i)
  <2>1. CASE i <= Len(s)
    <3>1. UnlockedAt(s, i) /\ i \in 1 .. (Len(s) + 1)
      BY <2>1, <1>1, <1>2, <1>3 DEF Protected
    <3> QED
      BY <3>1, <1>1, UnlockedIn
  <2>2. CASE i > Len(s)
    <3>1. i \in 1 .. (Len(s) + Len(t) + 1)
      BY <1>2
    <3> QED
      BY <3>1, <2>2, <1>1, UnlockedOn
  <2> QED
    BY <2>1, <2>2, <1>2
<1>4. UnlockedAt(s \o t, Len(s \o t) + 1)
  <2>1. Len(s) + Len(t) + 1 \in 1 .. (Len(s) + Len(t) + 1) /\ Len(s) + Len(t) + 1 > Len(s)
    BY <1>2
  <2> QED
    BY <2>1, <1>1, <1>2, UnlockedOn
<1>5. Orderly(s \o t)
  BY <1>1, OrderlyConcat
<1> QED
  BY <1>2, <1>3, <1>4, <1>5 DEF Open, Safe, Protected

\* In particular by what may stand anywhere.
LEMMA ExtendsPlainly ==
  ASSUME NEW s, Open(s), NEW t \in Seq(Plain)
  PROVE  Open(s \o t)
<1>1. t \in Seq(NoKeys) /\ t \in Seq(Plain \cup KeyWrites)
  BY DEF NoKeys
<1> QED
  BY <1>1, Extends, PlainIsOrderly

\* What needs no unlocking may follow in any case.
LEMMA Follows ==
  ASSUME NEW s, Safe(s), NEW t \in Seq(Plain \cup KeyWrites),
         \A i \in DOMAIN t : ~NeedsUnlock(t[i])
  PROVE  Safe(s \o t)
<1>1. s \in Seq(Instructions) /\ Protected(s) /\ Orderly(s) /\ t \in Seq(Instructions)
  BY DEF Safe, Instructions, NoKeys
<1>2. /\ s \o t \in Seq(Instructions) /\ Len(s \o t) = Len(s) + Len(t)
      /\ Len(s) \in Nat /\ Len(t) \in Nat
      /\ DOMAIN s = 1 .. Len(s) /\ DOMAIN t = 1 .. Len(t)
      /\ DOMAIN (s \o t) = 1 .. (Len(s) + Len(t))
      /\ \A i \in 1 .. Len(s) : (s \o t)[i] = s[i]
      /\ \A i \in 1 .. (Len(s) + Len(t)) :
            i > Len(s) => (s \o t)[i] = t[i - Len(s)] /\ i - Len(s) \in 1 .. Len(t)
  BY <1>1, ConcatIs
<1>3. ASSUME NEW i \in DOMAIN (s \o t), NeedsUnlock((s \o t)[i])
      PROVE  UnlockedAt(s \o t, i)
  <2>1. i <= Len(s)
    BY <1>2, <1>3
  <2>2. UnlockedAt(s, i) /\ i \in 1 .. (Len(s) + 1)
    BY <2>1, <1>1, <1>2, <1>3 DEF Protected
  <2> QED
    BY <2>2, <1>1, UnlockedIn
<1>4. Orderly(s \o t)
  BY <1>1, PlainIsOrderly, OrderlyConcat
<1> QED
  BY <1>2, <1>3, <1>4 DEF Safe, Protected

\* Such as the instructions about other blocks.
LEMMA UnprotectedFollows ==
  ASSUME NEW s, Safe(s), NEW t \in Seq(Unprotected)
  PROVE  Safe(s \o t)
<1>1. \A x \in Unprotected : ~NeedsUnlock(x) /\ x \in Plain
  BY DEF Unprotected, OtherWrites, Polls, WritesTo, NeedsUnlock, IsWrite, Blocks, Plain
<1> QED
  BY <1>1, Follows

\* The lock key may end an open piece.
LEMMA Closes ==
  ASSUME NEW s, Open(s)
  PROVE  Safe(s \o Lock)
<1>1. Lock \in Seq(Plain \cup KeyWrites) /\ \A i \in DOMAIN Lock : ~NeedsUnlock(Lock[i])
  BY DEF Lock, EMIT_WRITE, KeyWrites, WritesTo, Bits, NeedsUnlock, Locks, IsWrite
<1> QED
  BY <1>1, Follows DEF Open

\* The empty piece, to start with.
LEMMA NothingIsSafe == Safe(<<>>)
BY DEF Safe, Protected, Orderly

\* The last instruction.
Exits == {[op |-> "EXIT"]}

\* What the interpreter relies on in a table.
Complete(s) ==
  /\ s \in Seq(Instructions \cup Exits) /\ s # <<>>
  /\ \A i \in DOMAIN s : s[i] \in Exits <=> i = Len(s)
  /\ Protected(s) /\ Orderly(s)

\* A piece that may stand alone and EXIT make a table.
LEMMA Completes ==
  ASSUME NEW s, Safe(s)
  PROVE  Complete(s \o EMIT_EXIT)
<1> DEFINE u == s \o EMIT_EXIT
<1>1. s \in Seq(Instructions) /\ Protected(s) /\ Orderly(s)
  BY DEF Safe
<1>2. \A x \in Instructions : x \notin Exits
  BY DEF Instructions, NoKeys, Plain, PllSteps, AwaitsLock, PllWrites, SlcrWrites, Unprotected,
         OtherWrites, Polls, KeyWrites, WritesTo, Exits
<1>3. /\ u \in Seq(Instructions \cup Exits) /\ Len(u) = Len(s) + 1 /\ Len(s) \in Nat
      /\ DOMAIN s = 1 .. Len(s) /\ DOMAIN u = 1 .. (Len(s) + 1)
      /\ (\A i \in 1 .. Len(s) : u[i] = s[i]) /\ u[Len(s) + 1] = [op |-> "EXIT"]
  BY <1>1 DEF EMIT_EXIT, Exits
<1>4. \A i \in 1 .. Len(s) : s[i] \in Instructions
  BY <1>1
<1>5. \A x \in Exits : ~NeedsUnlock(x)
  BY DEF Exits, NeedsUnlock, IsWrite
<1> HIDE DEF u
<1>6. Protected(u)
  <2>1. ASSUME NEW i \in 1 .. Len(s), NeedsUnlock(u[i]) PROVE UnlockedAt(u, i)
    <3>1. UnlockedAt(s, i)
      BY <2>1, <1>1, <1>3 DEF Protected
    <3>2. PICK j \in 1 .. (i - 1) : Unlocks(s[j]) /\ \A k \in (j + 1) .. (i - 1) : ~Locks(s[k])
      BY <3>1 DEF UnlockedAt
    <3>3. Unlocks(u[j]) /\ \A k \in (j + 1) .. (i - 1) : ~Locks(u[k])
      BY <3>2, <1>3
    <3> QED
      BY <3>3 DEF UnlockedAt
  <2>2. ~NeedsUnlock(u[Len(s) + 1])
    BY <1>3, <1>5 DEF Exits
  <2> QED
    BY <2>1, <2>2, <1>3 DEF Protected
<1>7. u # <<>> /\ \A i \in DOMAIN u : u[i] \in Exits <=> i = Len(u)
  <2>1. ASSUME NEW i \in 1 .. Len(s) PROVE u[i] \notin Exits
    BY <1>2, <1>3, <1>4
  <2>2. u[Len(s) + 1] \in Exits
    BY <1>3 DEF Exits
  <2> QED
    BY <2>1, <2>2, <1>3
<1>9. Orderly(u)
  <2>1. Orderly(EMIT_EXIT)
    BY DEF EMIT_EXIT, Orderly, BypassOff, ResetOn, AwaitsLock
  <2>2. s \in Seq(Instructions \cup Exits) /\ EMIT_EXIT \in Seq(Instructions \cup Exits)
    BY <1>1 DEF EMIT_EXIT, Exits
  <2> QED
    BY <2>1, <2>2, <1>1, OrderlyConcat DEF u
<1>8. Complete(u)
  BY <1>3, <1>6, <1>7, <1>9 DEF Complete
<1> QED
  BY <1>8 DEF u

\* The kinds of instructions, from the narrow to the wide.
LEMMA Wider ==
  /\ \A s : s \in Seq(SlcrWrites) => s \in Seq(Plain)
  /\ \A s : s \in Seq(RestWrites) => s \in Seq(Plain) /\ s \in Seq(SlcrWrites)
  /\ \A s : s \in Seq(OtherWrites) => s \in Seq(Plain) /\ s \in Seq(Unprotected)
  /\ \A s : s \in Seq(Unprotected) => s \in Seq(Plain)
  /\ \A s : s \in Seq(DdrWrites) => s \in Seq(Unprotected)
  /\ \A s : s \in Seq(PeripheralWrites) => s \in Seq(OtherWrites)
  /\ \A s : s \in Seq(OutsideWrites) => s \in Seq(OtherWrites)
<1>1. /\ SlcrWrites \subseteq Plain /\ OtherWrites \subseteq Plain
      /\ OtherWrites \subseteq Unprotected /\ Unprotected \subseteq Plain
  BY DEF Plain, Unprotected
<1>2. RestWrites \subseteq SlcrWrites
  BY DEF RestWrites, SlcrWrites, RestOffsets, WritesTo
<1>3. /\ DdrWrites \subseteq OtherWrites /\ PeripheralWrites \subseteq OtherWrites
      /\ OutsideWrites \subseteq OtherWrites
  BY DEF DdrWrites, PeripheralWrites, OutsideWrites, OtherWrites, WritesTo, Blocks, DdrOffsets,
         DDRC_MODE_STS, DDRC
<1> QED
  BY <1>1, <1>2, <1>3

--------------------------------------------------------------------------------
(* The material of the tables.                                             *)

\* x comes at the right place when it comes after s.
MayFollow(s, x) ==
  \A q \in Plls : /\ x = BypassOff(q) => s # <<>> /\ s[Len(s)] = AwaitsLock(q)
                  /\ x = ResetOn(q)   => s # <<>> /\ s[Len(s)] = BypassOn(q)
                  /\ x = AwaitsLock(q) => s # <<>> /\ s[Len(s)] = ResetOff(q)

\* Then s is orderly with it.
LEMMA OneMore ==
  ASSUME NEW s \in Seq(NoKeys), Orderly(s), NEW x \in NoKeys, MayFollow(s, x)
  PROVE  /\ s \o <<x>> \in Seq(NoKeys) /\ s \o <<x>> # <<>> /\ Orderly(s \o <<x>>)
         /\ (s \o <<x>>)[Len(s \o <<x>>)] = x
<1> DEFINE u == s \o <<x>>
<1>1. /\ u \in Seq(NoKeys) /\ Len(u) = Len(s) + 1 /\ Len(s) \in Nat /\ u[Len(s) + 1] = x
      /\ DOMAIN s = 1 .. Len(s) /\ DOMAIN u = 1 .. (Len(s) + 1) /\ (s # <<>> => Len(s) > 0)
      /\ \A i \in 1 .. Len(s) : u[i] = s[i]
  OBVIOUS
<1> HIDE DEF u
<1>2. ASSUME NEW i \in DOMAIN u, NEW p \in Plls
      PROVE  /\ u[i] = BypassOff(p) => i > 1 /\ u[i - 1] = AwaitsLock(p)
             /\ u[i] = ResetOn(p)   => i > 1 /\ u[i - 1] = BypassOn(p)
             /\ u[i] = AwaitsLock(p) => i > 1 /\ u[i - 1] = ResetOff(p)
  <2>1. CASE i <= Len(s)
    <3>1. i \in DOMAIN s /\ u[i] = s[i] /\ (i > 1 => u[i - 1] = s[i - 1])
      BY <2>1, <1>1
    <3> QED
      BY <3>1 DEF Orderly
  <2>2. CASE i = Len(s) + 1
    <3>1. u[i] = x
      BY <2>2, <1>1, Zenon
    <3>2. ASSUME s # <<>> PROVE i > 1 /\ u[i - 1] = s[Len(s)]
      <4>1. Len(s) \in 1 .. Len(s) /\ i - 1 = Len(s)
        BY <3>2, <2>2, <1>1
      <4> QED
        BY <4>1, <1>1
    <3>3. /\ x = BypassOff(p) => s # <<>> /\ s[Len(s)] = AwaitsLock(p)
          /\ x = ResetOn(p)   => s # <<>> /\ s[Len(s)] = BypassOn(p)
          /\ x = AwaitsLock(p) => s # <<>> /\ s[Len(s)] = ResetOff(p)
      BY DEF MayFollow
    <3> QED
      BY <3>1, <3>2, <3>3, Zenon
  <2> QED
    BY <2>1, <2>2, <1>1
<1>3. u \in Seq(NoKeys) /\ u # <<>> /\ Orderly(u) /\ u[Len(u)] = x
  BY <1>1, <1>2 DEF Orderly
<1> QED
  BY <1>3 DEF u

\* The seven instructions that bring up a PLL are in order.
LEMMA BringUpIs ==
  ASSUME NEW p \in Plls, NEW n \in Nat
  PROVE  BringUpPll(p, n) \in Seq(NoKeys) /\ Orderly(BringUpPll(p, n))
<1>1. PICK config, fdiv :
        /\ config = [op |-> "MASKWRITE", reg |-> PLL_CFG[p], bits |-> NoBits]
        /\ fdiv = [op |-> "MASKWRITE", reg |-> PLL_CTRL[p], bits |-> [fdiv |-> n]]
  OBVIOUS
<1>2. /\ config \in NoKeys /\ fdiv \in NoKeys /\ ResetOff(p) \in NoKeys /\ BypassOn(p) \in NoKeys
      /\ ResetOn(p) \in NoKeys /\ AwaitsLock(p) \in NoKeys /\ BypassOff(p) \in NoKeys
  <2>1. config \in NoKeys
    BY <1>1 DEF NoKeys, Plain, SlcrWrites, WritesTo, PlainOffsets, Bits, PLL_CFG, Plls, SLCR
  <2>2. AwaitsLock(p) \in NoKeys
    BY DEF NoKeys, PllSteps
  <2>3. fdiv \in NoKeys /\ ResetOff(p) \in NoKeys
    BY <1>1 DEF NoKeys, PllSteps, PllWrites, PllBits, ResetOff
  <2>4. BypassOn(p) \in NoKeys /\ ResetOn(p) \in NoKeys /\ BypassOff(p) \in NoKeys
    BY DEF NoKeys, PllSteps, PllWrites, PllBits, BypassOn, ResetOn, BypassOff
  <2> QED
    BY <2>1, <2>2, <2>3, <2>4
<1>3. \A q \in Plls : /\ config # BypassOff(q) /\ config # ResetOn(q)
                      /\ fdiv # BypassOff(q) /\ fdiv # ResetOn(q)
                      /\ ResetOff(p) # BypassOff(q) /\ ResetOff(p) # ResetOn(q)
                      /\ BypassOn(p) # BypassOff(q) /\ BypassOn(p) # ResetOn(q)
                      /\ AwaitsLock(p) # BypassOff(q) /\ AwaitsLock(p) # ResetOn(q)
                      /\ ResetOn(p) # BypassOff(q) /\ BypassOff(p) # ResetOn(q)
                      /\ ResetOn(p) = ResetOn(q) => p = q
                      /\ BypassOff(p) = BypassOff(q) => p = q
                      /\ AwaitsLock(p) = AwaitsLock(q) => p = q
                      /\ config # AwaitsLock(q) /\ fdiv # AwaitsLock(q)
                      /\ ResetOff(p) # AwaitsLock(q) /\ BypassOn(p) # AwaitsLock(q)
                      /\ ResetOn(p) # AwaitsLock(q) /\ BypassOff(p) # AwaitsLock(q)
  <2>1. \A a, b \in Plls : PLL_CTRL[a] = PLL_CTRL[b] => a = b
    BY DEF PLL_CTRL, Plls, SLCR
  <2>2. \A a, b \in Plls : PLL_CFG[a] # PLL_CTRL[b]
    BY DEF PLL_CTRL, PLL_CFG, Plls, SLCR
  <2>3. /\ [bypass |-> 0] # [bypass |-> 1] /\ [bypass |-> 0] # [reset |-> 1]
        /\ [bypass |-> 0] # [reset |-> 0] /\ [bypass |-> 0] # [fdiv |-> n]
    OBVIOUS
  <2>4. /\ [reset |-> 1] # [bypass |-> 1] /\ [reset |-> 1] # [reset |-> 0]
        /\ [reset |-> 1] # [fdiv |-> n]
    OBVIOUS
  <2> QED
    BY <1>1, <2>1, <2>2, <2>3, <2>4 DEF BypassOff, BypassOn, ResetOn, ResetOff, AwaitsLock
<1>4. PICK s1 : s1 = <<config>>
  OBVIOUS
<1>5. s1 \in Seq(NoKeys) /\ Orderly(s1)
  BY <1>2, <1>3, <1>4 DEF Orderly
<1>6. PICK s2 : s2 = s1 \o <<fdiv>>
  OBVIOUS
<1>7. s2 \in Seq(NoKeys) /\ Orderly(s2)
  BY <1>2, <1>3, <1>5, <1>6, OneMore DEF MayFollow
<1>8. PICK s3 : s3 = s2 \o <<BypassOn(p)>>
  OBVIOUS
<1>9. s3 \in Seq(NoKeys) /\ s3 # <<>> /\ Orderly(s3) /\ s3[Len(s3)] = BypassOn(p)
  BY <1>2, <1>3, <1>7, <1>8, OneMore DEF MayFollow
<1>10. PICK s4 : s4 = s3 \o <<ResetOn(p)>>
  OBVIOUS
<1>11. s4 \in Seq(NoKeys) /\ Orderly(s4)
  BY <1>2, <1>3, <1>9, <1>10, OneMore DEF MayFollow
<1>12. PICK s5 : s5 = s4 \o <<ResetOff(p)>>
  OBVIOUS
<1>13. s5 \in Seq(NoKeys) /\ s5 # <<>> /\ Orderly(s5) /\ s5[Len(s5)] = ResetOff(p)
  BY <1>2, <1>3, <1>11, <1>12, OneMore DEF MayFollow
<1>14. PICK s6 : s6 = s5 \o <<AwaitsLock(p)>>
  OBVIOUS
<1>15. s6 \in Seq(NoKeys) /\ s6 # <<>> /\ Orderly(s6) /\ s6[Len(s6)] = AwaitsLock(p)
  BY <1>2, <1>3, <1>13, <1>14, OneMore DEF MayFollow
<1>16. PICK s7 : s7 = s6 \o <<BypassOff(p)>>
  OBVIOUS
<1>17. s7 \in Seq(NoKeys) /\ Orderly(s7)
  BY <1>2, <1>3, <1>15, <1>16, OneMore DEF MayFollow
<1>18. BringUpPll(p, n) = s7
  <2>1. /\ EMIT_MASKWRITE(PLL_CFG[p], NoBits) = <<config>>
        /\ EMIT_MASKWRITE(PLL_CTRL[p], [fdiv |-> n]) = <<fdiv>>
    BY <1>1, Zenon DEF EMIT_MASKWRITE
  <2>2. /\ EMIT_MASKWRITE(PLL_CTRL[p], [bypass |-> 1]) = <<BypassOn(p)>>
        /\ EMIT_MASKWRITE(PLL_CTRL[p], [reset |-> 1]) = <<ResetOn(p)>>
        /\ EMIT_MASKWRITE(PLL_CTRL[p], [reset |-> 0]) = <<ResetOff(p)>>
        /\ EMIT_MASKPOLL(PLL_STATUS, p) = <<AwaitsLock(p)>>
        /\ EMIT_MASKWRITE(PLL_CTRL[p], [bypass |-> 0]) = <<BypassOff(p)>>
    BY Zenon DEF EMIT_MASKWRITE, EMIT_MASKPOLL, BypassOn, ResetOn, ResetOff, AwaitsLock, BypassOff
  <2> QED
    BY <2>1, <2>2, <1>4, <1>6, <1>8, <1>10, <1>12, <1>14, <1>16, Zenon DEF BringUpPll
<1> QED
  BY <1>17, <1>18

\* So are those of the three PLLs, and the clocks set between them do not matter.
LEMMA PllsAre ==
  /\ ArmPll \in Seq(NoKeys) /\ DdrPll \in Seq(NoKeys) /\ IoPll \in Seq(NoKeys)
  /\ Orderly(ArmPll) /\ Orderly(DdrPll) /\ Orderly(IoPll)
<1>1. "arm" \in Plls /\ "ddr" \in Plls /\ "io" \in Plls /\ 40 \in Nat /\ 32 \in Nat /\ 36 \in Nat
  BY DEF Plls
<1>2. /\ BringUpPll("arm", 40) \in Seq(NoKeys) /\ Orderly(BringUpPll("arm", 40))
      /\ BringUpPll("ddr", 32) \in Seq(NoKeys) /\ Orderly(BringUpPll("ddr", 32))
      /\ BringUpPll("io", 36) \in Seq(NoKeys) /\ Orderly(BringUpPll("io", 36))
  BY <1>1, BringUpIs, Zenon
<1>3. /\ EMIT_MASKWRITE(ARM_CLK_CTRL, Clock("arm", 2, 1)) \in Seq(SlcrWrites)
      /\ EMIT_MASKWRITE(DDR_CLK_CTRL, ActiveClock("ddr", 2, 1)) \in Seq(SlcrWrites)
  BY DEF ARM_CLK_CTRL, DDR_CLK_CTRL, Clock, ActiveClock, EMIT_MASKWRITE, SLCR, SlcrWrites, WritesTo,
         PlainOffsets, Plls, Bits
<1>4. ASSUME NEW s \in Seq(NoKeys), Orderly(s), NEW t \in Seq(SlcrWrites)
      PROVE  s \o t \in Seq(NoKeys) /\ Orderly(s \o t)
  <2>1. t \in Seq(NoKeys) /\ t \in Seq(Plain \cup KeyWrites)
    BY DEF NoKeys, Plain
  <2> QED
    BY <2>1, <1>4, PlainIsOrderly, OrderlyConcat
<1> QED
  BY <1>2, <1>3, <1>4, Zenon DEF ArmPll, DdrPll, IoPll

\* The clock registers are plain registers of the SLCR, and so is the one that calibrates.
LEMMA ClocksAre ==
  /\ PeripheralClocks \in Seq(SlcrWrites) /\ BusClocks \in Seq(SlcrWrites)
  /\ PlClocks \in Seq(SlcrWrites) /\ PlClocksUboot \in Seq(SlcrWrites)
  /\ DdrIoCalibration \in Seq(SlcrWrites)
  /\ GigabitClocks \in Seq(RestWrites) /\ Configure("slcr", <<\h1C4>>) \in Seq(RestWrites)
<1> USE DEF EMIT_MASKWRITE, SLCR, SlcrWrites, PlainOffsets, WritesTo, Bits, Plls
<1>1. EMIT_MASKWRITE(DCI_CLK_CTRL, ActiveClock("ddr", 15, 7)) \in Seq(SlcrWrites)
  BY DEF DCI_CLK_CTRL, ActiveClock
<1>2. GigabitClocks \in Seq(RestWrites) /\ Configure("slcr", <<\h1C4>>) \in Seq(RestWrites)
  BY DEF GigabitClocks, Configure, RestWrites, RestOffsets
<1>3. EMIT_MASKWRITE(SMC_CLK_CTRL, ActiveClock("io", 12, 1)) \in Seq(SlcrWrites)
  BY DEF SMC_CLK_CTRL, ActiveClock
<1>4. EMIT_MASKWRITE(SDIO_CLK_CTRL, ActiveClock("io", 60, 1)) \in Seq(SlcrWrites)
  BY DEF SDIO_CLK_CTRL, ActiveClock
<1>5. EMIT_MASKWRITE(UART_CLK_CTRL, ActiveClock("io", 12, 1)) \in Seq(SlcrWrites)
  BY DEF UART_CLK_CTRL, ActiveClock
<1>6. EMIT_MASKWRITE(PCAP_CLK_CTRL, ActiveClock("io", 6, 1)) \in Seq(SlcrWrites)
  BY DEF PCAP_CLK_CTRL, ActiveClock
<1>7. BusClocks \in Seq(SlcrWrites)
  BY DEF BusClocks, APER_CLK_CTRL, Configure
<1>8. PlClocks \in Seq(SlcrWrites)
  BY DEF PlClocks, FPGA0_CLK_CTRL, FPGA1_CLK_CTRL, Clock
<1>9. PlClocksUboot \in Seq(SlcrWrites)
  BY DEF PlClocksUboot, FPGA0_CLK_CTRL, Clock
<1>10. DdrIoCalibration \in Seq(SlcrWrites)
  BY DEF DdrIoCalibration, DDRIOB_DCI_CTRL
<1> HIDE DEF EMIT_MASKWRITE, SLCR, SlcrWrites, PlainOffsets, WritesTo, Bits, Plls
<1> QED
  BY <1>1, <1>2, <1>3, <1>4, <1>5, <1>6, <1>7, <1>8, <1>9, <1>10, Wider DEF PeripheralClocks

\* So are the pins.
LEMMA PinsAre ==
  ASSUME NEW a \in 0..53, NEW b \in 0..53, a <= b
  PROVE  Pins(a, b) \in Seq(RestWrites)
<1>1. [i \in 1..(b - a + 1) |-> \h700 + 4 * (a + i - 1)] \in Seq(RestOffsets)
  BY DEF RestOffsets, PlainOffsets
<1> QED
  BY <1>1, ConfigureIs DEF Pins, RestWrites

\* So are those of the DDR I/O buffers.
LEMMA MioIs ==
  /\ DdrIoBuffers \in Seq(RestWrites) /\ DdrIoBuffersDqs \in Seq(RestWrites)
  /\ DdrIoDrive \in Seq(RestWrites) /\ MioPins \in Seq(RestWrites)
  /\ NandPinsLow \in Seq(RestWrites) /\ NandPinsMiddle \in Seq(RestWrites)
  /\ NandPinsHigh \in Seq(RestWrites) /\ GpioPins15 \in Seq(RestWrites)
  /\ GpioPins20 \in Seq(RestWrites) /\ UartPins \in Seq(RestWrites)
  /\ I2cPins \in Seq(RestWrites) /\ GpioPins28 \in Seq(RestWrites)
  /\ GpioPins33 \in Seq(RestWrites) /\ GpioPins36 \in Seq(RestWrites)
  /\ SdioPins \in Seq(RestWrites) /\ GpioPins46 \in Seq(RestWrites)
  /\ GpioPins50 \in Seq(RestWrites) /\ SdioSelect \in Seq(RestWrites)
<1> USE DEF EMIT_MASKWRITE, SLCR, RestWrites, RestOffsets, PlainOffsets, WritesTo, Bits
<1>1. DdrIoBuffers \in Seq(RestWrites)
  BY DEF DdrIoBuffers, Configure
<1>2. DdrIoBuffersDqs \in Seq(RestWrites)
  BY DEF DdrIoBuffersDqs, Configure
<1>3. DdrIoDrive \in Seq(RestWrites)
  BY DEF DdrIoDrive, Configure
<1>5. SdioSelect \in Seq(RestWrites)
  BY DEF SdioSelect, Configure
<1> HIDE DEF EMIT_MASKWRITE, SLCR, RestWrites, RestOffsets, PlainOffsets, WritesTo, Bits
<1>6. /\ 0 \in 0..53 /\ 4 \in 0..53 /\ 5 \in 0..53 /\ 9 \in 0..53 /\ 10 \in 0..53
      /\ 14 \in 0..53 /\ 15 \in 0..53 /\ 19 \in 0..53 /\ 20 \in 0..53 /\ 23 \in 0..53
      /\ 24 \in 0..53 /\ 25 \in 0..53 /\ 26 \in 0..53 /\ 27 \in 0..53 /\ 28 \in 0..53
      /\ 32 \in 0..53 /\ 33 \in 0..53 /\ 35 \in 0..53 /\ 36 \in 0..53 /\ 39 \in 0..53
      /\ 40 \in 0..53 /\ 45 \in 0..53 /\ 46 \in 0..53 /\ 49 \in 0..53 /\ 50 \in 0..53
      /\ 53 \in 0..53 /\ 0 <= 4 /\ 5 <= 9 /\ 10 <= 14 /\ 15 <= 19 /\ 20 <= 23 /\ 24 <= 25
      /\ 26 <= 27 /\ 28 <= 32 /\ 33 <= 35 /\ 36 <= 39 /\ 40 <= 45 /\ 46 <= 49 /\ 50 <= 53
  OBVIOUS
<1>7. /\ NandPinsLow \in Seq(RestWrites) /\ NandPinsMiddle \in Seq(RestWrites)
      /\ NandPinsHigh \in Seq(RestWrites) /\ GpioPins15 \in Seq(RestWrites)
      /\ GpioPins20 \in Seq(RestWrites) /\ UartPins \in Seq(RestWrites)
      /\ I2cPins \in Seq(RestWrites) /\ GpioPins28 \in Seq(RestWrites)
      /\ GpioPins33 \in Seq(RestWrites) /\ GpioPins36 \in Seq(RestWrites)
      /\ SdioPins \in Seq(RestWrites) /\ GpioPins46 \in Seq(RestWrites)
      /\ GpioPins50 \in Seq(RestWrites)
  BY <1>6, PinsAre, Zenon DEF NandPinsLow, NandPinsMiddle, NandPinsHigh, GpioPins15, GpioPins20,
       UartPins, I2cPins, GpioPins28, GpioPins33, GpioPins36,
       SdioPins, GpioPins46, GpioPins50
<1>8. MioPins \in Seq(RestWrites)
  BY <1>5, <1>7 DEF MioPins
<1> QED
  BY <1>1, <1>2, <1>3, <1>5, <1>7, <1>8

\* The DDR controller is not behind the write protection.
LEMMA DdrIs ==
  ASSUME NEW timers \in Seq(DdrOffsets)
  PROVE  /\ HoldDdrInReset \in Seq(Unprotected) /\ ReleaseDdr \in Seq(Unprotected)
         /\ DdrSettings(timers) \in Seq(DdrWrites)
<1>1. \A b \in Bits : EMIT_MASKWRITE(DDRC_CTRL, b) \in Seq(Unprotected)
  BY DEF EMIT_MASKWRITE, DDRC_CTRL, DDRC_MODE_STS, DDRC, Unprotected, OtherWrites, WritesTo, Blocks
<1>2. [soft_rstb |-> 0] \in Bits /\ [soft_rstb |-> 1] \in Bits
  BY DEF Bits
<1>3. HoldDdrInReset \in Seq(Unprotected)
  BY <1>1, <1>2 DEF HoldDdrInReset
<1>4. ReleaseDdr \in Seq(Unprotected)
  <2>1. EMIT_MASKPOLL(DDRIOB_DCI_STATUS, "done") \in Seq(Unprotected)
    BY DEF EMIT_MASKPOLL, Unprotected, Polls
  <2>2. EMIT_MASKPOLL(DDRC_MODE_STS, "operating_mode") \in Seq(Unprotected)
    BY DEF EMIT_MASKPOLL, Unprotected, Polls
  <2> QED
    BY <1>1, <1>2, <2>1, <2>2 DEF ReleaseDdr
<1>5. DdrSettings(timers) \in Seq(DdrWrites)
  <2> USE DEF DdrOffsets
  <2>2. /\ DdrTiming \in Seq(DdrOffsets) /\ DdrDeviceInit \in Seq(DdrOffsets)
        /\ DdrAddressMap \in Seq(DdrOffsets) /\ DdrPhyCommands \in Seq(DdrOffsets)
        /\ DdrPowerControl \in Seq(DdrOffsets)
    BY DEF DdrTiming, DdrDeviceInit, DdrAddressMap, DdrPhyCommands, DdrPowerControl
  <2>3. /\ DdrErrorControl \in Seq(DdrOffsets) /\ DdrPhyConfig \in Seq(DdrOffsets)
        /\ DdrPhyInitRatio \in Seq(DdrOffsets) /\ DdrReadDqs \in Seq(DdrOffsets)
        /\ DdrWriteDqs \in Seq(DdrOffsets)
    BY DEF DdrErrorControl, DdrPhyConfig, DdrPhyInitRatio, DdrReadDqs, DdrWriteDqs
  <2>4. /\ DdrFifoEnable \in Seq(DdrOffsets) /\ DdrWriteData \in Seq(DdrOffsets)
        /\ DdrPhyControl \in Seq(DdrOffsets) /\ DdrPorts \in Seq(DdrOffsets)
        /\ DdrLowPower \in Seq(DdrOffsets)
    BY DEF DdrFifoEnable, DdrWriteData, DdrPhyControl, DdrPorts, DdrLowPower
  <2> HIDE DEF DdrOffsets
  <2>5. DdrTiming \o DdrDeviceInit \o DdrAddressMap \o DdrPhyCommands
    \o timers \o DdrPowerControl \o DdrErrorControl \o DdrPhyConfig
    \o DdrPhyInitRatio \o DdrReadDqs \o DdrWriteDqs \o DdrFifoEnable
    \o DdrWriteData \o DdrPhyControl \o DdrPorts \o DdrLowPower \in Seq(DdrOffsets)
    BY <2>2, <2>3, <2>4
  <2> QED
    BY <2>5, ConfigureIs DEF DdrSettings, DdrWrites
<1> QED
  BY <1>3, <1>4, <1>5

\* Nor are the peripherals, but the termination of the DDR inputs is.
LEMMA PeripheralsAre ==
  /\ DdrTermination \in Seq(RestWrites)
  /\ UartSetUp \in Seq(PeripheralWrites) /\ SmcSetUp \in Seq(PeripheralWrites)
  /\ QspiAndPcapSetUp \in Seq(OutsideWrites)
  /\ AfiWidth \in Seq(OutsideWrites) /\ AfiWidthUboot \in Seq(OutsideWrites)
  /\ \A i \in 0..2 : EMIT_WRITE(<<"cti", i>>, NoBits) \in Seq(OutsideWrites)
<1>1. DdrTermination \in Seq(RestWrites)
  BY DEF DdrTermination, Configure, EMIT_MASKWRITE, SLCR, RestWrites, RestOffsets, PlainOffsets,
         WritesTo, Bits
<1>2. UartSetUp \in Seq(PeripheralWrites)
  BY DEF UartSetUp, EMIT_MASKWRITE, UART1, UART_BAUD_DIV, UART_BAUD_GEN, UART_CONTROL,
         PeripheralWrites, WritesTo, Bits
<1>3. QspiAndPcapSetUp \in Seq(OutsideWrites)
  BY DEF QspiAndPcapSetUp, EMIT_MASKWRITE, OutsideWrites, WritesTo, Bits
<1>4. SmcSetUp \in Seq(PeripheralWrites)
  BY DEF SmcSetUp, EMIT_MASKWRITE, EMIT_WRITE, SMC, PeripheralWrites, WritesTo, Bits
<1>5. AfiWidth \in Seq(OutsideWrites) /\ AfiWidthUboot \in Seq(OutsideWrites)
  BY DEF AfiWidth, AfiWidthUboot, Configure, EMIT_MASKWRITE, OutsideWrites, WritesTo, Bits
<1>6. \A i \in 0..2 : EMIT_WRITE(<<"cti", i>>, NoBits) \in Seq(OutsideWrites)
  BY DEF EMIT_WRITE, OutsideWrites, WritesTo, Bits
<1> QED
  BY <1>1, <1>2, <1>3, <1>4, <1>5, <1>6

--------------------------------------------------------------------------------
(* The tables, of each silicon version and in both copies of the file.     *)

\* Each section is unlocked before its first write to the SLCR, and ends with EXIT.
LEMMA SectionsAreTables ==
  /\ Complete(PllSection) /\ Complete(MioSection)
  /\ Complete(PeripheralSection) /\ Complete(DebugSection)
  /\ Complete(ClockSection(PlClocks)) /\ Complete(ClockSection(PlClocksUboot))
  /\ Complete(PostConfigSection(AfiWidth)) /\ Complete(PostConfigSection(AfiWidthUboot))
  /\ \A timers \in Seq(DdrOffsets) : Complete(DdrSection(timers))
<1>1. Complete(PllSection)
  <2>1. Open(Unlock \o ArmPll \o DdrPll \o IoPll)
    BY Opens, PllsAre, Extends
  <2> QED
    BY <2>1, Closes, Completes DEF PllSection
<1>2. Complete(MioSection)
  <2>1. Open(Unlock \o DdrIoBuffers \o DdrIoBuffersDqs \o DdrIoDrive \o DdrIoCalibration \o MioPins)
    BY Opens, MioIs, ClocksAre, ExtendsPlainly, Wider
  <2> QED
    BY <2>1, Closes, Completes DEF MioSection
<1>3. Complete(PeripheralSection)
  <2>1. Safe(Unlock \o DdrTermination \o Lock)
    BY Opens, PeripheralsAre, ExtendsPlainly, Wider, Closes
  <2>2. Safe(Unlock \o DdrTermination \o Lock \o UartSetUp \o QspiAndPcapSetUp \o SmcSetUp)
    BY <2>1, PeripheralsAre, UnprotectedFollows, Wider
  <2> QED
    BY <2>2, Completes DEF PeripheralSection
<1>4. Complete(DebugSection)
  <2>1. /\ EMIT_WRITE(<<"cti", 0>>, NoBits) \in Seq(Unprotected)
        /\ EMIT_WRITE(<<"cti", 1>>, NoBits) \in Seq(Unprotected)
        /\ EMIT_WRITE(<<"cti", 2>>, NoBits) \in Seq(Unprotected)
    BY PeripheralsAre, Wider
  <2>2. EMIT_WRITE(<<"cti", 0>>, NoBits) = <<>> \o EMIT_WRITE(<<"cti", 0>>, NoBits)
    BY <2>1
  <2>3. Safe(EMIT_WRITE(<<"cti", 0>>, NoBits))
    BY <2>1, <2>2, NothingIsSafe, UnprotectedFollows
  <2>4. Safe(EMIT_WRITE(<<"cti", 0>>, NoBits) \o EMIT_WRITE(<<"cti", 1>>, NoBits)
             \o EMIT_WRITE(<<"cti", 2>>, NoBits))
    BY <2>1, <2>3, UnprotectedFollows
  <2> QED
    BY <2>4, Completes DEF DebugSection
<1>5. ASSUME NEW c \in Seq(SlcrWrites) PROVE Complete(ClockSection(c))
  <2>1. Open(Unlock \o PeripheralClocks \o c \o BusClocks)
    BY Opens, ClocksAre, ExtendsPlainly, Wider
  <2> QED
    BY <2>1, Closes, Completes DEF ClockSection
<1>6. ASSUME NEW a \in Seq(Plain) PROVE Complete(PostConfigSection(a))
  <2>1. /\ EMIT_MASKWRITE(LVL_SHFTR_EN, [enabled |-> 1]) \in Seq(SlcrWrites)
        /\ EMIT_MASKWRITE(FPGA_RST_CTRL, [asserted |-> 0]) \in Seq(SlcrWrites)
    BY DEF EMIT_MASKWRITE, LVL_SHFTR_EN, FPGA_RST_CTRL, SLCR, SlcrWrites, PlainOffsets, WritesTo,
           Bits
  <2>2. Open(Unlock \o EMIT_MASKWRITE(LVL_SHFTR_EN, [enabled |-> 1])
             \o EMIT_MASKWRITE(FPGA_RST_CTRL, [asserted |-> 0]) \o a)
    BY <2>1, Opens, ExtendsPlainly, Wider
  <2> QED
    BY <2>2, Closes, Completes DEF PostConfigSection
<1>7. AfiWidth \in Seq(Plain) /\ AfiWidthUboot \in Seq(Plain)
  BY PeripheralsAre, Wider
<1>8. ASSUME NEW timers \in Seq(DdrOffsets) PROVE Complete(DdrSection(timers))
  <2>1. /\ HoldDdrInReset \in Seq(Unprotected) /\ ReleaseDdr \in Seq(Unprotected)
        /\ DdrSettings(timers) \in Seq(Unprotected)
    BY DdrIs, Wider
  <2>2. HoldDdrInReset = <<>> \o HoldDdrInReset
    BY <2>1
  <2>3. Safe(HoldDdrInReset)
    BY <2>1, <2>2, NothingIsSafe, UnprotectedFollows
  <2>4. Safe(HoldDdrInReset \o DdrSettings(timers) \o ReleaseDdr)
    BY <2>1, <2>3, UnprotectedFollows
  <2> QED
    BY <2>4, Completes DEF DdrSection
<1> QED
  BY <1>1, <1>2, <1>3, <1>4, <1>5, <1>6, <1>7, <1>8, ClocksAre

\* So every table is complete.
LEMMA VersionsAre ==
  ASSUME NEW v \in {Version_1_0, Version_2_0, Version_3_0,
                    Version_1_0_uboot, Version_2_0_uboot, Version_3_0_uboot}
  PROVE  /\ Complete(v.mio) /\ Complete(v.pll) /\ Complete(v.clock) /\ Complete(v.ddr)
         /\ Complete(v.peripherals) /\ Complete(v.post_config) /\ Complete(v.debug)
<1>1. /\ <<\h078, \h07C>> \in Seq(DdrOffsets) /\ <<\h078, \h07C, \h0A0>> \in Seq(DdrOffsets)
      /\ <<\h0A0>> \in Seq(DdrOffsets)
  BY DEF DdrOffsets
<1>2. /\ Complete(DdrSection(<<\h078, \h07C>>)) /\ Complete(DdrSection(<<\h078, \h07C, \h0A0>>))
      /\ Complete(DdrSection(<<\h0A0>>))
  BY <1>1, SectionsAreTables, Zenon
<1>3. PICK d1, d2, d3 : /\ d1 = DdrSection(<<\h0A0>>) /\ d2 = DdrSection(<<\h078, \h07C, \h0A0>>)
                        /\ d3 = DdrSection(<<\h078, \h07C>>)
  OBVIOUS
<1>4. /\ ps7_ddr_init_data_1_0 = d1 /\ ps7_ddr_init_data_1_0_uboot = d1
      /\ ps7_ddr_init_data_2_0 = d2 /\ ps7_ddr_init_data_2_0_uboot = d2
      /\ ps7_ddr_init_data_3_0 = d3 /\ ps7_ddr_init_data_3_0_uboot = d3
  BY <1>3, Zenon DEF ps7_ddr_init_data_1_0, ps7_ddr_init_data_2_0, ps7_ddr_init_data_3_0,
     ps7_ddr_init_data_1_0_uboot, ps7_ddr_init_data_2_0_uboot, ps7_ddr_init_data_3_0_uboot
<1>5. Complete(d1) /\ Complete(d2) /\ Complete(d3)
  BY <1>2, <1>3, Zenon
<1>6. CASE v = Version_1_0
  BY <1>4, <1>5, <1>6, SectionsAreTables
     DEF Version_1_0, ps7_mio_init_data_1_0, ps7_pll_init_data_1_0, ps7_clock_init_data_1_0,
         ps7_peripherals_init_data_1_0, ps7_post_config_1_0, ps7_debug_1_0
<1>7. CASE v = Version_2_0
  BY <1>4, <1>5, <1>7, SectionsAreTables
     DEF Version_2_0, ps7_mio_init_data_2_0, ps7_pll_init_data_2_0, ps7_clock_init_data_2_0,
         ps7_peripherals_init_data_2_0, ps7_post_config_2_0, ps7_debug_2_0
<1>8. CASE v = Version_3_0
  BY <1>4, <1>5, <1>8, SectionsAreTables
     DEF Version_3_0, ps7_mio_init_data_3_0, ps7_pll_init_data_3_0, ps7_clock_init_data_3_0,
         ps7_peripherals_init_data_3_0, ps7_post_config_3_0, ps7_debug_3_0
<1>9. CASE v = Version_1_0_uboot
  BY <1>4, <1>5, <1>9, SectionsAreTables
     DEF Version_1_0_uboot, ps7_mio_init_data_1_0_uboot, ps7_pll_init_data_1_0_uboot,
         ps7_clock_init_data_1_0_uboot, ps7_peripherals_init_data_1_0_uboot,
         ps7_post_config_1_0_uboot, ps7_debug_1_0_uboot
<1>10. CASE v = Version_2_0_uboot
  BY <1>4, <1>5, <1>10, SectionsAreTables
     DEF Version_2_0_uboot, ps7_mio_init_data_2_0_uboot, ps7_pll_init_data_2_0_uboot,
         ps7_clock_init_data_2_0_uboot, ps7_peripherals_init_data_2_0_uboot,
         ps7_post_config_2_0_uboot, ps7_debug_2_0_uboot
<1>11. CASE v = Version_3_0_uboot
  BY <1>4, <1>5, <1>11, SectionsAreTables
     DEF Version_3_0_uboot, ps7_mio_init_data_3_0_uboot, ps7_pll_init_data_3_0_uboot,
         ps7_clock_init_data_3_0_uboot, ps7_peripherals_init_data_3_0_uboot,
         ps7_post_config_3_0_uboot, ps7_debug_3_0_uboot
<1> QED
  BY <1>6, <1>7, <1>8, <1>9, <1>10, <1>11

\* The tables of a version.
Names == {"mio", "pll", "clock", "ddr", "peripherals", "post_config", "debug"}

\* The routines run these.
LEMMA SectionNames ==
  ASSUME NEW r \in Routines, NEW n \in DOMAIN Sections(r)
  PROVE  /\ Sections(r) \in Seq(Names)
         /\ Sections(r)[n] \in Names
         /\ 1 \in DOMAIN Sections(r)
<1>1. CASE r = "ps7_init"
  <2>1. /\ Sections(r) = <<"mio", "pll", "clock", "ddr", "peripherals">>
        /\ DOMAIN Sections(r) = {1, 2, 3, 4, 5}
    BY <1>1 DEF Sections
  <2>2. n \in {1, 2, 3, 4, 5}
    BY <2>1
  <2> QED
    BY <2>1, <2>2 DEF Names
<1>2. CASE r = "ps7_post_config"
  BY <1>2 DEF Sections, Names
<1>3. CASE r = "ps7_debug"
  BY <1>3 DEF Sections, Names
<1> QED
  BY <1>1, <1>2, <1>3 DEF Routines

\* What a routine runs is complete.
LEMMA TablesAre ==
  ASSUME copy \in Copies, si_ver \in 0..3, NEW r \in Routines, NEW n \in DOMAIN Sections(r)
  PROVE  Complete(Table(Sections(r)[n]))
<1>1. PICK v : /\ v = IF copy = "platform-init" THEN Tables(si_ver) ELSE TablesUboot(si_ver)
               /\ v \in {Version_1_0, Version_2_0, Version_3_0,
                         Version_1_0_uboot, Version_2_0_uboot, Version_3_0_uboot}
  BY DEF Tables, TablesUboot
<1>2. Table(Sections(r)[n]) = v[Sections(r)[n]]
  BY <1>1 DEF Table
<1>3. /\ Complete(v.mio) /\ Complete(v.pll) /\ Complete(v.clock) /\ Complete(v.ddr)
      /\ Complete(v.peripherals) /\ Complete(v.post_config) /\ Complete(v.debug)
  BY <1>1, VersionsAre
<1>4. Complete(v[Sections(r)[n]])
  BY <1>3, SectionNames DEF Names
<1> QED
  BY <1>2, <1>4

--------------------------------------------------------------------------------
(* The interpreter.                                                        *)

\* The table that is run.
Current == Table(Sections(routine)[section])

\* The types of the interpreter's state, and what makes SlcrWritesTake inductive: where the
\* table has unlocked the SLCR, it is unlocked.
RunsInv ==
  /\ copy \in Copies /\ si_ver \in 0..3
  /\ routine \in Routines \cup {"none"}
  /\ routine # "none" => /\ section \in DOMAIN Sections(routine)
                         /\ ptr \in DOMAIN Current
                         /\ UnlockedAt(Current, ptr) => slcr = "unlocked"
  /\ polls \in 0..PollTime
  /\ ret \in {"none", "PS7_INIT_SUCCESS", "PS7_INIT_TIMEOUT"}
  /\ DOMAIN mem = Control
  /\ slcr \in {"locked", "unlocked"}

\* The tables stay.
LEMMA SameTable ==
  ASSUME UNCHANGED <<copy, si_ver>>, NEW name
  PROVE  Table(name)' = Table(name)
BY DEF Table

\* The one EXIT is at the end.
LEMMA CompleteIs ==
  ASSUME NEW s, Complete(s)
  PROVE  /\ s \in Seq(Instructions \cup Exits) /\ Len(s) \in Nat \ {0} /\ DOMAIN s = 1 .. Len(s)
         /\ \A i \in DOMAIN s : s[i].op = "EXIT" <=> i = Len(s)
<1>1. s \in Seq(Instructions \cup Exits) /\ Len(s) \in Nat \ {0} /\ DOMAIN s = 1 .. Len(s)
  BY DEF Complete
<1>2. \A x \in Instructions \cup Exits : x.op = "EXIT" <=> x \in Exits
  BY DEF Instructions, NoKeys, Plain, PllSteps, AwaitsLock, PllWrites, SlcrWrites, Unprotected,
         OtherWrites, Polls, KeyWrites, WritesTo, Exits
<1> QED
  BY <1>1, <1>2 DEF Complete

\* A table begins without having unlocked anything.
LEMMA NothingBefore == ASSUME NEW s PROVE ~UnlockedAt(s, 1)
BY DEF UnlockedAt

\* Whether s has unlocked the SLCR, its last instruction decided or what was before.
LEMMA UnlockedNext ==
  ASSUME NEW s, NEW p \in Nat \ {0}, UnlockedAt(s, p + 1)
  PROVE  Unlocks(s[p]) \/ (UnlockedAt(s, p) /\ ~Locks(s[p]))
<1>1. PICK j \in 1 .. p : Unlocks(s[j]) /\ \A k \in (j + 1) .. p : ~Locks(s[k])
  BY DEF UnlockedAt
<1>2. CASE j = p
  BY <1>1, <1>2
<1>3. CASE j # p
  <2>1. j \in 1 .. (p - 1) /\ p \in (j + 1) .. p /\ (j + 1) .. (p - 1) \subseteq (j + 1) .. p
    BY <1>3
  <2> QED
    BY <1>1, <2>1 DEF UnlockedAt
<1> QED
  BY <1>2, <1>3

\* There always is an instruction to run.
LEMMA CurrentIs ==
  ASSUME RunsInv, Running
  PROVE  /\ Complete(Current) /\ Instruction = Current[ptr]
         /\ routine \in Routines /\ section \in DOMAIN Sections(routine)
         /\ ptr \in 1 .. Len(Current) /\ Len(Current) \in Nat
         /\ Instruction.op = "EXIT" <=> ptr = Len(Current)
<1>1. /\ routine \in Routines /\ section \in DOMAIN Sections(routine) /\ ptr \in DOMAIN Current
      /\ copy \in Copies /\ si_ver \in 0..3
  BY DEF RunsInv, Running
<1>2. Complete(Current)
  BY <1>1, TablesAre DEF Current
<1>3. Instruction = Current[ptr]
  BY DEF Instruction, Current
<1> QED
  BY <1>1, <1>2, <1>3, CompleteIs

\* A routine begins with its first table.
LEMMA CallKeeps == ASSUME RunsInv, NEW r \in Routines, Call(r) PROVE RunsInv'
<1>1. /\ routine' = r /\ section' = 1 /\ ptr' = 1 /\ polls' = 0
      /\ UNCHANGED <<ret, copy, si_ver, mem, configured, slcr>>
  BY DEF Call
<1>2. Current' = Table(Sections(r)[1])
  BY <1>1, SameTable DEF Current
<1>3. 1 \in DOMAIN Sections(r)
  BY DEF Routines, Sections
<1>4. Complete(Current')
  BY <1>2, <1>3, TablesAre DEF RunsInv
<1>5. 1 \in DOMAIN Current'
  BY <1>4, CompleteIs
<1>6. ~UnlockedAt(Current', 1)
  BY NothingBefore
<1> QED
  BY <1>1, <1>3, <1>5, <1>6, PollTimeAssumption DEF RunsInv

\* A place that is not the last has a next.
LEMMA NextIn ==
  ASSUME NEW n \in Nat, NEW p \in 1 .. n, p # n
  PROVE  p + 1 \in 1 .. n
OBVIOUS

\* The next instruction, when this one did to the SLCR what it says.
LEMMA AdvanceKeeps ==
  ASSUME RunsInv, Running, Instruction.op # "EXIT", Advance, UNCHANGED <<copy, si_ver>>,
         DOMAIN mem' = Control, slcr' \in {"locked", "unlocked"},
         Unlocks(Instruction) => slcr' = "unlocked",
         ~Locks(Instruction) /\ slcr = "unlocked" => slcr' = "unlocked"
  PROVE  RunsInv'
<1>1. /\ ptr' = ptr + 1 /\ polls' = 0 /\ UNCHANGED <<routine, section, ret>>
  BY DEF Advance
<1>2. Current' = Current
  BY <1>1, SameTable DEF Current
<1>3. /\ Complete(Current) /\ Instruction = Current[ptr] /\ section \in DOMAIN Sections(routine)
      /\ ptr \in 1 .. Len(Current) /\ Len(Current) \in Nat
      /\ ptr # Len(Current) /\ DOMAIN Current = 1 .. Len(Current)
  BY CurrentIs, CompleteIs
<1>4. ptr' \in DOMAIN Current'
  <2>1. ptr + 1 \in 1 .. Len(Current)
    BY <1>3, NextIn
  <2>2. ptr + 1 \in DOMAIN Current
    BY <1>3, <2>1, Zenon
  <2> QED
    BY <1>1, <1>2, <2>2, Zenon
<1>5. (UnlockedAt(Current, ptr) => slcr = "unlocked")'
  <2>1. UnlockedAt(Current, ptr) => slcr = "unlocked"
    BY DEF RunsInv, Running
  <2>2. UnlockedAt(Current, ptr + 1) => slcr' = "unlocked"
    <3>1. ptr \in Nat \ {0}
      BY <1>3
    <3> QED
      BY <2>1, <1>3, <3>1, UnlockedNext
  <2> QED
    BY <1>1, <1>2, <2>2
<1> QED
  <2>1. /\ routine' = routine /\ routine \in Routines /\ section' \in DOMAIN Sections(routine')
        /\ polls' \in 0 .. PollTime /\ copy' \in Copies /\ si_ver' \in 0 .. 3
        /\ ret' \in {"none", "PS7_INIT_SUCCESS", "PS7_INIT_TIMEOUT"}
    BY <1>1, <1>3, PollTimeAssumption DEF RunsInv, Running
  <2> QED
    BY <2>1, <1>4, <1>5 DEF RunsInv

\* A write locks and unlocks with the keys only.
LEMMA WriteKeeps == ASSUME RunsInv, Write PROVE RunsInv'
<1>1. /\ Running /\ Instruction.op \in {"WRITE", "MASKWRITE"} /\ Advance
      /\ UNCHANGED <<copy, si_ver>>
  BY DEF Write
<1>2. DOMAIN mem' = Control
  <2>1. DOMAIN mem = Control
    BY DEF RunsInv
  <2>2. \A m : DOMAIN React(m) = DOMAIN m
    BY DEF React
  <2>3. PICK r, b : mem' = mem \/ mem' = React([mem EXCEPT ![r] = Overwrite(@, b)])
    BY DEF Write
  <2>4. DOMAIN [mem EXCEPT ![r] = Overwrite(@, b)] = DOMAIN mem
    OBVIOUS
  <2> QED
    BY <2>1, <2>2, <2>3, <2>4
<1>4. SLCR_LOCK # SLCR_UNLOCK
  BY DEF SLCR_LOCK, SLCR_UNLOCK, SLCR
<1>3. slcr' = IF Instruction.reg = SLCR_LOCK THEN "locked"
              ELSE IF Instruction.reg = SLCR_UNLOCK THEN "unlocked" ELSE slcr
  BY <1>4 DEF Write
<1>5. slcr \in {"locked", "unlocked"}
  BY DEF RunsInv
<1>6. /\ Unlocks(Instruction) => slcr' = "unlocked"
      /\ ~Locks(Instruction) /\ slcr = "unlocked" => slcr' = "unlocked"
      /\ slcr' \in {"locked", "unlocked"}
  BY <1>1, <1>3, <1>4, <1>5 DEF Unlocks, Locks, IsWrite
<1>7. Instruction.op # "EXIT"
  BY <1>1
<1> QED
  BY <1>1, <1>2, <1>6, <1>7, AdvanceKeeps

\* The steps of the interpreter.
LEMMA InterpretKeeps == ASSUME RunsInv, Interpret PROVE RunsInv'
<1>1. CASE Write
  BY <1>1, WriteKeeps
<1>2. CASE PollSucceeds
  <2>1. /\ Running /\ Instruction.op = "MASKPOLL" /\ Advance
        /\ UNCHANGED <<copy, si_ver, mem, configured, slcr>>
    BY <1>2 DEF PollSucceeds, PollPending
  <2>2. ~Unlocks(Instruction) /\ DOMAIN mem = Control /\ slcr \in {"locked", "unlocked"}
    BY <2>1 DEF Unlocks, IsWrite, RunsInv
  <2> QED
    BY <2>1, <2>2, AdvanceKeeps
<1>3. CASE PollAgain
  <2>1. /\ polls < PollTime /\ polls' = polls + 1
        /\ UNCHANGED <<routine, section, ptr, ret, copy, si_ver, mem, configured, slcr>>
    BY <1>3 DEF PollAgain
  <2>2. Current' = Current
    BY <2>1, SameTable DEF Current
  <2>3. polls' \in 0..PollTime
    BY <2>1, PollTimeAssumption DEF RunsInv
  <2> QED
    BY <2>1, <2>2, <2>3 DEF RunsInv
<1>4. CASE PollTimeOut
  BY <1>4, PollTimeAssumption DEF PollTimeOut, Return, RunsInv
<1>6. CASE Exit /\ section < Len(Sections(routine))
  <2>1. /\ section' = section + 1 /\ ptr' = 1 /\ polls' = 0
        /\ UNCHANGED <<routine, ret, copy, si_ver, mem, configured, slcr>>
        /\ routine \in Routines /\ section \in DOMAIN Sections(routine)
    BY <1>6, CurrentIs DEF Exit
  <2>2. section' \in DOMAIN Sections(routine)
    <3>1. Sections(routine) \in Seq(Names)
      BY <2>1, SectionNames
    <3> QED
      BY <3>1, <2>1, <1>6
  <2>3. Current' = Table(Sections(routine)[section'])
    BY <2>1, SameTable DEF Current
  <2>4. Complete(Current')
    BY <2>1, <2>2, <2>3, TablesAre DEF RunsInv
  <2>5. 1 \in DOMAIN Current' /\ ~UnlockedAt(Current', 1)
    BY <2>4, CompleteIs, NothingBefore
  <2> QED
    BY <2>1, <2>2, <2>5, PollTimeAssumption DEF RunsInv
<1>7. CASE Exit /\ ~(section < Len(Sections(routine)))
  BY <1>7, PollTimeAssumption DEF Exit, Return, RunsInv
<1> QED
  BY <1>1, <1>2, <1>3, <1>4, <1>6, <1>7 DEF Interpret

\* The hardware sets bits of registers that are there.
LEMMA HardwareKeeps == ASSUME RunsInv, Hardware PROVE RunsInv'
<1>1. PICK r, b : SetBit(r, b)
  BY DEF Hardware, PllLocks, DciCompletes, DdrOperates
<1>2. /\ UNCHANGED <<copy, si_ver, routine, section, ptr, polls, ret, slcr>>
      /\ mem' = [mem EXCEPT ![r][b] = 1]
  BY <1>1 DEF SetBit, interpreter
<1>3. Current' = Current /\ DOMAIN mem' = DOMAIN mem
  BY <1>2, SameTable DEF Current
<1> QED
  BY <1>2, <1>3 DEF RunsInv

\* A step of the others.
LEMMA NothingChanges == ASSUME RunsInv, UNCHANGED ps7vars PROVE RunsInv'
<1>1. UNCHANGED <<copy, si_ver, routine, section, ptr, polls, ret, slcr, mem>>
  BY DEF ps7vars, interpreter
<1>2. Current' = Current
  BY <1>1, SameTable DEF Current
<1> QED
  BY <1>1, <1>2 DEF RunsInv

\* The loader.
StageOK == stage \in Stages

\* The loader calls a routine or leaves the interpreter alone.
LEMMA LoaderCalls ==
  ASSUME Loader
  PROVE  UNCHANGED ps7vars \/ \E r \in Routines : Call(r) /\ stage' \in Stages
BY DEF Loader, CallRoutine, InitReturned, Debug, NoDebug, DebugReturned, BeforeDownload,
       NoBitstream, Download, AfterDownload, PostConfigReturned, BeforeHandoff, HookReturned,
       NoHook, Move, Routines, Stages

\* The loader never finds a routine running that it did not call.
LEMMA LoaderRuns == ASSUME RunsInv, StageOK, Loader PROVE RunsInv' /\ StageOK'
<1>1. CASE UNCHANGED ps7vars
  <2>1. RunsInv'
    BY <1>1, NothingChanges
  <2>2. CASE InitReturned \/ NoDebug \/ DebugReturned \/ BeforeDownload \/ NoBitstream \/ Download
    BY <2>1, <2>2 DEF InitReturned, NoDebug, DebugReturned, BeforeDownload, NoBitstream, Download,
                      Move, StageOK, Stages
  <2>3. CASE PostConfigReturned \/ BeforeHandoff \/ HookReturned \/ NoHook \/ AfterDownload
    BY <2>1, <2>3 DEF PostConfigReturned, BeforeHandoff, HookReturned, NoHook, AfterDownload, Move,
                      StageOK, Stages
  <2>4. CASE CallRoutine("power_on", "ps7_init", "init") \/ Debug
    BY <2>1, <2>4 DEF CallRoutine, Debug, Move, StageOK, Stages
  <2> QED
    BY <2>2, <2>3, <2>4 DEF Loader
<1>2. CASE \E r \in Routines : Call(r) /\ stage' \in Stages
  BY <1>2, CallKeeps DEF StageOK
<1> QED
  BY <1>1, <1>2, LoaderCalls

\* The interpreter always runs a complete table.
LEMMA RunInductive == Spec => [](RunsInv /\ StageOK)
<1>1. Init => RunsInv /\ StageOK
  <2>1. DOMAIN AfterBootRom(0) = Control /\ DOMAIN AfterBootRom(1) = Control
    BY DEF AfterBootRom
  <2> QED
    BY <2>1, PollTimeAssumption DEF Init, Ps7Init, RunsInv, StageOK, Stages
<1>2. RunsInv /\ StageOK /\ [Next]_vars => RunsInv' /\ StageOK'
  <2> SUFFICES ASSUME RunsInv, StageOK, [Next]_vars PROVE RunsInv' /\ StageOK'
    OBVIOUS
  <2>1. CASE Loader
    BY <2>1, LoaderRuns
  <2>2. CASE Interpret /\ UNCHANGED <<hookvars, stage>>
    BY <2>2, InterpretKeeps DEF StageOK
  <2>3. CASE Hardware /\ UNCHANGED <<hookvars, stage>>
    BY <2>3, HardwareKeeps DEF StageOK
  <2>4. CASE UNCHANGED <<ps7vars, stage>>
    BY <2>4, NothingChanges DEF StageOK
  <2> QED
    BY <2>1, <2>2, <2>3, <2>4 DEF Next, Software, vars
<1> QED
  BY <1>1, <1>2, PTL DEF Spec

\* Where a write needs the SLCR unlocked, the table has unlocked it.
LEMMA RunsTake == RunsInv => SlcrWritesTake
<1> SUFFICES ASSUME RunsInv, AboutToWrite, Ignored(Instruction.reg) PROVE FALSE
  BY DEF SlcrWritesTake
<1>1. Running /\ Instruction.op \in {"WRITE", "MASKWRITE"}
  BY DEF AboutToWrite
<1>2. /\ Complete(Current) /\ Instruction = Current[ptr] /\ ptr \in 1 .. Len(Current)
      /\ DOMAIN Current = 1 .. Len(Current)
  BY <1>1, CurrentIs, CompleteIs
<1>3. NeedsUnlock(Instruction)
  BY <1>1 DEF Ignored, NeedsUnlock, IsWrite, Unlocks, Locks
<1>4. UnlockedAt(Current, ptr)
  BY <1>2, <1>3 DEF Complete, Protected
<1> QED
  BY <1>1, <1>4 DEF RunsInv, Running, Ignored

\* No write of a table is ignored, whatever the boot ROM or an earlier table left
\* (ps7_config does not notice when one is).
THEOREM SlcrIsOpen == Spec => []SlcrWritesTake
BY RunsTake, RunInductive, PTL

--------------------------------------------------------------------------------
(* The PLLs.                                                               *)

\* The control register of a PLL.
Ctrl(p) == mem[PLL_CTRL[p]]

\* The inductive invariant of the PLLs.  A PLL not bypassed is locked; in reset it is not
\* locked, so it is bypassed; and since the table says only in the next instruction what
\* the lock was awaited for, the last instruction is remembered: the lock it awaited is
\* there, the bypass it set is on, the reset it released is off.
PllInv ==
  /\ \A p \in Plls : Ctrl(p) \in [fdiv : Nat, bypass : 0..1, reset : 0..1]
  /\ mem[PLL_STATUS] \in [Plls -> 0..1]
  /\ \A p \in Plls : Ctrl(p).bypass = 0 => mem[PLL_STATUS][p] = 1
  /\ \A p \in Plls : Ctrl(p).reset = 1 => mem[PLL_STATUS][p] = 0
  /\ Running /\ ptr > 1 =>
       \A p \in Plls :
         /\ Current[ptr - 1] = AwaitsLock(p) => mem[PLL_STATUS][p] = 1
         /\ Current[ptr - 1] = BypassOn(p) => Ctrl(p).bypass = 1
         /\ Current[ptr - 1] = ResetOff(p) => Ctrl(p).reset = 0

\* The registers of the PLLs are different ones, and present.
LEMMA PllRegisters ==
  /\ \A p \in Plls : PLL_CTRL[p] \in Control /\ PLL_CTRL[p] # PLL_STATUS
  /\ \A p, q \in Plls : PLL_CTRL[p] = PLL_CTRL[q] => p = q
  /\ \A p \in Plls : PLL_CTRL[p] # DDRIOB_DCI_STATUS /\ PLL_CTRL[p] # DDRC_MODE_STS
  /\ PLL_STATUS # DDRIOB_DCI_STATUS /\ PLL_STATUS # DDRC_MODE_STS
  /\ PLL_STATUS \in Control /\ DDRIOB_DCI_STATUS \in Control /\ DDRC_MODE_STS \in Control
<1>1. \A p \in Plls : PLL_CTRL[p] \in {<<"slcr", \h100>>, <<"slcr", \h104>>, <<"slcr", \h108>>}
  BY DEF Plls, PLL_CTRL, SLCR
<1>2. \A p, q \in Plls : PLL_CTRL[p] = PLL_CTRL[q] => p = q
  BY DEF Plls, PLL_CTRL, SLCR
<1>3. /\ PLL_STATUS = <<"slcr", \h10C>> /\ DDRIOB_DCI_STATUS = <<"slcr", \hB74>>
      /\ DDRC_MODE_STS = <<"ddrc", \h054>>
  BY DEF PLL_STATUS, DDRIOB_DCI_STATUS, DDRC_MODE_STS, SLCR, DDRC
<1>4. /\ \A p \in Plls : PLL_CTRL[p] \in Control
      /\ PLL_STATUS \in Control /\ DDRIOB_DCI_STATUS \in Control /\ DDRC_MODE_STS \in Control
  BY DEF Control
<1> QED
  BY <1>1, <1>2, <1>3, <1>4

\* How the status follows a write.
LEMMA Reaction ==
  ASSUME NEW m, DOMAIN m = Control
  PROVE  /\ \A p \in Plls : React(m)[PLL_CTRL[p]] = m[PLL_CTRL[p]]
         /\ React(m)[PLL_STATUS] =
              [p \in Plls |-> IF m[PLL_CTRL[p]].reset = 1 THEN 0 ELSE m[PLL_STATUS][p]]
BY PllRegisters DEF React

\* The control registers but clocks and PLLs.
Others ==
  {APER_CLK_CTRL, DDRIOB_DCI_CTRL, DDRIOB_DCI_STATUS, DDRC_CTRL, DDRC_MODE_STS, UART_BAUD_GEN,
   UART_BAUD_DIV, LVL_SHFTR_EN, FPGA_RST_CTRL}

\* The boot ROM hands over with the PLLs locked.
LEMMA PllsStart == Init => PllInv
<1> SUFFICES ASSUME Init PROVE PllInv
  OBVIOUS
<1>1. PICK on : mem = AfterBootRom(on)
  BY DEF Init, Ps7Init
<1>0. /\ \A p \in Plls : PLL_CTRL[p] \notin ClockControls
      /\ \A p \in Plls : PLL_CTRL[p] \notin Others
      /\ PLL_STATUS \notin ClockControls /\ PLL_STATUS \notin Others
      /\ \A p \in Plls : PLL_CTRL[p] # PLL_STATUS
  <2>1. /\ \A p \in Plls : PLL_CTRL[p] \in {<<"slcr", \h100>>, <<"slcr", \h104>>, <<"slcr", \h108>>}
        /\ PLL_STATUS = <<"slcr", \h10C>>
    BY DEF Plls, PLL_CTRL, PLL_STATUS, SLCR
  <2>2. \A r \in ClockControls : 
             /\ r[1] = "slcr"
             /\ r[2] \in {\h120, \h124, \h128, \h148, \h150, \h154, \h168, \h170, \h180}
    BY DEF ClockControls, ARM_CLK_CTRL, DDR_CLK_CTRL, DCI_CLK_CTRL, SMC_CLK_CTRL,
           SDIO_CLK_CTRL, UART_CLK_CTRL, PCAP_CLK_CTRL, FPGA0_CLK_CTRL, FPGA1_CLK_CTRL, SLCR
  <2>3. \A r \in Others : r[1] # "slcr" \/ r[2] \in {\h12C, \hB70, \hB74, \h900, \h240}
    BY DEF Others, APER_CLK_CTRL, DDRIOB_DCI_CTRL, DDRIOB_DCI_STATUS, DDRC_CTRL, DDRC_MODE_STS,
           UART_BAUD_GEN, UART_BAUD_DIV, LVL_SHFTR_EN, FPGA_RST_CTRL, SLCR, DDRC, UART1
  <2> QED
    BY <2>1, <2>2, <2>3
<1>2. ASSUME NEW p \in Plls PROVE Ctrl(p) = [fdiv |-> 1, bypass |-> 0, reset |-> 0]
  <2>1. PICK r : r = PLL_CTRL[p]
    OBVIOUS
  <2>2. r \in Control /\ r \notin ClockControls /\ r \notin Others /\ r # PLL_STATUS
    BY <2>1, <1>0, PllRegisters
  <2>3. AfterBootRom(on)[r] = [fdiv |-> 1, bypass |-> 0, reset |-> 0]
    BY <2>1, <2>2 DEF AfterBootRom, Others
  <2> QED
    BY <1>1, <2>1, <2>3 DEF Ctrl
<1>3. mem[PLL_STATUS] = [arm |-> 1, ddr |-> 1, io |-> 1]
  <2>1. PICK r : r = PLL_STATUS
    OBVIOUS
  <2>2. /\ r \in Control /\ r \notin ClockControls /\ r \notin Others
        /\ \A p \in Plls : r # PLL_CTRL[p]
    BY <2>1, <1>0, PllRegisters
  <2>3. AfterBootRom(on)[r] = [arm |-> 1, ddr |-> 1, io |-> 1]
    BY <2>1, <2>2 DEF AfterBootRom, Others
  <2> QED
    BY <1>1, <2>1, <2>3
<1>4. ~Running
  BY DEF Init, Ps7Init, Running
<1> QED
  BY <1>2, <1>3, <1>4 DEF PllInv, Plls

\* A write elsewhere leaves the PLLs alone.
LEMMA OtherWrite ==
  ASSUME PllInv, DOMAIN mem = Control, NEW r, NEW new,
         r # PLL_STATUS, \A p \in Plls : r # PLL_CTRL[p],
         mem' = React([mem EXCEPT ![r] = new])
  PROVE  mem'[PLL_STATUS] = mem[PLL_STATUS] /\ \A p \in Plls : Ctrl(p)' = Ctrl(p)
<1>1. PICK m : m = [mem EXCEPT ![r] = new]
  OBVIOUS
<1>2. /\ DOMAIN m = Control /\ m[PLL_STATUS] = mem[PLL_STATUS]
      /\ \A p \in Plls : m[PLL_CTRL[p]] = mem[PLL_CTRL[p]]
  BY <1>1, PllRegisters
<1>3. /\ \A p \in Plls : mem'[PLL_CTRL[p]] = mem[PLL_CTRL[p]]
      /\ mem'[PLL_STATUS] =
           [p \in Plls |-> IF mem[PLL_CTRL[p]].reset = 1 THEN 0 ELSE mem[PLL_STATUS][p]]
  <2>1. mem' = React(m)
    BY <1>1
  <2>2. /\ \A p \in Plls : React(m)[PLL_CTRL[p]] = m[PLL_CTRL[p]]
        /\ React(m)[PLL_STATUS] =
             [p \in Plls |-> IF m[PLL_CTRL[p]].reset = 1 THEN 0 ELSE m[PLL_STATUS][p]]
    BY <1>2, Reaction
  <2> QED
    BY <1>2, <2>1, <2>2
<1>4. /\ mem[PLL_STATUS] \in [Plls -> 0..1]
      /\ \A p \in Plls : Ctrl(p).reset = 1 => mem[PLL_STATUS][p] = 0
  BY DEF PllInv
<1>5. mem'[PLL_STATUS] = mem[PLL_STATUS]
  BY <1>3, <1>4 DEF Ctrl
<1> QED
  BY <1>3, <1>5 DEF Ctrl

\* A write to a control register changes the one bit it is about.
LEMMA Overwritten ==
  ASSUME NEW old \in [fdiv : Nat, bypass : 0..1, reset : 0..1], NEW b \in PllBits
  PROVE  /\ Overwrite(old, b) \in [fdiv : Nat, bypass : 0..1, reset : 0..1]
         /\ Overwrite(old, b).bypass = old.bypass \/ b = [bypass |-> Overwrite(old, b).bypass]
         /\ Overwrite(old, b).reset = old.reset \/ b = [reset |-> Overwrite(old, b).reset]
<1>1. CASE b \in [fdiv : Nat]
  BY <1>1 DEF Overwrite
<1>2. CASE b \in [bypass : 0..1]
  BY <1>2 DEF Overwrite
<1>3. CASE b \in [reset : 0..1]
  BY <1>3 DEF Overwrite
<1> QED
  BY <1>1, <1>2, <1>3 DEF PllBits

\* A write.  The bypass ends only after the poll for the lock succeeded, the reset begins
\* only under the bypass.
LEMMA PllsOfWrite == ASSUME RunsInv, PllInv, Write PROVE PllInv'
<1>1. /\ Running /\ Instruction.op \in {"WRITE", "MASKWRITE"}
      /\ ptr' = ptr + 1 /\ UNCHANGED <<routine, section, copy, si_ver>>
  BY DEF Write, Advance
<1>2. /\ Complete(Current) /\ Instruction = Current[ptr] /\ ptr \in 1 .. Len(Current)
      /\ DOMAIN Current = 1 .. Len(Current) /\ Instruction \in Instructions
  <2>1. /\ Complete(Current) /\ Instruction = Current[ptr] /\ ptr \in 1 .. Len(Current)
        /\ DOMAIN Current = 1 .. Len(Current) /\ Current \in Seq(Instructions \cup Exits)
    BY <1>1, CurrentIs, CompleteIs
  <2>2. Instruction \in Instructions \cup Exits
    BY <2>1
  <2> QED
    BY <2>1, <2>2, <1>1 DEF Exits
<1>3. Current' = Current /\ ptr' - 1 = ptr
  BY <1>1, <1>2, SameTable DEF Current
<1>4. Running'
  BY <1>1 DEF Running
<1>5. PICK r : r = Instruction.reg
  OBVIOUS
<1>6. mem' = IF r \in Control
               THEN React([mem EXCEPT ![r] = Overwrite(@, Instruction.bits)]) ELSE mem
  <2>1. ~Ignored(Instruction.reg)
    BY <1>1, RunsTake DEF SlcrWritesTake, AboutToWrite
  <2> QED
    BY <2>1, <1>5 DEF Write
<1>7. DOMAIN mem = Control
  BY DEF RunsInv
<1>8. \A p \in Plls : Instruction # AwaitsLock(p)
  BY <1>1 DEF AwaitsLock
<1>9. CASE Instruction \in PllWrites
  <2>1. PICK p \in Plls : r = PLL_CTRL[p]
    BY <1>9, <1>5 DEF PllWrites
  <2>2. Instruction.bits \in PllBits
    BY <1>9 DEF PllWrites
  <2>3. PICK b, new : b = Instruction.bits /\ new = Overwrite(mem[r], b)
    OBVIOUS
  <2>4. Instruction = [op |-> "MASKWRITE", reg |-> PLL_CTRL[p], bits |-> b]
    BY <1>9, <2>1, <2>3, <1>5 DEF PllWrites
  <2>5. PICK m : m = [mem EXCEPT ![r] = new]
    OBVIOUS
  <2>6. mem' = React(m)
    BY <1>6, <2>1, <2>3, <2>5, PllRegisters
  <2>7. /\ DOMAIN m = Control /\ m[PLL_CTRL[p]] = new /\ m[PLL_STATUS] = mem[PLL_STATUS]
        /\ \A q \in Plls : q # p => m[PLL_CTRL[q]] = mem[PLL_CTRL[q]]
    BY <1>7, <2>1, <2>5, PllRegisters
  <2>8. /\ \A q \in Plls : Ctrl(q)' = m[PLL_CTRL[q]]
        /\ mem'[PLL_STATUS] =
             [q \in Plls |-> IF m[PLL_CTRL[q]].reset = 1 THEN 0 ELSE m[PLL_STATUS][q]]
    BY <2>6, <2>7, Reaction DEF Ctrl
  <2>9. /\ mem[r] \in [fdiv : Nat, bypass : 0..1, reset : 0..1]
        /\ mem[r] = Ctrl(p)
    BY <2>1 DEF PllInv, Ctrl
  <2>10. /\ new \in [fdiv : Nat, bypass : 0..1, reset : 0..1]
         /\ new.bypass = Ctrl(p).bypass \/ b = [bypass |-> new.bypass]
         /\ new.reset = Ctrl(p).reset \/ b = [reset |-> new.reset]
    BY <2>2, <2>3, <2>9, Overwritten
  <2>11. /\ Instruction = BypassOff(p) => Current[ptr - 1] = AwaitsLock(p) /\ ptr > 1
         /\ Instruction = ResetOn(p) => Current[ptr - 1] = BypassOn(p) /\ ptr > 1
    BY <1>2 DEF Complete, Orderly
  <2>12. /\ Instruction = BypassOff(p) => mem[PLL_STATUS][p] = 1
         /\ Instruction = ResetOn(p) => Ctrl(p).bypass = 1
    BY <2>11, <1>1 DEF PllInv
  <2>13. /\ b = [bypass |-> 0] => mem[PLL_STATUS][p] = 1
         /\ b = [reset |-> 1] => Ctrl(p).bypass = 1
    BY <2>4, <2>12 DEF BypassOff, ResetOn
  <2>14. b = [reset |-> 1] => new.bypass = Ctrl(p).bypass
    <3>1. \A v : [reset |-> 1] # [bypass |-> v]
      OBVIOUS
    <3> QED
      BY <3>1, <2>10
  <2>15. mem[PLL_STATUS][p] \in 0..1 /\ mem[PLL_STATUS] \in [Plls -> 0..1]
    BY DEF PllInv
  <2>16. /\ Ctrl(p).bypass = 0 => mem[PLL_STATUS][p] = 1
         /\ Ctrl(p).reset = 1 => mem[PLL_STATUS][p] = 0
    BY DEF PllInv
  <2>17. /\ Ctrl(p)' = new /\ mem'[PLL_STATUS] \in [Plls -> 0..1]
         /\ mem'[PLL_STATUS][p] = IF new.reset = 1 THEN 0 ELSE mem[PLL_STATUS][p]
    BY <2>7, <2>8, <2>15
  <2>18. new.bypass = 0 => mem'[PLL_STATUS][p] = 1
    <3> SUFFICES ASSUME new.bypass = 0 PROVE mem[PLL_STATUS][p] = 1 /\ new.reset # 1
      BY <2>17
    <3>1. mem[PLL_STATUS][p] = 1
      BY <2>10, <2>13, <2>16
    <3>2. b # [reset |-> 1]
      BY <2>13, <2>14
    <3>3. new.reset # 1
      BY <3>1, <3>2, <2>10, <2>16
    <3> QED
      BY <3>1, <3>3
  <2>19. ASSUME NEW q \in Plls, q # p
         PROVE  Ctrl(q)' = Ctrl(q) /\ mem'[PLL_STATUS][q] = mem[PLL_STATUS][q]
    <3>1. Ctrl(q)' = Ctrl(q)
      BY <2>7, <2>8, <2>19 DEF Ctrl
    <3>2. Ctrl(q).reset = 1 => mem[PLL_STATUS][q] = 0
      BY DEF PllInv
    <3> QED
      BY <3>1, <3>2, <2>7, <2>8, <2>19 DEF Ctrl
  <2>20. ASSUME NEW q \in Plls, Instruction = BypassOn(q) PROVE Ctrl(q)'.bypass = 1
    <3>1. PLL_CTRL[p] = PLL_CTRL[q] /\ b = [bypass |-> 1]
      BY <2>20, <2>4 DEF BypassOn
    <3>2. p = q
      BY <3>1, PllRegisters
    <3>3. new.bypass = 1
      BY <3>1, <2>3, <2>9 DEF Overwrite
    <3> QED
      BY <3>2, <3>3, <2>17
  <2>23. ASSUME NEW q \in Plls, Instruction = ResetOff(q) PROVE Ctrl(q)'.reset = 0
    <3>1. PLL_CTRL[p] = PLL_CTRL[q] /\ b = [reset |-> 0]
      BY <2>23, <2>4 DEF ResetOff
    <3>2. p = q
      BY <3>1, PllRegisters
    <3>3. new.reset = 0
      BY <3>1, <2>3, <2>9 DEF Overwrite
    <3> QED
      BY <3>2, <3>3, <2>17
  <2>21. \A q \in Plls : Ctrl(q)' \in [fdiv : Nat, bypass : 0..1, reset : 0..1]
    BY <2>10, <2>17, <2>19 DEF PllInv
  <2>22. \A q \in Plls : /\ Ctrl(q)'.bypass = 0 => mem'[PLL_STATUS][q] = 1
                         /\ Ctrl(q)'.reset = 1 => mem'[PLL_STATUS][q] = 0
    BY <2>17, <2>18, <2>19 DEF PllInv
  <2> QED
    BY <1>2, <1>3, <1>8, <2>17, <2>20, <2>21, <2>22, <2>23 DEF PllInv
<1>10. CASE Instruction \notin PllWrites
  <2>1. r # PLL_STATUS /\ \A p \in Plls : r # PLL_CTRL[p]
    <3>1. Instruction \in Plain \cup KeyWrites
      BY <1>2, <1>8, <1>10 DEF Instructions, NoKeys, PllSteps
    <3> QED
      BY <3>1, <1>5, PlainElsewhere
  <2>2. mem'[PLL_STATUS] = mem[PLL_STATUS] /\ \A p \in Plls : Ctrl(p)' = Ctrl(p)
    <3>1. CASE r \in Control
      BY <3>1, <2>1, <1>6, <1>7, OtherWrite
    <3>2. CASE r \notin Control
      BY <3>2, <1>6 DEF Ctrl
    <3> QED
      BY <3>1, <3>2
  <2>3. \A p \in Plls : Instruction # BypassOn(p) /\ Instruction # ResetOff(p)
    BY <2>1, <1>5 DEF BypassOn, ResetOff
  <2> QED
    BY <1>2, <1>3, <1>8, <2>2, <2>3 DEF PllInv
<1> QED
  BY <1>9, <1>10

\* A poll that succeeds has seen the lock.
LEMMA PllsOfPoll == ASSUME RunsInv, PllInv, PollSucceeds PROVE PllInv'
<1>1. /\ Running /\ Instruction.op = "MASKPOLL" /\ PollTrue
      /\ ptr' = ptr + 1 /\ UNCHANGED <<routine, section, copy, si_ver, mem>>
  BY DEF PollSucceeds, PollPending, Advance
<1>2. Instruction = Current[ptr] /\ ptr \in 1 .. Len(Current) /\ Len(Current) \in Nat
  BY <1>1, CurrentIs
<1>3. Current' = Current /\ ptr' - 1 = ptr
  BY <1>1, <1>2, SameTable DEF Current
<1>4. \A p \in Plls : Instruction # BypassOn(p) /\ Instruction # ResetOff(p)
  BY <1>1 DEF BypassOn, ResetOff
<1>5. ASSUME NEW p \in Plls, Instruction = AwaitsLock(p) PROVE mem[PLL_STATUS][p] = 1
  BY <1>1, <1>5 DEF AwaitsLock, PollTrue
<1> QED
  BY <1>1, <1>2, <1>3, <1>4, <1>5 DEF PllInv, Ctrl

\* A step of the others.
LEMMA PllsStay ==
  ASSUME PllInv, UNCHANGED <<copy, si_ver, routine, section, ptr, mem>>
  PROVE  PllInv'
<1>1. Current' = Current
  BY SameTable DEF Current
<1> QED
  BY <1>1 DEF PllInv, Ctrl, Running

\* At the first instruction of a table nothing precedes.  A poll that times out leaves the
\* bypass on for good.
LEMMA PllsRestart == ASSUME PllInv, mem' = mem, ~Running' \/ ptr' = 1 PROVE PllInv'
BY DEF PllInv, Ctrl

\* The steps of the interpreter.
LEMMA PllsInterpret == ASSUME RunsInv, PllInv, Interpret PROVE PllInv'
<1>1. CASE Write
  BY <1>1, PllsOfWrite
<1>2. CASE PollSucceeds
  BY <1>2, PllsOfPoll
<1>3. CASE PollAgain
  BY <1>3, PllsStay DEF PollAgain
<1>4. CASE PollTimeOut
  BY <1>4, PllsRestart DEF PollTimeOut, Return
<1>5. CASE Exit
  BY <1>5, PllsRestart DEF Exit, Return
<1> QED
  BY <1>1, <1>2, <1>3, <1>4, <1>5 DEF Interpret

\* The hardware reports the lock only of a PLL out of reset, and takes none back.
LEMMA PllsHardware == ASSUME RunsInv, PllInv, Hardware PROVE PllInv'
<1>1. ASSUME NEW r, NEW b, SetBit(r, b), r \in {DDRIOB_DCI_STATUS, DDRC_MODE_STS} PROVE PllInv'
  <2>1. /\ UNCHANGED <<copy, si_ver, routine, section, ptr>> /\ mem' = [mem EXCEPT ![r][b] = 1]
    BY <1>1 DEF SetBit, interpreter
  <2>2. mem'[PLL_STATUS] = mem[PLL_STATUS] /\ \A p \in Plls : Ctrl(p)' = Ctrl(p)
    BY <1>1, <2>1, PllRegisters DEF Ctrl
  <2>3. Current' = Current
    BY <2>1, SameTable DEF Current
  <2> QED
    BY <2>1, <2>2, <2>3 DEF PllInv, Running
<1>2. ASSUME NEW p \in Plls, PllLocks(p) PROVE PllInv'
  <2>1. /\ UNCHANGED <<copy, si_ver, routine, section, ptr>>
        /\ mem' = [mem EXCEPT ![PLL_STATUS][p] = 1] /\ Ctrl(p).reset = 0
    BY <1>2 DEF PllLocks, CanLock, SetBit, interpreter, Ctrl
  <2>2. \A q \in Plls : Ctrl(q)' = Ctrl(q)
    BY <2>1, PllRegisters DEF Ctrl
  <2>3. mem'[PLL_STATUS] = [mem[PLL_STATUS] EXCEPT ![p] = 1]
    <3>1. PLL_STATUS \in DOMAIN mem
      BY PllRegisters DEF RunsInv
    <3> QED
      BY <2>1, <3>1
  <2>4. mem[PLL_STATUS] \in [Plls -> 0..1]
    BY DEF PllInv
  <2>5. /\ mem'[PLL_STATUS] \in [Plls -> 0..1] /\ mem'[PLL_STATUS][p] = 1
        /\ \A q \in Plls : q # p => mem'[PLL_STATUS][q] = mem[PLL_STATUS][q]
    BY <2>3, <2>4, <1>2
  <2>6. Current' = Current
    BY <2>1, SameTable DEF Current
  <2> QED
    BY <2>1, <2>2, <2>5, <2>6 DEF PllInv, Running
<1> QED
  BY <1>1, <1>2 DEF Hardware, DciCompletes, DdrOperates

\* The PLLs, in every step.
LEMMA PllInductive == Spec => []PllInv
<1>1. RunsInv /\ PllInv /\ [Next]_vars => PllInv'
  <2> SUFFICES ASSUME RunsInv, PllInv, [Next]_vars PROVE PllInv'
    OBVIOUS
  <2>1. CASE UNCHANGED ps7vars
    BY <2>1, PllsStay DEF ps7vars, interpreter
  <2>2. CASE Interpret
    BY <2>2, PllsInterpret
  <2>3. CASE Hardware
    BY <2>3, PllsHardware
  <2>4. CASE \E r \in Routines : Call(r)
    BY <2>4, PllsRestart DEF Call
  <2>5. CASE Loader
    BY <2>1, <2>4, <2>5, LoaderCalls
  <2> QED
    BY <2>1, <2>2, <2>3, <2>5 DEF Next, Software, vars
<1> QED
  BY <1>1, PllsStart, RunInductive, PTL DEF Spec

\* No PLL feeds clocks that has not locked, also when ps7_config gave up a poll.
THEOREM PllsFeedLocked == Spec => []NeverOnUnlockedPll
<1>1. PllInv => NeverOnUnlockedPll
  BY DEF PllInv, Ctrl, NeverOnUnlockedPll, Locked
<1> QED
  BY <1>1, PllInductive, PTL

--------------------------------------------------------------------------------
(* The readback of the configuration.                                     *)

\* Of the two transfers at most this one is left.
Dma(kind) == dma = <<>> \/ (Len(dma) = 1 /\ dma[1].kind = kind)

\* The inductive invariant of the hook: what is in flight and what has arrived at each of
\* its steps.  The flags are cleared while nothing is in flight, so that D_P_DONE can only
\* be that of the readback.
HookInv ==
  /\ HooksTypeOK
  /\ hook # "none" => stage \in {"hook", "handoff", "fallback"}
  /\ hook \in {"none", "initialise", "clear", "queue", "transfer"} => dma = <<>>
  /\ hook \in {"queue", "transfer"} => intr = {}
  /\ hook \in {"dma", "d_p"} =>
       Dma("readback") /\ ("D_P_DONE" \in intr => dma = <<>> /\ valueBack = "idcode")
  /\ hook \in {"desync", "dma2", "d_p2", "print"} => valueBack = "idcode"
  /\ hook = "desync" => dma = <<>>
  /\ hook \in {"dma2", "d_p2", "print", "board", "returned"} => Dma("desync")

\* The transfer in flight.
LEMMA FirstOf ==
  ASSUME NEW S, NEW s \in Seq(S), s # <<>>
  PROVE  Len(s) \in Nat \ {0} /\ 1 \in DOMAIN s /\ s[1] \in S
OBVIOUS

\* It changes, the others stay.
LEMMA FirstBecomes ==
  ASSUME NEW S, NEW s \in Seq(S), s # <<>>, NEW d \in S, NEW t,
         t = [i \in DOMAIN s |-> IF i = 1 THEN d ELSE s[i]]
  PROVE  t \in Seq(S) /\ Len(t) = Len(s) /\ t[1] = d /\ t # <<>>
OBVIOUS

\* Transfers of the configuration port.
Transfers == [kind : {"readback", "desync"}, moved : BOOLEAN]

\* The data of the first have arrived.
Moves(s, t) == t = [s EXCEPT ![1].moved = TRUE]

\* It stays the same transfer.
LEMMA Moved ==
  ASSUME NEW s \in Seq(Transfers), s # <<>>, NEW t, Moves(s, t)
  PROVE  /\ t \in Seq(Transfers) /\ Len(t) = Len(s)
         /\ t[1].kind = s[1].kind /\ t # <<>>
<1>1. s[1] \in Transfers
  BY FirstOf
<1>2. PICK d : d = [s[1] EXCEPT !.moved = TRUE]
  OBVIOUS
<1>3. t = [i \in DOMAIN s |-> IF i = 1 THEN d ELSE s[i]]
  BY <1>2 DEF Moves
<1>4. d \in Transfers /\ d.kind = s[1].kind
  <2>1. PICK w \in BOOLEAN : w = TRUE
    OBVIOUS
  <2>2. d = [s[1] EXCEPT !.moved = w]
    BY <1>2, <2>1, Zenon
  <2> QED
    BY <1>1, <2>2 DEF Transfers
<1>5. t \in Seq(Transfers) /\ Len(t) = Len(s) /\ t[1] = d /\ t # <<>>
  BY <1>3, <1>4, FirstBecomes
<1> QED
  BY <1>4, <1>5

\* The port finishes what is in flight, in order.
LEMMA PcapKeeps == ASSUME HookInv, stage' = stage, Pcap PROVE HookInv'
<1>1. CASE DataMoves
  <2>1. /\ dma \in Seq([kind : {"readback", "desync"}, moved : BOOLEAN]) /\ Len(dma) <= 2
        /\ dma # <<>> /\ UNCHANGED <<hook, status, valueBack, vdma>>
        /\ intr' = intr \cup {"DMA_DONE"} /\ dma' = [dma EXCEPT ![1].moved = TRUE]
    BY <1>1 DEF HookInv, HooksTypeOK, DataMoves
  <2>2. /\ dma' \in Seq([kind : {"readback", "desync"}, moved : BOOLEAN]) /\ Len(dma') = Len(dma)
        /\ dma'[1].kind = dma[1].kind /\ dma' # <<>>
    <3>1. dma \in Seq(Transfers) /\ dma # <<>> /\ dma' = [dma EXCEPT ![1].moved = TRUE]
      BY <2>1 DEF Transfers
    <3> QED
      BY <3>1, Moved DEF Transfers, Moves
  <2>3. HooksTypeOK'
    BY <2>1, <2>2 DEF HookInv, HooksTypeOK, XDCFG_IXR
  <2> QED
    BY <2>1, <2>2, <2>3 DEF HookInv, Dma
<1>2. CASE TransferEnds
  <2>1. /\ dma \in Seq([kind : {"readback", "desync"}, moved : BOOLEAN]) /\ Len(dma) <= 2
        /\ dma # <<>> /\ UNCHANGED <<hook, status, vdma>>
        /\ intr' = intr \cup {"D_P_DONE"} /\ dma' = Tail(dma)
        /\ valueBack' = IF Head(dma).kind = "readback" THEN "idcode" ELSE valueBack
    BY <1>2 DEF HookInv, HooksTypeOK, TransferEnds
  <2>2. /\ dma' \in Seq([kind : {"readback", "desync"}, moved : BOOLEAN])
        /\ Len(dma') = Len(dma) - 1 /\ Len(dma) \in Nat \ {0}
        /\ Head(dma) = dma[1] /\ (Len(dma) = 1 => dma' = <<>>)
    BY <2>1
  <2>3. HooksTypeOK'
    BY <2>1, <2>2 DEF HookInv, HooksTypeOK, XDCFG_IXR
  <2> QED
    BY <2>1, <2>2, <2>3 DEF HookInv, Dma
<1> QED
  BY <1>1, <1>2 DEF Pcap

\* The steps of te_read_IDCODE and of the board hook.
LEMMA HookStepKeeps == ASSUME HookInv, stage' = stage, HookStep PROVE HookInv'
<1> USE DEF At, Goto, Dma
<1>1. CASE Initialise
  BY <1>1 DEF Initialise, HookInv, HooksTypeOK, HookSteps
<1>2. CASE IntrClear
  BY <1>2 DEF IntrClear, HookInv, HooksTypeOK, HookSteps, XDCFG_IXR
<1>3. CASE CheckQueue
  BY <1>3 DEF CheckQueue, HookInv, HooksTypeOK, HookSteps
<1>4. ASSUME NEW kind \in {"readback", "desync"}, dma = <<>>,
             dma' = Append(dma, [kind |-> kind, moved |-> FALSE])
      PROVE  /\ dma' \in Seq([kind : {"readback", "desync"}, moved : BOOLEAN])
             /\ Len(dma') = 1 /\ dma'[1].kind = kind
  <2>1. [kind |-> kind, moved |-> FALSE] \in [kind : {"readback", "desync"}, moved : BOOLEAN]
    OBVIOUS
  <2> QED
    BY <1>4, <2>1
<1>5. CASE Transfer
  <2>1. /\ hook = "transfer" /\ hook' = "dma" /\ UNCHANGED <<status, intr, valueBack, vdma>>
        /\ dma = <<>> /\ dma' = Append(dma, [kind |-> "readback", moved |-> FALSE]) /\ intr = {}
    BY <1>5 DEF Transfer, StartDma, HookInv
  <2>2. /\ dma' \in Seq([kind : {"readback", "desync"}, moved : BOOLEAN])
        /\ Len(dma') = 1 /\ dma'[1].kind = "readback"
    BY <1>4, <2>1
  <2> QED
    BY <2>1, <2>2 DEF HookInv, HooksTypeOK, HookSteps
<1>6. CASE InitiateDma
  <2>1. /\ hook = "desync" /\ hook' = "dma2" /\ UNCHANGED <<status, intr, valueBack, vdma>>
        /\ dma = <<>> /\ dma' = Append(dma, [kind |-> "desync", moved |-> FALSE])
    BY <1>6 DEF InitiateDma, StartDma, HookInv
  <2>2. /\ dma' \in Seq([kind : {"readback", "desync"}, moved : BOOLEAN])
        /\ Len(dma') = 1 /\ dma'[1].kind = "desync"
    BY <1>4, <2>1
  <2> QED
    BY <2>1, <2>2 DEF HookInv, HooksTypeOK, HookSteps
<1>7. CASE PollDone
  BY <1>7 DEF PollDone, Await, HookInv, HooksTypeOK, HookSteps
<1>8. CASE PrintIdcode
  BY <1>8 DEF PrintIdcode, HookInv, HooksTypeOK, HookSteps
<1>9. CASE BoardHook
  BY <1>9 DEF BoardHook, HookInv, HooksTypeOK, HookSteps
<1> QED
  BY <1>1, <1>2, <1>3, <1>5, <1>6, <1>7, <1>8, <1>9 DEF HookStep

\* A step of the others while no hook runs, or one that does not disturb it.
LEMMA HookSame ==
  ASSUME HookInv, UNCHANGED hookvars, stage' \in Stages,
         \/ stage' = stage
         \/ stage' \in {"hook", "handoff", "fallback"}
         \/ hook = "none"
  PROVE  HookInv'
BY DEF HookInv, HooksTypeOK, hookvars, Dma

\* The loader calls the hook last, when no transfer is in flight.
LEMMA LoaderKeeps == ASSUME HookInv, Loader PROVE HookInv'
<1>1. CASE BeforeHandoff
  BY <1>1 DEF BeforeHandoff, Move, TE_FsblHookBeforeHandoff, HookInv, HooksTypeOK, HookSteps, At,
              Goto, Dma
<1>2. CASE Download
  BY <1>2 DEF Download, Move, BitstreamFlags, HookInv, HooksTypeOK, Dma
<1>3. CASE BeforeDownload \/ AfterDownload
  BY <1>3 DEF BeforeDownload, AfterDownload, TE_FsblHookBeforeBitstreamDload,
              TE_FsblHookAfterBitstreamDload, Move, HookInv, HooksTypeOK, hookvars, Dma
<1>4. CASE HookReturned \/ NoHook \/ InitReturned
  <2>1. /\ UNCHANGED hookvars /\ stage' \in Stages
        /\ stage' \in {"hook", "handoff", "fallback"} \/ stage = "init"
    BY <1>4 DEF HookReturned, NoHook, InitReturned, Returned, Move, Stages
  <2> QED
    BY <2>1, HookSame DEF HookInv
<1>5. CASE \/ CallRoutine("power_on", "ps7_init", "init") \/ Debug \/ NoDebug \/ DebugReturned
           \/ NoBitstream \/ PostConfigReturned
  <2>1. /\ UNCHANGED hookvars /\ stage' \in Stages
        /\ stage \in {"power_on", "initialised", "debug", "load", "post_config"}
    BY <1>5 DEF CallRoutine, Debug, NoDebug, DebugReturned, NoBitstream, PostConfigReturned,
                Returned, Move, Stages
  <2> QED
    BY <2>1, HookSame DEF HookInv
<1> QED
  BY <1>1, <1>2, <1>3, <1>4, <1>5 DEF Loader

\* The hook, in every step.
LEMMA HookInductive == Spec => []HookInv
<1>1. Init => HookInv
  BY DEF Init, HooksInit, HookInv, HooksTypeOK, Dma
<1>2. HookInv /\ [Next]_vars => HookInv'
  <2> SUFFICES ASSUME HookInv, [Next]_vars PROVE HookInv'
    OBVIOUS
  <2>1. CASE Loader
    BY <2>1, LoaderKeeps
  <2>2. CASE HookStep /\ UNCHANGED <<ps7vars, stage>>
    BY <2>2, HookStepKeeps
  <2>3. CASE Pcap /\ UNCHANGED <<ps7vars, stage>>
    BY <2>3, PcapKeeps
  <2>4. CASE UNCHANGED <<hookvars, stage>>
    BY <2>4 DEF HookInv, HooksTypeOK, hookvars, Dma
  <2> QED
    BY <2>1, <2>2, <2>3, <2>4 DEF Next, Software, vars
<1> QED
  BY <1>1, <1>2, PTL DEF Spec

\* What te_read_IDCODE prints is what the port has delivered, and no transfer can write to
\* its stack any more.
THEOREM ReadsBackTheIdcode == Spec => []ReadbackValid
<1>1. HookInv => ReadbackValid
  BY DEF HookInv, ReadbackValid, Dma, HooksTypeOK
<1> QED
  BY <1>1, HookInductive, PTL

--------------------------------------------------------------------------------

\* Every variable of the boot has its type.
THEOREM TypeCorrect == Spec => []TypeOK
<1>1. HookInv /\ RunsInv /\ StageOK => TypeOK
  <2> SUFFICES ASSUME HookInv, RunsInv, StageOK PROVE TypeOK
    OBVIOUS
  <2>1. /\ copy \in Copies /\ si_ver \in 0..3 /\ polls \in 0..PollTime
        /\ routine \in Routines \cup {"none"}
        /\ ret \in {"none", "PS7_INIT_SUCCESS", "PS7_INIT_TIMEOUT"}
        /\ DOMAIN mem = Control /\ slcr \in {"locked", "unlocked"}
    BY DEF RunsInv
  <2>2. routine # "none" => /\ section \in DOMAIN Sections(routine)
                            /\ ptr \in DOMAIN Table(Sections(routine)[section])
    BY DEF RunsInv, Current
  <2> QED
    BY <2>1, <2>2 DEF TypeOK, HookInv, StageOK
<1> QED
  BY <1>1, HookInductive, RunInductive, PTL
=============================================================================
