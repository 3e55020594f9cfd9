------------------------------- MODULE Ps7Config -------------------------------
(***************************************************************************)
(* ps7_init_gpl.c: the interpreter of the register tables (ps7_config) and *)
(* the routines that run it on them: ps7_init, ps7_post_config, ps7_debug. *)
(* One instruction of a table, or one read of a poll, is a step; between   *)
(* two steps the hardware may react to what was written.                   *)
(*                                                                         *)
(* No table uses CLEAR or MASKDELAY or an opcode ps7_config does not know. *)
(***************************************************************************)
EXTENDS Ps7Tables, Ps7TablesUboot

CONSTANT PollTime    \* PS7_MASK_POLL_TIME

ASSUME PollTimeAssumption == PollTime \in Nat

VARIABLES
  copy,      \* which copy of the file is linked
  si_ver,    \* what ps7GetSiliconVersion reads
  routine,   \* the routine that runs, or "none"
  section,   \* the tables of the routine that are done, plus one
  ptr,       \* the instruction of that table that is next
  polls,     \* i, the failed reads of the poll in progress
  ret,       \* what the last routine returned
  mem,       \* the bits of the registers in Control
  configured,\* the registers the tables have set up
  slcr       \* the write protection of the SLCR

interpreter == <<routine, section, ptr, polls, ret>>
ps7vars == <<copy, si_ver, interpreter, mem, configured, slcr>>

Copies == {"platform-init", "u-boot"}
Table(name) ==
  LET tables == IF copy = "platform-init" THEN Tables(si_ver)
                                          ELSE TablesUboot(si_ver)
  IN tables[name]

Declared == IF copy = "platform-init" THEN DeclaredPlatform ELSE DeclaredUboot

--------------------------------------------------------------------------------
(* The hardware (external): registers that react.                          *)

ClockControls ==
  {ARM_CLK_CTRL, DDR_CLK_CTRL, DCI_CLK_CTRL, SMC_CLK_CTRL, SDIO_CLK_CTRL,
   UART_CLK_CTRL, PCAP_CLK_CTRL, FPGA0_CLK_CTRL, FPGA1_CLK_CTRL}

Control ==
     {PLL_CTRL[p] : p \in Plls} \cup ClockControls
  \cup {PLL_STATUS, APER_CLK_CTRL, DDRIOB_DCI_CTRL, DDRIOB_DCI_STATUS,
        DDRC_CTRL, DDRC_MODE_STS, UART_BAUD_GEN, UART_BAUD_DIV,
        LVL_SHFTR_EN, FPGA_RST_CTRL}

(* When the boot ROM hands over, the PLLs run; whether it left the clocks  *)
(* on is not something the tables may rely on.                             *)
AfterBootRom(on) ==
  [r \in Control |->
     CASE \E p \in Plls : r = PLL_CTRL[p] -> [fdiv |-> 1, bypass |-> 0, reset |-> 0]
       [] r \in ClockControls     -> [active |-> on, pll |-> "io", div0 |-> 1, div1 |-> 1]
       [] r = PLL_STATUS          -> [arm |-> 1, ddr |-> 1, io |-> 1]
       [] r = APER_CLK_CTRL       -> [uart1 |-> on, smc |-> on]
       [] r = DDRIOB_DCI_CTRL     -> [reset |-> 0, enable |-> 0]
       [] r = DDRIOB_DCI_STATUS   -> [done |-> 0]
       [] r = DDRC_CTRL           -> [soft_rstb |-> 0]
       [] r = DDRC_MODE_STS       -> [operating_mode |-> 0]
       [] r = UART_BAUD_GEN       -> [cd |-> 1]
       [] r = UART_BAUD_DIV       -> [bdiv |-> 1]
       [] r = LVL_SHFTR_EN        -> [enabled |-> 0]
       [] r = FPGA_RST_CTRL       -> [asserted |-> 1]]

Overwrite(old, new) ==
  [b \in DOMAIN old |-> IF b \in DOMAIN new THEN new[b] ELSE old[b]]

(* A reset takes effect with the write that asserts it.                    *)
React(m) ==
  [m EXCEPT
     ![PLL_STATUS] = [p \in Plls |-> IF m[PLL_CTRL[p]].reset = 1 THEN 0 ELSE @[p]],
     ![DDRIOB_DCI_STATUS].done = IF m[DDRIOB_DCI_CTRL].reset = 0 THEN 0 ELSE @,
     ![DDRC_MODE_STS].operating_mode = IF m[DDRC_CTRL].soft_rstb = 0 THEN 0 ELSE @]

Locked(p) == mem[PLL_STATUS][p] = 1

CanLock(p) == mem[PLL_CTRL[p]].reset = 0

CanCalibrate ==
  /\ mem[DDRIOB_DCI_CTRL] = [reset |-> 1, enable |-> 1]
  /\ mem[DCI_CLK_CTRL].active = 1 /\ Locked(mem[DCI_CLK_CTRL].pll)

CanOperate ==
  /\ mem[DDRC_CTRL].soft_rstb = 1
  /\ mem[DDRIOB_DCI_STATUS].done = 1
  /\ mem[DDR_CLK_CTRL].active = 1 /\ Locked(mem[DDR_CLK_CTRL].pll)

SetBit(r, b) ==
  /\ mem[r][b] = 0
  /\ mem' = [mem EXCEPT ![r][b] = 1]
  /\ UNCHANGED <<copy, si_ver, interpreter, configured, slcr>>

PllLocks(p)    == CanLock(p) /\ SetBit(PLL_STATUS, p)
DciCompletes   == CanCalibrate /\ SetBit(DDRIOB_DCI_STATUS, "done")
DdrOperates    == CanOperate /\ SetBit(DDRC_MODE_STS, "operating_mode")

Hardware == (\E p \in Plls : PllLocks(p)) \/ DciCompletes \/ DdrOperates

--------------------------------------------------------------------------------
(* The routines.                                                           *)

Sections(r) ==
  CASE r = "ps7_init" -> <<"mio", "pll", "clock", "ddr", "peripherals">>
    [] r = "ps7_post_config" -> <<"post_config">>
    [] r = "ps7_debug" -> <<"debug">>

Routines == {"ps7_init", "ps7_post_config", "ps7_debug"}

Call(r) ==
  /\ routine = "none"
  /\ routine' = r /\ section' = 1 /\ ptr' = 1 /\ polls' = 0
  /\ UNCHANGED <<ret, copy, si_ver, mem, configured, slcr>>

Running == routine # "none"
Instruction == Table(Sections(routine)[section])[ptr]

Return(status) ==
  /\ routine' = "none" /\ section' = 1 /\ ptr' = 1 /\ polls' = 0
  /\ ret' = status

Advance ==
  /\ ptr' = ptr + 1 /\ polls' = 0
  /\ UNCHANGED <<routine, section, ret>>

(* The SLCR ignores writes while it is protected; its two keys work always.*)
Ignored(r) == r[1] = "slcr" /\ slcr = "locked" /\ r \notin {SLCR_LOCK, SLCR_UNLOCK}

(* OPCODE_WRITE and OPCODE_MASKWRITE.                                      *)
Write ==
  /\ Running /\ Instruction.op \in {"WRITE", "MASKWRITE"}
  /\ LET r == Instruction.reg IN
       /\ slcr' = CASE r = SLCR_LOCK -> "locked" [] r = SLCR_UNLOCK -> "unlocked" [] OTHER -> slcr
       /\ mem' = IF r \in Control /\ ~Ignored(r)
                   THEN React([mem EXCEPT ![r] = Overwrite(@, Instruction.bits)])
                   ELSE mem
       /\ configured' = IF Ignored(r) \/ r \in {SLCR_LOCK, SLCR_UNLOCK} THEN configured
                                                                       ELSE configured \cup {r}
  /\ Advance
  /\ UNCHANGED <<copy, si_ver>>

PollPending == Running /\ Instruction.op = "MASKPOLL"
PollTrue == mem[Instruction.reg][Instruction.bit] = 1

(* OPCODE_MASKPOLL, one read of the register.                              *)
PollSucceeds ==
  /\ PollPending /\ PollTrue
  /\ Advance
  /\ UNCHANGED <<copy, si_ver, mem, configured, slcr>>

(* Slip: i is not counted. *)
FaultyPollCount ==
  /\ PollPending /\ ~PollTrue /\ polls < PollTime
  /\ UNCHANGED ps7vars

(* Slip: <= for <. *)
FaultyPollBound ==
  /\ PollPending /\ ~PollTrue /\ polls <= PollTime
  /\ polls' = polls + 1
  /\ UNCHANGED <<routine, section, ptr, ret, copy, si_ver, mem, configured, slcr>>

PollAgain ==
  /\ PollPending /\ ~PollTrue /\ polls < PollTime
  /\ polls' = polls + 1
  /\ UNCHANGED <<routine, section, ptr, ret, copy, si_ver, mem, configured, slcr>>

(* Slip: the inner loop is left, the interpreter goes on.                  *)
FaultyPollTimeOut ==
  /\ PollPending /\ ~PollTrue /\ polls = PollTime
  /\ Advance
  /\ UNCHANGED <<copy, si_ver, mem, configured, slcr>>

PollTimeOut ==
  /\ PollPending /\ ~PollTrue /\ polls = PollTime
  /\ Return("PS7_INIT_TIMEOUT")
  /\ UNCHANGED <<copy, si_ver, mem, configured, slcr>>

(* OPCODE_EXIT: the next table of the routine, or the end of it.           *)
Exit ==
  /\ Running /\ Instruction.op = "EXIT"
  /\ IF section < Len(Sections(routine))
       THEN /\ section' = section + 1 /\ ptr' = 1 /\ polls' = 0
            /\ UNCHANGED <<routine, ret>>
       ELSE Return("PS7_INIT_SUCCESS")
  /\ UNCHANGED <<copy, si_ver, mem, configured, slcr>>

Interpret == Write \/ PollSucceeds \/ PollAgain \/ PollTimeOut \/ Exit

Ps7Init ==
  /\ copy \in Copies /\ si_ver \in 0..3
  /\ routine = "none" /\ section = 1 /\ ptr = 1 /\ polls = 0 /\ ret = "none"
  /\ mem \in {AfterBootRom(0), AfterBootRom(1)}
  /\ configured = {}
  /\ slcr \in {"locked", "unlocked"}
================================================================================
