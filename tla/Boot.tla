--------------------------------- MODULE Boot ----------------------------------
(***************************************************************************)
(* The boot of the board: a loader calls ps7_init, loads a bitstream or    *)
(* none, calls ps7_post_config and hands over.  The loader itself is not   *)
(* in the repository; it is modelled as far as the repository's code       *)
(* depends on it.  With the copy of platform-init it is the first-stage    *)
(* boot loader, which calls the hooks; with the copy of u-boot it is       *)
(* U-Boot's SPL, which knows no hooks.                                     *)
(***************************************************************************)
EXTENDS Ps7Config, FsblHooks

VARIABLE stage   \* how far the loader is

vars == <<ps7vars, hookvars, stage>>

Stages ==
  {"power_on", "init", "initialised", "debug", "load", "download", "downloaded",
   "post_config", "before_handoff", "hook", "handoff", "fallback"}

HasHooks == copy = "platform-init"

TypeOK ==
  /\ copy \in Copies /\ si_ver \in 0..3
  /\ routine \in Routines \cup {"none"}
  /\ routine # "none" => /\ section \in DOMAIN Sections(routine)
                         /\ ptr \in DOMAIN Table(Sections(routine)[section])
  /\ polls \in 0..PollTime
  /\ ret \in {"none", "PS7_INIT_SUCCESS", "PS7_INIT_TIMEOUT"}
  /\ DOMAIN mem = Control
  /\ slcr \in {"locked", "unlocked"}
  /\ stage \in Stages
  /\ HooksTypeOK

Init == Ps7Init /\ HooksInit /\ stage = "power_on"

--------------------------------------------------------------------------------
(* The loader (external).                                                  *)

Move(from, to) == stage = from /\ stage' = to

CallRoutine(from, r, to) == Move(from, to) /\ Call(r) /\ UNCHANGED hookvars

Returned(from) == stage = from /\ routine = "none"

InitReturned ==
  /\ Returned("init")
  /\ stage' = IF ret = "PS7_INIT_SUCCESS" THEN "initialised" ELSE "fallback"
  /\ UNCHANGED <<ps7vars, hookvars>>

(* A debugger may be attached.                                             *)
Debug == CallRoutine("initialised", "ps7_debug", "debug")

NoDebug == Move("initialised", "load") /\ UNCHANGED <<ps7vars, hookvars>>

DebugReturned ==
  /\ Returned("debug") /\ Move("debug", "load")
  /\ UNCHANGED <<ps7vars, hookvars>>

BeforeDownload ==
  /\ Move("load", "download")
  /\ IF HasHooks THEN TE_FsblHookBeforeBitstreamDload ELSE UNCHANGED hookvars
  /\ UNCHANGED ps7vars

NoBitstream ==
  /\ Move("load", "before_handoff")
  /\ UNCHANGED <<ps7vars, hookvars>>

Download ==
  /\ Move("download", "downloaded")
  /\ BitstreamFlags
  /\ UNCHANGED ps7vars

AfterDownload ==
  /\ stage = "downloaded" /\ stage' = "post_config"
  /\ IF HasHooks THEN TE_FsblHookAfterBitstreamDload ELSE UNCHANGED hookvars
  /\ Call("ps7_post_config")

PostConfigReturned ==
  /\ Returned("post_config") /\ Move("post_config", "before_handoff")
  /\ UNCHANGED <<ps7vars, hookvars>>

BeforeHandoff ==
  /\ HasHooks
  /\ Move("before_handoff", "hook")
  /\ TE_FsblHookBeforeHandoff
  /\ UNCHANGED ps7vars

HookReturned ==
  /\ stage = "hook" /\ hook = "returned"
  /\ stage' = IF status = "XST_SUCCESS" THEN "handoff" ELSE "fallback"
  /\ UNCHANGED <<ps7vars, hookvars>>

NoHook ==
  /\ ~HasHooks
  /\ Move("before_handoff", "handoff")
  /\ UNCHANGED <<ps7vars, hookvars>>

Loader ==
  \/ CallRoutine("power_on", "ps7_init", "init") \/ InitReturned
  \/ Debug \/ NoDebug \/ DebugReturned
  \/ BeforeDownload \/ NoBitstream \/ Download \/ AfterDownload
  \/ PostConfigReturned \/ BeforeHandoff \/ HookReturned \/ NoHook

(* Both fallback and handoff are final: TE_FsblHookFallback never returns. *)
Software ==
  \/ Loader
  \/ Interpret /\ UNCHANGED <<hookvars, stage>>
  \/ HookStep /\ UNCHANGED <<ps7vars, stage>>

Next ==
  \/ Software
  \/ Hardware /\ UNCHANGED <<hookvars, stage>>
  \/ Pcap /\ UNCHANGED <<ps7vars, stage>>

(* The processor runs.  The PLLs and the DDR interface owe nothing, since  *)
(* every poll for them is bounded; the port must finish its transfers,     *)
(* since the polls for it are not.                                         *)
Spec ==
  /\ Init /\ [][Next]_vars
  /\ WF_vars(Software)
  /\ WF_vars(Pcap /\ UNCHANGED <<ps7vars, stage>>)

--------------------------------------------------------------------------------
(* Properties.                                                             *)

AboutToWrite == Running /\ Instruction.op \in {"WRITE", "MASKWRITE"}

(* No write of a table is lost on the write protection of the SLCR,        *)
(* whatever the boot ROM or an earlier table left: ps7_config does not     *)
(* notice ignored writes (ps7_init_gpl.c, the unlock and lock keys).       *)
SlcrWritesTake == AboutToWrite => ~Ignored(Instruction.reg)

(* Whenever ps7_config polls, what it waits for has been started: reset    *)
(* released, clocks running from locked PLLs, calibration enabled.  A poll *)
(* nobody has prepared would always time out (order of the tables and of   *)
(* the instructions in them).                                              *)
PollsCanSucceed ==
  PollPending /\ ~PollTrue =>
    CASE Instruction.reg = PLL_STATUS -> CanLock(Instruction.bit)
      [] Instruction.reg = DDRIOB_DCI_STATUS -> CanCalibrate
      [] Instruction.reg = DDRC_MODE_STS -> CanOperate

(* No PLL feeds clocks that has not locked: it is bypassed from before its *)
(* reset until the poll for its lock succeeded, also after a timeout.      *)
NeverOnUnlockedPll ==
  \A p \in Plls : mem[PLL_CTRL[p]].bypass = 0 => Locked(p)

(* The order in which the tables bring the parts up, across tables: the    *)
(* DDR controller is only configured while it is held in soft reset ("LOCK *)
(* DDR" to "UNLOCK DDR"); registers of UART 1 and of the SMC are only      *)
(* written when their bus and reference clocks run, the UART's when its    *)
(* pins are connected; the PL leaves its reset only when its signals are   *)
(* connected.                                                              *)
BringUpOrder ==
  /\ AboutToWrite =>
       /\ Instruction.reg[1] = "ddrc" /\ Instruction.reg # DDRC_CTRL =>
            mem[DDRC_CTRL].soft_rstb = 0
       /\ Instruction.reg[1] = "uart1" =>
            /\ mem[APER_CLK_CTRL].uart1 = 1 /\ mem[UART_CLK_CTRL].active = 1
            /\ {MIO_PIN(24), MIO_PIN(25)} \subseteq configured
       /\ Instruction.reg[1] = "smc" =>
            mem[APER_CLK_CTRL].smc = 1 /\ mem[SMC_CLK_CTRL].active = 1
  /\ mem[FPGA_RST_CTRL].asserted = 0 => mem[LVL_SHFTR_EN].enabled = 1

(* When ps7_init reports success the PLLs are locked and in use, the DDR   *)
(* memory operates and the SLCR is protected again; the loader relies on   *)
(* it until it hands over.                                                 *)
UpWhenSuccessful ==
  ret = "PS7_INIT_SUCCESS" /\ routine = "none" =>
    /\ \A p \in Plls : Locked(p) /\ mem[PLL_CTRL[p]].bypass = 0
    /\ mem[DDRC_MODE_STS].operating_mode = 1
    /\ slcr = "locked"

(* The input clock, in kHz: a third of 100 MHz.                            *)
Frequency(clock) ==
  LET c == mem[clock] IN
    (100000 * mem[PLL_CTRL[c.pll]].fdiv) \div (3 * c.div0 * c.div1)

Near(a, b, error) == a - b \in -error..error

(* After ps7_init the clocks have the frequencies its header declares for  *)
(* the code that is compiled against it, and UART 1 the 115200 baud of the *)
(* console (ps7_init_gpl.h; SERIAL_CONSOLE in the machine configuration).  *)
ClocksAsDeclared ==
  ret = "PS7_INIT_SUCCESS" =>
    /\ Near(Frequency(ARM_CLK_CTRL), Declared.apu, 1)
    /\ Near(Frequency(DDR_CLK_CTRL), Declared.ddr, 1)
    /\ Near(Frequency(DCI_CLK_CTRL), Declared.dci, 1)
    /\ Near(Frequency(SMC_CLK_CTRL), Declared.smc, 1)
    /\ Near(Frequency(SDIO_CLK_CTRL), Declared.sdio, 1)
    /\ Near(Frequency(UART_CLK_CTRL), Declared.uart, 1)
    /\ Near(Frequency(PCAP_CLK_CTRL), Declared.pcap, 1)
    /\ Near(Frequency(FPGA0_CLK_CTRL), Declared.fpga0, 1)
    /\ HasHooks => Near(Frequency(FPGA1_CLK_CTRL), Declared.fpga1, 1)
    /\ Near((1000 * Frequency(UART_CLK_CTRL))
              \div (mem[UART_BAUD_GEN].cd * (mem[UART_BAUD_DIV].bdiv + 1)),
            115200, 1152)

(* te_read_IDCODE prints what it has read, not what was on its stack, and  *)
(* no transfer can still write to its stack: the flags the download of the *)
(* bitstream left behind are not taken for those of the readback.          *)
ReadbackValid ==
  hook \in {"desync", "dma2", "d_p2", "print"} =>
    /\ valueBack = "idcode"
    /\ \A i \in DOMAIN dma : dma[i].kind # "readback"

(* The boot comes to an end, in a handoff or in the fallback, however the  *)
(* PLLs and the memory behave.                                             *)
BootEnds == <>(stage \in {"handoff", "fallback"})
================================================================================
