------------------------------- MODULE FsblHooks -------------------------------
(***************************************************************************)
(* te_fsbl_hooks.c and te_fsbl_hooks_te0727demo1.c: what the first-stage   *)
(* boot loader calls around the download of the bitstream and before it    *)
(* hands over.  te_read_IDCODE reads a register of the PL back through the *)
(* DMA of the processor configuration access port (PCAP).                  *)
(*                                                                         *)
(* XDcfg_Transfer is taken at its callers' word: it queues a transfer      *)
(* whose end the two flags DMA_DONE and D_P_DONE announce.                 *)
(***************************************************************************)
EXTENDS Integers, Sequences

VARIABLES
  hook,      \* the statement the hook before the handoff is at, "none" or "returned"
  status,    \* Status, what the last hook returns
  intr,      \* the interrupt status register of the PCAP
  dma,       \* the DMA transfers queued; the data of the first may have moved
  valueBack, \* ValueBack on te_read_IDCODE's stack: "stack" until it is written
  vdma       \* the video DMA the board hook starts

hookvars == <<hook, status, intr, dma, valueBack, vdma>>

XDCFG_IXR == {"PCFG_DONE", "D_P_DONE", "DMA_DONE"}

HookSteps ==
  {"initialise", "clear", "queue", "transfer", "dma", "d_p", "desync",
   "dma2", "d_p2", "print", "board"}

HooksTypeOK ==
  /\ hook \in HookSteps \cup {"none", "returned"}
  /\ status \in {"XST_SUCCESS", "XST_FAILURE"}
  /\ intr \subseteq XDCFG_IXR
  /\ dma \in Seq([kind : {"readback", "desync"}, moved : BOOLEAN]) /\ Len(dma) <= 2
  /\ valueBack \in {"stack", "idcode"}
  /\ vdma \in {"off", "running"}

HooksInit ==
  /\ hook = "none" /\ status = "XST_SUCCESS"
  /\ intr = {} /\ dma = <<>>
  /\ valueBack = "stack" /\ vdma = "off"

--------------------------------------------------------------------------------
(* The PCAP (external).                                                    *)

DataMoves ==
  /\ dma # <<>> /\ ~Head(dma).moved
  /\ dma' = [dma EXCEPT ![1].moved = TRUE]
  /\ intr' = intr \cup {"DMA_DONE"}
  /\ UNCHANGED <<hook, status, valueBack, vdma>>

TransferEnds ==
  /\ dma # <<>> /\ Head(dma).moved
  /\ dma' = Tail(dma)
  /\ intr' = intr \cup {"D_P_DONE"}
  /\ valueBack' = IF Head(dma).kind = "readback" THEN "idcode" ELSE valueBack
  /\ UNCHANGED <<hook, status, vdma>>

Pcap == DataMoves \/ TransferEnds

(* The loader's download of the bitstream has gone through the same port.  *)
BitstreamFlags ==
  /\ intr' = XDCFG_IXR
  /\ UNCHANGED <<hook, status, dma, valueBack, vdma>>

--------------------------------------------------------------------------------
(* The hooks around the download: the board has no code of its own there.  *)

TE_FsblHookBeforeBitstreamDload ==
  /\ status' = "XST_SUCCESS"
  /\ UNCHANGED <<hook, intr, dma, valueBack, vdma>>

TE_FsblHookAfterBitstreamDload ==
  /\ status' = "XST_SUCCESS"
  /\ UNCHANGED <<hook, intr, dma, valueBack, vdma>>

--------------------------------------------------------------------------------
(* The hook before the handoff.                                            *)

At(step) == hook = step
Goto(step) == hook' = step

TE_FsblHookBeforeHandoff ==
  /\ At("none")
  /\ Goto("initialise") /\ status' = "XST_SUCCESS"
  /\ UNCHANGED <<intr, dma, valueBack, vdma>>

(* XDcfg_CfgInitialize and XDcfg_SelfTest; either may fail.                *)
Initialise ==
  /\ At("initialise")
  /\ \/ Goto("clear") /\ UNCHANGED status
     \/ Goto("board") /\ status' = "XST_FAILURE"
  /\ UNCHANGED <<intr, dma, valueBack, vdma>>

(* Slip: the flags the download has left are kept.                         *)
FaultyIntrClear ==
  /\ At("clear") /\ Goto("queue")
  /\ UNCHANGED <<status, intr, dma, valueBack, vdma>>

IntrClear ==
  /\ At("clear") /\ Goto("queue")
  /\ intr' = intr \ XDCFG_IXR
  /\ UNCHANGED <<status, dma, valueBack, vdma>>

(* XDCFG_STATUS_DMA_CMD_Q_F: what the port says is up to the hardware.     *)
CheckQueue ==
  /\ At("queue")
  /\ \/ Goto("transfer") /\ UNCHANGED status
     \/ Goto("board") /\ status' = "XST_FAILURE"
  /\ UNCHANGED <<intr, dma, valueBack, vdma>>

StartDma(step, kind, next) ==
  /\ At(step) /\ Goto(next)
  /\ dma' = Append(dma, [kind |-> kind, moved |-> FALSE])
  /\ UNCHANGED <<status, intr, valueBack, vdma>>

Transfer    == StartDma("transfer", "readback", "dma")
InitiateDma == StartDma("desync", "desync", "dma2")

(* The loops have no bound.                                                *)
Await(step, flag, next) ==
  /\ At(step) /\ flag \in intr
  /\ Goto(next)
  /\ UNCHANGED <<status, intr, dma, valueBack, vdma>>

PollDone ==
  \/ Await("dma", "DMA_DONE", "d_p")   \/ Await("d_p", "D_P_DONE", "desync")
  \/ Await("dma2", "DMA_DONE", "d_p2") \/ Await("d_p2", "D_P_DONE", "print")

PrintIdcode ==
  /\ At("print") /\ Goto("board")
  /\ status' = "XST_SUCCESS"
  /\ UNCHANGED <<intr, dma, valueBack, vdma>>

(* TE_FsblHookBeforeHandoff_Custom: the video DMA is started if its five   *)
(* calls succeed, and the status is success in any case.                   *)
BoardHook ==
  /\ At("board") /\ Goto("returned")
  /\ vdma' \in {"off", "running"}
  /\ status' = "XST_SUCCESS"
  /\ UNCHANGED <<intr, dma, valueBack>>

HookStep ==
  \/ Initialise \/ IntrClear \/ CheckQueue \/ Transfer \/ InitiateDma
  \/ PollDone \/ PrintIdcode \/ BoardHook
================================================================================
