----------------------------- MODULE DmaEngine ------------------------------
(***************************************************************************)
(* One channel of the kernel's DMA engine, modelled from how dma-proxy.c   *)
(* uses it.  Submitting a descriptor returns a cookie, the next number;    *)
(* issue_pending hands over everything submitted; the channel ends the     *)
(* transfers in order, whenever it likes or never, each complete or with   *)
(* an error; an ended transfer's callback runs later, in a tasklet.        *)
(***************************************************************************)
EXTENDS Integers, Sequences

VARIABLES descs,     \* descs[k]: the callback parameter of cookie k
          issued,    \* the last cookie handed to the hardware
          completed, \* the last cookie whose transfer has ended
          failed,    \* the cookies whose transfer ended with an error
          called     \* the last cookie whose callback has run

engine == <<descs, issued, completed, failed, called>>

EngineInit ==
  descs = <<>> /\ issued = 0 /\ completed = 0 /\ failed = {} /\ called = 0

EngineTypeOK(Params) ==
  /\ descs \in Seq(Params)
  /\ issued \in 0..Len(descs)
  /\ completed \in 0..issued
  /\ failed \subseteq 1..completed
  /\ called \in 0..completed

NextCookie == Len(descs) + 1
SubmitError == -1

SubmitDesc(p) ==
  descs' = Append(descs, p) /\ UNCHANGED <<issued, completed, failed, called>>

IssuePending ==
  issued' = Len(descs) /\ UNCHANGED <<descs, completed, failed, called>>

EndTransfer ==
  /\ completed < issued
  /\ completed' = completed + 1
  /\ UNCHANGED <<descs, issued, called>>

CompleteTransfer == EndTransfer /\ UNCHANGED failed
FailTransfer == EndTransfer /\ failed' = failed \cup {completed'}

RunCallback ==
  /\ called < completed
  /\ called' = called + 1
  /\ UNCHANGED <<descs, issued, completed, failed>>

\* dma_async_is_tx_complete: an error cookie is below every cookie.
IsTxComplete(k) == IF k \in failed THEN "DMA_ERROR"
                   ELSE IF k <= completed THEN "DMA_COMPLETE"
                   ELSE "DMA_IN_PROGRESS"
=============================================================================
