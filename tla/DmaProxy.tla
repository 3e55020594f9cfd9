------------------------------ MODULE DmaProxy ------------------------------
(***************************************************************************)
(* Transfers on one channel of the DMA proxy, dma-proxy.c: the ioctls      *)
(* START_XFER, FINISH_XFER and XFER of the threads that have the channel   *)
(* open, against the DMA engine, its callbacks and the three-second        *)
(* timeout.  Nothing in the driver serialises the ioctls of a channel.     *)
(***************************************************************************)
EXTENDS DmaEngine, FiniteSets

CONSTANTS Users,      \* the threads that have the channel open
          Buffers,    \* the channel buffers they use
          MaxCookie,  \* bound on the number of submitted transfers
          Failures    \* what the engine may refuse: "prep", "submit"

ASSUME DmaProxyAssumption ==
  /\ IsFiniteSet(Users)
  /\ Buffers \subseteq Nat /\ Buffers # {}
  /\ MaxCookie \in Nat
  /\ Failures \subseteq {"prep", "submit"}

VARIABLES bdindex,     \* the channel's buffer index
          done,        \* bdtable[i].cmp: how often it was completed
          cookie,      \* bdtable[i].cookie
          initialised, \* the buffers whose cmp init_completion has reached
          status,      \* buffer_table_p[i].status
          pc, req, idx, tx, \* the ioctl of thread u: where it is, what was
                       \* asked, its copy of bdindex, what the wait returned
          outstanding, \* the application: buffers started and not finished
          latest       \* history: the cookie of the latest start of buffer i

bds == <<done, cookie, initialised>>
threads == <<pc, req, idx, tx>>
vars == <<engine, bdindex, bds, status, threads, outstanding, latest>>

Cmds == {"START_XFER", "FINISH_XFER", "XFER"}
Statuses == {"PROXY_NO_ERROR", "PROXY_BUSY", "PROXY_TIMEOUT", "PROXY_ERROR"}
TxStatuses == {"DMA_COMPLETE", "DMA_IN_PROGRESS", "DMA_ERROR", "timeout"}
Labels == {"idle", "index", "start", "prep", "init", "submit", "issue",
           "wait", "sleep", "check", "report", "lost"}

NoReq == [cmd |-> "XFER", bd |-> 0]

TypeOK ==
  /\ EngineTypeOK(Buffers)
  /\ bdindex \in Buffers \cup {0}
  /\ done \in [Buffers -> 0..MaxCookie]
  /\ cookie \in [Buffers -> SubmitError..MaxCookie]
  /\ initialised \subseteq Buffers
  /\ status \in [Buffers -> Statuses]
  /\ pc \in [Users -> Labels]
  /\ req \in [Users -> [cmd : Cmds, bd : Buffers \cup {0}]]
  /\ idx \in [Users -> Buffers \cup {0}]
  /\ tx \in [Users -> TxStatuses]
  /\ outstanding \subseteq Buffers
  /\ latest \in [Buffers -> SubmitError..MaxCookie]

\* The channels come from devm_kmalloc: what done and cookie hold before
\* init_completion is garbage nobody may rely on (WaitUninitialised).
Init ==
  /\ EngineInit
  /\ bdindex = 0
  /\ done = [i \in Buffers |-> 0]
  /\ cookie = [i \in Buffers |-> 0]
  /\ initialised = {}
  /\ status = [i \in Buffers |-> "PROXY_NO_ERROR"]
  /\ pc = [u \in Users |-> "idle"]
  /\ req = [u \in Users |-> NoReq]
  /\ idx = [u \in Users |-> 0]
  /\ tx = [u \in Users |-> "DMA_COMPLETE"]
  /\ outstanding = {}
  /\ latest = [i \in Buffers |-> 0]

Step(u, from, to) == pc[u] = from /\ pc' = [pc EXCEPT ![u] = to]

-----------------------------------------------------------------------------
(* ioctl                                                                   *)

\* The threads that may still submit a transfer.
Starting == {u \in Users : pc[u] # "idle" /\ req[u].cmd # "FINISH_XFER"}

\* The application starts a buffer that is not outstanding and finishes one
\* that is.
Ioctl(u) ==
  \E cmd \in Cmds, i \in Buffers :
    /\ IF cmd = "FINISH_XFER"
       THEN i \in outstanding /\ outstanding' = outstanding \ {i}
       ELSE /\ i \notin outstanding
            /\ Len(descs) + Cardinality(Starting) < MaxCookie
            /\ \A v \in Users : pc[v] # "idle" => req[v].bd # i
            /\ UNCHANGED outstanding
    /\ Step(u, "idle", "index")
    /\ req' = [req EXCEPT ![u] = [cmd |-> cmd, bd |-> i]]
    /\ UNCHANGED <<engine, bdindex, bds, status, idx, tx, latest>>

\* The index goes into the channel, not into a local.
CopyIndex(u) ==
  /\ Step(u, "index", IF req[u].cmd = "FINISH_XFER" THEN "wait" ELSE "start")
  /\ bdindex' = req[u].bd
  /\ UNCHANGED <<engine, bds, status, req, idx, tx, outstanding, latest>>

Return(u) ==
  /\ req' = [req EXCEPT ![u] = NoReq]
  /\ idx' = [idx EXCEPT ![u] = 0]
  /\ tx' = [tx EXCEPT ![u] = "DMA_COMPLETE"]

\* start_transfer returns nothing: XFER waits whether it started or not.
Started(u, from) ==
  \/ /\ req[u].cmd = "XFER"
     /\ Step(u, from, "wait")
     /\ UNCHANGED <<req, idx, tx, outstanding>>
  \/ /\ req[u].cmd = "START_XFER"
     /\ Step(u, from, "idle")
     /\ outstanding' = outstanding \cup {req[u].bd}
     /\ Return(u)

-----------------------------------------------------------------------------
(* start_transfer                                                          *)

LoadIndex(u) ==
  /\ Step(u, "start", "prep")
  /\ idx' = [idx EXCEPT ![u] = bdindex]
  /\ UNCHANGED <<engine, bdindex, bds, status, req, tx, outstanding, latest>>

PrepSlaveSg(u) ==
  \/ /\ Step(u, "prep", "init")
     /\ UNCHANGED <<engine, bdindex, bds, status, req, idx, tx, outstanding, latest>>
  \/ /\ "prep" \in Failures
     /\ pc[u] = "prep"
     /\ Started(u, "prep")
     /\ latest' = [latest EXCEPT ![req[u].bd] = SubmitError]
     /\ UNCHANGED <<engine, bdindex, bds, status>>

InitCompletion(u) ==
  /\ Step(u, "init", "submit")
  /\ done' = [done EXCEPT ![idx[u]] = 0]
  /\ initialised' = initialised \cup {idx[u]}
  /\ UNCHANGED <<engine, bdindex, cookie, status, req, idx, tx, outstanding, latest>>

Submit(u) ==
  \/ /\ Step(u, "submit", "issue")
     /\ SubmitDesc(idx[u])
     /\ cookie' = [cookie EXCEPT ![idx[u]] = NextCookie]
     /\ latest' = [latest EXCEPT ![req[u].bd] = NextCookie]
     /\ UNCHANGED <<bdindex, done, initialised, status, req, idx, tx, outstanding>>
  \/ /\ "submit" \in Failures
     /\ pc[u] = "submit"
     /\ Started(u, "submit")
     /\ cookie' = [cookie EXCEPT ![idx[u]] = SubmitError]
     /\ latest' = [latest EXCEPT ![req[u].bd] = SubmitError]
     /\ UNCHANGED <<engine, bdindex, done, initialised, status>>

Issue(u) ==
  /\ pc[u] = "issue"
  /\ IssuePending
  /\ Started(u, "issue")
  /\ UNCHANGED <<bdindex, bds, status, latest>>

-----------------------------------------------------------------------------
(* wait_for_transfer                                                       *)

BeginWait(u, to) ==
  /\ Step(u, "wait", to)
  /\ idx' = [idx EXCEPT ![u] = bdindex]
  /\ status' = [status EXCEPT ![bdindex] = "PROXY_BUSY"]
  /\ UNCHANGED <<engine, bdindex, cookie, initialised, req, outstanding, latest>>

FaultyWait(u) ==
  /\ bdindex \in initialised
  /\ BeginWait(u, "sleep")
  /\ done' = [done EXCEPT ![bdindex] = 0]
  /\ UNCHANGED tx

Wait(u) ==
  /\ bdindex \in initialised
  /\ BeginWait(u, "sleep")
  /\ UNCHANGED <<done, tx>>

\* Waiting on memory init_completion has not reached is undefined: it may look
\* completed, with any status of the garbage cookie, or time out, or the wait
\* never returns.
WaitUninitialised(u) ==
  /\ bdindex \notin initialised
  /\ UNCHANGED done
  /\ \/ BeginWait(u, "lost") /\ UNCHANGED tx
     \/ \E t \in TxStatuses :
          BeginWait(u, "report") /\ tx' = [tx EXCEPT ![u] = t]

FaultySignalled(i) == TRUE

Signalled(i) == done[i] > 0

WakeUp(u) ==
  /\ Signalled(idx[u])
  /\ Step(u, "sleep", "check")
  /\ done' = [done EXCEPT ![idx[u]] = @ - 1]
  /\ UNCHANGED <<engine, bdindex, cookie, initialised, status, req, idx, tx, outstanding, latest>>

FaultyTimesOut(i) == FALSE

\* The time may be up at any moment; a completion that came first counts.
TimesOut(i) == done[i] = 0

TimeOut(u) ==
  /\ TimesOut(idx[u])
  /\ Step(u, "sleep", "report")
  /\ tx' = [tx EXCEPT ![u] = "timeout"]
  /\ UNCHANGED <<engine, bdindex, bds, status, req, idx, outstanding, latest>>

FaultyTxStatus(u) ==
  IF cookie[idx[u]] < completed THEN "DMA_COMPLETE" ELSE "DMA_IN_PROGRESS"

TxStatus(u) == IsTxComplete(cookie[idx[u]])

CheckStatus(u) ==
  /\ Step(u, "check", "report")
  /\ tx' = [tx EXCEPT ![u] = TxStatus(u)]
  /\ UNCHANGED <<engine, bdindex, bds, status, req, idx, outstanding, latest>>

FaultyResult(u) == CASE tx[u] = "timeout" -> "PROXY_TIMEOUT"
                     [] tx[u] = "DMA_IN_PROGRESS" -> "PROXY_ERROR"
                     [] OTHER -> "PROXY_NO_ERROR"

Result(u) == CASE tx[u] = "timeout" -> "PROXY_TIMEOUT"
               [] tx[u] \in {"DMA_IN_PROGRESS", "DMA_ERROR"} -> "PROXY_ERROR"
               [] tx[u] = "DMA_COMPLETE" -> "PROXY_NO_ERROR"

Report(u) ==
  /\ Step(u, "report", "idle")
  /\ status' = [status EXCEPT ![idx[u]] = Result(u)]
  /\ Return(u)
  /\ UNCHANGED <<engine, bdindex, bds, outstanding, latest>>

-----------------------------------------------------------------------------
(* The engine.                                                             *)

Complete ==
  /\ CompleteTransfer \/ FailTransfer
  /\ UNCHANGED <<bdindex, bds, status, threads, outstanding, latest>>

\* sync_callback
SyncCallback ==
  /\ RunCallback
  /\ done' = [done EXCEPT ![descs[called']] = @ + 1]
  /\ UNCHANGED <<bdindex, cookie, initialised, status, threads, outstanding, latest>>

StartTransfer(u) ==
  LoadIndex(u) \/ PrepSlaveSg(u) \/ InitCompletion(u) \/ Submit(u) \/ Issue(u)

WaitForTransfer(u) ==
  \/ Wait(u) \/ WaitUninitialised(u)
  \/ WakeUp(u) \/ TimeOut(u) \/ CheckStatus(u) \/ Report(u)

Proceed(u) == CopyIndex(u) \/ StartTransfer(u) \/ WaitForTransfer(u)

Next ==
  \/ Complete \/ SyncCallback
  \/ \E u \in Users : Ioctl(u) \/ Proceed(u)

Spec == Init /\ [][Next]_vars

\* An ioctl that began goes on.  The hardware promises nothing.
FairSpec == Spec /\ \A u \in Users : WF_vars(Proceed(u))
-----------------------------------------------------------------------------
(* Properties.                                                             *)

Reports(u, s) == pc[u] = "report" /\ Result(u) = s

\* The engine accepted the transfer u started last for the buffer of its call.
Accepted(u) == latest[req[u].bd] # SubmitError

\* "Perform the DMA transfer on the specified channel blocking til it
\* completes" (dma-proxy.c:369): PROXY_NO_ERROR is not reported for a buffer
\* whose last start the engine refused, once a start has initialised its
\* completion (before that, nothing is promised).
NoErrorMeansStarted ==
  \A u \in Users :
    Reports(u, "PROXY_NO_ERROR") /\ idx[u] \in initialised => Accepted(u)

\* PROXY_NO_ERROR is reported for an accepted transfer only when that very
\* transfer is complete and did not fail, however late the callbacks of
\* transfers that were given up come (dma-proxy.c:239-252).
NoErrorMeansTransferred ==
  \A u \in Users : Reports(u, "PROXY_NO_ERROR") /\ Accepted(u) =>
    latest[req[u].bd] \in (1..completed) \ failed

\* PROXY_ERROR is reported for an accepted transfer only when that very
\* transfer failed, or the callback of an earlier transfer of the same buffer,
\* given up by then, was taken for its own (dma-proxy.c:241-250).
ErrorHasCause ==
  \A u \in Users : Reports(u, "PROXY_ERROR") /\ Accepted(u) =>
    \/ latest[req[u].bd] \in failed
    \/ \E k \in 1..called : k < latest[req[u].bd] /\ descs[k] = req[u].bd

\* No completion is lost: PROXY_TIMEOUT is decided on for an accepted transfer
\* only when its callback has not run yet, which is why the completion is
\* initialised before the submission (dma-proxy.c:211-244).
NoLostCompletion ==
  [][ \A u \in Users : pc[u] = "sleep" /\ pc'[u] = "report" /\ Accepted(u) =>
        called < latest[req[u].bd] ]_vars

\* Every ioctl returns, though the hardware may never complete anything
\* (dma-proxy.c:241), except one that waits for a buffer of which the engine
\* accepted no transfer yet: its completion may never have been initialised
\* (dma-proxy.c:205-215, 582).
IoctlReturns ==
  \A u \in Users : pc[u] # "idle" ~>
    \/ pc[u] = "idle"
    \/ pc[u] = "lost" /\ \A k \in 1..Len(descs) : descs[k] # req[u].bd

\* "An input argument which specifies a channel buffer number (0 - N) to be
\* used for the transfer" (dma-proxy.c:27): the buffer a thread starts and
\* waits for is the one it asked for.
BufferAsAsked ==
  \A u \in Users : pc[u] \in {"prep", "init", "submit", "issue", "sleep", "check", "report"} =>
    idx[u] = req[u].bd
=============================================================================
