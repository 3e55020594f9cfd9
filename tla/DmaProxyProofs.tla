--------------------------- MODULE DmaProxyProofs ---------------------------
(***************************************************************************)
(* Proofs about the transfers of DmaProxy.tla: type correctness for every  *)
(* finite set of threads, and, for a channel that a single thread uses,    *)
(* that what it is told about a transfer is true.  With two threads it     *)
(* need not be: they share the channel's buffer index, dma-proxy.c:367.    *)
(***************************************************************************)
EXTENDS DmaProxy, FiniteSetTheorems, TLAPS

\* The threads that will still submit a transfer.
Pending ==
  {u \in Users : /\ pc[u] \in {"index", "start", "prep", "init", "submit"}
                 /\ req[u].cmd # "FINISH_XFER"}

\* No more transfers are submitted than MaxCookie, a buffer's completion counts
\* callbacks, and buffer numbers in use are those of buffers.
Bounds ==
  /\ Len(descs) + Cardinality(Pending) <= MaxCookie
  /\ \A i \in Buffers : done[i] <= called
  /\ \A i \in Buffers : latest[i] <= Len(descs) /\ cookie[i] <= Len(descs)
  /\ \A u \in Users :
       /\ pc[u] # "idle" => req[u].bd \in Buffers
       /\ pc[u] \notin {"idle", "index"} => bdindex \in Buffers
       /\ pc[u] \notin {"idle", "index", "start", "wait"} => idx[u] \in Buffers
       /\ pc[u] \in {"start", "prep", "init", "submit", "issue"} => req[u].cmd # "FINISH_XFER"

\* The inductive invariant of any number of threads.
TInv == TypeOK /\ Bounds

\* A single thread has the channel open.
OneUser == \E u \in Users : Users = {u}

\* The buffer a single thread asked for is the one it uses.
OwnBuffer ==
  \A u \in Users :
    /\ pc[u] \notin {"idle", "index"} => bdindex = req[u].bd
    /\ pc[u] \notin {"idle", "index", "start", "wait"} => idx[u] = req[u].bd
    /\ pc[u] # "idle" => req[u].bd \notin outstanding

\* A transfer is only submitted once its completion is initialised.
Initialised ==
  /\ \A u \in Users : pc[u] = "submit" => idx[u] \in initialised
  /\ \A i \in Buffers : latest[i] > 0 => i \in initialised

\* The buffers whose last start nobody has waited for.
Unfinished(i) ==
  \/ i \in outstanding
  \/ \E u \in Users :
       /\ req[u].bd = i
       /\ pc[u] \in {"issue", "wait", "sleep"} \/ (pc[u] = "index" /\ req[u].cmd = "FINISH_XFER")

\* The buffers whose last start has not been reported on.
Unreported(i) ==
  Unfinished(i) \/ \E u \in Users : req[u].bd = i /\ pc[u] \in {"check", "report"}

\* A buffer keeps the cookie of its last start, which is that of its own
\* descriptor.
Cookies ==
  \A i \in Buffers :
    /\ latest[i] # SubmitError => cookie[i] = latest[i]
    /\ latest[i] > 0 => descs[latest[i]] = i
    /\ Unreported(i) => latest[i] # 0

\* A completion comes from a callback of the same buffer, and the callback of the
\* last start is still to be consumed if it has run and nobody has waited for it.
Completions ==
  /\ \A i \in Buffers :
       /\ done[i] > 0 => \E k \in 1..called : descs[k] = i
       /\ Unfinished(i) /\ latest[i] \in 1..called => done[i] > 0
  /\ \A u \in Users : pc[u] = "check" => \E k \in 1..called : descs[k] = req[u].bd

\* What the thread is about to be told of an accepted transfer has its reason.
Grounds ==
  \A u \in Users : pc[u] = "report" /\ Accepted(u) =>
    /\ tx[u] = "DMA_COMPLETE" => latest[req[u].bd] \in (1..completed) \ failed
    /\ tx[u] \in {"DMA_IN_PROGRESS", "DMA_ERROR"} =>
         \/ latest[req[u].bd] \in failed
         \/ \E k \in 1..called : k < latest[req[u].bd] /\ descs[k] = req[u].bd

\* The inductive invariant of a single thread.
UInv ==
  TInv /\ OwnBuffer /\ Initialised /\ Cookies /\ Completions /\ Grounds
-----------------------------------------------------------------------------
\* The threads that will submit are finitely many, and all are Starting.
LEMMA PendingFinite ==
  /\ IsFiniteSet(Pending) /\ Cardinality(Pending) \in Nat
  /\ IsFiniteSet(Starting) /\ Cardinality(Starting) \in Nat
  /\ Cardinality(Pending) <= Cardinality(Starting)
<1>1. Pending \subseteq Starting /\ Starting \subseteq Users
  BY DEF Pending, Starting
<1> QED
  BY <1>1, FS_Subset, FS_CardinalityType, DmaProxyAssumption

\* The bounds of a step that submits nothing and lets no thread in.
LEMMA NoMorePending ==
  ASSUME TInv, UNCHANGED descs, Pending' \subseteq Pending
  PROVE  Len(descs') + Cardinality(Pending') <= MaxCookie
<1>1. Cardinality(Pending') \in Nat /\ Cardinality(Pending') <= Cardinality(Pending)
  BY PendingFinite, FS_Subset, FS_CardinalityType
<1>2. Len(descs) \in Nat /\ MaxCookie \in Nat
  BY DmaProxyAssumption DEF TInv, TypeOK, EngineTypeOK
<1> QED
  BY <1>1, <1>2, PendingFinite DEF TInv, Bounds

\* Every cookie fits.
LEMMA LenBound ==
  ASSUME TInv
  PROVE  Len(descs) \in 0..MaxCookie
BY PendingFinite, DmaProxyAssumption DEF TInv, TypeOK, EngineTypeOK, Bounds

\* A thread is let in only when its transfer still fits.
LEMMA IoctlType ==
  ASSUME TInv, NEW u \in Users, Ioctl(u)
  PROVE  TInv'
<1>1. PICK cmd \in Cmds, i \in Buffers :
        /\ \/ cmd = "FINISH_XFER"
           \/ Len(descs) + Cardinality(Starting) < MaxCookie
        /\ outstanding' \subseteq outstanding
        /\ pc[u] = "idle" /\ pc' = [pc EXCEPT ![u] = "index"]
        /\ req' = [req EXCEPT ![u] = [cmd |-> cmd, bd |-> i]]
  BY DEF Ioctl, Step
<1>2. UNCHANGED <<engine, bdindex, bds, status, idx, tx, latest>>
  BY DEF Ioctl
<1>3. \A v \in Users : pc'[v] = (IF v = u THEN "index" ELSE pc[v])
                         /\ req'[v] = IF v = u THEN [cmd |-> cmd, bd |-> i] ELSE req[v]
  BY <1>1 DEF TInv, TypeOK
<1>4. TypeOK'
  BY <1>1, <1>2 DEF TInv, TypeOK, EngineTypeOK, engine, bds, Labels
<1>5. Len(descs') + Cardinality(Pending') <= MaxCookie
  <2>1. CASE cmd = "FINISH_XFER"
    <3>1. Pending' \subseteq Pending
      BY <1>3, <2>1 DEF Pending
    <3> QED
      BY <1>2, <3>1, NoMorePending DEF engine
  <2>2. CASE Len(descs) + Cardinality(Starting) < MaxCookie
    <3>1. Pending' \subseteq Pending \cup {u} /\ u \notin Pending
      BY <1>1, <1>3 DEF Pending
    <3>2. Cardinality(Pending \cup {u}) = Cardinality(Pending) + 1 /\ IsFiniteSet(Pending \cup {u})
      BY <3>1, PendingFinite, FS_AddElement
    <3>3. Cardinality(Pending') <= Cardinality(Pending) + 1 /\ Cardinality(Pending') \in Nat
      BY <3>1, <3>2, FS_Subset, FS_CardinalityType
    <3>4. Len(descs) \in Nat /\ MaxCookie \in Nat
      BY DmaProxyAssumption DEF TInv, TypeOK, EngineTypeOK
    <3> QED
      BY <1>2, <2>2, <3>3, <3>4, PendingFinite DEF engine
  <2> QED
    BY <1>1, <2>1, <2>2
<1>6. Bounds'
  BY <1>2, <1>3, <1>5 DEF TInv, Bounds, engine, bds
<1> QED
  BY <1>4, <1>6 DEF TInv

\* A step of a thread that submits nothing.
LEMMA ThreadStep ==
  ASSUME TInv, NEW u \in Users, NEW to, pc[u] # "idle", pc' = [pc EXCEPT ![u] = to],
         to \in Labels \ {"index"},
         to \in {"start", "prep", "init", "submit"} => u \in Pending,
         to \in {"start", "issue"} => req[u].cmd # "FINISH_XFER",
         TypeOK', UNCHANGED <<descs, called>>,
         req' = req \/ (to = "idle" /\ \A v \in Users : v # u => req'[v] = req[v]),
         \A i \in Buffers : done'[i] <= called /\ latest'[i] <= Len(descs)
                              /\ cookie'[i] <= Len(descs),
         to # "idle" => bdindex' \in Buffers,
         bdindex' = bdindex \/ bdindex' \in Buffers,
         to \notin {"idle", "start", "wait"} => idx'[u] \in Buffers,
         \A v \in Users : v # u => idx'[v] = idx[v]
  PROVE  TInv'
<1>1. \A v \in Users : pc'[v] = IF v = u THEN to ELSE pc[v]
  BY DEF TInv, TypeOK
<1>2. Pending' \subseteq Pending
  BY <1>1 DEF Pending
<1>3. Bounds'
  BY <1>1, <1>2, NoMorePending DEF TInv, Bounds, Pending
<1> QED
  BY <1>3 DEF TInv

\* What a thread does after start_transfer returned.
LEMMA StartedFacts ==
  ASSUME TInv, NEW u \in Users, NEW from, Started(u, from)
  PROVE  /\ \/ pc' = [pc EXCEPT ![u] = "wait"] /\ UNCHANGED <<req, idx, tx, outstanding>>
            \/ /\ pc' = [pc EXCEPT ![u] = "idle"]
               /\ req' = [req EXCEPT ![u] = NoReq]
               /\ outstanding' = outstanding \cup {req[u].bd}
         /\ req' \in [Users -> [cmd : Cmds, bd : Buffers \cup {0}]]
         /\ idx' \in [Users -> Buffers \cup {0}]
         /\ tx' \in [Users -> TxStatuses]
         /\ \A v \in Users : v # u => req'[v] = req[v] /\ idx'[v] = idx[v]
<1>1. CASE Step(u, from, "wait") /\ UNCHANGED <<req, idx, tx, outstanding>>
  BY <1>1 DEF TInv, TypeOK, Step
<1>2. CASE Step(u, from, "idle") /\ outstanding' = outstanding \cup {req[u].bd} /\ Return(u)
  <2>1. NoReq \in [cmd : Cmds, bd : Buffers \cup {0}] /\ "DMA_COMPLETE" \in TxStatuses
    BY DEF NoReq, Cmds, TxStatuses
  <2> QED
    BY <1>2, <2>1 DEF TInv, TypeOK, Step, Return
<1> QED
  BY <1>1, <1>2 DEF Started

\* Returning from start_transfer keeps the bounds.
LEMMA StartedStep ==
  ASSUME TInv, NEW u \in Users, NEW from \in {"prep", "submit", "issue"}, Started(u, from),
         TypeOK', UNCHANGED <<descs, called, bdindex>>,
         \A i \in Buffers : done'[i] <= called /\ latest'[i] <= Len(descs)
                              /\ cookie'[i] <= Len(descs)
  PROVE  TInv'
<1>1. pc[u] = from /\ bdindex \in Buffers /\ \A v \in Users : v # u => idx'[v] = idx[v]
  BY StartedFacts DEF Started, Step, TInv, Bounds
<1>2. CASE pc' = [pc EXCEPT ![u] = "wait"] /\ UNCHANGED <<req, idx, tx, outstanding>>
  BY <1>1, <1>2, ThreadStep DEF Labels
<1>3. CASE pc' = [pc EXCEPT ![u] = "idle"] /\ req' = [req EXCEPT ![u] = NoReq]
  <2>1. \A v \in Users : v # u => req'[v] = req[v]
    BY <1>3 DEF TInv, TypeOK
  <2> QED
    BY <1>1, <1>3, <2>1, ThreadStep DEF Labels
<1> QED
  BY <1>2, <1>3, StartedFacts

\* Storing the index in the channel keeps them.
LEMMA CopyIndexType ==
  ASSUME TInv, NEW u \in Users, CopyIndex(u)
  PROVE  TInv'
<1>1. pc[u] = "index" /\ req[u].bd \in Buffers
  BY DEF CopyIndex, Step, TInv, Bounds
<1>2. PICK to \in {"wait", "start"} :
        pc' = [pc EXCEPT ![u] = to] /\ (to = "start" => req[u].cmd # "FINISH_XFER")
  BY DEF CopyIndex, Step
<1>3. UNCHANGED <<engine, bds, status, req, idx, tx, outstanding, latest>> /\ bdindex' = req[u].bd
  BY DEF CopyIndex
<1>4. TypeOK'
  BY <1>1, <1>2, <1>3 DEF TInv, TypeOK, EngineTypeOK, engine, bds, Labels
<1> QED
  BY <1>1, <1>2, <1>3, <1>4, ThreadStep
  DEF TInv, Bounds, Pending, engine, bds, Labels

\* So does start_transfer up to the submission,
LEMMA StartTransferType ==
  ASSUME TInv, NEW u \in Users, LoadIndex(u) \/ PrepSlaveSg(u) \/ InitCompletion(u)
  PROVE  TInv'
<1>1. pc[u] \in {"start", "prep", "init"} /\ bdindex \in Buffers /\ req[u].bd \in Buffers
      /\ UNCHANGED <<engine, bdindex, cookie, status>>
  BY DEF LoadIndex, PrepSlaveSg, InitCompletion, Step, TInv, Bounds, bds
<1>2. called \in Nat /\ Len(descs) \in Nat /\ MaxCookie \in Nat
  BY DmaProxyAssumption DEF TInv, TypeOK, EngineTypeOK
<1>3. CASE LoadIndex(u) \/ InitCompletion(u) \/ (PrepSlaveSg(u) /\ Step(u, "prep", "init")
                                               /\ UNCHANGED <<bds, req, idx, tx, outstanding, latest>>)
  <2>1. PICK to \in {"prep", "init", "submit"} :
          /\ pc' = [pc EXCEPT ![u] = to] /\ UNCHANGED <<req, tx, outstanding, latest>>
          /\ \/ idx' = idx /\ pc[u] # "start"
             \/ idx' = [idx EXCEPT ![u] = bdindex]
          /\ \/ UNCHANGED <<done, initialised>>
             \/ /\ done' = [done EXCEPT ![idx[u]] = 0] /\ pc[u] = "init"
                /\ initialised' = initialised \cup {idx[u]}
    BY <1>3 DEF LoadIndex, InitCompletion, Step, bds
  <2>2. u \in Pending
    BY <1>1 DEF Pending, TInv, Bounds
  <2>3. idx' \in [Users -> Buffers \cup {0}] /\ idx'[u] \in Buffers
        /\ \A v \in Users : v # u => idx'[v] = idx[v]
    <3>1. idx \in [Users -> Buffers \cup {0}] /\ (pc[u] # "start" => idx[u] \in Buffers)
      BY <1>1 DEF TInv, TypeOK, Bounds
    <3>2. CASE idx' = idx /\ pc[u] # "start"
      BY <3>1, <3>2
    <3>3. CASE idx' = [idx EXCEPT ![u] = bdindex]
      BY <1>1, <3>1, <3>3
    <3> QED
      BY <2>1, <3>2, <3>3
  <2>4. \A i \in Buffers : done[i] \in 0..MaxCookie /\ done[i] <= called
    BY DEF TInv, TypeOK, Bounds
  <2>5. done' \in [Buffers -> 0..MaxCookie] /\ \A i \in Buffers : done'[i] <= called
    <3>1. done \in [Buffers -> 0..MaxCookie] /\ 0 \in 0..MaxCookie /\ 0 <= called
      BY <1>2 DEF TInv, TypeOK
    <3>2. CASE done' = [done EXCEPT ![idx[u]] = 0]
      BY <2>4, <3>1, <3>2
    <3>3. CASE done' = done
      BY <2>4, <3>1, <3>3
    <3> QED
      BY <2>1, <3>2, <3>3
  <2>6. TypeOK'
    <3>1. initialised \subseteq Buffers /\ (pc[u] = "init" => idx[u] \in Buffers)
      BY DEF TInv, TypeOK, Bounds
    <3>2. initialised' \subseteq Buffers
      BY <2>1, <3>1
    <3> QED
      BY <1>1, <2>1, <2>3, <2>5, <3>2 DEF TInv, TypeOK, EngineTypeOK, engine, Labels
  <2> QED
    BY <1>1, <1>2, <2>1, <2>2, <2>3, <2>5, <2>6, ThreadStep
    DEF TInv, Bounds, Labels, engine
<1>4. CASE Started(u, "prep") /\ latest' = [latest EXCEPT ![req[u].bd] = SubmitError]
           /\ UNCHANGED bds
  <2>1. latest' \in [Buffers -> SubmitError..MaxCookie] /\ \A i \in Buffers : latest'[i] <= Len(descs)
    <3>1. SubmitError \in SubmitError..MaxCookie /\ SubmitError <= Len(descs)
      BY <1>2 DEF SubmitError
    <3>2. latest \in [Buffers -> SubmitError..MaxCookie] /\ \A i \in Buffers : latest[i] <= Len(descs)
      BY DEF TInv, TypeOK, Bounds
    <3> QED
      BY <1>4, <3>1, <3>2
  <2>2. pc' = [pc EXCEPT ![u] = "wait"] \/ pc' = [pc EXCEPT ![u] = "idle"]
    BY <1>4, StartedFacts
  <2>3. outstanding' \subseteq Buffers
    BY <1>1, <1>4, StartedFacts DEF TInv, TypeOK
  <2>4. TypeOK'
    BY <1>1, <1>4, <2>1, <2>2, <2>3, StartedFacts DEF TInv, TypeOK, EngineTypeOK, engine, Labels, bds
  <2> QED
    BY <1>1, <1>4, <2>1, <2>4, StartedStep DEF TInv, Bounds, engine, bds
<1> QED
  BY <1>3, <1>4 DEF PrepSlaveSg, bds

\* the submission, which turns a pending transfer into a submitted one,
LEMMA SubmitType ==
  ASSUME TInv, NEW u \in Users, Submit(u)
  PROVE  TInv'
<1>1. pc[u] = "submit" /\ bdindex \in Buffers /\ req[u].bd \in Buffers /\ idx[u] \in Buffers
      /\ u \in Pending
  BY DEF Submit, Step, TInv, Bounds, Pending
<1>2. /\ called \in Nat /\ Len(descs) \in Nat /\ MaxCookie \in Nat
      /\ descs \in Seq(Buffers)
      /\ issued \in 0..Len(descs) /\ completed \in 0..issued /\ called \in 0..completed
      /\ failed \subseteq 1..completed
  BY DmaProxyAssumption DEF TInv, TypeOK, EngineTypeOK
<1>3. CASE /\ Step(u, "submit", "issue")
           /\ SubmitDesc(idx[u])
           /\ cookie' = [cookie EXCEPT ![idx[u]] = NextCookie]
           /\ latest' = [latest EXCEPT ![req[u].bd] = NextCookie]
           /\ UNCHANGED <<bdindex, done, initialised, status, req, idx, tx, outstanding>>
  <2>1. descs' \in Seq(Buffers) /\ Len(descs') = Len(descs) + 1
        /\ UNCHANGED <<issued, completed, failed, called>>
    BY <1>1, <1>2, <1>3 DEF SubmitDesc
  <2>2. pc' = [pc EXCEPT ![u] = "issue"] /\ \A v \in Users : pc'[v] = IF v = u THEN "issue" ELSE pc[v]
    BY <1>3 DEF Step, TInv, TypeOK
  <2>3. Len(descs') + Cardinality(Pending') <= MaxCookie
    <3>1. Pending' = Pending \ {u}
      BY <1>1, <1>3, <2>2 DEF Pending
    <3>2. Cardinality(Pending') = Cardinality(Pending) - 1
      BY <1>1, <3>1, PendingFinite, FS_RemoveElement
    <3> QED
      BY <1>2, <2>1, <3>2, PendingFinite DEF TInv, Bounds
  <2>4. NextCookie \in SubmitError..MaxCookie /\ NextCookie = Len(descs')
    <3>1. Cardinality(Pending) \in Nat /\ Cardinality(Pending) # 0
      BY <1>1, PendingFinite, FS_EmptySet
    <3> QED
      BY <1>2, <2>1, <3>1 DEF NextCookie, SubmitError, TInv, Bounds
  <2>5. latest' \in [Buffers -> SubmitError..MaxCookie] /\ cookie' \in [Buffers -> SubmitError..MaxCookie]
    BY <1>3, <2>4 DEF TInv, TypeOK
  <2>6. \A i \in Buffers : latest'[i] <= Len(descs') /\ cookie'[i] <= Len(descs')
    <3>1. \A i \in Buffers : latest[i] \in Int /\ cookie[i] \in Int
                               /\ latest[i] <= Len(descs) /\ cookie[i] <= Len(descs)
      BY <1>2 DEF TInv, TypeOK, Bounds, SubmitError
    <3> QED
      BY <1>2, <1>3, <2>1, <2>4, <3>1, SMTT(30) DEF TInv, TypeOK
  <2>7. TypeOK'
    <3>1. EngineTypeOK(Buffers)'
      BY <1>2, <2>1 DEF EngineTypeOK
    <3> QED
      BY <1>3, <2>2, <2>5, <3>1 DEF TInv, TypeOK, Labels
  <2>8. Bounds'
    BY <1>1, <1>3, <2>1, <2>2, <2>3, <2>6 DEF TInv, Bounds
  <2> QED
    BY <2>7, <2>8 DEF TInv
<1>4. CASE /\ Started(u, "submit")
           /\ cookie' = [cookie EXCEPT ![idx[u]] = SubmitError]
           /\ latest' = [latest EXCEPT ![req[u].bd] = SubmitError]
           /\ UNCHANGED <<engine, bdindex, done, initialised, status>>
  <2>1. SubmitError \in SubmitError..MaxCookie /\ SubmitError <= Len(descs)
    BY <1>2 DEF SubmitError
  <2>2. /\ latest' \in [Buffers -> SubmitError..MaxCookie]
        /\ cookie' \in [Buffers -> SubmitError..MaxCookie]
        /\ \A i \in Buffers : latest'[i] <= Len(descs) /\ cookie'[i] <= Len(descs)
    BY <1>4, <2>1 DEF TInv, TypeOK, Bounds
  <2>3. pc' = [pc EXCEPT ![u] = "wait"] \/ pc' = [pc EXCEPT ![u] = "idle"]
    BY <1>4, StartedFacts
  <2>4. outstanding' \subseteq Buffers
    BY <1>1, <1>4, StartedFacts DEF TInv, TypeOK
  <2>5. TypeOK'
    BY <1>4, <2>2, <2>3, <2>4, StartedFacts DEF TInv, TypeOK, EngineTypeOK, engine, Labels
  <2> QED
    BY <1>4, <2>2, <2>5, StartedStep DEF TInv, Bounds, engine
<1> QED
  BY <1>3, <1>4 DEF Submit

\* its hand-over to the hardware,
LEMMA IssueType ==
  ASSUME TInv, NEW u \in Users, Issue(u)
  PROVE  TInv'
<1>1. Started(u, "issue") /\ issued' = Len(descs)
      /\ UNCHANGED <<descs, completed, failed, called, bdindex, bds, status, latest>>
  BY DEF Issue, IssuePending
<1>2. /\ Len(descs) \in Nat /\ issued \in 0..Len(descs) /\ completed \in 0..issued
      /\ called \in 0..completed /\ descs \in Seq(Buffers) /\ failed \subseteq 1..completed
  BY DEF TInv, TypeOK, EngineTypeOK
<1>3. EngineTypeOK(Buffers)'
  BY <1>1, <1>2 DEF EngineTypeOK
<1>4. outstanding' \subseteq Buffers
  BY <1>1, StartedFacts DEF Started, Step, TInv, TypeOK, Bounds
<1>5. pc' = [pc EXCEPT ![u] = "wait"] \/ pc' = [pc EXCEPT ![u] = "idle"]
  BY <1>1, StartedFacts
<1>6. TypeOK'
  BY <1>1, <1>3, <1>4, <1>5, StartedFacts DEF TInv, TypeOK, Labels, bds
<1> QED
  BY <1>1, <1>6, StartedStep DEF TInv, Bounds, bds

\* wait_for_transfer,
LEMMA WaitType ==
  ASSUME TInv, NEW u \in Users, WaitForTransfer(u)
  PROVE  TInv'
<1>1. PICK to \in {"sleep", "check", "report", "lost", "idle"} :
        pc' = [pc EXCEPT ![u] = to] /\ pc[u] \in {"wait", "sleep", "check", "report"}
        /\ \/ to = "idle"
           \/ pc[u] = "wait" /\ idx' = [idx EXCEPT ![u] = bdindex]
           \/ pc[u] # "wait" /\ idx' = idx
        /\ (to = "idle" => idx' = [idx EXCEPT ![u] = 0] /\ req' = [req EXCEPT ![u] = NoReq])
        /\ (to # "idle" => UNCHANGED req)
  BY DEF WaitForTransfer, Wait, WaitUninitialised, BeginWait, WakeUp, TimeOut, CheckStatus, Report,
         Step, Return
<1>2. UNCHANGED <<engine, bdindex, cookie, initialised, outstanding, latest>>
  BY DEF WaitForTransfer, Wait, WaitUninitialised, BeginWait, WakeUp, TimeOut, CheckStatus, Report, bds
<1>3. /\ bdindex \in Buffers /\ called \in Nat /\ MaxCookie \in Nat
      /\ \A i \in Buffers : done[i] \in 0..MaxCookie /\ done[i] <= called
      /\ done \in [Buffers -> 0..MaxCookie]
  <2>1. called \in Nat
    BY DEF TInv, TypeOK, EngineTypeOK
  <2>2. bdindex \in Buffers
    BY <1>1 DEF TInv, Bounds
  <2> QED
    BY <2>1, <2>2, DmaProxyAssumption DEF TInv, TypeOK, Bounds
<1>4. idx' \in [Users -> Buffers \cup {0}] /\ (to # "idle" => idx'[u] \in Buffers)
      /\ \A v \in Users : v # u => idx'[v] = idx[v]
  BY <1>1, <1>3 DEF TInv, TypeOK, Bounds
<1>5. req' \in [Users -> [cmd : Cmds, bd : Buffers \cup {0}]]
      /\ \A v \in Users : v # u => req'[v] = req[v]
  BY <1>1 DEF TInv, TypeOK, NoReq, Cmds
<1>6. tx' \in [Users -> TxStatuses]
  BY DEF TInv, TypeOK, WaitForTransfer, Wait, WaitUninitialised, BeginWait, WakeUp, TimeOut,
         CheckStatus, Report, Return, TxStatus, IsTxComplete, TxStatuses
<1>7. status' \in [Buffers -> Statuses]
  <2>1. Result(u) \in Statuses
    BY DEF Result, TInv, TypeOK, TxStatuses, Statuses
  <2> QED
    BY <1>3, <2>1 DEF TInv, TypeOK, WaitForTransfer, Wait, WaitUninitialised, BeginWait, WakeUp,
                     TimeOut, CheckStatus, Report, Statuses
<1>8. done' \in [Buffers -> 0..MaxCookie] /\ \A i \in Buffers : done'[i] <= called
  <2>1. CASE WakeUp(u)
    <3>1. done' = [done EXCEPT ![idx[u]] = @ - 1] /\ done[idx[u]] > 0
      BY <2>1 DEF WakeUp, Signalled
    <3>2. \A i \in Buffers : done'[i] = IF i = idx[u] THEN done[i] - 1 ELSE done[i]
      BY <1>3, <3>1
    <3>3. \A i \in Buffers : done'[i] \in 0..MaxCookie /\ done'[i] <= called
      BY <1>3, <3>1, <3>2
    <3> QED
      BY <1>3, <3>1, <3>3
  <2>2. CASE UNCHANGED done
    BY <1>3, <2>2
  <2> QED
    BY <2>1, <2>2 DEF WaitForTransfer, Wait, WaitUninitialised, TimeOut, CheckStatus, Report, bds
<1>9. TypeOK'
  BY <1>1, <1>2, <1>4, <1>5, <1>6, <1>7, <1>8 DEF TInv, TypeOK, EngineTypeOK, engine, Labels
<1>10. \A i \in Buffers : latest'[i] <= Len(descs) /\ cookie'[i] <= Len(descs)
  BY <1>2 DEF TInv, Bounds
<1> QED
  BY <1>1, <1>2, <1>3, <1>4, <1>5, <1>8, <1>9, <1>10, ThreadStep DEF Labels, engine

\* and the engine: a callback completes a buffer once per cookie.
LEMMA EngineStepType ==
  ASSUME TInv, Complete \/ SyncCallback
  PROVE  TInv'
<1>1. UNCHANGED <<descs, issued, bdindex, cookie, initialised, status, threads, outstanding, latest>>
  BY DEF Complete, SyncCallback, CompleteTransfer, FailTransfer, EndTransfer, RunCallback, bds
<1>2. /\ Len(descs) \in Nat /\ issued \in 0..Len(descs) /\ completed \in 0..issued
      /\ called \in 0..completed /\ descs \in Seq(Buffers) /\ Len(descs) \in 0..MaxCookie
      /\ MaxCookie \in Nat
  BY LenBound, DmaProxyAssumption, SMTT(30) DEF TInv, TypeOK, EngineTypeOK
<1>3. completed' \in 0..issued /\ called' \in 0..completed' /\ called <= called'
      /\ completed <= completed'
  BY <1>2 DEF Complete, SyncCallback, CompleteTransfer, FailTransfer, EndTransfer, RunCallback
<1>4. failed' \subseteq 1..completed'
  <2>1. failed \subseteq 1..completed /\ 1..completed \subseteq 1..completed'
    BY <1>2, <1>3 DEF TInv, TypeOK, EngineTypeOK
  <2>2. failed' = failed \/ (failed' = failed \cup {completed'} /\ completed' = completed + 1)
    BY DEF Complete, SyncCallback, CompleteTransfer, FailTransfer, EndTransfer, RunCallback
  <2>3. CASE failed' = failed
    BY <2>1, <2>3
  <2>4. CASE failed' = failed \cup {completed'} /\ completed' = completed + 1
    <3>1. completed' \in 1..completed'
      BY <1>2, <2>4
    <3> QED
      BY <2>1, <2>4, <3>1
  <2> QED
    BY <2>2, <2>3, <2>4
<1>5. done' \in [Buffers -> 0..MaxCookie] /\ \A i \in Buffers : done'[i] <= called'
  <2>1. \A i \in Buffers : done[i] \in 0..MaxCookie /\ done[i] <= called
    BY DEF TInv, TypeOK, Bounds
  <2>2. CASE SyncCallback
    <3>1. called' = called + 1 /\ called + 1 <= MaxCookie
          /\ done' = [done EXCEPT ![descs[called + 1]] = @ + 1]
      BY <1>2, <2>2 DEF SyncCallback, RunCallback
    <3>2. \A i \in Buffers : done'[i] = IF i = descs[called + 1] THEN done[i] + 1 ELSE done[i]
      BY <3>1 DEF TInv, TypeOK
    <3>3. \A i \in Buffers : done'[i] \in 0..MaxCookie /\ done'[i] <= called'
      BY <1>2, <2>1, <3>1, <3>2
    <3> QED
      BY <3>1, <3>3 DEF TInv, TypeOK
  <2>3. CASE Complete
    BY <1>2, <1>3, <2>1, <2>3 DEF Complete, CompleteTransfer, FailTransfer, EndTransfer, bds, TInv, TypeOK
  <2> QED
    BY <2>2, <2>3
<1>6. TypeOK'
  BY <1>1, <1>2, <1>3, <1>4, <1>5 DEF TInv, TypeOK, EngineTypeOK, threads
<1>7. Pending' = Pending
  BY <1>1 DEF Pending, threads
<1>8. Bounds'
  BY <1>1, <1>5, <1>7 DEF TInv, Bounds, threads
<1> QED
  BY <1>6, <1>8 DEF TInv

\* Every step keeps the types and the bounds.
LEMMA NextTInv == TInv /\ [Next]_vars => TInv'
<1> SUFFICES ASSUME TInv, [Next]_vars
             PROVE  TInv'
  OBVIOUS
<1>1. ASSUME NEW u \in Users, Ioctl(u) \/ Proceed(u)
      PROVE  TInv'
  BY <1>1, IoctlType, CopyIndexType, StartTransferType, SubmitType, IssueType, WaitType
  DEF Proceed, StartTransfer
<1>2. CASE UNCHANGED vars
  BY <1>2 DEF vars, engine, bds, threads, TInv, TypeOK, EngineTypeOK, Bounds, Pending
<1> QED
  BY <1>1, <1>2, EngineStepType DEF Next

\* They hold when the channel is opened.
LEMMA InitTInv == Init => TInv
<1> SUFFICES ASSUME Init
             PROVE  TInv
  OBVIOUS
<1>1. TypeOK
  BY DmaProxyAssumption
  DEF Init, EngineInit, TypeOK, EngineTypeOK, Statuses, Labels, Cmds, NoReq, TxStatuses, SubmitError
<1>2. Pending = {} /\ Len(descs) = 0
  BY DEF Init, EngineInit, Pending
<1> QED
  BY <1>1, <1>2, FS_EmptySet, DmaProxyAssumption DEF Init, EngineInit, TInv, Bounds

\* However many threads share the channel, and whatever the engine refuses or
\* completes, every variable keeps its type: no completion count and no cookie
\* grows beyond the number of submitted transfers, and no index in use is one of
\* no buffer (dma-proxy.c:173-385).
THEOREM TypeCorrect == Spec => []TypeOK
<1>1. TInv => TypeOK
  BY DEF TInv
<1> QED
  BY <1>1, InitTInv, NextTInv, PTL DEF Spec

-----------------------------------------------------------------------------
(* One thread.                                                             *)

\* An ioctl begins: nothing is submitted, completed or reported.
LEMMA IoctlAlone ==
  ASSUME UInv, TInv', NEW u \in Users, Users = {u}, Ioctl(u)
  PROVE  UInv'
<1>1. PICK cmd \in Cmds, i \in Buffers :
        /\ IF cmd = "FINISH_XFER" THEN i \in outstanding /\ outstanding' = outstanding \ {i}
           ELSE i \notin outstanding /\ UNCHANGED outstanding
        /\ pc[u] = "idle" /\ pc'[u] = "index"
        /\ req'[u].bd = i /\ req'[u].cmd = cmd
  BY DEF Ioctl, Step, UInv, TInv, TypeOK
<1>2. UNCHANGED <<descs, issued, completed, failed, called, done, cookie, initialised, tx, latest>>
  BY DEF Ioctl, engine, bds
<1>3. OwnBuffer' /\ Initialised'
  BY <1>1, <1>2 DEF UInv, OwnBuffer, Initialised
<1>4. \A j \in Buffers : (Unfinished(j)' => Unfinished(j)) /\ (Unreported(j)' => Unreported(j))
  BY <1>1 DEF Unfinished, Unreported
<1>5. Cookies' /\ Completions'
  BY <1>1, <1>2, <1>4 DEF UInv, Cookies, Completions
<1>6. Grounds'
  BY <1>1 DEF Grounds
<1> QED
  BY <1>3, <1>5, <1>6 DEF UInv

\* Up to the submission only the completion of the own buffer is reset.
LEMMA BeforeSubmitAlone ==
  ASSUME UInv, TInv', NEW u \in Users, Users = {u},
         CopyIndex(u) \/ LoadIndex(u) \/ (Step(u, "prep", "init") /\ PrepSlaveSg(u)) \/ InitCompletion(u)
  PROVE  UInv'
<1>1. UNCHANGED <<descs, issued, completed, failed, called, cookie, req, tx, outstanding, latest>>
  BY DEF CopyIndex, LoadIndex, PrepSlaveSg, InitCompletion, Started, Step, engine, bds, UInv, TInv, TypeOK
<1>2. /\ pc[u] \in {"index", "start", "prep", "init"}
      /\ pc'[u] \in {"wait", "start", "prep", "init", "submit"}
      /\ pc'[u] = "wait" <=> pc[u] = "index" /\ req[u].cmd = "FINISH_XFER"
      /\ pc'[u] = "start" <=> pc[u] = "index" /\ req[u].cmd # "FINISH_XFER"
      /\ pc'[u] = "prep" <=> pc[u] = "start"
      /\ pc'[u] = "init" <=> pc[u] = "prep"
      /\ pc'[u] = "submit" <=> pc[u] = "init"
  BY DEF CopyIndex, LoadIndex, PrepSlaveSg, InitCompletion, Started, Step, UInv, TInv, TypeOK
<1>3. OwnBuffer'
  <2>1. pc[u] = "index" => bdindex' = req[u].bd
    BY DEF CopyIndex, LoadIndex, PrepSlaveSg, InitCompletion, Step
  <2>2. pc[u] # "index" => bdindex' = bdindex
    BY DEF CopyIndex, LoadIndex, PrepSlaveSg, InitCompletion, Step
  <2>3. IF pc[u] = "start" THEN idx'[u] = bdindex ELSE idx' = idx
    BY DEF CopyIndex, LoadIndex, PrepSlaveSg, InitCompletion, Started, Step, UInv, TInv, TypeOK
  <2> QED
    BY <1>1, <1>2, <2>1, <2>2, <2>3 DEF UInv, OwnBuffer
<1>4. \A j \in Buffers : (Unfinished(j)' => Unfinished(j)) /\ (Unreported(j)' => Unreported(j))
  BY <1>1, <1>2 DEF Unfinished, Unreported
<1>5. Cookies'
  BY <1>1, <1>4 DEF UInv, Cookies
<1>6. \A j \in Buffers : done'[j] = done[j] \/ (done'[j] = 0 /\ ~ Unfinished(j)')
  <2>1. CASE InitCompletion(u)
    <3>1. done' = [done EXCEPT ![idx[u]] = 0] /\ pc[u] = "init" /\ pc'[u] = "submit"
      BY <1>2, <2>1 DEF InitCompletion, Step
    <3>2. idx[u] = req[u].bd /\ req[u].bd \notin outstanding
      BY <3>1 DEF UInv, OwnBuffer
    <3> QED
      BY <1>1, <3>1, <3>2 DEF Unfinished, UInv, TInv, TypeOK
  <2>2. CASE UNCHANGED done
    BY <2>2
  <2> QED
    BY <2>1, <2>2 DEF CopyIndex, LoadIndex, PrepSlaveSg, Started, Step, bds
<1>7. Completions'
  BY <1>1, <1>2, <1>4, <1>6 DEF UInv, Completions
<1>8. Grounds'
  BY <1>2 DEF Grounds
<1>9. Initialised'
  <2>1. pc[u] # "init" => initialised' = initialised
    BY DEF CopyIndex, LoadIndex, PrepSlaveSg, InitCompletion, Started, Step, bds
  <2>2. pc[u] = "init" => initialised' = initialised \cup {idx[u]} /\ idx' = idx
    BY DEF CopyIndex, LoadIndex, PrepSlaveSg, InitCompletion, Started, Step
  <2> QED
    BY <1>1, <1>2, <2>1, <2>2 DEF UInv, Initialised
<1> QED
  BY <1>3, <1>5, <1>7, <1>8, <1>9 DEF UInv

\* A transfer that was refused: nobody expects its completion.
LEMMA RefusedAlone ==
  ASSUME UInv, TInv', NEW u \in Users, Users = {u}, NEW from \in {"prep", "submit"},
         Started(u, from), UNCHANGED <<engine, bdindex, done, initialised>>,
         latest' = [latest EXCEPT ![req[u].bd] = SubmitError],
         \A j \in Buffers : j # req[u].bd => cookie'[j] = cookie[j]
  PROVE  UInv'
<1>1. /\ pc[u] = from /\ req[u].bd \in Buffers /\ req[u].cmd # "FINISH_XFER"
      /\ \/ pc'[u] = "wait" /\ UNCHANGED <<req, idx, outstanding>>
         \/ pc'[u] = "idle" /\ outstanding' = outstanding \cup {req[u].bd} /\ req'[u].bd = 0
  BY DEF Started, Step, Return, NoReq, UInv, TInv, TypeOK, Bounds
<1>2. OwnBuffer'
  BY <1>1 DEF UInv, OwnBuffer
<1>3. latest'[req[u].bd] = SubmitError /\ \A j \in Buffers : j # req[u].bd => latest'[j] = latest[j]
  BY <1>1 DEF UInv, TInv, TypeOK
<1>4. \A j \in Buffers : j # req[u].bd =>
        (Unfinished(j)' => Unfinished(j)) /\ (Unreported(j)' => Unreported(j))
  BY <1>1 DEF Unfinished, Unreported
<1>5. Cookies'
  BY <1>1, <1>3, <1>4 DEF UInv, Cookies, engine, SubmitError
<1>6. SubmitError \notin 1..called
  BY DEF SubmitError
<1>7. Completions'
  BY <1>1, <1>3, <1>4, <1>6 DEF UInv, Completions, engine
<1>8. Grounds'
  BY <1>1 DEF Grounds
<1>9. Initialised'
  BY <1>1, <1>3 DEF UInv, Initialised, SubmitError
<1> QED
  BY <1>2, <1>5, <1>7, <1>8, <1>9 DEF UInv

\* The submitted transfer has the next cookie, whose callback has not run.
LEMMA SubmitAlone ==
  ASSUME UInv, TInv', NEW u \in Users, Users = {u}, Submit(u)
  PROVE  UInv'
<1>1. pc[u] = "submit" /\ req[u].bd \in Buffers /\ idx[u] = req[u].bd /\ req[u].bd \notin outstanding
      /\ req[u].cmd # "FINISH_XFER"
  BY DEF Submit, Step, UInv, OwnBuffer, TInv, Bounds
<1>2. CASE /\ Step(u, "submit", "issue")
           /\ SubmitDesc(idx[u])
           /\ cookie' = [cookie EXCEPT ![idx[u]] = NextCookie]
           /\ latest' = [latest EXCEPT ![req[u].bd] = NextCookie]
           /\ UNCHANGED <<bdindex, done, initialised, status, req, idx, tx, outstanding>>
  <2> DEFINE b == req[u].bd
             n == Len(descs) + 1
  <2>1. /\ pc'[u] = "issue" /\ UNCHANGED <<issued, completed, failed, called>>
        /\ descs \in Seq(Buffers) /\ n \in Nat /\ called \in 0..Len(descs)
    BY <1>2 DEF Step, SubmitDesc, UInv, TInv, TypeOK, EngineTypeOK
  <2>2. descs'[n] = b /\ \A k \in 1..Len(descs) : descs'[k] = descs[k]
    BY <1>1, <1>2, <2>1 DEF SubmitDesc
  <2>3. /\ latest'[b] = n /\ cookie'[b] = n
        /\ \A j \in Buffers : j # b => latest'[j] = latest[j] /\ cookie'[j] = cookie[j]
    BY <1>1, <1>2 DEF NextCookie, UInv, TInv, TypeOK
  <2>4. \A j \in Buffers : j # b => (Unfinished(j)' => Unfinished(j)) /\ (Unreported(j)' => Unreported(j))
    BY <1>1, <1>2, <2>1 DEF Unfinished, Unreported
  <2>5. OwnBuffer'
    BY <1>1, <1>2, <2>1 DEF UInv, OwnBuffer
  <2>6. \A j \in Buffers : latest[j] \in Int /\ latest[j] <= Len(descs)
    BY <2>1 DEF UInv, TInv, TypeOK, Bounds, SubmitError
  <2>7. Cookies'
    BY <1>1, <2>1, <2>2, <2>3, <2>4, <2>6 DEF UInv, Cookies
  <2>8. Completions'
    <3>1. n \notin 1..called
      BY <2>1
    <3>2. \A j \in Buffers : done[j] > 0 => \E k \in 1..called : descs'[k] = j
      BY <2>1, <2>2 DEF UInv, Completions
    <3> QED
      BY <1>1, <1>2, <2>1, <2>3, <2>4, <3>1, <3>2 DEF UInv, Completions
  <2>9. Grounds' /\ Initialised'
    BY <1>1, <1>2, <2>1, <2>3 DEF UInv, Grounds, Initialised
  <2> QED
    BY <2>5, <2>7, <2>8, <2>9 DEF UInv
<1>3. CASE /\ Started(u, "submit")
           /\ cookie' = [cookie EXCEPT ![idx[u]] = SubmitError]
           /\ latest' = [latest EXCEPT ![req[u].bd] = SubmitError]
           /\ UNCHANGED <<engine, bdindex, done, initialised, status>>
  <2>1. \A j \in Buffers : j # req[u].bd => cookie'[j] = cookie[j]
    BY <1>1, <1>3 DEF UInv, TInv, TypeOK
  <2> QED
    BY <1>3, <2>1, RefusedAlone
<1> QED
  BY <1>2, <1>3 DEF Submit

\* Handing over the descriptors concerns no completion.
LEMMA IssueAlone ==
  ASSUME UInv, TInv', NEW u \in Users, Users = {u}, Issue(u)
  PROVE  UInv'
<1>1. /\ pc[u] = "issue" /\ req[u].bd \in Buffers /\ req[u].cmd # "FINISH_XFER"
      /\ UNCHANGED <<descs, completed, failed, called, bdindex, bds, latest>>
      /\ \/ pc'[u] = "wait" /\ UNCHANGED <<req, idx, outstanding>>
         \/ pc'[u] = "idle" /\ outstanding' = outstanding \cup {req[u].bd} /\ req'[u].bd = 0
  <2>1. pc[u] = "issue" /\ UNCHANGED <<descs, completed, failed, called, bdindex, bds, latest>>
    BY DEF Issue, IssuePending
  <2>2. req[u].bd \in Buffers /\ req[u].cmd # "FINISH_XFER"
    BY <2>1 DEF UInv, TInv, Bounds
  <2>3. \/ pc'[u] = "wait" /\ UNCHANGED <<req, idx, outstanding>>
        \/ pc'[u] = "idle" /\ outstanding' = outstanding \cup {req[u].bd} /\ req'[u].bd = 0
    BY DEF Issue, Started, Step, Return, NoReq, UInv, TInv, TypeOK
  <2> QED
    BY <2>1, <2>2, <2>3
<1>2. OwnBuffer'
  BY <1>1 DEF UInv, OwnBuffer
<1>3. \A j \in Buffers : (Unfinished(j)' => Unfinished(j)) /\ (Unreported(j)' => Unreported(j))
  BY <1>1 DEF Unfinished, Unreported
<1>4. Cookies' /\ Completions'
  BY <1>1, <1>3 DEF UInv, Cookies, Completions, bds
<1>5. Grounds' /\ Initialised'
  BY <1>1 DEF UInv, Grounds, Initialised, bds
<1> QED
  BY <1>2, <1>4, <1>5 DEF UInv

\* The wait reports on the transfer it slept for.
LEMMA WaitAlone ==
  ASSUME UInv, TInv', NEW u \in Users, Users = {u}, WaitForTransfer(u)
  PROVE  UInv'
<1>1. UNCHANGED <<descs, completed, failed, called, bdindex, cookie, initialised, latest, outstanding>>
  BY DEF WaitForTransfer, Wait, WaitUninitialised, BeginWait, WakeUp, TimeOut, CheckStatus, Report,
         engine, bds
<1>2. /\ req[u].bd \in Buffers /\ bdindex = req[u].bd /\ called \in 0..completed /\ completed \in Nat
      /\ pc[u] # "wait" => idx[u] = req[u].bd
      /\ req[u].bd \notin outstanding
      /\ latest[req[u].bd] # 0
  <2>1. pc[u] \in {"wait", "sleep", "check", "report"}
    BY DEF WaitForTransfer, Wait, WaitUninitialised, BeginWait, WakeUp, TimeOut, CheckStatus,
           Report, Step
  <2>2. called \in 0..completed /\ completed \in Nat
    BY DEF UInv, TInv, TypeOK, EngineTypeOK
  <2>3. req[u].bd \in Buffers
    BY <2>1 DEF UInv, TInv, Bounds
  <2>4. /\ bdindex = req[u].bd /\ req[u].bd \notin outstanding
        /\ pc[u] # "wait" => idx[u] = req[u].bd
    BY <2>1 DEF UInv, OwnBuffer
  <2>5. Unreported(req[u].bd)
    BY <2>1 DEF Unreported, Unfinished
  <2> QED
    BY <2>2, <2>3, <2>4, <2>5 DEF UInv, Cookies
<1>3. Initialised'
  <2>1. pc'[u] # "submit"
    BY DEF WaitForTransfer, Wait, WaitUninitialised, BeginWait, WakeUp, TimeOut, CheckStatus,
           Report, Step, UInv, TInv, TypeOK
  <2> QED
    BY <1>1, <2>1 DEF UInv, Initialised
<1>4. CASE Wait(u)
  <2>1. pc[u] = "wait" /\ pc'[u] = "sleep" /\ idx'[u] = bdindex /\ UNCHANGED <<done, req>>
    BY <1>4 DEF Wait, BeginWait, Step, UInv, TInv, TypeOK
  <2>2. \A j \in Buffers : (Unfinished(j)' => Unfinished(j)) /\ (Unreported(j)' => Unreported(j))
    BY <1>1, <2>1 DEF Unfinished, Unreported
  <2>3. OwnBuffer' /\ Cookies' /\ Completions'
    BY <1>1, <1>2, <2>1, <2>2 DEF UInv, OwnBuffer, Cookies, Completions
  <2> QED
    BY <1>3, <2>1, <2>3 DEF UInv, Grounds
<1>5. CASE WakeUp(u)
  <2>1. /\ pc[u] = "sleep" /\ pc'[u] = "check" /\ UNCHANGED <<req, idx>> /\ done[req[u].bd] > 0
        /\ \A j \in Buffers : done'[j] = IF j = req[u].bd THEN done[j] - 1 ELSE done[j]
    BY <1>2, <1>5 DEF WakeUp, Signalled, Step, UInv, TInv, TypeOK
  <2>2. \A j \in Buffers : /\ Unfinished(j)' => Unfinished(j) /\ j # req[u].bd
                           /\ Unreported(j)' => Unreported(j)
    BY <1>1, <1>2, <2>1 DEF Unfinished, Unreported
  <2>3. OwnBuffer'
    BY <1>1, <1>2, <2>1 DEF UInv, OwnBuffer
  <2>4. Cookies'
    BY <1>1, <2>2 DEF UInv, Cookies
  <2>5. Completions'
    <3>1. \A j \in Buffers : done[j] \in Int
      BY DEF UInv, TInv, TypeOK
    <3>2. \A j \in Buffers : done'[j] > 0 => \E k \in 1..called : descs[k] = j
      BY <2>1, <3>1 DEF UInv, Completions
    <3>3. \A j \in Buffers : Unfinished(j)' /\ latest[j] \in 1..called => done'[j] > 0
      BY <2>1, <2>2 DEF UInv, Completions
    <3>4. \E k \in 1..called : descs[k] = req[u].bd
      BY <1>2, <2>1 DEF UInv, Completions
    <3> QED
      BY <1>1, <2>1, <3>2, <3>3, <3>4 DEF Completions, Unfinished
  <2> QED
    BY <1>3, <2>1, <2>3, <2>4, <2>5 DEF UInv, Grounds
<1>6. CASE TimeOut(u) \/ CheckStatus(u)
  <2>1. /\ pc[u] \in {"sleep", "check"} /\ pc'[u] = "report" /\ UNCHANGED <<req, idx, done>>
        /\ pc[u] = "sleep" => tx'[u] = "timeout"
        /\ pc[u] = "check" => tx'[u] = TxStatus(u)
    BY <1>6 DEF TimeOut, CheckStatus, Step, bds, UInv, TInv, TypeOK
  <2>2. \A j \in Buffers : (Unfinished(j)' => Unfinished(j)) /\ (Unreported(j)' => Unreported(j))
    BY <1>1, <2>1 DEF Unfinished, Unreported
  <2>3. OwnBuffer' /\ Cookies' /\ Completions'
    BY <1>1, <1>2, <2>1, <2>2 DEF UInv, OwnBuffer, Cookies, Completions
  <2>4. latest[req[u].bd] # SubmitError => cookie[idx[u]] = latest[req[u].bd] /\ latest[req[u].bd] \in Nat
    BY <1>2, <2>1 DEF UInv, Cookies, TInv, TypeOK, SubmitError
  <2>5. Grounds'
    <3>1. pc[u] = "check" => \E k \in 1..called : descs[k] = req[u].bd
      BY DEF UInv, Completions
    <3>2. called <= Len(descs) /\ Len(descs) \in Nat
      BY LenBound DEF UInv, TInv, TypeOK, EngineTypeOK
    <3> QED
      BY <1>1, <1>2, <2>1, <2>4, <3>1, <3>2 DEF Grounds, Accepted, TxStatus, IsTxComplete
  <2> QED
    BY <1>3, <2>3, <2>5 DEF UInv
<1>7. CASE Report(u)
  <2>1. pc[u] = "report" /\ pc'[u] = "idle" /\ UNCHANGED done
    BY <1>7 DEF Report, Step, bds, UInv, TInv, TypeOK
  <2>2. \A j \in Buffers : (Unfinished(j)' => Unfinished(j)) /\ (Unreported(j)' => Unreported(j))
    BY <1>1, <2>1 DEF Unfinished, Unreported
  <2>3. OwnBuffer' /\ Cookies' /\ Completions'
    BY <1>1, <2>1, <2>2 DEF UInv, OwnBuffer, Cookies, Completions
  <2> QED
    BY <1>3, <2>1, <2>3 DEF UInv, Grounds
<1>8. CASE WaitUninitialised(u)
  <2>1. /\ pc[u] = "wait" /\ pc'[u] \in {"lost", "report"} /\ idx'[u] = bdindex
        /\ bdindex \notin initialised /\ UNCHANGED <<done, req>>
    BY <1>8 DEF WaitUninitialised, BeginWait, Step, UInv, TInv, TypeOK
  <2>2. \A j \in Buffers : (Unfinished(j)' => Unfinished(j)) /\ (Unreported(j)' => Unreported(j))
    BY <1>1, <2>1 DEF Unfinished, Unreported
  <2>3. OwnBuffer' /\ Cookies' /\ Completions'
    BY <1>1, <1>2, <2>1, <2>2 DEF UInv, OwnBuffer, Cookies, Completions
  <2>4. ~ Accepted(u)'
    <3>1. latest[req[u].bd] \in SubmitError..MaxCookie /\ ~ latest[req[u].bd] > 0
      BY <1>2, <2>1 DEF UInv, Initialised, TInv, TypeOK
    <3>2. latest[req[u].bd] = SubmitError
      BY <1>2, <3>1, DmaProxyAssumption DEF SubmitError
    <3> QED
      BY <1>1, <2>1, <3>2 DEF Accepted
  <2> QED
    BY <1>3, <2>1, <2>3, <2>4 DEF UInv, Grounds
<1> QED
  BY <1>4, <1>5, <1>6, <1>7, <1>8 DEF WaitForTransfer

\* A callback completes the buffer of its descriptor; completing a transfer
\* makes nothing that was reported false.
LEMMA EngineAlone ==
  ASSUME UInv, TInv', Complete \/ SyncCallback
  PROVE  UInv'
<1>1. UNCHANGED <<descs, issued, bdindex, cookie, initialised, threads, outstanding, latest>>
  BY DEF Complete, SyncCallback, CompleteTransfer, FailTransfer, EndTransfer, RunCallback, bds
<1>2. /\ Len(descs) \in Nat /\ issued \in 0..Len(descs) /\ completed \in 0..issued
      /\ called \in 0..completed /\ descs \in Seq(Buffers)
  BY DEF UInv, TInv, TypeOK, EngineTypeOK
<1>3. completed <= completed' /\ completed' \in Nat /\ called' \in Nat
      /\ 1..called \subseteq 1..called' /\ 1..completed \subseteq 1..completed'
      /\ failed \subseteq failed' /\ (1..completed) \ failed \subseteq (1..completed') \ failed'
  <2>1. completed' = completed \/ completed' = completed + 1
    BY DEF Complete, SyncCallback, CompleteTransfer, FailTransfer, EndTransfer, RunCallback
  <2>2. failed' = failed \/ (failed' = failed \cup {completed'} /\ completed' = completed + 1)
    BY DEF Complete, SyncCallback, CompleteTransfer, FailTransfer, EndTransfer, RunCallback
  <2>3. called' = called \/ called' = called + 1
    BY DEF Complete, SyncCallback, CompleteTransfer, FailTransfer, EndTransfer, RunCallback
  <2> QED
    BY <1>2, <2>1, <2>2, <2>3
<1>4. OwnBuffer' /\ Cookies' /\ Initialised'
  BY <1>1 DEF UInv, OwnBuffer, Initialised, Cookies, Unreported, Unfinished, threads
<1>5. Grounds'
  BY <1>1, <1>3 DEF UInv, Grounds, Accepted, threads
<1>6. Completions'
  <2>1. CASE SyncCallback
    <3>1. called' = called + 1 /\ called + 1 \in 1..Len(descs)
          /\ done' = [done EXCEPT ![descs[called + 1]] = @ + 1]
      BY <1>2, <2>1 DEF SyncCallback, RunCallback
    <3>2. \A j \in Buffers : done[j] \in Nat
                               /\ done'[j] = IF j = descs[called + 1] THEN done[j] + 1 ELSE done[j]
      BY <3>1 DEF UInv, TInv, TypeOK
    <3>3. \A j \in Buffers : done'[j] > 0 => \E k \in 1..called' : descs[k] = j
      BY <1>2, <3>1, <3>2 DEF UInv, Completions
    <3>4. \A j \in Buffers : Unfinished(j) /\ latest[j] \in 1..called' => done'[j] > 0
      <4>1. \A j \in Buffers : latest[j] = called + 1 => descs[called + 1] = j
        BY <1>2 DEF UInv, Cookies
      <4>2. \A j \in Buffers : latest[j] \in 1..called' => latest[j] = called + 1 \/ latest[j] \in 1..called
        BY <1>2, <3>1
      <4> QED
        BY <3>2, <4>1, <4>2 DEF UInv, Completions
    <3>5. \A v \in Users : pc[v] = "check" => \E k \in 1..called' : descs[k] = req[v].bd
      BY <1>3 DEF UInv, Completions
    <3> QED
      BY <1>1, <3>3, <3>4, <3>5 DEF Completions, Unfinished, threads
  <2>2. CASE Complete
    BY <1>1, <2>2 DEF Complete, CompleteTransfer, FailTransfer, EndTransfer, bds, threads, UInv, Completions, Unfinished
  <2> QED
    BY <2>1, <2>2
<1> QED
  BY <1>4, <1>5, <1>6 DEF UInv

\* Every step of a single thread and of the engine keeps its invariant.
LEMMA NextUInv == UInv /\ OneUser /\ [Next]_vars => UInv'
<1> SUFFICES ASSUME UInv, OneUser, [Next]_vars
             PROVE  UInv'
  OBVIOUS
<1>1. TInv'
  BY NextTInv DEF UInv
<1>2. PICK u \in Users : Users = {u}
  BY DEF OneUser
<1>3. CASE Ioctl(u)
  BY <1>1, <1>2, <1>3, IoctlAlone
<1>4. CASE StartTransfer(u) \/ CopyIndex(u)
  <2>1. CASE Started(u, "prep") /\ latest' = [latest EXCEPT ![req[u].bd] = SubmitError]
             /\ UNCHANGED <<engine, bdindex, bds>>
    BY <1>1, <1>2, <2>1, RefusedAlone DEF bds
  <2> QED
    BY <1>1, <1>2, <1>4, <2>1, BeforeSubmitAlone, SubmitAlone, IssueAlone
    DEF StartTransfer, PrepSlaveSg
<1>5. CASE WaitForTransfer(u)
  BY <1>1, <1>2, <1>5, WaitAlone
<1>6. CASE UNCHANGED vars
  BY <1>1, <1>6
  DEF vars, engine, bds, threads, UInv, OwnBuffer, Cookies, Completions, Unfinished, Unreported,
      Grounds, Accepted, Initialised
<1> QED
  BY <1>1, <1>2, <1>3, <1>4, <1>5, <1>6, EngineAlone DEF Next, Proceed

\* It holds when the channel is opened.
LEMMA InitUInv == Init => UInv
<1> SUFFICES ASSUME Init
             PROVE  UInv
  OBVIOUS
<1>1. TInv
  BY InitTInv
<1> QED
  BY <1>1
  DEF Init, EngineInit, UInv, OwnBuffer, Cookies, Completions, Unfinished, Unreported,
      Grounds, Initialised

\* The reasons are those of the two reports.
LEMMA GroundsMean == UInv => NoErrorMeansTransferred /\ ErrorHasCause
<1> SUFFICES ASSUME UInv
             PROVE  NoErrorMeansTransferred /\ ErrorHasCause
  OBVIOUS
<1>1. ASSUME NEW u \in Users
      PROVE  /\ Result(u) = "PROXY_NO_ERROR" => tx[u] = "DMA_COMPLETE"
             /\ Result(u) = "PROXY_ERROR" => tx[u] \in {"DMA_IN_PROGRESS", "DMA_ERROR"}
  BY <1>1 DEF Result, UInv, TInv, TypeOK, TxStatuses
<1> QED
  BY <1>1 DEF UInv, Grounds, NoErrorMeansTransferred, ErrorHasCause, Reports

\* A thread that has the channel for itself is told PROXY_NO_ERROR of an
\* accepted transfer only when that very transfer is complete and did not fail,
\* however late the callbacks of those it gave up come (dma-proxy.c:229-253).
THEOREM NoErrorIsTransferred == OneUser => (Spec => []NoErrorMeansTransferred)
<1> SUFFICES ASSUME OneUser
             PROVE  Spec => []NoErrorMeansTransferred
  OBVIOUS
<1>1. UInv => NoErrorMeansTransferred
  BY GroundsMean
<1>2. UInv /\ [Next]_vars => UInv'
  BY NextUInv
<1> QED
  BY <1>1, <1>2, InitUInv, PTL DEF Spec

\* It is told PROXY_ERROR of an accepted transfer only when that very transfer
\* failed, or the callback of an earlier transfer of the same buffer has run,
\* which woke it (dma-proxy.c:241-252).
THEOREM ErrorsHaveCause == OneUser => (Spec => []ErrorHasCause)
<1> SUFFICES ASSUME OneUser
             PROVE  Spec => []ErrorHasCause
  OBVIOUS
<1>1. UInv => ErrorHasCause
  BY GroundsMean
<1>2. UInv /\ [Next]_vars => UInv'
  BY NextUInv
<1> QED
  BY <1>1, <1>2, InitUInv, PTL DEF Spec

\* A wait that times out finds the callback of its transfer not run.
LEMMA TimeOutStep ==
  ASSUME UInv, OneUser, [Next]_vars, NEW u \in Users, pc[u] = "sleep", pc'[u] = "report",
         Accepted(u)
  PROVE  called < latest[req[u].bd]
<1>1. Users = {u} /\ idx[u] = req[u].bd /\ req[u].bd \in Buffers
  BY DEF OneUser, UInv, OwnBuffer, TInv, Bounds
<1>2. TimeOut(u)
  BY <1>1 DEF Next, Complete, SyncCallback, threads, vars, Ioctl, Proceed, CopyIndex, StartTransfer,
              LoadIndex, PrepSlaveSg, InitCompletion, Submit, Issue, Started, WaitForTransfer, Wait,
              WaitUninitialised, BeginWait, WakeUp, CheckStatus, Report, Step, UInv, TInv, TypeOK
<1>3. done[req[u].bd] = 0
  BY <1>1, <1>2 DEF TimeOut, TimesOut
<1>4. Unfinished(req[u].bd) /\ Unreported(req[u].bd)
  BY DEF Unfinished, Unreported
<1>5. latest[req[u].bd] \notin 1..called /\ latest[req[u].bd] # 0
  BY <1>1, <1>3, <1>4 DEF UInv, Completions, Cookies
<1>6. latest[req[u].bd] \in Nat /\ called \in Nat
  BY <1>1 DEF Accepted, UInv, TInv, TypeOK, EngineTypeOK, SubmitError
<1> QED
  BY <1>5, <1>6

\* It never waits three seconds in vain: a time-out of an accepted transfer
\* means that its callback has not run (dma-proxy.c:207-245).
THEOREM CompletionIsNotLost == OneUser => (Spec => NoLostCompletion)
<1> SUFFICES ASSUME OneUser
             PROVE  Spec => NoLostCompletion
  OBVIOUS
<1>1. UInv /\ [Next]_vars => UInv'
  BY NextUInv
<1>2. UInv /\ [Next]_vars =>
        [\A u \in Users : pc[u] = "sleep" /\ pc'[u] = "report" /\ Accepted(u) =>
           called < latest[req[u].bd]]_vars
  BY TimeOutStep
<1> QED
  BY <1>1, <1>2, InitUInv, PTL DEF Spec, NoLostCompletion
=============================================================================
