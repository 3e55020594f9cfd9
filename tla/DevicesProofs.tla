----------------------------- MODULE DevicesProofs ------------------------------
(***************************************************************************)
(* Proofs about Devices.tla, for every set of nodes and every number of    *)
(* channels: whatever probes fail and in whatever order the modules come   *)
(* and go, each device is its instance's, the class of dma-proxy is there  *)
(* as long as a device is in it, an unloaded module leaves nothing behind  *)
(* and kswfloppy holds a mux that is alive.  The invariant has a part for  *)
(* each driver and a part for what the loader guarantees it; a step of one *)
(* driver does not touch those of the others.                              *)
(***************************************************************************)
EXTENDS Devices, FiniteSetTheorems, TLAPS

\* What is in a sequence, and that nothing is in it twice.
Elements(s) == {s[i] : i \in DOMAIN s}
Distinct(s) == \A i, j \in 1..Len(s) : s[i] = s[j] => i = j

\* The minors with a device.
UsedMux == {m \in MuxMinors : mux_devices[m] # "none"}
UsedPulsecap == {m \in PulsecapMinors : pulsecap_devices[m] # "none"}

\* A device and its instance know each other; there are as many of both, and the
\* count of instances is no less.
MuxInv ==
  /\ MuxTypeOK
  /\ Len(mux_bound) <= available_instances
  /\ Distinct(mux_bound)
  /\ \A n \in MuxBound : mux_devices[instance_number[n]] = n
  /\ \A m \in MuxMinors : mux_devices[m] # "none" =>
       mux_devices[m] \in MuxBound /\ instance_number[mux_devices[m]] = m
  /\ IsFiniteSet(UsedMux) /\ Cardinality(UsedMux) = Len(mux_bound)

\* The instances have the first minors, in the order they were bound in, so that
\* the last minor is that of the instance that is removed next.
PulsecapInv ==
  /\ PulsecapTypeOK
  /\ instance_count = Len(pulsecap_bound)
  /\ \A i \in 1..Len(pulsecap_bound) : pulsecap_devices[i - 1] = pulsecap_bound[i]
  /\ \A m \in PulsecapMinors : pulsecap_devices[m] # "none" => m < Len(pulsecap_bound)
  /\ Distinct(pulsecap_bound)
  /\ IsFiniteSet(PulsecapBound) /\ Cardinality(PulsecapBound) = Len(pulsecap_bound)
  /\ IsFiniteSet(UsedPulsecap) /\ Cardinality(UsedPulsecap) = Len(pulsecap_bound)

\* A channel is up, and counted: its node is bound, or the channel was created
\* already, or not yet removed.
IsUp(n, i) ==
  \/ n \in proxy_bound
  \/ task.at = "create" /\ n = task.node /\ i < task.i
  \/ task.at = "remove" /\ n = task.node /\ i >= task.i
Up == {c \in Channels : IsUp(c[1], c[2])}

\* A remove keeps the DMA channels of the node to the end.
IsHeld(n, i) == IsUp(n, i) \/ (task.at = "remove" /\ n = task.node)
Held == {c \in Channels : IsHeld(c[1], c[2])}

\* A probe or remove in progress, of a node that is not bound.
TaskOK ==
  \/ task = Idle
  \/ \E n \in Proxies : \E i \in 0..ChannelCount[n] :
       task \in {At("create", n, i), At("remove", n, i)} /\ n \notin proxy_bound

\* What is not held by a node was abandoned by a failed probe, and total_count
\* counts every channel that is up.
ChannelInv ==
  /\ total_count \in Nat /\ proxy_bound \subseteq Proxies /\ TaskOK
  /\ dma_channels = Held \cup abandoned /\ abandoned \cap Held = {}
  /\ abandoned \subseteq Channels
  /\ cdevs = proxy_devices /\ proxy_devices \subseteq Up \cup abandoned
  /\ IsFiniteSet(Up) /\ Cardinality(Up) <= total_count

\* A live class has at least as many devices as are counted, and until something is
\* spoilt no more than that; then it is live as long as there is a device.
ClassInv ==
  /\ local_class \in {"none", "class", "error"}
  /\ class_live \in BOOLEAN /\ undefined \in BOOLEAN /\ spoilt \in BOOLEAN
  /\ IsFiniteSet(proxy_devices)
  /\ local_class = "none" => total_count = 0
  /\ local_class # "class" => Up \cap proxy_devices = {}
  /\ class_live => proxy_devices # {}
  /\ class_live /\ local_class = "class" => total_count <= Cardinality(proxy_devices)
  /\ ~spoilt /\ local_class = "class" => Cardinality(proxy_devices) <= total_count
  /\ ~spoilt /\ proxy_devices # {} => class_live

ProxyInv == ChannelInv /\ ClassInv

\* The loader.
WorkRecord ==
  [at : {"rest", "load", "unload"}, module : Modules \cup {"none"},
   todo : SUBSET (Muxes \cup Pulsecaps \cup Proxies \cup {"floppy"})]

Loading(mod) == work.at = "load" /\ work.module = mod

\* The loader works on a module that is in the kernel.
LoaderInv ==
  /\ loaded \subseteq Modules /\ work \in WorkRecord
  /\ IF work.at = "rest" THEN work = Resting ELSE work.module \in loaded

\* A node is probed at most once, and no probe of aximux goes unnoticed.
MuxLoader ==
  /\ "aximux" \notin loaded => mux_bound = <<>>
  /\ Loading("aximux") => work.todo \subseteq Muxes \ MuxBound
  /\ "aximux" \in loaded =>
       \A n \in Muxes : \/ n \in MuxBound \cup mux_refused
                        \/ work.module = "aximux" /\ (work.at = "load" => n \in work.todo)

PulsecapLoader ==
  /\ "pulsecap" \notin loaded => pulsecap_bound = <<>> /\ ~pulsecap_region
  /\ Loading("pulsecap") => work.todo \subseteq Pulsecaps \ PulsecapBound

\* What runs is of the module the loader works on, or by hand.
ProxyLoader ==
  /\ "dma_proxy" \notin loaded => proxy_bound = {} /\ task = Idle
  /\ task = Idle \/ work.at = "rest" \/ work.module = "dma_proxy"
  /\ Loading("dma_proxy") =>
       /\ work.todo \subseteq Proxies \ proxy_bound
       /\ task = Idle \/ (task.at = "create" /\ task.node \notin work.todo)

\* While kswfloppy is in the kernel aximux stays, and is not being unloaded.
FloppyLoader ==
  /\ "kswfloppy" \notin loaded => mux_inst = "none"
  /\ "kswfloppy" \in loaded => "aximux" \in loaded /\ work.module # "aximux"
  /\ mux_inst \in Muxes \cup {"none"} /\ (mux_inst # "none" => mux_inst \in mux_data)

\* The inductive invariant.
Inv ==
  /\ LoaderInv
  /\ MuxInv /\ MuxLoader /\ PulsecapInv /\ PulsecapLoader
  /\ ProxyInv /\ ProxyLoader /\ FloppyLoader
-----------------------------------------------------------------------------
(* The sequences of bound nodes.                                           *)

\* Append adds a node that was not there.
LEMMA OneMore ==
  ASSUME NEW S, NEW s \in Seq(S), NEW n \in S, n \notin Elements(s), Distinct(s)
  PROVE  /\ Append(s, n) \in Seq(S) /\ Len(Append(s, n)) = Len(s) + 1
         /\ \A i \in 1..Len(s) : Append(s, n)[i] = s[i]
         /\ Append(s, n)[Len(s) + 1] = n
         /\ Elements(Append(s, n)) = Elements(s) \cup {n}
         /\ Distinct(Append(s, n))
<1> DEFINE t == Append(s, n)
<1>1. /\ t \in Seq(S) /\ Len(t) = Len(s) + 1 /\ Len(s) \in Nat
      /\ \A i \in 1..Len(s) : t[i] = s[i]
      /\ t[Len(s) + 1] = n /\ DOMAIN t = 1..(Len(s) + 1) /\ DOMAIN s = 1..Len(s)
  OBVIOUS
<1>2. Elements(t) = Elements(s) \cup {n}
  BY <1>1 DEF Elements
<1>3. Distinct(t)
  BY <1>1 DEF Distinct, Elements
<1> QED
  BY <1>1, <1>2, <1>3

\* Without its last element a sequence of distinct nodes has all the others.
LEMMA OneLess ==
  ASSUME NEW S, NEW s \in Seq(S), s # <<>>, Distinct(s)
  PROVE  LET t == SubSeq(s, 1, Len(s) - 1) IN
         /\ t \in Seq(S) /\ Len(t) = Len(s) - 1
         /\ Len(s) \in 1..Len(s) /\ s[Len(s)] \in S
         /\ \A i \in 1..(Len(s) - 1) : t[i] = s[i]
         /\ Elements(t) = Elements(s) \ {s[Len(s)]}
         /\ Distinct(t)
<1> DEFINE t == SubSeq(s, 1, Len(s) - 1)
<1>0. Len(s) \in Nat \ {0} /\ DOMAIN s = 1..Len(s) /\ \A i \in 1..Len(s) : s[i] \in S
  OBVIOUS
<1>1. /\ t \in Seq(S) /\ Len(t) = Len(s) - 1
      /\ \A i \in 1..(Len(s) - 1) : t[i] = s[i]
      /\ DOMAIN t = 1..(Len(s) - 1)
  BY <1>0
<1>2. Elements(t) = Elements(s) \ {s[Len(s)]}
  <2>1. \A i \in 1..(Len(s) - 1) : s[i] # s[Len(s)]
    BY <1>0 DEF Distinct
  <2>2. 1..Len(s) = 1..(Len(s) - 1) \cup {Len(s)}
    BY <1>0
  <2>3. \A e : e \in Elements(t) <=> \E i \in 1..(Len(s) - 1) : e = s[i]
    BY <1>1 DEF Elements
  <2>4. \A e : e \in Elements(s) <=> e = s[Len(s)] \/ \E i \in 1..(Len(s) - 1) : e = s[i]
    BY <1>0, <2>2 DEF Elements
  <2> QED
    BY <2>1, <2>3, <2>4
<1>3. Distinct(t)
  BY <1>0, <1>1 DEF Distinct
<1> QED
  BY <1>0, <1>1, <1>2, <1>3
-----------------------------------------------------------------------------
(* aximux.c keeps its invariant.                                           *)

\* Before aximux is loaded.
LEMMA MuxStart == MuxInit => MuxInv
<1> SUFFICES ASSUME MuxInit PROVE MuxInv
  OBVIOUS
<1> USE AximuxDevicesAssumption DEF MuxInit
<1>1. MuxTypeOK
  <2>1. 0 \in MuxMinors /\ available_instances \in 0..AXIMUX_MAX_INSTANCES
    BY DEF MuxMinors
  <2>2. mux_bound \in Seq(Muxes)
    OBVIOUS
  <2>3. instance_number \in [Muxes -> MuxMinors]
    BY <2>1
  <2>4. mux_devices \in [MuxMinors -> Muxes \cup {"none"}]
    OBVIOUS
  <2> QED
    BY <2>1, <2>2, <2>3, <2>4 DEF MuxTypeOK
<1>2. UsedMux = {} /\ MuxBound = {}
  BY DEF UsedMux, MuxBound
<1> QED
  BY <1>1, <1>2, FS_EmptySet DEF MuxInv, Distinct

\* aximux_init resets the count when no instance is bound.
LEMMA MuxLoad == MuxInv /\ mux_bound = <<>> /\ aximux_init => MuxInv'
<1> SUFFICES ASSUME MuxInv, mux_bound = <<>>, aximux_init PROVE MuxInv'
  OBVIOUS
<1> USE AximuxDevicesAssumption DEF aximux_init
<1>1. MuxTypeOK'
  BY DEF MuxInv, MuxTypeOK
<1>2. UsedMux' = UsedMux /\ MuxBound' = MuxBound
  BY DEF UsedMux, MuxBound
<1> QED
  BY <1>1, <1>2 DEF MuxInv, Distinct

\* A probe of a node that is not bound takes a minor without a device, or fails and
\* notes it.
LEMMA MuxProbe ==
  ASSUME MuxInv, NEW n \in Muxes, n \notin MuxBound, aximux_probe(n)
  PROVE  MuxInv' /\ MuxBound' \in {MuxBound, MuxBound \cup {n}}
         /\ n \in MuxBound' \cup mux_refused' /\ mux_refused \ {n} \subseteq mux_refused'
         /\ mux_data \subseteq mux_data'
<1> USE AximuxDevicesAssumption
<1>1. CASE Refused(n) /\ available_instances' \in available_instances..AXIMUX_MAX_INSTANCES
  <2>1. MuxTypeOK'
    BY <1>1 DEF MuxInv, MuxTypeOK, Refused
  <2>2. UsedMux' = UsedMux /\ MuxBound' = MuxBound
    BY <1>1 DEF UsedMux, MuxBound, Refused
  <2>3. MuxInv'
    BY <1>1, <2>1, <2>2 DEF MuxInv, MuxTypeOK, Refused
  <2> QED
    BY <1>1, <2>2, <2>3 DEF Refused
<1>2. CASE
      /\ available_instances < AXIMUX_MAX_INSTANCES
      /\ mux_devices[available_instances] = "none"
      /\ instance_number' = [instance_number EXCEPT ![n] = available_instances]
      /\ available_instances' = available_instances + 1
      /\ mux_devices' = [mux_devices EXCEPT ![available_instances] = n]
      /\ mux_bound' = Append(mux_bound, n)
      /\ mux_data' = mux_data \cup {n}
      /\ mux_refused' = mux_refused \ {n}
      /\ UNCHANGED mux_region
  <2> DEFINE a == available_instances
  <2>0. a \in MuxMinors
    BY <1>2 DEF MuxInv, MuxTypeOK, MuxMinors
  <2>1. /\ mux_bound' \in Seq(Muxes) /\ Len(mux_bound') = Len(mux_bound) + 1
        /\ MuxBound' = MuxBound \cup {n} /\ Distinct(mux_bound)'
    <3>1. mux_bound \in Seq(Muxes) /\ Distinct(mux_bound) /\ mux_bound' = Append(mux_bound, n)
      BY <1>2 DEF MuxInv, MuxTypeOK
    <3>2. n \in Muxes /\ n \notin Elements(mux_bound)
      BY DEF MuxBound, Elements
    <3>3. MuxBound' = Elements(mux_bound') /\ (Distinct(mux_bound)' <=> Distinct(mux_bound'))
      BY DEF MuxBound, Elements, Distinct
    <3> QED
      BY <3>1, <3>2, <3>3, OneMore DEF MuxBound
  <2>2. MuxTypeOK'
    BY <1>2, <2>0, <2>1 DEF MuxInv, MuxTypeOK
  <2>3. Len(mux_bound') <= available_instances'
    BY <1>2, <2>1 DEF MuxInv, MuxTypeOK
  <2>4. \A k \in MuxBound : k \in Muxes /\ k # n /\ instance_number[k] # a
    BY <1>2 DEF MuxInv, MuxTypeOK, MuxBound
  <2>5. /\ instance_number'[n] = a /\ mux_devices'[a] = n
        /\ \A k \in Muxes : k # n => instance_number'[k] = instance_number[k]
        /\ \A m \in MuxMinors : m # a => mux_devices'[m] = mux_devices[m]
    BY <1>2, <2>0 DEF MuxInv, MuxTypeOK
  <2>6. (\A k \in MuxBound : mux_devices[instance_number[k]] = k)'
    <3> SUFFICES ASSUME NEW k \in MuxBound' PROVE mux_devices'[instance_number'[k]] = k
      OBVIOUS
    <3>1. CASE k = n
      BY <2>5, <3>1
    <3>2. CASE k # n
      <4>1. k \in MuxBound /\ instance_number[k] \in MuxMinors
        BY <2>1, <2>4, <3>2 DEF MuxInv, MuxTypeOK
      <4> QED
        BY <2>4, <2>5, <4>1 DEF MuxInv
    <3> QED
      BY <3>1, <3>2
  <2>7. (\A m \in MuxMinors : mux_devices[m] # "none" =>
           mux_devices[m] \in MuxBound /\ instance_number[mux_devices[m]] = m)'
    <3> SUFFICES ASSUME NEW m \in MuxMinors, mux_devices'[m] # "none"
                 PROVE  mux_devices'[m] \in MuxBound' /\ instance_number'[mux_devices'[m]] = m
      BY DEF MuxMinors
    <3>1. CASE m = a
      BY <2>1, <2>5, <3>1
    <3>2. CASE m # a
      BY <2>1, <2>4, <2>5, <3>2 DEF MuxInv
    <3> QED
      BY <3>1, <3>2
  <2>8. UsedMux' = UsedMux \cup {a} /\ a \notin UsedMux
    BY <1>2, <2>0, <2>5 DEF UsedMux, MuxMinors
  <2>9. (IsFiniteSet(UsedMux) /\ Cardinality(UsedMux) = Len(mux_bound))'
    BY <2>1, <2>8, FS_AddElement DEF MuxInv
  <2>10. MuxInv'
    BY <2>1, <2>2, <2>3, <2>6, <2>7, <2>9 DEF MuxInv
  <2> QED
    BY <1>2, <2>1, <2>10
<1> QED
  BY <1>1, <1>2 DEF aximux_probe, MuxInv, MuxTypeOK

\* A remove takes the device of its own instance.
LEMMA MuxRemove ==
  ASSUME MuxInv, mux_bound # <<>>, aximux_remove(mux_bound[Len(mux_bound)])
  PROVE  /\ MuxInv' /\ MuxBound' \subseteq MuxBound
         /\ mux_refused' = mux_refused /\ mux_data' = mux_data
<1> DEFINE n == mux_bound[Len(mux_bound)]
           a == instance_number[n]
<1>1. /\ mux_bound' \in Seq(Muxes) /\ Len(mux_bound') = Len(mux_bound) - 1
      /\ MuxBound' = MuxBound \ {n} /\ Distinct(mux_bound)'
      /\ Len(mux_bound) \in 1..Len(mux_bound) /\ n \in Muxes
  <2>1. mux_bound \in Seq(Muxes) /\ Distinct(mux_bound) /\ MuxBound = Elements(mux_bound)
    BY DEF MuxInv, MuxTypeOK, MuxBound, Elements
  <2>2. mux_bound' = SubSeq(mux_bound, 1, Len(mux_bound) - 1) /\ MuxBound' = Elements(mux_bound')
    BY DEF MuxBound, Elements, aximux_remove
  <2>3. Distinct(mux_bound)' <=> Distinct(mux_bound')
    BY DEF Distinct
  <2> QED
    BY <2>1, <2>2, <2>3, OneLess
<1>2. n \in MuxBound /\ a \in MuxMinors /\ mux_devices[a] = n
  <2>1. n \in MuxBound
    <3>1. mux_bound \in Seq(Muxes) /\ DOMAIN mux_bound = 1..Len(mux_bound)
      BY DEF MuxInv, MuxTypeOK
    <3> QED
      BY <1>1, <3>1 DEF MuxBound
  <2> QED
    BY <1>1, <2>1 DEF MuxInv, MuxTypeOK
<1>3. available_instances' \in 0..AXIMUX_MAX_INSTANCES /\ Len(mux_bound') <= available_instances'
  <2>1. Len(mux_bound) \in Nat \ {0} /\ AXIMUX_MAX_INSTANCES \in Nat
    BY <1>1, AximuxDevicesAssumption DEF MuxInv, MuxTypeOK
  <2> QED
    BY <1>1, <2>1 DEF MuxInv, MuxTypeOK, aximux_remove
<1>4. /\ MuxTypeOK' /\ \A k \in Muxes : k # n => instance_number'[k] = instance_number[k]
  <2>1. 0 \in MuxMinors /\ instance_number \in [Muxes -> MuxMinors]
    BY <1>2, AximuxDevicesAssumption DEF MuxInv, MuxTypeOK, MuxMinors
  <2>2. instance_number' = [instance_number EXCEPT ![n] = 0]
    BY DEF aximux_remove
  <2>3. instance_number' \in [Muxes -> MuxMinors]
    BY <2>1, <2>2
  <2> QED
    BY <1>1, <1>3, <2>1, <2>2, <2>3 DEF MuxInv, MuxTypeOK, aximux_remove
<1>5. /\ mux_devices'[a] = "none"
      /\ \A m \in MuxMinors : m # a => mux_devices'[m] = mux_devices[m]
  BY <1>2 DEF MuxInv, MuxTypeOK, aximux_remove
<1>6. (\A k \in MuxBound : mux_devices[instance_number[k]] = k)'
  <2> SUFFICES ASSUME NEW k \in MuxBound' PROVE mux_devices'[instance_number'[k]] = k
    OBVIOUS
  <2>0. \A e \in MuxBound : e \in Muxes
    BY DEF MuxInv, MuxTypeOK, MuxBound
  <2>1. k \in MuxBound /\ k # n /\ mux_devices[instance_number[k]] = k /\ k \in Muxes
    BY <1>1, <2>0 DEF MuxInv
  <2>2. instance_number[k] # a /\ instance_number[k] \in MuxMinors
    BY <2>1, <1>2 DEF MuxInv, MuxTypeOK
  <2> QED
    BY <2>1, <2>2, <1>4, <1>5
<1>7. (\A m \in MuxMinors : mux_devices[m] # "none" =>
         mux_devices[m] \in MuxBound /\ instance_number[mux_devices[m]] = m)'
  <2> SUFFICES ASSUME NEW m \in MuxMinors, mux_devices'[m] # "none"
               PROVE  mux_devices'[m] \in MuxBound' /\ instance_number'[mux_devices'[m]] = m
    BY DEF MuxMinors
  <2>0. \A e \in MuxBound : e \in Muxes
    BY DEF MuxInv, MuxTypeOK, MuxBound
  <2>1. m # a /\ mux_devices'[m] = mux_devices[m]
    BY <1>5
  <2>2. mux_devices[m] \in MuxBound /\ instance_number[mux_devices[m]] = m /\ mux_devices[m] # n
    BY <2>1 DEF MuxInv
  <2> QED
    BY <1>1, <1>4, <2>0, <2>1, <2>2
<1>8. UsedMux' = UsedMux \ {a} /\ a \in UsedMux
  <2>1. n # "none"
    BY <1>1, AximuxDevicesAssumption
  <2> QED
    BY <1>2, <1>5, <2>1 DEF UsedMux, MuxMinors
<1>9. (IsFiniteSet(UsedMux) /\ Cardinality(UsedMux) = Len(mux_bound))'
  BY <1>1, <1>8, FS_RemoveElement DEF MuxInv
<1>10. MuxInv'
  BY <1>1, <1>3, <1>4, <1>6, <1>7, <1>9 DEF MuxInv
<1> QED
  BY <1>1, <1>10 DEF aximux_remove

\* aximux_exit changes the region only.
LEMMA MuxExit == MuxInv /\ aximux_exit => MuxInv'
<1> SUFFICES ASSUME MuxInv, aximux_exit PROVE MuxInv'
  OBVIOUS
<1>1. MuxTypeOK'
  BY DEF MuxInv, MuxTypeOK, aximux_exit
<1>2. UsedMux' = UsedMux /\ MuxBound' = MuxBound
  BY DEF UsedMux, MuxBound, aximux_exit
<1> QED
  BY <1>1, <1>2 DEF MuxInv, Distinct, aximux_exit
-----------------------------------------------------------------------------
(* pulsecap.c keeps its invariant.                                         *)

\* Before pulsecap is loaded.
LEMMA PulsecapStart == PulsecapInit => PulsecapInv
<1> SUFFICES ASSUME PulsecapInit PROVE PulsecapInv
  OBVIOUS
<1> USE PulsecapDevicesAssumption DEF PulsecapInit
<1>1. PulsecapTypeOK
  <2>1. pulsecap_bound \in Seq(Pulsecaps)
    OBVIOUS
  <2>2. pulsecap_devices \in [PulsecapMinors -> Pulsecaps \cup {"none"}]
    OBVIOUS
  <2>3. instance_count \in 0..MAX_PULSECAP_INSTANCES
    OBVIOUS
  <2> QED
    BY <2>1, <2>2, <2>3 DEF PulsecapTypeOK
<1>2. UsedPulsecap = {} /\ PulsecapBound = {}
  BY DEF UsedPulsecap, PulsecapBound
<1> QED
  BY <1>1, <1>2, FS_EmptySet DEF PulsecapInv, Distinct

\* Module init finds no instance, and exit changes the region only.
LEMMA PulsecapModule ==
  PulsecapInv /\ ((pulsecap_bound = <<>> /\ esl_pulsecap_init) \/ esl_pulsecap_exit)
    => PulsecapInv' /\ pulsecap_bound' = pulsecap_bound
<1> SUFFICES ASSUME PulsecapInv, (pulsecap_bound = <<>> /\ esl_pulsecap_init) \/ esl_pulsecap_exit
             PROVE  PulsecapInv' /\ pulsecap_bound' = pulsecap_bound
  OBVIOUS
<1>1. /\ instance_count' = instance_count /\ pulsecap_devices' = pulsecap_devices
      /\ pulsecap_bound' = pulsecap_bound /\ pulsecap_data' = pulsecap_data
      /\ pulsecap_region' \in BOOLEAN
  BY DEF PulsecapInv, esl_pulsecap_init, esl_pulsecap_exit
<1>2. PulsecapTypeOK'
  BY <1>1 DEF PulsecapInv, PulsecapTypeOK
<1>3. UsedPulsecap' = UsedPulsecap /\ PulsecapBound' = PulsecapBound
  BY <1>1 DEF UsedPulsecap, PulsecapBound
<1> QED
  BY <1>1, <1>2, <1>3 DEF PulsecapInv, Distinct

\* A probe takes the minor after those in use, which the number of nodes allows.
LEMMA PulsecapProbe ==
  ASSUME PulsecapInv, NEW n \in Pulsecaps, n \notin PulsecapBound, esl_pulsecap_probe(n)
  PROVE  /\ PulsecapInv' /\ PulsecapBound' \subseteq PulsecapBound \cup {n}
         /\ pulsecap_region' = pulsecap_region
<1> USE PulsecapDevicesAssumption
<1>1. CASE /\ pulsecap_data' \subseteq Pulsecaps
           /\ UNCHANGED <<instance_count, pulsecap_devices, pulsecap_bound, pulsecap_region>>
  <2>1. PulsecapTypeOK'
    BY <1>1 DEF PulsecapInv, PulsecapTypeOK
  <2>2. UsedPulsecap' = UsedPulsecap /\ PulsecapBound' = PulsecapBound
    BY <1>1 DEF UsedPulsecap, PulsecapBound
  <2> QED
    BY <1>1, <2>1, <2>2 DEF PulsecapInv, Distinct
<1>2. CASE /\ pulsecap_devices[instance_count] = "none"
           /\ pulsecap_data' = pulsecap_data \cup {n}
           /\ pulsecap_devices' = [pulsecap_devices EXCEPT ![instance_count] = n]
           /\ instance_count' = instance_count + 1
           /\ pulsecap_bound' = Append(pulsecap_bound, n)
           /\ UNCHANGED pulsecap_region
  <2> DEFINE a == instance_count
  <2>1. /\ pulsecap_bound \in Seq(Pulsecaps) /\ Distinct(pulsecap_bound)
        /\ PulsecapBound = Elements(pulsecap_bound)
        /\ MAX_PULSECAP_INSTANCES \in Nat
        /\ a = Len(pulsecap_bound) /\ a \in Nat
    BY DEF PulsecapInv, PulsecapTypeOK, PulsecapBound, Elements
  <2>2. PulsecapBound' = Elements(pulsecap_bound') /\ (Distinct(pulsecap_bound)' <=> Distinct(pulsecap_bound'))
    BY DEF PulsecapBound, Elements, Distinct
  <2>3. /\ pulsecap_bound' \in Seq(Pulsecaps) /\ Len(pulsecap_bound') = a + 1
        /\ \A i \in 1..a : pulsecap_bound'[i] = pulsecap_bound[i]
        /\ pulsecap_bound'[a + 1] = n
        /\ PulsecapBound' = PulsecapBound \cup {n} /\ Distinct(pulsecap_bound)'
    BY <1>2, <2>1, <2>2, OneMore
  <2>4. IsFiniteSet(PulsecapBound') /\ Cardinality(PulsecapBound') = a + 1
    <3>1. IsFiniteSet(PulsecapBound) /\ Cardinality(PulsecapBound) = a
      BY <2>1 DEF PulsecapInv
    <3> QED
      BY <2>3, <3>1, FS_AddElement
  <2>5. a + 1 <= MAX_PULSECAP_INSTANCES
    <3>1. \A k \in PulsecapBound : k \in Pulsecaps
      BY <2>1 DEF PulsecapBound
    <3>2. PulsecapBound' \subseteq Pulsecaps
      BY <2>3, <3>1
    <3>3. Cardinality(PulsecapBound') <= Cardinality(Pulsecaps) /\ Cardinality(Pulsecaps) \in Nat
      BY <3>2, FS_Subset, FS_CardinalityType
    <3> QED
      BY <2>1, <2>4, <3>3
  <2>6. a \in PulsecapMinors
    BY <2>1, <2>5 DEF PulsecapMinors
  <2>7. PulsecapTypeOK'
    BY <1>2, <2>1, <2>3, <2>5, <2>6 DEF PulsecapInv, PulsecapTypeOK
  <2>8. /\ pulsecap_devices'[a] = n
        /\ \A m \in PulsecapMinors : m # a => pulsecap_devices'[m] = pulsecap_devices[m]
    BY <1>2, <2>6 DEF PulsecapInv, PulsecapTypeOK
  <2>9. \A i \in 1..(a + 1) : pulsecap_devices'[i - 1] = pulsecap_bound'[i]
    <3> SUFFICES ASSUME NEW i \in 1..(a + 1) PROVE pulsecap_devices'[i - 1] = pulsecap_bound'[i]
      OBVIOUS
    <3>1. CASE i = a + 1
      BY <2>1, <2>3, <2>8, <3>1
    <3>2. CASE i # a + 1
      <4>1. i \in 1..a /\ i - 1 \in PulsecapMinors /\ i - 1 # a
        BY <2>1, <2>5, <3>2 DEF PulsecapMinors
      <4> QED
        BY <2>1, <2>3, <2>8, <4>1 DEF PulsecapInv
    <3> QED
      BY <3>1, <3>2
  <2>10. \A m \in PulsecapMinors : pulsecap_devices'[m] # "none" => m < a + 1
    <3> SUFFICES ASSUME NEW m \in PulsecapMinors, pulsecap_devices'[m] # "none" PROVE m < a + 1
      OBVIOUS
    <3>1. CASE m = a
      BY <2>1, <3>1
    <3>2. CASE m # a
      <4>1. m < a
        BY <2>1, <2>8, <3>2 DEF PulsecapInv
      <4>2. m \in Int
        BY <2>1 DEF PulsecapMinors
      <4> QED
        BY <2>1, <4>1, <4>2
    <3> QED
      BY <3>1, <3>2
  <2>11. UsedPulsecap' = UsedPulsecap \cup {a} /\ a \notin UsedPulsecap
    BY <1>2, <2>6, <2>8 DEF UsedPulsecap, PulsecapMinors
  <2>12. IsFiniteSet(UsedPulsecap') /\ Cardinality(UsedPulsecap') = a + 1
    BY <2>1, <2>11, FS_AddElement DEF PulsecapInv
  <2>13. \A m : m \in PulsecapMinors' <=> m \in PulsecapMinors
    BY DEF PulsecapMinors
  <2>14. PulsecapInv'
    BY <1>2, <2>3, <2>4, <2>7, <2>9, <2>10, <2>12, <2>13 DEF PulsecapInv
  <2> QED
    BY <1>2, <2>3, <2>14
<1>3. pulsecap_data \cup {n} \subseteq Pulsecaps
  BY DEF PulsecapInv, PulsecapTypeOK
<1> QED
  BY <1>1, <1>2, <1>3 DEF esl_pulsecap_probe, pulsecaps

\* A remove takes the last minor, which is that of the latest instance.
LEMMA PulsecapRemove ==
  ASSUME PulsecapInv, pulsecap_bound # <<>>,
         esl_pulsecap_remove(pulsecap_bound[Len(pulsecap_bound)])
  PROVE  /\ PulsecapInv' /\ PulsecapBound' \subseteq PulsecapBound
         /\ pulsecap_region' = pulsecap_region
<1> DEFINE n == pulsecap_bound[Len(pulsecap_bound)]
           a == instance_count - 1
<1>1. /\ pulsecap_bound \in Seq(Pulsecaps) /\ Distinct(pulsecap_bound)
      /\ PulsecapBound = Elements(pulsecap_bound)
      /\ MAX_PULSECAP_INSTANCES \in Nat
      /\ instance_count = Len(pulsecap_bound) /\ a \in Nat /\ instance_count \in Nat
      /\ instance_count <= MAX_PULSECAP_INSTANCES
      /\ Len(pulsecap_bound) = a + 1
  BY PulsecapDevicesAssumption DEF PulsecapInv, PulsecapTypeOK, PulsecapBound, Elements
<1>2. PulsecapBound' = Elements(pulsecap_bound') /\ (Distinct(pulsecap_bound)' <=> Distinct(pulsecap_bound'))
  BY DEF PulsecapBound, Elements, Distinct
<1>3. /\ pulsecap_bound' = SubSeq(pulsecap_bound, 1, Len(pulsecap_bound) - 1)
      /\ instance_count' = a
      /\ pulsecap_devices' = [pulsecap_devices EXCEPT ![a] = "none"]
      /\ UNCHANGED <<pulsecap_data, pulsecap_region>>
  BY DEF esl_pulsecap_remove, LastMinor
<1>4. /\ pulsecap_bound' \in Seq(Pulsecaps) /\ Len(pulsecap_bound') = a
      /\ n \in Pulsecaps /\ Len(pulsecap_bound) \in 1..Len(pulsecap_bound)
      /\ \A i \in 1..a : pulsecap_bound'[i] = pulsecap_bound[i]
      /\ PulsecapBound' = PulsecapBound \ {n} /\ Distinct(pulsecap_bound)'
  BY <1>1, <1>2, <1>3, OneLess
<1>5. n \in PulsecapBound
  <2>1. DOMAIN pulsecap_bound = 1..Len(pulsecap_bound)
    BY <1>1
  <2> QED
    BY <1>4, <2>1 DEF PulsecapBound
<1>6. IsFiniteSet(PulsecapBound') /\ Cardinality(PulsecapBound') = a
  <2>1. IsFiniteSet(PulsecapBound) /\ Cardinality(PulsecapBound) = a + 1
    BY <1>1 DEF PulsecapInv
  <2>2. IsFiniteSet(PulsecapBound \ {n}) /\ Cardinality(PulsecapBound \ {n}) = Cardinality(PulsecapBound) - 1
    BY <1>5, <2>1, FS_RemoveElement
  <2> QED
    BY <1>1, <1>4, <2>1, <2>2
<1>7. a \in PulsecapMinors
  BY <1>1 DEF PulsecapMinors
<1>8. PulsecapTypeOK'
  BY <1>1, <1>3, <1>4, <1>7 DEF PulsecapInv, PulsecapTypeOK
<1>9. /\ pulsecap_devices'[a] = "none"
      /\ \A m \in PulsecapMinors : m # a => pulsecap_devices'[m] = pulsecap_devices[m]
  BY <1>3, <1>7 DEF PulsecapInv, PulsecapTypeOK
<1>10. \A i \in 1..a : pulsecap_devices'[i - 1] = pulsecap_bound'[i]
  <2> SUFFICES ASSUME NEW i \in 1..a PROVE pulsecap_devices'[i - 1] = pulsecap_bound'[i]
    OBVIOUS
  <2>1. i \in 1..Len(pulsecap_bound) /\ i - 1 \in PulsecapMinors /\ i - 1 # a
    BY <1>1 DEF PulsecapMinors
  <2> QED
    BY <1>4, <1>9, <2>1 DEF PulsecapInv
<1>11. \A m \in PulsecapMinors : pulsecap_devices'[m] # "none" => m < a
  <2> SUFFICES ASSUME NEW m \in PulsecapMinors, pulsecap_devices'[m] # "none" PROVE m < a
    OBVIOUS
  <2>1. m # a /\ m < a + 1
    BY <1>1, <1>9 DEF PulsecapInv
  <2>2. m \in Int
    BY <1>1 DEF PulsecapMinors
  <2> QED
    BY <1>1, <2>1, <2>2
<1>12. UsedPulsecap' = UsedPulsecap \ {a} /\ a \in UsedPulsecap
  <2>1. pulsecap_devices[a] = n
    BY <1>1, <1>4 DEF PulsecapInv
  <2>2. n # "none"
    BY <1>4, PulsecapDevicesAssumption
  <2> QED
    BY <1>7, <1>9, <2>1, <2>2 DEF UsedPulsecap, PulsecapMinors
<1>13. IsFiniteSet(UsedPulsecap') /\ Cardinality(UsedPulsecap') = a
  <2>1. IsFiniteSet(UsedPulsecap) /\ Cardinality(UsedPulsecap) = a + 1
    BY <1>1 DEF PulsecapInv
  <2>2. IsFiniteSet(UsedPulsecap \ {a}) /\ Cardinality(UsedPulsecap \ {a}) = Cardinality(UsedPulsecap) - 1
    BY <1>12, <2>1, FS_RemoveElement
  <2> QED
    BY <1>1, <1>12, <2>1, <2>2
<1>14. \A m : m \in PulsecapMinors' <=> m \in PulsecapMinors
  BY DEF PulsecapMinors
<1>15. PulsecapInv'
  BY <1>3, <1>4, <1>6, <1>8, <1>10, <1>11, <1>13, <1>14 DEF PulsecapInv
<1> QED
  BY <1>3, <1>4, <1>15
-----------------------------------------------------------------------------
(* dma-proxy.c keeps its invariant.                                        *)

\* The channels, one by one.
LEMMA ChannelsAre ==
  /\ \A c : c \in Channels <=> \E n \in Proxies : \E i \in 0..(ChannelCount[n] - 1) : c = <<n, i>>
  /\ \A n : ChannelsOf(n) = {<<n, i>> : i \in 0..(ChannelCount[n] - 1)}
<1>1. \A n : ChannelsOf(n) = {<<n, i>> : i \in 0..(ChannelCount[n] - 1)}
  BY DEF ChannelsOf
<1>2. \A n, c : c \in ChannelsOf(n) <=> \E i \in 0..(ChannelCount[n] - 1) : c = <<n, i>>
  BY <1>1
<1>3. \A c : c \in Channels <=> \E n \in Proxies : c \in ChannelsOf(n)
  BY DEF Channels
<1> QED
  BY <1>1, <1>2, <1>3

\* Up and Held, one by one, before and after a step.
LEMMA UpIs ==
  ASSUME NEW n \in Proxies, NEW i \in 0..(ChannelCount[n] - 1)
  PROVE  /\ <<n, i>> \in Up <=> IsUp(n, i)
         /\ <<n, i>> \in Up' <=> IsUp(n, i)'
         /\ <<n, i>> \in Held <=> IsHeld(n, i)
         /\ <<n, i>> \in Held' <=> IsHeld(n, i)'
<1>1. <<n, i>> \in Channels
  BY ChannelsAre
<1>2. <<n, i>>[1] = n /\ <<n, i>>[2] = i
  OBVIOUS
<1> QED
  BY <1>1, <1>2 DEF Up, Held, IsUp, IsHeld, Channels, ChannelsOf

\* Nothing but channels is up or held, and what is up is held.
LEMMA UpOnly ==
  /\ Up \subseteq Channels /\ Up' \subseteq Channels
  /\ Held \subseteq Channels /\ Held' \subseteq Channels
  /\ Up \subseteq Held /\ Up' \subseteq Held'
BY DEF Up, Held, IsHeld, Channels, ChannelsOf

\* Before dma_proxy is loaded.
LEMMA ProxyStart == ProxyInit => ProxyInv
<1> SUFFICES ASSUME ProxyInit PROVE ProxyInv
  OBVIOUS
<1> USE DEF ProxyInit
<1>1. Up = {} /\ Held = {}
  BY DEF Up, Held, IsUp, IsHeld, Idle
<1>2. ChannelInv
  BY <1>1, FS_EmptySet DEF ChannelInv, TaskOK, Idle
<1>3. ClassInv
  BY <1>1, FS_EmptySet DEF ClassInv
<1> QED
  BY <1>2, <1>3 DEF ProxyInv

\* A module loaded again starts with fresh counts, whatever failed probes left.
LEMMA ProxyLoad == ProxyInv /\ proxy_bound = {} /\ task = Idle /\ dma_proxy_init => ProxyInv'
<1> SUFFICES ASSUME ProxyInv, proxy_bound = {}, task = Idle, dma_proxy_init PROVE ProxyInv'
  OBVIOUS
<1> USE DEF dma_proxy_init
<1>1. Up = {} /\ Up' = {} /\ Held = {} /\ Held' = {}
  BY DEF Up, Held, IsUp, IsHeld, Idle
<1>2. ChannelInv'
  BY <1>1, FS_EmptySet DEF ProxyInv, ChannelInv, TaskOK, Idle
<1>3. ClassInv'
  BY <1>1 DEF ProxyInv, ClassInv
<1> QED
  BY <1>2, <1>3 DEF ProxyInv

\* What changes no channel.
LEMMA ProxyQuiet ==
  ASSUME ProxyInv, proxy_bound' \subseteq Proxies, TaskOK', undefined' \in BOOLEAN,
         UNCHANGED <<total_count, classes, dma_channels, cdevs, abandoned>>,
         \A n \in Proxies : \A i \in 0..(ChannelCount[n] - 1) :
           (IsUp(n, i)' <=> IsUp(n, i)) /\ (IsHeld(n, i)' <=> IsHeld(n, i))
  PROVE  ProxyInv'
<1>1. Up' = Up /\ Held' = Held
  <2>1. \A n \in Proxies : \A i \in 0..(ChannelCount[n] - 1) :
          /\ <<n, i>> \in Up' <=> <<n, i>> \in Up
          /\ <<n, i>> \in Held' <=> <<n, i>> \in Held
    BY UpIs
  <2>2. \A c \in Channels : (c \in Up' <=> c \in Up) /\ (c \in Held' <=> c \in Held)
    BY <2>1, ChannelsAre
  <2> QED
    BY <2>2, UpOnly
<1>2. ChannelInv'
  BY <1>1 DEF ProxyInv, ChannelInv, classes
<1>3. ClassInv'
  BY <1>1 DEF ProxyInv, ClassInv, classes
<1> QED
  BY <1>2, <1>3 DEF ProxyInv

\* A probe begins with the first channel.
LEMMA ProxyProbe ==
  ASSUME ProxyInv, NEW n \in Proxies, n \notin proxy_bound, task = Idle, dma_proxy_probe(n)
  PROVE  ProxyInv'
<1> USE DmaProxyDevicesAssumption
<1>1. /\ task' = At("create", n, 0) /\ UNCHANGED <<proxy_bound, undefined>>
      /\ 0 \in 0..ChannelCount[n]
      /\ task.at = "idle" /\ task'.at = "create" /\ task'.i = 0
  BY DEF dma_proxy_probe, At, Idle
<1>2. \A m \in Proxies : \A i \in 0..(ChannelCount[m] - 1) :
        (IsUp(m, i)' <=> IsUp(m, i)) /\ (IsHeld(m, i)' <=> IsHeld(m, i))
  BY <1>1 DEF IsUp, IsHeld
<1>3. TaskOK' /\ proxy_bound' \subseteq Proxies /\ undefined' \in BOOLEAN
  BY <1>1 DEF ProxyInv, ChannelInv, ClassInv, TaskOK
<1> QED
  BY <1>2, <1>3, ProxyQuiet DEF dma_proxy_probe

\* A remove begins with all channels of the node up.
LEMMA ProxyRemove ==
  ASSUME ProxyInv, NEW n \in proxy_bound, task = Idle, dma_proxy_remove(n)
  PROVE  ProxyInv'
<1> USE DmaProxyDevicesAssumption
<1>1. /\ n \in Proxies /\ task.at = "idle" /\ proxy_bound' = proxy_bound \ {n}
      /\ proxy_bound' \subseteq Proxies /\ n \notin proxy_bound'
      /\ task' = At("remove", n, 0) /\ 0 \in 0..ChannelCount[n]
      /\ task'.at = "remove" /\ task'.i = 0 /\ task'.node = n /\ undefined' = undefined
  BY DEF ProxyInv, ChannelInv, Idle, At, dma_proxy_remove
<1>2. \A m \in Proxies : \A i \in 0..(ChannelCount[m] - 1) :
        (IsUp(m, i)' <=> IsUp(m, i)) /\ (IsHeld(m, i)' <=> IsHeld(m, i))
  BY <1>1 DEF IsUp, IsHeld
<1>3. TaskOK' /\ undefined' \in BOOLEAN
  BY <1>1 DEF TaskOK, ProxyInv, ClassInv
<1> QED
  BY <1>1, <1>2, <1>3, ProxyQuiet DEF dma_proxy_remove

\* What a step of a probe or remove is at.
LEMMA TaskIs ==
  ASSUME ProxyInv, NEW phase \in {"create", "remove"}, task.at = phase
  PROVE  \E n \in Proxies : \E i \in Nat :
           /\ ChannelCount[n] \in Nat /\ i <= ChannelCount[n] /\ n \notin proxy_bound
           /\ task = At(phase, n, i) /\ task.node = n /\ task.i = i
           /\ task # Idle /\ Channel = <<n, i>>
           /\ More <=> i < ChannelCount[n]
           /\ Earlier = {n} \X (0..(i - 1))
<1>1. PICK n \in Proxies : \E i \in 0..ChannelCount[n] :
        task \in {At("create", n, i), At("remove", n, i)} /\ n \notin proxy_bound
  BY DEF ProxyInv, ChannelInv, TaskOK, Idle
<1>2. PICK i \in 0..ChannelCount[n] :
        task \in {At("create", n, i), At("remove", n, i)} /\ n \notin proxy_bound
  BY <1>1
<1>3. ChannelCount[n] \in Nat /\ i \in Nat /\ i <= ChannelCount[n]
  BY DmaProxyDevicesAssumption
<1>4. task = At(phase, n, i) /\ task.node = n /\ task.i = i /\ task # Idle
  BY <1>2 DEF At, Idle
<1> QED
  BY <1>2, <1>3, <1>4 DEF Channel, More, Earlier

\* When all channels of a node are created the node is bound, and holds the same.
LEMMA ProxyProbed == ProxyInv /\ probe_done => ProxyInv' /\ task # Idle /\ task.at = "create"
<1> SUFFICES ASSUME ProxyInv, probe_done PROVE ProxyInv' /\ task # Idle /\ task.at = "create"
  OBVIOUS
<1>1. task.at = "create" /\ ~More /\ task' = Idle
  BY DEF probe_done, Running
<1>2. PICK n \in Proxies, i \in Nat :
        /\ ChannelCount[n] \in Nat /\ i <= ChannelCount[n] /\ n \notin proxy_bound
        /\ task.node = n /\ task.i = i /\ task # Idle
        /\ More <=> i < ChannelCount[n]
  BY <1>1, TaskIs
<1>3. i = ChannelCount[n] /\ proxy_bound' = proxy_bound \cup {n} /\ task'.at = "idle"
  BY <1>1, <1>2 DEF probe_done, Idle
<1>4. \A m \in Proxies : \A j \in 0..(ChannelCount[m] - 1) :
        (IsUp(m, j)' <=> IsUp(m, j)) /\ (IsHeld(m, j)' <=> IsHeld(m, j))
  <2> SUFFICES ASSUME NEW m \in Proxies, NEW j \in 0..(ChannelCount[m] - 1)
               PROVE  (IsUp(m, j)' <=> IsUp(m, j)) /\ (IsHeld(m, j)' <=> IsHeld(m, j))
    OBVIOUS
  <2>1. m = n => j < i
    BY <1>2, <1>3
  <2> QED
    BY <1>1, <1>2, <1>3, <2>1 DEF IsUp, IsHeld
<1>5. TaskOK' /\ proxy_bound' \subseteq Proxies /\ undefined' \in BOOLEAN
  BY <1>1, <1>3 DEF TaskOK, ProxyInv, ChannelInv, ClassInv, probe_done
<1> QED
  BY <1>1, <1>2, <1>4, <1>5, ProxyQuiet DEF probe_done

\* What is left behind undefined behaviour stays as it is.
LEMMA ProxyUndefined ==
  ASSUME ProxyInv, create_in_dead_class \/ remove_refused
  PROVE  ProxyInv' /\ task # Idle /\ UNCHANGED <<task, proxy_bound>>
<1>1. /\ UNCHANGED <<total_count, classes, dma_channels, cdevs, proxy_bound, task, abandoned>>
      /\ undefined' = TRUE /\ task.at \in {"create", "remove"}
  BY DEF create_in_dead_class, remove_refused, Creating, Running
<1>2. \A m \in Proxies : \A j \in 0..(ChannelCount[m] - 1) :
        (IsUp(m, j)' <=> IsUp(m, j)) /\ (IsHeld(m, j)' <=> IsHeld(m, j))
  BY <1>1 DEF IsUp, IsHeld
<1>3. TaskOK' /\ proxy_bound' \subseteq Proxies /\ undefined' \in BOOLEAN
  BY <1>1 DEF TaskOK, ProxyInv, ChannelInv
<1> QED
  BY <1>1, <1>2, <1>3, ProxyQuiet DEF Idle

\* cdevice_init of a channel without a device: one device more and a live class, one
\* device more in a class that is gone, a class destroyed, or no class.
LEMMA DeviceCases ==
  ASSUME NEW c, cdevice_init(c)
  PROVE  \/ /\ (local_class = "none" /\ ~class_live) \/ (local_class = "class" /\ class_live)
            /\ local_class' = "class" /\ class_live' = TRUE
            /\ cdevs' = cdevs \cup {c} /\ proxy_devices' = proxy_devices \cup {c}
         \/ /\ local_class = "class" /\ ~class_live
            /\ local_class' = "class" /\ class_live' = FALSE
            /\ cdevs' = cdevs \cup {c} /\ proxy_devices' = proxy_devices \cup {c}
         \/ /\ local_class' = "class" /\ class_live' = FALSE
            /\ UNCHANGED <<cdevs, proxy_devices>>
         \/ /\ local_class # "class" /\ local_class' = "error"
            /\ UNCHANGED <<class_live, cdevs, proxy_devices>>
BY DEF cdevice_init, DeviceCreated, DeviceRefused, NoClass, ClassAtHand, ClassDestroyed

\* A channel that is requested is nobody's.
LEMMA ProxyRequest ==
  ASSUME ProxyInv, Request
  PROVE  /\ Channel \notin Up /\ Channel \notin Held /\ Channel \notin abandoned
         /\ Channel \notin proxy_devices /\ Channel \in Channels
<1>1. task.at = "create" /\ More /\ Channel \notin dma_channels
  BY DEF Request, Creating, Running
<1>2. PICK n \in Proxies, i \in Nat :
        ChannelCount[n] \in Nat /\ i < ChannelCount[n] /\ Channel = <<n, i>>
  BY <1>1, TaskIs
<1>3. Channel \in Channels
  BY <1>2, ChannelsAre
<1>4. Channel \notin Held /\ Channel \notin abandoned
  BY <1>1 DEF ProxyInv, ChannelInv
<1> QED
  BY <1>3, <1>4, UpOnly DEF ProxyInv, ChannelInv

\* create_channel adds a channel and counts it, with or without a device.
LEMMA ProxyCreate ==
  ASSUME ProxyInv, create_channel
  PROVE  /\ ProxyInv' /\ task # Idle /\ task.at = "create" /\ proxy_bound' = proxy_bound
         /\ task'.at = "create" /\ task'.node = task.node
<1>1. /\ task.at = "create" /\ More /\ Request /\ cdevice_init(Channel)
      /\ dma_channels' = dma_channels \cup {Channel} /\ total_count' = total_count + 1
      /\ spoilt' = (spoilt \/ ClassDestroyed') /\ task' = [task EXCEPT !.i = task.i + 1]
      /\ UNCHANGED <<proxy_bound, undefined, abandoned>>
  BY DEF create_channel, Request, Creating, Running
<1>2. PICK n \in Proxies, i \in Nat :
        /\ ChannelCount[n] \in Nat /\ i < ChannelCount[n] /\ n \notin proxy_bound
        /\ task = At("create", n, i) /\ task.node = n /\ task.i = i
        /\ task # Idle /\ Channel = <<n, i>>
  BY <1>1, TaskIs
<1>3. /\ task' = At("create", n, i + 1) /\ i + 1 \in 0..ChannelCount[n]
      /\ task'.at = "create" /\ task'.node = n /\ task'.i = i + 1
  BY <1>1, <1>2 DEF At
<1> DEFINE c == Channel
<1>4. /\ c \notin Up /\ c \notin Held /\ c \notin abandoned /\ c \notin proxy_devices
      /\ c \in Channels
  BY <1>1, ProxyRequest
<1>5. \A m \in Proxies : \A j \in 0..(ChannelCount[m] - 1) :
        /\ IsUp(m, j)' <=> IsUp(m, j) \/ (m = n /\ j = i)
        /\ IsHeld(m, j)' <=> IsHeld(m, j) \/ (m = n /\ j = i)
  BY <1>1, <1>2, <1>3 DEF IsUp, IsHeld
<1>6. Up' = Up \cup {c} /\ Held' = Held \cup {c}
  <2>1. \A m \in Proxies : \A j \in 0..(ChannelCount[m] - 1) :
          /\ <<m, j>> \in Up' <=> <<m, j>> \in Up \cup {c}
          /\ <<m, j>> \in Held' <=> <<m, j>> \in Held \cup {c}
    BY <1>2, <1>5, UpIs
  <2>2. \A d \in Channels : /\ d \in Up' <=> d \in Up \cup {c}
                            /\ d \in Held' <=> d \in Held \cup {c}
    BY <2>1, ChannelsAre
  <2>3. Up' = Up \cup {c}
    BY <1>4, <2>2, UpOnly
  <2>4. Held' = Held \cup {c}
    BY <1>4, <2>2, UpOnly
  <2> QED
    BY <2>3, <2>4
<1>7. /\ IsFiniteSet(Up') /\ Cardinality(Up') <= total_count' /\ total_count' \in Nat
  <2>1. IsFiniteSet(Up) /\ Cardinality(Up) <= total_count /\ total_count \in Nat
    BY DEF ProxyInv, ChannelInv
  <2>2. Cardinality(Up) \in Nat /\ Cardinality(Up \cup {c}) = Cardinality(Up) + 1
        /\ IsFiniteSet(Up \cup {c})
    BY <1>4, <2>1, FS_AddElement, FS_CardinalityType
  <2> QED
    BY <1>1, <1>6, <2>1, <2>2
<1>8. cdevs' = proxy_devices' /\ proxy_devices' \subseteq proxy_devices \cup {c}
  BY <1>1, DeviceCases DEF ProxyInv, ChannelInv
<1>9. ChannelInv'
  <2>1. TaskOK' /\ proxy_bound' \subseteq Proxies
    BY <1>1, <1>2, <1>3 DEF TaskOK, ProxyInv, ChannelInv
  <2> QED
    BY <1>1, <1>4, <1>6, <1>7, <1>8, <2>1 DEF ProxyInv, ChannelInv
<1>10. ClassInv'
  <2>0. ClassInv /\ total_count \in Nat /\ undefined' \in BOOLEAN
        /\ Cardinality(proxy_devices) \in Nat
    BY <1>1, FS_CardinalityType DEF ProxyInv, ChannelInv, ClassInv
  <2>1. /\ IsFiniteSet(proxy_devices \cup {c})
        /\ Cardinality(proxy_devices \cup {c}) = Cardinality(proxy_devices) + 1
    BY <1>4, <2>0, FS_AddElement DEF ClassInv
  <2>2. spoilt' = (spoilt \/ (local_class' = "class" /\ ~class_live'))
    BY <1>1 DEF ClassDestroyed
  <2>3. CASE /\ (local_class = "none" /\ ~class_live) \/ (local_class = "class" /\ class_live)
             /\ local_class' = "class" /\ class_live' = TRUE
             /\ cdevs' = cdevs \cup {c} /\ proxy_devices' = proxy_devices \cup {c}
    <3>1. local_class = "none" /\ ~class_live =>
            total_count = 0 /\ (~spoilt => Cardinality(proxy_devices) = 0)
      BY <2>0, FS_EmptySet DEF ClassInv
    <3>2. total_count' <= Cardinality(proxy_devices')
      BY <1>1, <2>0, <2>1, <2>3, <3>1 DEF ClassInv
    <3>3. ~spoilt' => Cardinality(proxy_devices') <= total_count'
      BY <1>1, <2>0, <2>1, <2>2, <2>3, <3>1 DEF ClassInv
    <3> QED
      BY <2>0, <2>1, <2>2, <2>3, <3>2, <3>3 DEF ClassInv
  <2>4. CASE /\ local_class = "class" /\ ~class_live
             /\ local_class' = "class" /\ class_live' = FALSE
             /\ cdevs' = cdevs \cup {c} /\ proxy_devices' = proxy_devices \cup {c}
    BY <2>0, <2>1, <2>2, <2>4 DEF ClassInv
  <2>5. CASE /\ local_class' = "class" /\ class_live' = FALSE
             /\ UNCHANGED <<cdevs, proxy_devices>>
    BY <2>0, <2>2, <2>5 DEF ClassInv
  <2>6. CASE /\ local_class # "class" /\ local_class' = "error"
             /\ UNCHANGED <<class_live, cdevs, proxy_devices>>
    <3>1. Up' \cap proxy_devices' = {}
      BY <1>4, <1>6, <2>0, <2>6 DEF ClassInv
    <3> QED
      BY <2>0, <2>2, <2>6, <3>1 DEF ClassInv
  <2> QED
    BY <1>1, <2>3, <2>4, <2>5, <2>6, DeviceCases
<1> QED
  BY <1>1, <1>2, <1>3, <1>9, <1>10 DEF ProxyInv

\* A failed probe abandons what its channels got; none of them is up any more.
LEMMA Abandons ==
  ASSUME ProxyInv, NEW more \in {{}, {Channel}}, Creating, FailProbe(Earlier \cup more),
         more = {} \/ Request, dma_channels' = dma_channels \cup more,
         total_count' = total_count, cdevs' = proxy_devices',
         proxy_devices' \subseteq proxy_devices \cup more
  PROVE  /\ ChannelInv' /\ Up' \subseteq Up /\ Channel \notin Up'
         /\ task # Idle /\ task' = Idle /\ proxy_bound' = proxy_bound
<1>1. /\ task.at = "create" /\ More /\ task' = Idle /\ task'.at = "idle"
      /\ abandoned' = abandoned \cup Earlier \cup more
      /\ UNCHANGED <<proxy_bound, undefined>>
  BY DEF Creating, Running, FailProbe, Idle
<1>2. PICK n \in Proxies, i \in Nat :
        /\ ChannelCount[n] \in Nat /\ i < ChannelCount[n] /\ n \notin proxy_bound
        /\ task.node = n /\ task.i = i /\ task # Idle /\ Channel = <<n, i>>
        /\ Earlier = {n} \X (0..(i - 1))
  BY <1>1, TaskIs
<1>3. \A m \in Proxies : \A j \in 0..(ChannelCount[m] - 1) :
        /\ <<m, j>> \in Earlier <=> m = n /\ j < i
        /\ IsUp(m, j)' <=> IsUp(m, j) /\ ~(m = n /\ j < i)
        /\ IsHeld(m, j)' <=> IsHeld(m, j) /\ ~(m = n /\ j < i)
        /\ m = n /\ j < i => IsHeld(m, j)
  BY <1>1, <1>2 DEF IsUp, IsHeld
<1>4. Up' = Up \ Earlier /\ Held' = Held \ Earlier
  <2>1. \A m \in Proxies : \A j \in 0..(ChannelCount[m] - 1) :
          /\ <<m, j>> \in Up' <=> <<m, j>> \in Up \ Earlier
          /\ <<m, j>> \in Held' <=> <<m, j>> \in Held \ Earlier
    BY <1>3, UpIs
  <2>2. \A d \in Channels : /\ d \in Up' <=> d \in Up \ Earlier
                            /\ d \in Held' <=> d \in Held \ Earlier
    BY <2>1, ChannelsAre
  <2>3. Up' = Up \ Earlier
    BY <2>2, UpOnly
  <2>4. Held' = Held \ Earlier
    BY <2>2, UpOnly
  <2> QED
    BY <2>3, <2>4
<1>5. Earlier \subseteq Held
  <2>1. \A j \in 0..(i - 1) : j \in 0..(ChannelCount[n] - 1) /\ IsHeld(n, j)
    BY <1>1, <1>2 DEF IsUp, IsHeld
  <2>2. \A j \in 0..(i - 1) : <<n, j>> \in Held
    BY <2>1, UpIs
  <2> QED
    BY <1>2, <2>2
<1>6. \A c \in more : c \in Channels /\ c \notin Held /\ c \notin abandoned /\ c = Channel
  BY ProxyRequest
<1>7. Channel \notin Up'
  <2>1. ~IsUp(n, i)' /\ i \in 0..(ChannelCount[n] - 1)
    BY <1>1, <1>2 DEF IsUp
  <2> QED
    BY <1>2, <2>1, UpIs
<1>8. IsFiniteSet(Up') /\ Cardinality(Up') <= total_count'
  <2>1. IsFiniteSet(Up) /\ Cardinality(Up) <= total_count /\ total_count \in Nat
    BY DEF ProxyInv, ChannelInv
  <2>2. IsFiniteSet(Up') /\ Cardinality(Up') <= Cardinality(Up)
    BY <1>4, <2>1, FS_Subset
  <2> QED
    BY <2>1, <2>2, FS_CardinalityType
<1>9. /\ dma_channels' = Held' \cup abandoned' /\ abandoned' \cap Held' = {}
      /\ abandoned' \subseteq Channels /\ proxy_devices' \subseteq Up' \cup abandoned'
  <2>1. /\ dma_channels = Held \cup abandoned /\ abandoned \cap Held = {}
        /\ abandoned \subseteq Channels /\ proxy_devices \subseteq Up \cup abandoned
    BY DEF ProxyInv, ChannelInv
  <2> QED
    BY <1>1, <1>4, <1>5, <1>6, <2>1, UpOnly
<1>10. TaskOK' /\ proxy_bound' \subseteq Proxies /\ total_count' \in Nat
  BY <1>1 DEF TaskOK, ProxyInv, ChannelInv
<1>11. ChannelInv'
  BY <1>8, <1>9, <1>10 DEF ChannelInv
<1> QED
  BY <1>1, <1>2, <1>4, <1>7, <1>11

\* A channel that is refused, whatever it was refused, and whichever it is.
LEMMA ProxyRefuse ==
  ASSUME ProxyInv, refuse_channel \/ refuse_cdev \/ refuse_buffers
  PROVE  ProxyInv' /\ task # Idle /\ task' = Idle /\ proxy_bound' = proxy_bound
<1>0. ClassInv /\ ChannelInv /\ total_count \in Nat
  BY DEF ProxyInv, ChannelInv
<1>1. CASE refuse_channel
  <2>1. /\ Creating /\ FailProbe(Earlier \cup {}) /\ dma_channels' = dma_channels \cup {}
        /\ undefined' = undefined /\ total_count' = total_count /\ cdevs' = proxy_devices'
        /\ UNCHANGED <<classes, proxy_devices, cdevs>>
    BY <1>0, <1>1 DEF refuse_channel, FailProbe, classes, ChannelInv
  <2>2. /\ ChannelInv' /\ Up' \subseteq Up
        /\ task # Idle /\ task' = Idle /\ proxy_bound' = proxy_bound
    BY <2>1, Abandons
  <2>3. ClassInv'
    BY <1>0, <2>1, <2>2 DEF ClassInv, classes
  <2> QED
    BY <2>2, <2>3 DEF ProxyInv
<1>2. CASE refuse_cdev
  <2>1. /\ Request /\ Creating /\ FailProbe(Earlier \cup {Channel})
        /\ dma_channels' = dma_channels \cup {Channel}
        /\ undefined' = undefined /\ total_count' = total_count /\ cdevs' = proxy_devices'
        /\ UNCHANGED <<classes, proxy_devices, cdevs>>
    BY <1>0, <1>2 DEF refuse_cdev, Request, FailProbe, classes, ChannelInv
  <2>2. /\ ChannelInv' /\ Up' \subseteq Up
        /\ task # Idle /\ task' = Idle /\ proxy_bound' = proxy_bound
    BY <2>1, Abandons
  <2>3. ClassInv'
    BY <1>0, <2>1, <2>2 DEF ClassInv, classes
  <2> QED
    BY <2>2, <2>3 DEF ProxyInv
<1>3. CASE refuse_buffers
  <2>1. /\ Request /\ Creating /\ FailProbe(Earlier \cup {Channel}) /\ cdevice_init(Channel)
        /\ dma_channels' = dma_channels \cup {Channel}
        /\ undefined' = undefined /\ total_count' = total_count /\ spoilt' = TRUE
    BY <1>3 DEF refuse_buffers, Request, FailProbe
  <2>2. cdevs' = proxy_devices' /\ proxy_devices' \in {proxy_devices, proxy_devices \cup {Channel}}
    BY <1>0, <2>1, DeviceCases DEF ChannelInv
  <2>3. /\ ChannelInv' /\ Up' \subseteq Up /\ Channel \notin Up'
        /\ task # Idle /\ task' = Idle /\ proxy_bound' = proxy_bound
    BY <2>1, <2>2, Abandons
  <2>4. /\ IsFiniteSet(proxy_devices \cup {Channel}) /\ Cardinality(proxy_devices) \in Nat
        /\ Cardinality(proxy_devices \cup {Channel}) = Cardinality(proxy_devices) + 1
    BY <1>0, <2>1, ProxyRequest, FS_AddElement, FS_CardinalityType DEF ClassInv
  <2>5. /\ local_class' \in {"class", "error"} /\ class_live' \in BOOLEAN
        /\ class_live' => proxy_devices' # {}
        /\ class_live' /\ local_class' = "class" => total_count <= Cardinality(proxy_devices')
        /\ local_class' # "class" => Up' \cap proxy_devices' = {}
    <3>1. class_live' /\ local_class' = "class" =>
            /\ proxy_devices' = proxy_devices \cup {Channel}
            /\ (local_class = "none" /\ ~class_live) \/ (local_class = "class" /\ class_live)
      BY <2>1, DeviceCases
    <3>2. class_live' /\ local_class' = "class" => total_count <= Cardinality(proxy_devices')
      BY <1>0, <2>4, <3>1 DEF ClassInv
    <3>3. local_class' # "class" =>
            local_class # "class" /\ proxy_devices' = proxy_devices /\ class_live' = class_live
      BY <2>1, DeviceCases
    <3>4. local_class' \in {"class", "error"} /\ class_live' \in BOOLEAN
      BY <1>0, <2>1, DeviceCases DEF ClassInv
    <3> QED
      BY <1>0, <2>3, <3>1, <3>2, <3>3, <3>4 DEF ClassInv
  <2>6. ClassInv'
    BY <1>0, <2>1, <2>2, <2>4, <2>5 DEF ClassInv
  <2> QED
    BY <2>3, <2>6 DEF ProxyInv
<1> QED
  BY <1>1, <1>2, <1>3

\* remove_channel takes one away, and the class with the last.
LEMMA ProxyRemoveChannel ==
  ASSUME ProxyInv, remove_channel
  PROVE  /\ ProxyInv' /\ proxy_bound' = proxy_bound
         /\ task # Idle /\ task.at = "remove" /\ task'.at = "remove"
<1>1. /\ task.at = "remove" /\ More /\ Channel \in proxy_devices
      /\ proxy_devices' = proxy_devices \ {Channel} /\ cdevs' = cdevs \ {Channel}
      /\ class_live' = (class_live /\ total_count # 1) /\ total_count' = total_count - 1
      /\ task' = [task EXCEPT !.i = task.i + 1]
      /\ UNCHANGED <<local_class, spoilt, dma_channels, proxy_bound, undefined, abandoned>>
  BY DEF remove_channel, LastChannel, CountedOut, Running
<1>2. PICK n \in Proxies, i \in Nat :
        /\ ChannelCount[n] \in Nat /\ i < ChannelCount[n] /\ n \notin proxy_bound
        /\ task = At("remove", n, i) /\ task.node = n /\ task.i = i
        /\ task # Idle /\ Channel = <<n, i>>
  BY <1>1, TaskIs
<1>3. /\ task' = At("remove", n, i + 1) /\ i + 1 \in 0..ChannelCount[n]
      /\ task'.at = "remove" /\ task'.node = n /\ task'.i = i + 1
  BY <1>1, <1>2 DEF At
<1> DEFINE c == Channel
<1>4. \A m \in Proxies : \A j \in 0..(ChannelCount[m] - 1) :
        /\ IsUp(m, j)' <=> IsUp(m, j) /\ ~(m = n /\ j = i)
        /\ IsHeld(m, j)' <=> IsHeld(m, j)
  BY <1>1, <1>2, <1>3 DEF IsUp, IsHeld
<1>5. Up' = Up \ {c} /\ Held' = Held /\ c \in Up
  <2>1. \A m \in Proxies : \A j \in 0..(ChannelCount[m] - 1) :
          /\ <<m, j>> \in Up' <=> <<m, j>> \in Up \ {c}
          /\ <<m, j>> \in Held' <=> <<m, j>> \in Held
    BY <1>2, <1>4, UpIs
  <2>2. IsUp(n, i) /\ i \in 0..(ChannelCount[n] - 1)
    BY <1>1, <1>2 DEF IsUp
  <2>3. c \in Up
    BY <1>2, <2>2, UpIs
  <2>4. \A d \in Channels : /\ d \in Up' <=> d \in Up \ {c}
                            /\ d \in Held' <=> d \in Held
    BY <2>1, ChannelsAre
  <2>5. Up' = Up \ {c}
    BY <2>4, UpOnly
  <2>6. Held' = Held
    BY <2>4, UpOnly
  <2> QED
    BY <2>3, <2>5, <2>6
<1>6. /\ ChannelInv /\ ClassInv /\ total_count \in Nat /\ Cardinality(Up) \in Nat
      /\ Cardinality(proxy_devices) \in Nat /\ IsFiniteSet(proxy_devices) /\ IsFiniteSet(Up)
  BY FS_CardinalityType DEF ProxyInv, ChannelInv, ClassInv
<1>7. /\ IsFiniteSet(Up') /\ Cardinality(Up') = Cardinality(Up) - 1
      /\ IsFiniteSet(proxy_devices') /\ Cardinality(proxy_devices') = Cardinality(proxy_devices) - 1
      /\ Cardinality(Up') \in Nat /\ Cardinality(proxy_devices') \in Nat
  <2>1. /\ IsFiniteSet(Up \ {c}) /\ Cardinality(Up \ {c}) = Cardinality(Up) - 1
        /\ IsFiniteSet(proxy_devices \ {c})
        /\ Cardinality(proxy_devices \ {c}) = Cardinality(proxy_devices) - 1
    BY <1>1, <1>5, <1>6, FS_RemoveElement
  <2> QED
    BY <1>1, <1>5, <2>1, FS_CardinalityType
<1>8. total_count' \in Nat /\ Cardinality(Up') <= total_count'
  BY <1>1, <1>6, <1>7 DEF ChannelInv
<1>9. ChannelInv'
  <2>1. TaskOK' /\ proxy_bound' \subseteq Proxies
    BY <1>1, <1>2, <1>3, <1>6 DEF TaskOK, ChannelInv
  <2>2. proxy_devices' \subseteq Up' \cup abandoned'
    BY <1>1, <1>5, <1>6 DEF ChannelInv
  <2> QED
    BY <1>1, <1>5, <1>6, <1>7, <1>8, <2>1, <2>2 DEF ChannelInv
<1>10. ClassInv'
  <2>1. local_class = "class" /\ local_class' = "class"
    BY <1>1, <1>5, <1>6 DEF ClassInv
  <2>2. class_live' => total_count' <= Cardinality(proxy_devices')
    BY <1>1, <1>6, <1>7, <2>1 DEF ClassInv
  <2>3. class_live' => proxy_devices' # {}
    <3> SUFFICES ASSUME class_live' PROVE proxy_devices' # {}
      OBVIOUS
    <3>0. total_count # 1
      BY <1>1
    <3>1. total_count' >= 1
      BY <1>1, <1>6, <1>8, <3>0
    <3>2. Cardinality(proxy_devices') >= 1
      BY <1>7, <1>8, <2>2, <3>1
    <3> QED
      BY <3>2, FS_EmptySet
  <2>4. ~spoilt' => Cardinality(proxy_devices') <= total_count'
    BY <1>1, <1>6, <1>7, <2>1 DEF ClassInv
  <2>5. ~spoilt' /\ proxy_devices' # {} => class_live'
    <3> SUFFICES ASSUME ~spoilt', proxy_devices' # {} PROVE class_live'
      OBVIOUS
    <3>1. Cardinality(proxy_devices') # 0
      BY <1>7, FS_EmptySet
    <3>2. total_count # 1
      BY <1>1, <1>6, <1>7, <1>8, <2>4, <3>1
    <3>3. class_live
      BY <1>1, <1>6 DEF ClassInv
    <3> QED
      BY <1>1, <3>2, <3>3
  <2>6. class_live' \in BOOLEAN /\ undefined' \in BOOLEAN /\ spoilt' \in BOOLEAN
    BY <1>1, <1>6 DEF ClassInv
  <2> QED
    BY <1>7, <2>1, <2>2, <2>3, <2>4, <2>5, <2>6 DEF ClassInv
<1> QED
  BY <1>1, <1>2, <1>3, <1>9, <1>10 DEF ProxyInv

\* The DMA channels of the node go last, when none of its channels is up.
LEMMA ProxyRemoved ==
  ASSUME ProxyInv, remove_done
  PROVE  ProxyInv' /\ proxy_bound' = proxy_bound /\ task # Idle /\ task.at = "remove" /\ task' = Idle
<1>1. /\ task.at = "remove" /\ ~More /\ task' = Idle /\ task'.at = "idle"
      /\ dma_channels' = dma_channels \ ChannelsOf(task.node)
      /\ UNCHANGED <<total_count, classes, cdevs, proxy_bound, undefined, abandoned>>
  BY DEF remove_done, Running, Idle
<1>2. PICK n \in Proxies, i \in Nat :
        /\ ChannelCount[n] \in Nat /\ i <= ChannelCount[n] /\ n \notin proxy_bound
        /\ task.node = n /\ task.i = i /\ task # Idle
        /\ More <=> i < ChannelCount[n]
  BY <1>1, TaskIs
<1>3. \A m \in Proxies : \A j \in 0..(ChannelCount[m] - 1) :
        /\ IsUp(m, j)' <=> IsUp(m, j)
        /\ IsHeld(m, j)' <=> IsHeld(m, j) /\ m # n
        /\ m = n => IsHeld(m, j)
        /\ <<m, j>> \in ChannelsOf(n) <=> m = n
  <2> SUFFICES ASSUME NEW m \in Proxies, NEW j \in 0..(ChannelCount[m] - 1)
               PROVE  /\ IsUp(m, j)' <=> IsUp(m, j)
                      /\ IsHeld(m, j)' <=> IsHeld(m, j) /\ m # n
                      /\ m = n => IsHeld(m, j)
                      /\ <<m, j>> \in ChannelsOf(n) <=> m = n
    OBVIOUS
  <2>1. m = n => ~(j >= i)
    BY <1>1, <1>2
  <2>2. <<m, j>> \in ChannelsOf(n) <=> m = n
    BY DEF ChannelsOf
  <2> QED
    BY <1>1, <1>2, <2>1, <2>2 DEF IsUp, IsHeld
<1>4. Up' = Up /\ Held' = Held \ ChannelsOf(n) /\ ChannelsOf(n) \subseteq Held
  <2>1. \A m \in Proxies : \A j \in 0..(ChannelCount[m] - 1) :
          /\ <<m, j>> \in Up' <=> <<m, j>> \in Up
          /\ <<m, j>> \in Held' <=> <<m, j>> \in Held \ ChannelsOf(n)
    BY <1>3, UpIs
  <2>2. \A d \in Channels : /\ d \in Up' <=> d \in Up
                            /\ d \in Held' <=> d \in Held \ ChannelsOf(n)
    BY <2>1, ChannelsAre
  <2>3. \A j \in 0..(ChannelCount[n] - 1) : <<n, j>> \in Held
    BY <1>3, UpIs
  <2>4. ChannelsOf(n) \subseteq Held
    BY <2>3, ChannelsAre
  <2>5. Up' = Up
    BY <2>2, UpOnly
  <2>6. Held' = Held \ ChannelsOf(n)
    BY <2>2, UpOnly
  <2> QED
    BY <2>4, <2>5, <2>6
<1>5. ChannelInv'
  <2>1. TaskOK'
    BY <1>1 DEF TaskOK
  <2>2. dma_channels' = Held' \cup abandoned' /\ abandoned' \cap Held' = {}
    BY <1>1, <1>2, <1>4 DEF ProxyInv, ChannelInv
  <2> QED
    BY <1>1, <1>4, <2>1, <2>2 DEF ProxyInv, ChannelInv, classes
<1>6. ClassInv'
  BY <1>1, <1>4 DEF ProxyInv, ClassInv, classes
<1> QED
  BY <1>1, <1>2, <1>5, <1>6 DEF ProxyInv
-----------------------------------------------------------------------------
(* What a step leaves of the drivers it does not touch.                    *)

\* A step that is not about aximux.
LEMMA MuxUntouched ==
  ASSUME MuxInv, MuxLoader, UNCHANGED muxes, "aximux" \in loaded' <=> "aximux" \in loaded,
         work' = work \/ (work.module # "aximux" /\ work'.module # "aximux")
  PROVE  MuxInv' /\ MuxLoader'
<1>1. MuxInv'
  <2>1. MuxTypeOK' /\ UsedMux' = UsedMux /\ MuxBound' = MuxBound
    BY DEF MuxInv, MuxTypeOK, UsedMux, MuxBound, muxes
  <2> QED
    BY <2>1 DEF MuxInv, Distinct, muxes
<1>2. MuxBound' = MuxBound /\ mux_bound' = mux_bound /\ mux_refused' = mux_refused
  BY DEF muxes, MuxBound
<1>3. MuxLoader'
  BY <1>2 DEF MuxLoader, Loading
<1> QED
  BY <1>1, <1>3

\* A step that is not about pulsecap.
LEMMA PulsecapUntouched ==
  ASSUME PulsecapInv, PulsecapLoader, UNCHANGED pulsecaps,
         "pulsecap" \in loaded' <=> "pulsecap" \in loaded,
         work' = work \/ work'.module # "pulsecap" \/ work'.at # "load"
  PROVE  PulsecapInv' /\ PulsecapLoader'
<1>1. PulsecapInv'
  <2>1. PulsecapTypeOK' /\ UsedPulsecap' = UsedPulsecap /\ PulsecapBound' = PulsecapBound
    BY DEF PulsecapInv, PulsecapTypeOK, UsedPulsecap, PulsecapBound, pulsecaps
  <2> QED
    BY <2>1 DEF PulsecapInv, Distinct, pulsecaps
<1>2. PulsecapBound' = PulsecapBound /\ UNCHANGED <<pulsecap_bound, pulsecap_region>>
  BY DEF pulsecaps, PulsecapBound
<1>3. PulsecapLoader'
  BY <1>2 DEF PulsecapLoader, Loading
<1> QED
  BY <1>1, <1>3

\* A step that is not about dma_proxy.
LEMMA ProxyUntouched ==
  ASSUME ProxyInv, ProxyLoader, UNCHANGED proxies,
         "dma_proxy" \in loaded' <=> "dma_proxy" \in loaded,
         work' = work \/ (task = Idle /\ (work'.module # "dma_proxy" \/ work'.at # "load"))
  PROVE  ProxyInv' /\ ProxyLoader'
<1>1. /\ UNCHANGED <<total_count, classes, dma_channels, cdevs, proxy_bound, task, undefined,
                     abandoned>>
  BY DEF proxies
<1>2. Up' = Up /\ Held' = Held /\ (TaskOK' <=> TaskOK)
  BY <1>1 DEF Up, Held, IsUp, IsHeld, TaskOK
<1>3. ProxyInv'
  BY <1>1, <1>2 DEF ProxyInv, ChannelInv, ClassInv, classes
<1>4. ProxyLoader'
  BY <1>1 DEF ProxyLoader, Loading
<1> QED
  BY <1>3, <1>4

\* No bound node, no sequence of them.
LEMMA NoneBound ==
  /\ MuxInv => (MuxBound = {} <=> mux_bound = <<>>)
  /\ PulsecapInv => (PulsecapBound = {} <=> pulsecap_bound = <<>>)
<1>1. ASSUME NEW S, NEW s \in Seq(S) PROVE Elements(s) = {} <=> s = <<>>
  <2>1. CASE s = <<>>
    BY <2>1 DEF Elements
  <2>2. CASE s # <<>>
    <3>1. Len(s) \in 1..Len(s) /\ DOMAIN s = 1..Len(s)
      BY <2>2
    <3>2. s[Len(s)] \in Elements(s)
      BY <3>1 DEF Elements
    <3> QED
      BY <2>2, <3>2
  <2> QED
    BY <2>1, <2>2
<1>2. MuxBound = Elements(mux_bound) /\ PulsecapBound = Elements(pulsecap_bound)
  BY DEF MuxBound, PulsecapBound, Elements
<1> QED
  BY <1>1, <1>2 DEF MuxInv, PulsecapInv, MuxTypeOK, PulsecapTypeOK

\* The nodes of each module.
LEMMA BoundAre ==
  /\ BoundTo("aximux") = MuxBound /\ BoundTo("pulsecap") = PulsecapBound
  /\ BoundTo("dma_proxy") = proxy_bound
  /\ BoundTo("kswfloppy") = IF mux_inst = "none" THEN {} ELSE {"floppy"}
  /\ NodesOf("aximux") = Muxes /\ NodesOf("pulsecap") = Pulsecaps
  /\ NodesOf("dma_proxy") = Proxies /\ NodesOf("kswfloppy") = {"floppy"}
BY DEF BoundTo, NodesOf
-----------------------------------------------------------------------------
(* Every step keeps the invariant.                                         *)

\* The invariant holds before any module is loaded.
LEMMA Start == Init => Inv
<1> SUFFICES ASSUME Init PROVE Inv
  OBVIOUS
<1>1. loaded = {} /\ work = Resting /\ mux_inst = "none" /\ MuxInit /\ PulsecapInit /\ ProxyInit
  BY DEF Init
<1>2. work \in WorkRecord /\ work.at = "rest" /\ work.module = "none"
  BY <1>1 DEF WorkRecord, Resting, Loader
<1>3. LoaderInv
  BY <1>1, <1>2 DEF LoaderInv
<1>4. MuxInv /\ PulsecapInv /\ ProxyInv
  BY <1>1, MuxStart, PulsecapStart, ProxyStart
<1>5. MuxLoader /\ PulsecapLoader /\ ProxyLoader /\ FloppyLoader
  BY <1>1, <1>2 DEF MuxLoader, PulsecapLoader, ProxyLoader, FloppyLoader, Loading,
                    MuxInit, PulsecapInit, ProxyInit
<1> QED
  BY <1>3, <1>4, <1>5 DEF Inv

\* Loading finds the module without instances and gives it all its nodes to probe.
LEMMA LoadKeeps == ASSUME Inv, NEW mod \in Modules, Load(mod) PROVE Inv'
<1>1. /\ work = Resting /\ task = Idle /\ mod \notin loaded /\ mod # "none"
      /\ mod = "kswfloppy" => "aximux" \in loaded
      /\ loaded' = loaded \cup {mod} /\ mux_inst' = mux_inst
      /\ work' = Loader("load", mod, NodesOf(mod))
  BY DEF Load, Modules
<1>2. /\ work.at = "rest" /\ work.module = "none"
      /\ work'.at = "load" /\ work'.module = mod /\ work'.todo = NodesOf(mod)
  BY <1>1 DEF Resting, Loader
<1>3. NodesOf(mod) \in SUBSET (Muxes \cup Pulsecaps \cup Proxies \cup {"floppy"})
  BY BoundAre DEF Modules
<1>4. LoaderInv'
  <2>1. work' \in WorkRecord
    BY <1>1, <1>3 DEF WorkRecord, Loader
  <2> QED
    BY <1>1, <1>2, <2>1 DEF Inv, LoaderInv, Modules
<1>5. MuxInv' /\ MuxLoader' /\ mux_data' = mux_data
  <2>1. CASE mod = "aximux"
    <3>1. aximux_init /\ mux_bound = <<>> /\ MuxInv
      BY <1>1, <2>1 DEF Load, Inv, MuxLoader
    <3>2. MuxInv' /\ mux_bound' = <<>> /\ mux_data' = mux_data
      BY <3>1, MuxLoad DEF aximux_init
    <3>3. MuxBound' = {}
      BY <3>2 DEF MuxBound
    <3>4. work'.todo = Muxes
      BY <1>2, <2>1, BoundAre
    <3> QED
      BY <1>1, <1>2, <2>1, <3>2, <3>3, <3>4 DEF MuxLoader, Loading
  <2>2. CASE mod # "aximux"
    <3>1. UNCHANGED muxes
      BY <2>2 DEF Load
    <3> QED
      BY <1>1, <1>2, <2>2, <3>1, MuxUntouched DEF Inv, muxes
  <2> QED
    BY <2>1, <2>2
<1>6. PulsecapInv' /\ PulsecapLoader'
  <2>1. CASE mod = "pulsecap"
    <3>1. esl_pulsecap_init /\ pulsecap_bound = <<>> /\ PulsecapInv
      BY <1>1, <2>1 DEF Load, Inv, PulsecapLoader
    <3>2. PulsecapInv' /\ pulsecap_bound' = <<>>
      BY <3>1, PulsecapModule
    <3>3. PulsecapBound' = {}
      BY <3>2 DEF PulsecapBound
    <3>4. work'.todo = Pulsecaps
      BY <1>2, <2>1, BoundAre
    <3> QED
      BY <1>1, <1>2, <2>1, <3>2, <3>3, <3>4 DEF PulsecapLoader, Loading
  <2>2. CASE mod # "pulsecap"
    <3>1. UNCHANGED pulsecaps
      BY <2>2 DEF Load
    <3> QED
      BY <1>1, <1>2, <2>2, <3>1, PulsecapUntouched DEF Inv
  <2> QED
    BY <2>1, <2>2
<1>7. ProxyInv' /\ ProxyLoader'
  <2>1. CASE mod = "dma_proxy"
    <3>1. dma_proxy_init /\ proxy_bound = {} /\ task = Idle /\ ProxyInv
      BY <1>1, <2>1 DEF Load, Inv, ProxyLoader
    <3>2. ProxyInv' /\ proxy_bound' = {} /\ task' = Idle
      BY <3>1, ProxyLoad DEF dma_proxy_init
    <3>3. work'.todo = Proxies
      BY <1>2, <2>1, BoundAre
    <3>4. ("dma_proxy" \in loaded)' /\ (work.todo \subseteq Proxies \ proxy_bound)'
      BY <1>1, <2>1, <3>2, <3>3
    <3>5. (task = Idle)'
      BY <3>2 DEF Idle
    <3> QED
      BY <3>2, <3>4, <3>5 DEF ProxyLoader, Loading
  <2>2. CASE mod # "dma_proxy"
    <3>1. UNCHANGED proxies
      BY <2>2 DEF Load
    <3> QED
      BY <1>1, <1>2, <2>2, <3>1, ProxyUntouched DEF Inv
  <2> QED
    BY <2>1, <2>2
<1>8. FloppyLoader'
  <2>1. "kswfloppy" \in loaded => mod # "aximux"
    BY <1>1 DEF Inv, FloppyLoader
  <2> QED
    BY <1>1, <1>2, <1>5, <2>1 DEF Inv, FloppyLoader
<1> QED
  BY <1>4, <1>5, <1>6, <1>7, <1>8 DEF Inv

\* When no node is left, each mux is bound or was refused.
LEMMA LoadedKeeps == ASSUME Inv, Loaded PROVE Inv'
<1>1. /\ work.at = "load" /\ work.todo = {} /\ task = Idle /\ work' = Resting
      /\ UNCHANGED <<muxes, pulsecaps, proxies, loaded, mux_inst>>
  BY DEF Loaded
<1>2. work' \in WorkRecord /\ work'.at = "rest" /\ work'.module = "none"
  BY <1>1 DEF WorkRecord, Resting, Loader
<1>3. LoaderInv'
  BY <1>1, <1>2 DEF Inv, LoaderInv
<1>4. MuxInv' /\ MuxLoader' /\ mux_data' = mux_data
  <2>1. CASE work.module = "aximux"
    <3>1. /\ MuxTypeOK' /\ UsedMux' = UsedMux /\ MuxBound' = MuxBound
          /\ UNCHANGED <<available_instances, instance_number, mux_devices, mux_bound, mux_refused,
                         mux_data>>
      BY <1>1 DEF Inv, MuxInv, MuxTypeOK, UsedMux, MuxBound, muxes
    <3>2. MuxInv'
      BY <3>1 DEF Inv, MuxInv, Distinct
    <3>3. MuxLoader'
      BY <1>1, <1>2, <2>1, <3>1 DEF Inv, MuxLoader, Loading
    <3> QED
      BY <3>1, <3>2, <3>3
  <2>2. CASE work.module # "aximux"
    BY <1>1, <1>2, <2>2, MuxUntouched DEF Inv, muxes
  <2> QED
    BY <2>1, <2>2
<1>5. PulsecapInv' /\ PulsecapLoader'
  BY <1>1, <1>2, PulsecapUntouched DEF Inv
<1>6. ProxyInv' /\ ProxyLoader'
  BY <1>1, <1>2, ProxyUntouched DEF Inv
<1>7. FloppyLoader'
  BY <1>1, <1>2, <1>4 DEF Inv, FloppyLoader
<1> QED
  BY <1>3, <1>4, <1>5, <1>6, <1>7 DEF Inv

\* aximux is not unloaded under kswfloppy.
LEMMA UnloadKeeps == ASSUME Inv, NEW mod \in Modules, Unload(mod) PROVE Inv'
<1>1. /\ work = Resting /\ task = Idle /\ mod \in loaded /\ mod # "none"
      /\ mod = "aximux" => "kswfloppy" \notin loaded
      /\ work' = Loader("unload", mod, {})
      /\ UNCHANGED <<pulsecaps, proxies, loaded, mux_inst>>
  BY DEF Unload, Modules
<1>2. /\ work.at = "rest" /\ work.module = "none" /\ work' \in WorkRecord
      /\ work'.at = "unload" /\ work'.module = mod /\ work'.todo = {}
  BY <1>1 DEF Resting, Loader, WorkRecord
<1>3. LoaderInv'
  BY <1>1, <1>2 DEF Inv, LoaderInv
<1>4. MuxInv' /\ MuxLoader' /\ mux_data' = mux_data
  <2>1. CASE mod = "aximux"
    <3>1. MuxInv' /\ UNCHANGED <<mux_bound, mux_refused, mux_data>>
      BY <2>1, MuxExit DEF Unload, Inv, aximux_exit
    <3>2. MuxLoader'
      BY <1>1, <1>2, <2>1, <3>1 DEF Inv, MuxLoader, Loading
    <3> QED
      BY <3>1, <3>2
  <2>2. CASE mod # "aximux"
    <3>1. UNCHANGED muxes
      BY <2>2 DEF Unload
    <3> QED
      BY <1>1, <1>2, <2>2, <3>1, MuxUntouched DEF Inv, muxes
  <2> QED
    BY <2>1, <2>2
<1>5. PulsecapInv' /\ PulsecapLoader'
  BY <1>1, <1>2, PulsecapUntouched DEF Inv
<1>6. ProxyInv' /\ ProxyLoader'
  BY <1>1, <1>2, ProxyUntouched DEF Inv
<1>7. FloppyLoader'
  BY <1>1, <1>2, <1>4 DEF Inv, FloppyLoader
<1> QED
  BY <1>3, <1>4, <1>5, <1>6, <1>7 DEF Inv

\* A module goes when its last node was removed.
LEMMA UnloadedKeeps == ASSUME Inv, Unloaded PROVE Inv'
<1> DEFINE mod == work.module
<1>1. /\ work.at = "unload" /\ task = Idle /\ BoundTo(mod) = {}
      /\ loaded' = loaded \ {mod} /\ work' = Resting
      /\ UNCHANGED <<muxes, proxies, mux_inst>>
  BY DEF Unloaded
<1>2. work' \in WorkRecord /\ work'.at = "rest" /\ work'.module = "none" /\ mod \in Modules
  BY <1>1 DEF WorkRecord, Resting, Loader, Inv, LoaderInv
<1>3. LoaderInv'
  BY <1>1, <1>2 DEF Inv, LoaderInv
<1>4. MuxInv' /\ MuxLoader' /\ mux_data' = mux_data
  <2>1. CASE mod = "aximux"
    <3>1. /\ MuxTypeOK' /\ UsedMux' = UsedMux /\ MuxBound' = MuxBound
          /\ UNCHANGED <<available_instances, instance_number, mux_devices, mux_bound, mux_data>>
      BY <1>1 DEF Inv, MuxInv, MuxTypeOK, UsedMux, MuxBound, muxes
    <3>2. MuxInv'
      BY <3>1 DEF Inv, MuxInv, Distinct
    <3>3. mux_bound = <<>>
      BY <1>1, <2>1, BoundAre, NoneBound DEF Inv
    <3>4. MuxLoader'
      BY <1>1, <1>2, <2>1, <3>1, <3>3 DEF MuxLoader, Loading
    <3> QED
      BY <3>1, <3>2, <3>4
  <2>2. CASE mod # "aximux"
    BY <1>1, <1>2, <2>2, MuxUntouched DEF Inv, muxes
  <2> QED
    BY <2>1, <2>2
<1>5. PulsecapInv' /\ PulsecapLoader'
  <2>1. CASE mod = "pulsecap"
    <3>1. esl_pulsecap_exit /\ pulsecap_bound = <<>>
      BY <1>1, <2>1, BoundAre, NoneBound DEF Inv, Unloaded, Driver
    <3>2. PulsecapInv' /\ pulsecap_bound' = <<>> /\ ~pulsecap_region'
      BY <3>1, PulsecapModule DEF Inv, esl_pulsecap_exit
    <3> QED
      BY <1>2, <3>2 DEF PulsecapLoader, Loading
  <2>2. CASE mod # "pulsecap"
    <3>1. UNCHANGED pulsecaps
      BY <2>2 DEF Unloaded, Driver
    <3> QED
      BY <1>1, <1>2, <2>2, <3>1, PulsecapUntouched DEF Inv
  <2> QED
    BY <2>1, <2>2
<1>6. ProxyInv' /\ ProxyLoader'
  <2>1. CASE mod = "dma_proxy"
    <3>1. /\ UNCHANGED <<total_count, classes, dma_channels, cdevs, proxy_bound, task, undefined,
                         abandoned>>
          /\ Up' = Up /\ Held' = Held /\ (TaskOK' <=> TaskOK)
      BY <1>1 DEF proxies, Up, Held, IsUp, IsHeld, TaskOK
    <3>2. ProxyInv'
      BY <3>1 DEF Inv, ProxyInv, ChannelInv, ClassInv, classes
    <3>3. proxy_bound = {}
      BY <1>1, <2>1, BoundAre
    <3>4. ProxyLoader'
      BY <1>1, <1>2, <3>1, <3>3 DEF ProxyLoader, Loading
    <3> QED
      BY <3>2, <3>4
  <2>2. CASE mod # "dma_proxy"
    BY <1>1, <1>2, <2>2, ProxyUntouched DEF Inv
  <2> QED
    BY <2>1, <2>2
<1>7. FloppyLoader'
  <2>1. mod = "kswfloppy" => mux_inst = "none"
    BY <1>1, BoundAre
  <2>2. mod = "aximux" => "kswfloppy" \notin loaded
    BY DEF Inv, FloppyLoader
  <2> QED
    BY <1>1, <1>2, <1>4, <2>1, <2>2 DEF Inv, FloppyLoader
<1> QED
  BY <1>3, <1>4, <1>5, <1>6, <1>7 DEF Inv

\* The loader while it probes or removes nodes of one module.
LEMMA ProbingIs ==
  ASSUME LoaderInv, UNCHANGED loaded, NEW n, Probing(n) \/ Removing
  PROVE  /\ LoaderInv' /\ task = Idle
         /\ work.at \in {"load", "unload"} /\ work.module \in loaded
         /\ work'.at = work.at /\ work'.module = work.module
         /\ work.at = "load" => n \in work.todo /\ work'.todo = work.todo \ {n}
         /\ Probing(n) => work.at = "load"
         /\ Removing => work.at = "unload"
<1>1. CASE Probing(n)
  <2>1. /\ work.at = "load" /\ n \in work.todo /\ task = Idle
        /\ work' = [work EXCEPT !.todo = work.todo \ {n}] /\ work \in WorkRecord
    BY <1>1 DEF Probing, LoaderInv
  <2>2. /\ work' \in WorkRecord /\ work'.at = "load" /\ work'.module = work.module
        /\ work'.todo = work.todo \ {n}
    BY <2>1 DEF WorkRecord
  <2>3. LoaderInv'
    BY <2>1, <2>2 DEF LoaderInv
  <2> QED
    BY <2>1, <2>2, <2>3 DEF LoaderInv, Removing
<1>2. CASE Removing
  BY <1>2 DEF Removing, Probing, LoaderInv
<1> QED
  BY <1>1, <1>2

\* A probe or remove of aximux.
LEMMA MuxStepKeeps == ASSUME Inv, MuxStep PROVE Inv'
<1>1. /\ work.module = "aximux" /\ UNCHANGED <<pulsecaps, proxies, loaded, mux_inst>>
      /\ LoaderInv /\ MuxInv /\ MuxLoader
      /\ \/ \E n \in Muxes : Probing(n) /\ aximux_probe(n)
         \/ mux_bound # <<>> /\ Removing /\ aximux_remove(mux_bound[Len(mux_bound)])
  BY DEF MuxStep, Driver, OthersThanMux, Inv
<1>2. /\ LoaderInv' /\ task = Idle /\ work'.module = "aximux" /\ "aximux" \in loaded
      /\ MuxInv' /\ MuxLoader' /\ mux_data \subseteq mux_data'
  <2>1. CASE \E n \in Muxes : Probing(n) /\ aximux_probe(n)
    <3>1. PICK n \in Muxes : Probing(n) /\ aximux_probe(n)
      BY <2>1
    <3>2. /\ LoaderInv' /\ task = Idle /\ work'.module = "aximux" /\ "aximux" \in loaded
          /\ work.at = "load" /\ work'.at = "load"
          /\ n \in work.todo /\ work'.todo = work.todo \ {n}
      BY <1>1, <3>1, ProbingIs
    <3>3. n \notin MuxBound
      BY <1>1, <3>2 DEF MuxLoader, Loading
    <3>4. /\ MuxInv' /\ MuxBound' \in {MuxBound, MuxBound \cup {n}}
          /\ n \in MuxBound' \cup mux_refused' /\ mux_refused \ {n} \subseteq mux_refused'
          /\ mux_data \subseteq mux_data'
      BY <1>1, <3>1, <3>3, MuxProbe
    <3>5. MuxLoader'
      BY <1>1, <3>2, <3>4 DEF MuxLoader, Loading
    <3> QED
      BY <3>2, <3>4, <3>5
  <2>2. CASE mux_bound # <<>> /\ Removing /\ aximux_remove(mux_bound[Len(mux_bound)])
    <3>1. /\ LoaderInv' /\ task = Idle /\ work'.module = "aximux" /\ "aximux" \in loaded
          /\ work'.at = "unload"
      BY <1>1, <2>2, ProbingIs
    <3>2. MuxInv' /\ mux_data' = mux_data
      BY <1>1, <2>2, MuxRemove
    <3>3. MuxLoader'
      BY <1>1, <3>1 DEF MuxLoader, Loading
    <3> QED
      BY <3>1, <3>2, <3>3
  <2> QED
    BY <1>1, <2>1, <2>2
<1>3. PulsecapInv' /\ PulsecapLoader'
  BY <1>1, <1>2, PulsecapUntouched DEF Inv
<1>4. ProxyInv' /\ ProxyLoader'
  BY <1>1, <1>2, ProxyUntouched DEF Inv
<1>5. FloppyLoader'
  BY <1>1, <1>2 DEF Inv, FloppyLoader
<1> QED
  BY <1>2, <1>3, <1>4, <1>5 DEF Inv

\* A probe or remove of pulsecap.
LEMMA PulsecapStepKeeps == ASSUME Inv, PulsecapStep PROVE Inv'
<1>1. /\ work.module = "pulsecap" /\ UNCHANGED <<muxes, proxies, loaded, mux_inst>>
      /\ LoaderInv /\ PulsecapInv /\ PulsecapLoader
      /\ \/ \E n \in Pulsecaps : Probing(n) /\ esl_pulsecap_probe(n)
         \/ /\ pulsecap_bound # <<>> /\ Removing
            /\ esl_pulsecap_remove(pulsecap_bound[Len(pulsecap_bound)])
  BY DEF PulsecapStep, Driver, OthersThanPulsecap, Inv
<1>2. /\ LoaderInv' /\ task = Idle /\ work'.module = "pulsecap" /\ "pulsecap" \in loaded
      /\ PulsecapInv' /\ PulsecapLoader'
  <2>1. CASE \E n \in Pulsecaps : Probing(n) /\ esl_pulsecap_probe(n)
    <3>1. PICK n \in Pulsecaps : Probing(n) /\ esl_pulsecap_probe(n)
      BY <2>1
    <3>2. /\ LoaderInv' /\ task = Idle /\ work'.module = "pulsecap" /\ "pulsecap" \in loaded
          /\ work.at = "load" /\ n \in work.todo /\ work'.todo = work.todo \ {n}
      BY <1>1, <3>1, ProbingIs
    <3>3. n \notin PulsecapBound
      BY <1>1, <3>2 DEF PulsecapLoader, Loading
    <3>4. PulsecapInv' /\ PulsecapBound' \subseteq PulsecapBound \cup {n}
      BY <1>1, <3>1, <3>3, PulsecapProbe
    <3>5. PulsecapLoader'
      BY <1>1, <3>2, <3>4 DEF PulsecapLoader, Loading
    <3> QED
      BY <3>2, <3>4, <3>5
  <2>2. CASE /\ pulsecap_bound # <<>> /\ Removing
             /\ esl_pulsecap_remove(pulsecap_bound[Len(pulsecap_bound)])
    <3>1. /\ LoaderInv' /\ task = Idle /\ work'.module = "pulsecap" /\ "pulsecap" \in loaded
          /\ work'.at = "unload"
      BY <1>1, <2>2, ProbingIs
    <3>2. PulsecapInv'
      BY <1>1, <2>2, PulsecapRemove
    <3>3. PulsecapLoader'
      BY <1>1, <3>1 DEF PulsecapLoader, Loading
    <3> QED
      BY <3>1, <3>2, <3>3
  <2> QED
    BY <1>1, <2>1, <2>2
<1>3. MuxInv' /\ MuxLoader' /\ mux_data' = mux_data
  BY <1>1, <1>2, MuxUntouched DEF Inv, muxes
<1>4. ProxyInv' /\ ProxyLoader'
  BY <1>1, <1>2, ProxyUntouched DEF Inv
<1>5. FloppyLoader'
  BY <1>1, <1>2, <1>3 DEF Inv, FloppyLoader
<1> QED
  BY <1>2, <1>3, <1>4, <1>5 DEF Inv

\* A probe or remove of dma_proxy, or a channel of one in progress.
LEMMA ProxyStepKeeps == ASSUME Inv, ProxyStep PROVE Inv'
<1>1. /\ UNCHANGED <<muxes, pulsecaps, loaded, mux_inst>>
      /\ LoaderInv /\ ProxyInv /\ ProxyLoader
      /\ \/ Driver("dma_proxy") /\ \E n \in Proxies : Probing(n) /\ dma_proxy_probe(n)
         \/ Driver("dma_proxy") /\ \E n \in proxy_bound : Removing /\ dma_proxy_remove(n)
         \/ ChannelStep /\ UNCHANGED work
  BY DEF ProxyStep, OthersThanProxy, Inv
<1>2. /\ LoaderInv' /\ ProxyInv' /\ ProxyLoader'
      /\ work' = work \/ (work.module = "dma_proxy" /\ work'.module = "dma_proxy")
  <2>1. CASE Driver("dma_proxy") /\ \E n \in Proxies : Probing(n) /\ dma_proxy_probe(n)
    <3>1. PICK n \in Proxies : Probing(n) /\ dma_proxy_probe(n)
      BY <2>1
    <3>2. /\ LoaderInv' /\ task = Idle /\ work.module = "dma_proxy" /\ work'.module = "dma_proxy"
          /\ "dma_proxy" \in loaded /\ work.at = "load"
          /\ n \in work.todo /\ work'.todo = work.todo \ {n}
      BY <1>1, <2>1, <3>1, ProbingIs DEF Driver
    <3>3. work.todo \subseteq Proxies \ proxy_bound /\ n \notin proxy_bound
      BY <1>1, <3>2 DEF ProxyLoader, Loading
    <3>4. ProxyInv'
      BY <1>1, <3>1, <3>2, <3>3, ProxyProbe
    <3>5. proxy_bound' = proxy_bound /\ task' = At("create", n, 0)
      BY <3>1, <3>2 DEF dma_proxy_probe
    <3>6. task'.at = "create" /\ task'.node = n
      BY <3>5 DEF At
    <3>7. ProxyLoader'
      BY <1>1, <3>2, <3>3, <3>5, <3>6 DEF ProxyLoader, Loading, Idle
    <3> QED
      BY <3>2, <3>4, <3>7
  <2>2. CASE Driver("dma_proxy") /\ \E n \in proxy_bound : Removing /\ dma_proxy_remove(n)
    <3>1. PICK n \in proxy_bound : Removing /\ dma_proxy_remove(n)
      BY <2>2
    <3>2. /\ LoaderInv' /\ task = Idle /\ work.module = "dma_proxy" /\ work'.module = "dma_proxy"
          /\ "dma_proxy" \in loaded /\ work'.at = "unload"
      BY <1>1, <2>2, <3>1, ProbingIs DEF Driver
    <3>3. ProxyInv'
      BY <1>1, <3>1, <3>2, ProxyRemove
    <3>4. ProxyLoader'
      BY <1>1, <3>2 DEF ProxyLoader, Loading
    <3> QED
      BY <3>2, <3>3, <3>4
  <2>3. CASE ChannelStep /\ UNCHANGED work
    <3>1. LoaderInv'
      BY <1>1, <2>3 DEF LoaderInv
    <3>2. /\ "dma_proxy" \in loaded \/ task = Idle
          /\ work.at = "rest" \/ work.module = "dma_proxy" \/ task = Idle
          /\ task = Idle \/ task.at # "remove" \/ ~Loading("dma_proxy")
      BY <1>1 DEF ProxyLoader
    <3>3. CASE probe_done
      <4>1. ProxyInv' /\ task # Idle /\ task.at = "create"
        BY <1>1, <3>3, ProxyProbed
      <4>2. task' = Idle /\ proxy_bound' = proxy_bound \cup {task.node}
        BY <3>3 DEF probe_done
      <4>3. ProxyLoader'
        BY <1>1, <2>3, <3>2, <4>1, <4>2 DEF ProxyLoader, Loading
      <4> QED
        BY <2>3, <3>1, <4>1, <4>3
    <3>4. CASE ~probe_done
      <4>1. /\ ProxyInv' /\ task # Idle /\ proxy_bound' = proxy_bound
            /\ \/ task' = Idle \/ task' = task
               \/ task'.at = "create" /\ task'.node = task.node
               \/ task.at = "remove"
        BY <1>1, <2>3, <3>4, ProxyCreate, ProxyUndefined, ProxyRefuse, ProxyRemoveChannel,
           ProxyRemoved DEF ChannelStep
      <4>2. ProxyLoader'
        BY <1>1, <2>3, <3>2, <4>1 DEF ProxyLoader, Loading
      <4> QED
        BY <2>3, <3>1, <4>1, <4>2
    <3> QED
      BY <3>3, <3>4
  <2> QED
    BY <1>1, <2>1, <2>2, <2>3
<1>3. MuxInv' /\ MuxLoader' /\ mux_data' = mux_data
  BY <1>1, <1>2, MuxUntouched DEF Inv, muxes
<1>4. PulsecapInv' /\ PulsecapLoader'
  BY <1>1, <1>2, PulsecapUntouched DEF Inv
<1>5. FloppyLoader'
  BY <1>1, <1>2, <1>3 DEF Inv, FloppyLoader
<1> QED
  BY <1>2, <1>3, <1>4, <1>5 DEF Inv

\* A node of dma_proxy unbound or bound by hand.
LEMMA RebindKeeps == ASSUME Inv, Rebind PROVE Inv'
<1>1. /\ UNCHANGED <<muxes, pulsecaps, loaded, mux_inst, work>>
      /\ LoaderInv /\ ProxyInv /\ ProxyLoader
      /\ work = Resting /\ task = Idle /\ "dma_proxy" \in loaded
      /\ \/ \E n \in proxy_bound : dma_proxy_remove(n)
         \/ \E n \in Proxies \ proxy_bound : dma_proxy_probe(n)
  BY DEF Rebind, OthersThanProxy, Inv
<1>2. ProxyInv'
  BY <1>1, ProxyRemove, ProxyProbe
<1>3. LoaderInv'
  BY <1>1 DEF LoaderInv
<1>4. ProxyLoader'
  <2>1. work'.at = "rest" /\ ("dma_proxy" \in loaded)'
    BY <1>1 DEF Resting, Loader
  <2> QED
    BY <2>1 DEF ProxyLoader, Loading
<1>5. MuxInv' /\ MuxLoader' /\ mux_data' = mux_data
  BY <1>1, MuxUntouched DEF Inv, muxes
<1>6. PulsecapInv' /\ PulsecapLoader'
  BY <1>1, PulsecapUntouched DEF Inv
<1>7. FloppyLoader'
  BY <1>1, <1>5 DEF Inv, FloppyLoader
<1> QED
  BY <1>2, <1>3, <1>4, <1>5, <1>6, <1>7 DEF Inv

\* A probe or remove of kswfloppy.
LEMMA FloppyKeeps == ASSUME Inv, kswfloppy_probe \/ kswfloppy_remove PROVE Inv'
<1>1. /\ UNCHANGED <<muxes, pulsecaps, proxies, loaded>> /\ work.module = "kswfloppy"
      /\ Probing("floppy") \/ Removing
      /\ mux_inst' = "none" \/ (mux_inst' = FloppyMux /\ FloppyMux \in mux_data)
  BY DEF kswfloppy_probe, kswfloppy_remove, OthersThanFloppy, Driver, PhandlesFound
<1>2. LoaderInv' /\ task = Idle /\ work'.module = "kswfloppy" /\ "kswfloppy" \in loaded
  BY <1>1, ProbingIs DEF Inv
<1>3. MuxInv' /\ MuxLoader' /\ mux_data' = mux_data
  BY <1>1, <1>2, MuxUntouched DEF Inv, muxes
<1>4. PulsecapInv' /\ PulsecapLoader'
  BY <1>1, <1>2, PulsecapUntouched DEF Inv
<1>5. ProxyInv' /\ ProxyLoader'
  BY <1>1, <1>2, ProxyUntouched DEF Inv
<1>6. FloppyLoader'
  BY <1>1, <1>2, <1>3, DevicesAssumption DEF Inv, FloppyLoader
<1> QED
  BY <1>2, <1>3, <1>4, <1>5, <1>6 DEF Inv

\* Nothing happens.
LEMMA StutterKeeps == ASSUME Inv, UNCHANGED vars PROVE Inv'
<1>1. UNCHANGED <<muxes, pulsecaps, proxies, loaded, work, mux_inst>>
  BY DEF vars
<1>2. LoaderInv'
  BY <1>1 DEF Inv, LoaderInv
<1>3. MuxInv' /\ MuxLoader' /\ mux_data' = mux_data
  BY <1>1, MuxUntouched DEF Inv, muxes
<1>4. PulsecapInv' /\ PulsecapLoader'
  BY <1>1, PulsecapUntouched DEF Inv
<1>5. ProxyInv' /\ ProxyLoader'
  BY <1>1, ProxyUntouched DEF Inv
<1>6. FloppyLoader'
  BY <1>1, <1>3 DEF Inv, FloppyLoader
<1> QED
  BY <1>2, <1>3, <1>4, <1>5, <1>6 DEF Inv

\* Together: the invariant holds always.
LEMMA Inductive == Spec => []Inv
<1>1. Init => Inv
  BY Start
<1>2. Inv /\ [Next]_vars => Inv'
  <2> SUFFICES ASSUME Inv, [Next]_vars PROVE Inv'
    OBVIOUS
  <2>1. ASSUME NEW mod \in Modules, Load(mod) \/ Unload(mod) PROVE Inv'
    BY <2>1, LoadKeeps, UnloadKeeps
  <2>2. CASE Loaded
    BY <2>2, LoadedKeeps
  <2>3. CASE Unloaded
    BY <2>3, UnloadedKeeps
  <2>4. CASE MuxStep
    BY <2>4, MuxStepKeeps
  <2>5. CASE PulsecapStep
    BY <2>5, PulsecapStepKeeps
  <2>6. CASE ProxyStep
    BY <2>6, ProxyStepKeeps
  <2>7. CASE Rebind
    BY <2>7, RebindKeeps
  <2>8. CASE kswfloppy_probe \/ kswfloppy_remove
    BY <2>8, FloppyKeeps
  <2>9. CASE UNCHANGED vars
    BY <2>9, StutterKeeps
  <2> QED
    BY <2>1, <2>2, <2>3, <2>4, <2>5, <2>6, <2>7, <2>8, <2>9 DEF Next
<1> QED
  BY <1>1, <1>2, PTL DEF Spec
-----------------------------------------------------------------------------
(* What follows for the drivers.                                           *)

\* Every variable keeps its type, and pulsecap stays inside the array of its
\* instances if the nodes are not more than it has elements (pulsecap.c:600).
THEOREM TypeCorrect == Spec => []TypeOK
<1>1. Inv => TypeOK
  <2> SUFFICES ASSUME Inv PROVE TypeOK
    OBVIOUS
  <2>1. MuxTypeOK /\ PulsecapTypeOK
    BY DEF Inv, MuxInv, PulsecapInv
  <2>2. cdevs \subseteq Channels /\ proxy_devices \subseteq Channels /\ dma_channels \subseteq Channels
    BY UpOnly DEF Inv, ProxyInv, ChannelInv
  <2>3. task = Idle \/ (task.at \in {"create", "remove"} /\ task.node \in Proxies)
    BY DEF Inv, ProxyInv, ChannelInv, TaskOK, At
  <2>5. ProxyTypeOK
    BY <2>2, <2>3 DEF Inv, ProxyInv, ChannelInv, ClassInv, ProxyTypeOK
  <2>6. work = Resting \/ (work.at \in {"load", "unload"} /\ work.module \in loaded)
    BY DEF Inv, LoaderInv, WorkRecord
  <2> QED
    BY <2>1, <2>5, <2>6 DEF TypeOK, Inv, LoaderInv, FloppyLoader
<1> QED
  BY <1>1, Inductive, PTL

\* Each instance has a device under its number and each device an instance, so that
\* remove, which goes by the count (pulsecap.c:530) or by the number noted at probe
\* (aximux.c:296), destroys none but its own.
THEOREM DevicesAreOwn == Spec => []OwnDevice
<1>1. Inv => OwnDevice
  <2> SUFFICES ASSUME Inv PROVE OwnDevice
    OBVIOUS
  <2>1. DOMAIN pulsecap_bound = 1..Len(pulsecap_bound)
    BY DEF Inv, PulsecapInv, PulsecapTypeOK
  <2> QED
    BY <2>1 DEF OwnDevice, Inv, MuxInv, PulsecapInv, UsedMux, UsedPulsecap
<1> QED
  BY <1>1, Inductive, PTL

\* Until a device or the buffers of a channel are refused, or a node is probed after the
\* last remove, no device of dma-proxy is in a class that was destroyed: total_count
\* comes to one only with the last channel of all, however many nodes and channels
\* there are, whatever probes fail and modules are loaded again (dma-proxy.c:479).
THEOREM ClassIsLive == Spec => []ClassOutlivesDevices
<1>1. Inv => ClassOutlivesDevices
  BY DEF Inv, ProxyInv, ClassInv, ClassOutlivesDevices
<1> QED
  BY <1>1, Inductive, PTL

\* A module that was unloaded leaves no device or channel behind but those of
\* failed probes, and no class without a device (dma-proxy.c:544-636,
\* pulsecap.c:519-532, aximux.c:286-304).
THEOREM LeavesNothing == Spec => []NothingLeft
<1>1. Inv => NothingLeft
  <2> SUFFICES ASSUME Inv PROVE NothingLeft
    OBVIOUS
  <2>1. ASSUME "dma_proxy" \notin loaded
        PROVE  /\ dma_channels \cup cdevs \cup proxy_devices \subseteq abandoned
               /\ class_live => proxy_devices # {}
    <3>1. proxy_bound = {} /\ task.at = "idle"
      BY <2>1 DEF Inv, ProxyLoader, Idle
    <3>2. Up = {} /\ Held = {}
      BY <3>1 DEF Up, Held, IsUp, IsHeld
    <3> QED
      BY <3>2 DEF Inv, ProxyInv, ChannelInv, ClassInv
  <2>2. ASSUME "pulsecap" \notin loaded
        PROVE  ~pulsecap_region /\ \A m \in PulsecapMinors : pulsecap_devices[m] = "none"
    <3>1. ~pulsecap_region /\ Len(pulsecap_bound) = 0
      BY <2>2 DEF Inv, PulsecapLoader
    <3>2. \A m \in PulsecapMinors : ~(m < 0)
      BY PulsecapDevicesAssumption DEF PulsecapMinors
    <3> QED
      BY <3>1, <3>2 DEF Inv, PulsecapInv
  <2>3. ASSUME "aximux" \notin loaded PROVE \A m \in MuxMinors : mux_devices[m] = "none"
    <3>1. MuxBound = {}
      BY <2>3 DEF Inv, MuxLoader, MuxBound
    <3> QED
      BY <3>1 DEF Inv, MuxInv
  <2> QED
    BY <2>1, <2>2, <2>3 DEF NothingLeft
<1> QED
  BY <1>1, Inductive, PTL

\* The mux that kswfloppy writes to is bound, or its latest probe failed and its
\* node still has the data of an earlier one (kswfloppy.c:276-377).
THEOREM FloppyMuxIsAlive == Spec => []FloppyMuxAlive
<1>1. Inv => FloppyMuxAlive
  <2> SUFFICES ASSUME Inv, mux_inst # "none" PROVE mux_inst \in MuxBound \cup (mux_refused \cap mux_data)
    BY DEF FloppyMuxAlive
  <2>1. "aximux" \in loaded /\ work.module # "aximux" /\ mux_inst \in Muxes /\ mux_inst \in mux_data
    BY DEF Inv, FloppyLoader
  <2> QED
    BY <2>1 DEF Inv, MuxLoader
<1> QED
  BY <1>1, Inductive, PTL
=============================================================================
