-------------------------------- MODULE Devices ---------------------------------
(***************************************************************************)
(* The modules of the drivers as the kernel loads and unloads them, one at *)
(* a time: on load each node is probed, on unload the bound nodes are      *)
(* removed, the latest first.  kswfloppy uses a function of aximux, which  *)
(* cannot be unloaded before it; of pulsecap it uses none.                 *)
(***************************************************************************)
EXTENDS AximuxDevices, PulsecapDevices, DmaProxyDevices, FiniteSets

CONSTANTS
  FloppyMux,       \* the nodes kswfloppy's phandles name
  FloppyPulsecap

ASSUME DevicesAssumption == FloppyMux \in Muxes /\ FloppyPulsecap \in Pulsecaps

VARIABLES
  loaded,     \* the modules in the kernel
  work,       \* what the loader is at, for which module, with the nodes left
  mux_inst    \* of kswfloppy while it is bound, "none" otherwise

vars == <<muxes, pulsecaps, proxies, loaded, work, mux_inst>>

Modules == {"aximux", "pulsecap", "dma_proxy", "kswfloppy"}
Loader(at, mod, todo) == [at |-> at, module |-> mod, todo |-> todo]
Resting == Loader("rest", "none", {})
NodesOf(mod) ==
  CASE mod = "aximux" -> Muxes [] mod = "pulsecap" -> Pulsecaps
    [] mod = "dma_proxy" -> Proxies [] mod = "kswfloppy" -> {"floppy"}

TypeOK ==
  /\ MuxTypeOK /\ PulsecapTypeOK /\ ProxyTypeOK
  /\ loaded \subseteq Modules
  /\ \/ work = Resting
     \/ work.at \in {"load", "unload"} /\ work.module \in loaded
  /\ mux_inst \in Muxes \cup {"none"}

Init ==
  /\ MuxInit /\ PulsecapInit /\ ProxyInit
  /\ loaded = {} /\ work = Resting /\ mux_inst = "none"

Driver(mod) == work.module = mod
Probing(n) ==
  work.at = "load" /\ n \in work.todo /\ task = Idle /\ work' = [work EXCEPT !.todo = @ \ {n}]
Removing == work.at = "unload" /\ task = Idle /\ UNCHANGED work
OthersThanMux == UNCHANGED <<pulsecaps, proxies, loaded, mux_inst>>
OthersThanPulsecap == UNCHANGED <<muxes, proxies, loaded, mux_inst>>
OthersThanProxy == UNCHANGED <<muxes, pulsecaps, loaded, mux_inst>>
OthersThanFloppy == UNCHANGED <<muxes, pulsecaps, proxies, loaded>>

Load(mod) ==
  /\ work = Resting /\ task = Idle /\ mod \notin loaded
  /\ mod = "kswfloppy" => "aximux" \in loaded
  /\ loaded' = loaded \cup {mod}
  /\ work' = Loader("load", mod, NodesOf(mod))
  /\ IF mod = "aximux" THEN aximux_init ELSE UNCHANGED muxes
  /\ IF mod = "pulsecap" THEN esl_pulsecap_init ELSE UNCHANGED pulsecaps
  /\ IF mod = "dma_proxy" THEN dma_proxy_init ELSE UNCHANGED proxies
  /\ UNCHANGED mux_inst

Loaded ==
  /\ work.at = "load" /\ work.todo = {} /\ task = Idle
  /\ work' = Resting
  /\ UNCHANGED <<muxes, pulsecaps, proxies, loaded, mux_inst>>

Unload(mod) ==
  /\ work = Resting /\ task = Idle /\ mod \in loaded
  /\ mod = "aximux" => "kswfloppy" \notin loaded
  /\ work' = Loader("unload", mod, {})
  /\ IF mod = "aximux" THEN aximux_exit ELSE UNCHANGED muxes
  /\ UNCHANGED <<pulsecaps, proxies, loaded, mux_inst>>

BoundTo(mod) ==
  CASE mod = "aximux" -> MuxBound [] mod = "pulsecap" -> PulsecapBound
    [] mod = "dma_proxy" -> proxy_bound
    [] mod = "kswfloppy" -> IF mux_inst = "none" THEN {} ELSE {"floppy"}

Unloaded ==
  /\ work.at = "unload" /\ task = Idle /\ BoundTo(work.module) = {}
  /\ loaded' = loaded \ {work.module}
  /\ work' = Resting
  /\ IF Driver("pulsecap") THEN esl_pulsecap_exit ELSE UNCHANGED pulsecaps
  /\ UNCHANGED <<muxes, proxies, mux_inst>>

MuxStep ==
  /\ Driver("aximux") /\ OthersThanMux
  /\ \/ \E n \in Muxes : Probing(n) /\ aximux_probe(n)
     \/ mux_bound # <<>> /\ Removing /\ aximux_remove(mux_bound[Len(mux_bound)])

PulsecapStep ==
  /\ Driver("pulsecap") /\ OthersThanPulsecap
  /\ \/ \E n \in Pulsecaps : Probing(n) /\ esl_pulsecap_probe(n)
     \/ /\ pulsecap_bound # <<>> /\ Removing
        /\ esl_pulsecap_remove(pulsecap_bound[Len(pulsecap_bound)])

ProxyStep ==
  /\ OthersThanProxy
  /\ \/ Driver("dma_proxy") /\ \E n \in Proxies : Probing(n) /\ dma_proxy_probe(n)
     \/ Driver("dma_proxy") /\ \E n \in proxy_bound : Removing /\ dma_proxy_remove(n)
     \/ ChannelStep /\ UNCHANGED work

(* An instance of dma-proxy is unbound and bound again by hand, in any     *)
(* order, and also when the last remove has destroyed the class.           *)
Rebind ==
  /\ work = Resting /\ task = Idle /\ "dma_proxy" \in loaded
  /\ \/ \E n \in proxy_bound : dma_proxy_remove(n)
     \/ \E n \in Proxies \ proxy_bound : dma_proxy_probe(n)
  /\ OthersThanProxy /\ UNCHANGED work

(* Slip: the mux's data is not tested.                                     *)
FaultyPhandlesFound == FloppyPulsecap \in pulsecap_data

(* Both nodes have data, which says that they were bound once.             *)
PhandlesFound == FloppyPulsecap \in pulsecap_data /\ FloppyMux \in mux_data

kswfloppy_probe ==
  /\ Driver("kswfloppy") /\ Probing("floppy") /\ OthersThanFloppy
  /\ mux_inst' = IF PhandlesFound THEN FloppyMux ELSE "none"

kswfloppy_remove ==
  /\ Driver("kswfloppy") /\ mux_inst # "none" /\ Removing /\ OthersThanFloppy
  /\ mux_inst' = "none"

Next ==
  \/ \E mod \in Modules : Load(mod) \/ Unload(mod)
  \/ Loaded \/ Unloaded
  \/ MuxStep \/ PulsecapStep \/ ProxyStep \/ Rebind
  \/ kswfloppy_probe \/ kswfloppy_remove

Spec == Init /\ [][Next]_vars

--------------------------------------------------------------------------------
(* Properties.                                                             *)

(* Each instance has a device under its number, and each device belongs to *)
(* an instance, whatever probes failed before: remove, which goes by the   *)
(* count (pulsecap) or the number noted at probe (aximux), destroyed none  *)
(* but its own.                                                            *)
OwnDevice ==
  /\ \A n \in MuxBound : mux_devices[instance_number[n]] = n
  /\ \A i \in DOMAIN pulsecap_bound : pulsecap_devices[i - 1] = pulsecap_bound[i]
  /\ Cardinality({m \in MuxMinors : mux_devices[m] # "none"}) = Len(mux_bound)
  /\ Cardinality({m \in PulsecapMinors : pulsecap_devices[m] # "none"}) = Len(pulsecap_bound)

(* A channel with a device means a live class: total_count comes to one    *)
(* only at the last channel of all, through failed probes, instances       *)
(* unbound and bound again in any order and modules loaded again, until a  *)
(* device or the buffers of a channel are refused, or a node is probed     *)
(* after the last remove (dma-proxy.c:430, 455, 534).                      *)
ClassOutlivesDevices == ~spoilt /\ proxy_devices # {} => class_live

(* What an unloaded module leaves behind is what a failed probe left: for  *)
(* dma-proxy channels, and the class only with a device in it; for aximux, *)
(* which gives its region back under the wrong count, that region.         *)
NothingLeft ==
  /\ "dma_proxy" \notin loaded =>
       /\ dma_channels \cup cdevs \cup proxy_devices \subseteq abandoned
       /\ class_live => proxy_devices # {}
  /\ "pulsecap" \notin loaded =>
       ~pulsecap_region /\ \A m \in PulsecapMinors : pulsecap_devices[m] = "none"
  /\ "aximux" \notin loaded => \A m \in MuxMinors : mux_devices[m] = "none"

(* The instance whose register kswfloppy's probe and remove write to is    *)
(* alive, unless the latest probe of the mux failed: then its node's data  *)
(* may still be the instance of an earlier load.                           *)
FloppyMuxAlive ==
  mux_inst # "none" => mux_inst \in MuxBound \cup (mux_refused \cap mux_data)
================================================================================
