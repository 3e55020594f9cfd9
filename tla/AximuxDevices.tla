----------------------------- MODULE AximuxDevices ------------------------------
(***************************************************************************)
(* The instances of aximux.c: probe, remove, module init and exit.  The    *)
(* count of instances grows before the device is created, so an instance   *)
(* without a device stays counted until the module is loaded again.        *)
(***************************************************************************)
EXTENDS Integers, Sequences

CONSTANTS
  Muxes,                 \* the device-tree nodes of the driver
  AXIMUX_MAX_INSTANCES   \* minors in the driver's region (32)

ASSUME AximuxDevicesAssumption ==
  AXIMUX_MAX_INSTANCES \in Nat \ {0} /\ "none" \notin Muxes

VARIABLES
  available_instances,
  instance_number,   \* of the bound nodes
  mux_devices,       \* the class's device of each minor, by the node it is for
  mux_bound,         \* the bound nodes, the latest last
  mux_data,          \* nodes whose data points to an instance, dead or alive
  mux_refused,       \* history: nodes whose latest probe failed
  mux_region         \* whether a region of minors is held

muxes == <<available_instances, instance_number, mux_devices, mux_bound, mux_data,
           mux_refused, mux_region>>

MuxMinors == 0..(AXIMUX_MAX_INSTANCES - 1)
MuxBound == {mux_bound[i] : i \in DOMAIN mux_bound}

MuxTypeOK ==
  /\ available_instances \in 0..AXIMUX_MAX_INSTANCES
  /\ instance_number \in [Muxes -> MuxMinors]
  /\ mux_devices \in [MuxMinors -> Muxes \cup {"none"}]
  /\ mux_bound \in Seq(Muxes)
  /\ mux_data \subseteq Muxes /\ mux_refused \subseteq Muxes
  /\ mux_region \in BOOLEAN

MuxInit ==
  /\ available_instances = 0
  /\ instance_number = [n \in Muxes |-> 0]
  /\ mux_devices = [m \in MuxMinors |-> "none"]
  /\ mux_bound = <<>>
  /\ mux_data = {} /\ mux_refused = {}
  /\ mux_region = FALSE

aximux_init ==
  /\ available_instances' = 0
  /\ mux_region' = TRUE
  /\ UNCHANGED <<instance_number, mux_devices, mux_bound, mux_data, mux_refused>>

Refused(n) ==
  /\ mux_refused' = mux_refused \cup {n}
  /\ UNCHANGED <<instance_number, mux_devices, mux_bound, mux_data, mux_region>>

(* No memory, registers or width; or no device, and the instance stays     *)
(* counted; or an instance more.  Nothing keeps the count from passing the *)
(* array's end: the bound holds for Muxes of which each is probed once.    *)
aximux_probe(n) ==
  \/ Refused(n) /\ UNCHANGED available_instances
  \/ /\ available_instances < AXIMUX_MAX_INSTANCES
     /\ available_instances' = available_instances + 1
     /\ Refused(n)
  \/ /\ available_instances < AXIMUX_MAX_INSTANCES
     /\ mux_devices[available_instances] = "none"
     /\ instance_number' = [instance_number EXCEPT ![n] = available_instances]
     /\ available_instances' = available_instances + 1
     /\ mux_devices' = [mux_devices EXCEPT ![available_instances] = n]
     /\ mux_bound' = Append(mux_bound, n)
     /\ mux_data' = mux_data \cup {n}
     /\ mux_refused' = mux_refused \ {n}
     /\ UNCHANGED mux_region

(* The kernel removes the latest that was bound; its memory is freed.      *)
aximux_remove(n) ==
  /\ available_instances' = available_instances - 1
  /\ mux_devices' = [mux_devices EXCEPT ![instance_number[n]] = "none"]
  /\ mux_bound' = SubSeq(mux_bound, 1, Len(mux_bound) - 1)
  /\ instance_number' = [instance_number EXCEPT ![n] = 0]
  /\ UNCHANGED <<mux_data, mux_refused, mux_region>>

(* Before the driver is unregistered: the region is given back under the   *)
(* count of instances, and kept unless that is the size it was taken with. *)
aximux_exit ==
  /\ mux_region' = (mux_region /\ available_instances # AXIMUX_MAX_INSTANCES)
  /\ UNCHANGED <<available_instances, instance_number, mux_devices, mux_bound, mux_data,
                 mux_refused>>
================================================================================
