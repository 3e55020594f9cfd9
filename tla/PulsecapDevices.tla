---------------------------- MODULE PulsecapDevices -----------------------------
(***************************************************************************)
(* The instances of pulsecap.c: probe, remove, module init and exit.  An   *)
(* instance keeps no number of its own: probe gives it the device with the *)
(* count of instances for minor, and remove destroys the device with the   *)
(* last minor.                                                             *)
(***************************************************************************)
EXTENDS Integers, Sequences, FiniteSets

CONSTANTS
  Pulsecaps,               \* the device-tree nodes of the driver
  MAX_PULSECAP_INSTANCES   \* minors in the driver's region (4)

\* Nothing in the driver keeps the count from passing the array's end.
ASSUME PulsecapDevicesAssumption ==
  /\ MAX_PULSECAP_INSTANCES \in Nat \ {0}
  /\ IsFiniteSet(Pulsecaps) /\ Cardinality(Pulsecaps) <= MAX_PULSECAP_INSTANCES
  /\ "none" \notin Pulsecaps

VARIABLES
  instance_count,
  pulsecap_devices,  \* the class's device of each minor, by the node it is for
  pulsecap_bound,    \* the bound nodes, the latest last
  pulsecap_data,     \* nodes whose data points to an instance, dead or alive
  pulsecap_region    \* whether the region of minors is held

pulsecaps ==
  <<instance_count, pulsecap_devices, pulsecap_bound, pulsecap_data, pulsecap_region>>

PulsecapMinors == 0..(MAX_PULSECAP_INSTANCES - 1)
PulsecapBound == {pulsecap_bound[i] : i \in DOMAIN pulsecap_bound}

PulsecapTypeOK ==
  /\ instance_count \in 0..MAX_PULSECAP_INSTANCES
  /\ pulsecap_devices \in [PulsecapMinors -> Pulsecaps \cup {"none"}]
  /\ pulsecap_bound \in Seq(Pulsecaps)
  /\ pulsecap_data \subseteq Pulsecaps
  /\ pulsecap_region \in BOOLEAN

PulsecapInit ==
  /\ instance_count = 0
  /\ pulsecap_devices = [m \in PulsecapMinors |-> "none"]
  /\ pulsecap_bound = <<>>
  /\ pulsecap_data = {}
  /\ pulsecap_region = FALSE

esl_pulsecap_init ==
  /\ pulsecap_region' = TRUE
  /\ instance_count' = 0
  /\ UNCHANGED <<pulsecap_devices, pulsecap_bound, pulsecap_data>>

(* No memory, registers or interrupt; or no device, which is noticed after *)
(* the node was given its instance; or an instance more.                   *)
esl_pulsecap_probe(n) ==
  \/ UNCHANGED pulsecaps
  \/ /\ pulsecap_data' = pulsecap_data \cup {n}
     /\ UNCHANGED <<instance_count, pulsecap_devices, pulsecap_bound, pulsecap_region>>
  \/ /\ pulsecap_devices[instance_count] = "none"
     /\ pulsecap_data' = pulsecap_data \cup {n}
     /\ pulsecap_devices' = [pulsecap_devices EXCEPT ![instance_count] = n]
     /\ instance_count' = instance_count + 1
     /\ pulsecap_bound' = Append(pulsecap_bound, n)
     /\ UNCHANGED pulsecap_region

(* Slip: the count is decremented first, the device taken from it after.   *)
FaultyLastMinor == IF instance_count > 1 THEN instance_count - 2 ELSE 0

(* The minor that remove takes for its own.                                *)
LastMinor == instance_count - 1

(* The kernel removes the latest that was bound.  The memory of the        *)
(* instance is freed; the node's data stays.                               *)
esl_pulsecap_remove(n) ==
  /\ pulsecap_devices' = [pulsecap_devices EXCEPT ![LastMinor] = "none"]
  /\ instance_count' = instance_count - 1
  /\ pulsecap_bound' = SubSeq(pulsecap_bound, 1, Len(pulsecap_bound) - 1)
  /\ UNCHANGED <<pulsecap_data, pulsecap_region>>

(* After the driver was unregistered.                                      *)
esl_pulsecap_exit ==
  /\ pulsecap_region' = FALSE
  /\ UNCHANGED <<instance_count, pulsecap_devices, pulsecap_bound, pulsecap_data>>
================================================================================
