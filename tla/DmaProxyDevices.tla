---------------------------- MODULE DmaProxyDevices -----------------------------
(***************************************************************************)
(* The channels of dma-proxy.c: each has a DMA channel, a region of one    *)
(* minor with its character device, and a device in a class that the first *)
(* channel creates and the last one, by total_count, destroys.  A probe    *)
(* that fails undoes nothing of what its channels got so far, and a device *)
(* that is refused takes the class away from the others.                   *)
(***************************************************************************)
EXTENDS Integers, Sequences

CONSTANTS
  Proxies,       \* the device-tree nodes of the driver
  ChannelCount   \* of each node, the strings in dma-names

ASSUME DmaProxyDevicesAssumption == ChannelCount \in [Proxies -> Nat]

VARIABLES
  total_count,
  local_class,     \* local_class_p: none yet, a class (dead or alive), or an error
  class_live,      \* whether a class of that name, of this load or an earlier
                   \* one, is registered
  dma_channels,    \* the DMA channels held, <<node, i>>
  cdevs,           \* the channels with a region and a character device
  proxy_devices,   \* the channels with a device in a class
  proxy_bound,     \* the bound nodes
  task,            \* what dma_proxy_probe or dma_proxy_remove is at
  undefined,       \* a class or device that is not there was used: the task
                   \* goes no further, whatever the kernel does
  abandoned,       \* history: the channels failed probes left something of
  spoilt           \* history: a device or the buffers of a channel were
                   \* refused, or a device went into a class destroyed before

classes == <<local_class, class_live, proxy_devices, spoilt>>
proxies == <<total_count, classes, dma_channels, cdevs, proxy_bound, task, undefined, abandoned>>

Idle == [at |-> "idle"]
At(phase, n, i) == [at |-> phase, node |-> n, i |-> i]
ChannelsOf(n) == {n} \X (0..(ChannelCount[n] - 1))
Channels == UNION {ChannelsOf(n) : n \in Proxies}

ProxyTypeOK ==
  /\ total_count \in Nat
  /\ local_class \in {"none", "class", "error"}
  /\ class_live \in BOOLEAN /\ undefined \in BOOLEAN /\ spoilt \in BOOLEAN
  /\ dma_channels \subseteq Channels /\ cdevs \subseteq Channels
  /\ proxy_devices \subseteq Channels /\ abandoned \subseteq Channels
  /\ proxy_bound \subseteq Proxies
  /\ \/ task = Idle
     \/ task.at \in {"create", "remove"} /\ task.node \in Proxies

ProxyInit ==
  /\ total_count = 0 /\ local_class = "none" /\ class_live = FALSE
  /\ dma_channels = {} /\ cdevs = {} /\ proxy_devices = {}
  /\ proxy_bound = {} /\ task = Idle
  /\ undefined = FALSE /\ abandoned = {} /\ spoilt = FALSE

(* A module that is loaded starts with its static variables fresh.         *)
dma_proxy_init ==
  /\ total_count' = 0 /\ local_class' = "none"
  /\ UNCHANGED <<class_live, proxy_devices, spoilt, dma_channels, cdevs, proxy_bound, task,
                 undefined, abandoned>>

dma_proxy_probe(n) ==
  /\ task' = At("create", n, 0)
  /\ UNCHANGED <<total_count, classes, dma_channels, cdevs, proxy_bound, undefined, abandoned>>

(* The class is live, or class_create makes it, which it cannot where one  *)
(* of an earlier load is still registered.                                 *)
ClassAtHand ==
  \/ local_class = "none" /\ ~class_live
  \/ local_class = "class" /\ class_live

ClassDestroyed == local_class = "class" /\ ~class_live

(* The device comes into the class local_class_p names, dead or alive.     *)
DeviceCreated(c) ==
  /\ ClassAtHand \/ ClassDestroyed
  /\ local_class' = "class"
  /\ class_live' = ~ClassDestroyed
  /\ cdevs' = cdevs \cup {c}
  /\ proxy_devices' = proxy_devices \cup {c}

(* init_error3: a device that is refused takes the class with it, and what *)
(* is returned is the success of cdev_add.                                 *)
DeviceRefused ==
  /\ ClassAtHand
  /\ local_class' = "class" /\ class_live' = FALSE
  /\ UNCHANGED <<cdevs, proxy_devices>>

(* class_create fails; the test is on another pointer, so the device is    *)
(* what is refused, with success again.                                    *)
NoClass ==
  /\ local_class # "class"
  /\ local_class' = "error"
  /\ UNCHANGED <<class_live, cdevs, proxy_devices>>

(* cdevice_init with a region and a character device.                      *)
cdevice_init(c) == DeviceCreated(c) \/ DeviceRefused \/ NoClass

Running(phase) == task.at = phase /\ ~undefined
More == task.i < ChannelCount[task.node]
Creating == Running("create") /\ More
Channel == <<task.node, task.i>>
Earlier == {task.node} \X (0..(task.i - 1))

(* dma_request_slave_channel gives a channel to one holder.                *)
Request ==
  Creating /\ Channel \notin dma_channels /\ dma_channels' = dma_channels \cup {Channel}

(* create_channel for one name after the other; total_count counts.        *)
create_channel ==
  /\ Request
  /\ cdevice_init(Channel)
  /\ total_count' = total_count + 1
  /\ spoilt' = (spoilt \/ ClassDestroyed')
  /\ task' = [task EXCEPT !.i = @ + 1]
  /\ UNCHANGED <<proxy_bound, undefined, abandoned>>

(* A node without channels is bound all the same.                          *)
probe_done ==
  /\ Running("create") /\ ~More
  /\ task' = Idle
  /\ proxy_bound' = proxy_bound \cup {task.node}
  /\ UNCHANGED <<total_count, classes, dma_channels, cdevs, undefined, abandoned>>

(* device_create, or class_destroy after it, on a class that is gone.      *)
create_in_dead_class ==
  /\ Creating /\ Channel \notin dma_channels /\ ClassDestroyed
  /\ undefined' = TRUE
  /\ UNCHANGED <<total_count, classes, dma_channels, cdevs, proxy_bound, task, abandoned>>

(* The probe fails; the channels of the node keep what they have.          *)
FailProbe(held) ==
  /\ task' = Idle
  /\ abandoned' = abandoned \cup held
  /\ UNCHANGED <<proxy_bound, undefined>>

(* Slip: the channel is counted before it is known to work.                *)
FaultyRefuse ==
  /\ Creating
  /\ total_count' = total_count + 1
  /\ FailProbe(Earlier)
  /\ UNCHANGED <<classes, dma_channels, cdevs>>

(* The DMA engine gives no channel: this one is left with nothing.         *)
refuse_channel ==
  /\ Creating
  /\ FailProbe(Earlier)
  /\ UNCHANGED <<total_count, classes, dma_channels, cdevs>>

(* No region, or no character device: the DMA channel is kept.             *)
refuse_cdev ==
  /\ Request
  /\ FailProbe(Earlier \cup {Channel})
  /\ UNCHANGED <<total_count, classes, cdevs>>

(* No memory for the buffers: all is kept, and the channel not counted.    *)
refuse_buffers ==
  /\ Request
  /\ cdevice_init(Channel)
  /\ spoilt' = TRUE
  /\ FailProbe(Earlier \cup {Channel})
  /\ UNCHANGED total_count

dma_proxy_remove(n) ==
  /\ proxy_bound' = proxy_bound \ {n}
  /\ task' = At("remove", n, 0)
  /\ UNCHANGED <<total_count, classes, dma_channels, cdevs, undefined, abandoned>>

(* Slip: total_count was decremented before the channel is taken down.     *)
FaultyLastChannel == total_count = 2

(* The test in cdevice_exit for the last channel of all.                   *)
LastChannel == total_count = 1

(* Slip: cdevice_exit counts the channel out as well.                      *)
FaultyCountedOut == total_count - 2

CountedOut == total_count - 1

(* cdevice_exit and the count, channel by channel.                         *)
remove_channel ==
  /\ Running("remove") /\ More
  /\ Channel \in proxy_devices
  /\ proxy_devices' = proxy_devices \ {Channel}
  /\ class_live' = (class_live /\ ~LastChannel)
  /\ cdevs' = cdevs \ {Channel}
  /\ total_count' = CountedOut
  /\ task' = [task EXCEPT !.i = @ + 1]
  /\ UNCHANGED <<local_class, spoilt, dma_channels, proxy_bound, undefined, abandoned>>

(* device_destroy on a class that is gone or was never created, or for a   *)
(* device that was refused, whose pointer is not null either.              *)
remove_refused ==
  /\ Running("remove") /\ More
  /\ Channel \notin proxy_devices \/ ~class_live
  /\ undefined' = TRUE
  /\ UNCHANGED <<total_count, classes, dma_channels, cdevs, proxy_bound, task, abandoned>>

(* The DMA channels of the node are released last.                         *)
remove_done ==
  /\ Running("remove") /\ ~More
  /\ dma_channels' = dma_channels \ ChannelsOf(task.node)
  /\ task' = Idle
  /\ UNCHANGED <<total_count, classes, cdevs, proxy_bound, undefined, abandoned>>

ChannelStep ==
  \/ create_channel \/ create_in_dead_class \/ probe_done
  \/ refuse_channel \/ refuse_cdev \/ refuse_buffers
  \/ remove_channel \/ remove_refused \/ remove_done
================================================================================
