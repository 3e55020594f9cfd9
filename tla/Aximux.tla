-------------------------------- MODULE Aximux ---------------------------------
(***************************************************************************)
(* aximux.c: the source selection register, one bit for each port.         *)
(* aximux_set_src reads the whole register, changes one bit and writes the *)
(* whole register back; no lock keeps the callers apart.  Callers are the  *)
(* writers of the sysfs attributes source0, source1, ... and kswfloppy.    *)
(***************************************************************************)
EXTENDS Integers

CONSTANTS
  Writers,   \* threads that write to the attributes
  Floppy,    \* the thread that runs kswfloppy's probe and remove
  Width,     \* input_width, the number of attributes
  SelBits,   \* the bits of AXIMUX_SEL_MASK
  Values     \* what the writers write

ASSUME AximuxAssumption ==
  /\ Floppy \notin Writers
  /\ Width \in Nat /\ SelBits \in Nat /\ Width <= SelBits
  /\ Values \subseteq Nat

VARIABLES
  sel,       \* AXIMUX_REG_SEL: the ports whose bit is set
  calls      \* the calls of aximux_set_src in progress

muxvars == <<sel, calls>>

AXIMUX_SEL_MASK == 0..(SelBits - 1)
MaxValue == 2^SelBits - 1
Callers == Writers \cup {Floppy}

(* A call: its arguments, the register as it read it (once it has), and    *)
(* whether it was by itself from its beginning on.                         *)
Call(c) == CHOOSE k \in calls : k.caller = c
Calling(c) == \E k \in calls : k.caller = c

MuxTypeOK ==
  /\ sel \subseteq AXIMUX_SEL_MASK
  /\ \A k \in calls :
       /\ k.caller \in Callers /\ k.source \in BOOLEAN /\ k.alone \in BOOLEAN
       /\ k.step \in {"read", "write"} /\ k.cursrc \subseteq AXIMUX_SEL_MASK
  /\ \A k, l \in calls : k.caller = l.caller => k = l

MuxInit == sel = {} /\ calls = {}

Begin(c, port, source) ==
  /\ ~Calling(c)
  /\ calls' = {[k EXCEPT !.alone = FALSE] : k \in calls}
              \cup {[caller |-> c, port |-> port, source |-> source,
                     step |-> "read", cursrc |-> {}, alone |-> calls = {}]}
  /\ UNCHANGED sel

Read(c) ==
  /\ Calling(c) /\ Call(c).step = "read"
  /\ calls' = (calls \ {Call(c)}) \cup {[Call(c) EXCEPT !.step = "write", !.cursrc = sel]}
  /\ UNCHANGED sel

(* Slip: the bit of the port is not cleared first.                         *)
FaultyNewSelection(k) ==
  (k.cursrc \cup (IF k.source THEN {k.port} ELSE {})) \cap AXIMUX_SEL_MASK

(* A port outside the mask leaves no trace in the register.                *)
NewSelection(k) ==
  ((k.cursrc \ {k.port}) \cup (IF k.source THEN {k.port} ELSE {})) \cap AXIMUX_SEL_MASK

Write(c) ==
  /\ Calling(c) /\ Call(c).step = "write"
  /\ sel' = NewSelection(Call(c))
  /\ calls' = calls \ {Call(c)}

(* src_store: values that do not fit the mask are refused, others count as *)
(* set or not set.                                                         *)
src_store(w, port, value) ==
  /\ value <= MaxValue
  /\ Begin(w, port, value # 0)

SysfsStep(w) ==
  \/ \E port \in 0..(Width - 1), value \in Values : src_store(w, port, value)
  \/ Read(w) \/ Write(w)
================================================================================
