------------------------------- MODULE Kswfloppy -------------------------------
(***************************************************************************)
(* kswfloppy.c: a floppy drive operated through GPIO lines.  The driver    *)
(* does everything in probe: route its pin through the mux, home the head, *)
(* read a track as raw bits for one turn of the disk, home the head again. *)
(* remove routes the pin back.  sysfs may write to the mux at any moment,  *)
(* the disk be taken out or put in, and the sensor of track 0 fail.        *)
(***************************************************************************)
EXTENDS Aximux, Sequences

CONSTANTS
  FLOPPY_TRACKS,  \* tracks the driver counts (80)
  StuckCounter,   \* stuck_counter at the start of homing (100)
  Track,          \* the track that probe dumps (40)
  DumpSize,       \* bytes in the dump buffer (32000)
  ByteBits,       \* bits in a byte (8)
  Word,           \* bytes in each of the fields behind the dump (4)
  Turn            \* positions in a turn of the disk; at position 0 the index is seen

ASSUME FloppyAssumption ==
  /\ {FLOPPY_TRACKS, StuckCounter, Track, DumpSize} \subseteq Nat
  /\ Track < FLOPPY_TRACKS /\ FLOPPY_TRACKS <= StuckCounter
  /\ Turn \in Nat \ {0, 1} /\ ByteBits \in Nat \ {0} /\ Word \in Nat \ {0}

VARIABLES
  kpc,         \* the place in probe or remove; "lost" when memory that is not the
               \* driver's was written: nothing is known of the driver then
  pin, alt,    \* capture_pin and the source it takes, from the device tree
  cur_track, homed,
  stuck,       \* stuck_counter
  drvsb, moteb,\* the drive-select and motor lines
  scan,        \* the locals of floppy_dump_track: wait, bits in data_byte, buf_ptr;
               \* and, as history, the samples taken
  clobbered,   \* the fields behind the dump that it has overwritten
  drive,       \* the drive: absent, without a disk, ready; its head, the disk's
               \* position and whether it was sampled there; as history, the turns
               \* since the dump began and whether the disk stayed where it was
  sensor       \* whether the sensor of track 0 works

drivervars == <<kpc, pin, alt, cur_track, homed, stuck, drvsb, moteb, scan, clobbered>>
vars == <<muxvars, drivervars, drive, sensor>>

Phases ==
  {"unbound", "set_mux", "in_mux", "home", "seek", "dump", "wait_index",
   "read", "home_again", "probed", "in_unset", "lost"}

(* The fields of the instance behind the dump, in their order.             *)
Behind == <<"pcap_inst", "mux_inst", "capture_pin">>
InstanceEnd == DumpSize + Len(Behind) * Word

TypeOK ==
  /\ MuxTypeOK
  /\ kpc \in Phases /\ pin \in 0..SelBits /\ alt \in BOOLEAN
  /\ cur_track \in 0..FLOPPY_TRACKS /\ homed \in BOOLEAN
  /\ stuck \in 0..StuckCounter
  /\ drvsb \in BOOLEAN /\ moteb \in BOOLEAN /\ sensor \in BOOLEAN
  /\ scan.wait \in BOOLEAN /\ scan.bits \in 0..(ByteBits - 1) /\ scan.buf_ptr \in Nat
  /\ scan.samples \in Nat /\ clobbered \subseteq {Behind[i] : i \in DOMAIN Behind}
  /\ drive.state \in {"absent", "empty", "ready"}
  /\ drive.head \in 0..(FLOPPY_TRACKS - 1) /\ drive.position \in 0..(Turn - 1)
  /\ drive.sampled \in BOOLEAN /\ drive.stayed \in BOOLEAN /\ drive.turns \in 0..2

NoScan == [wait |-> FALSE, bits |-> 0, buf_ptr |-> 0, samples |-> 0]

Init ==
  /\ MuxInit
  /\ kpc = "unbound"
  /\ pin \in {0, SelBits} /\ alt \in BOOLEAN
  /\ cur_track = 0 /\ homed = FALSE /\ stuck = 0
  /\ drvsb = FALSE /\ moteb = FALSE
  /\ scan = NoScan /\ clobbered = {}
  /\ drive \in [state : {"absent", "empty", "ready"}, head : 0..(FLOPPY_TRACKS - 1),
                position : {0, 1}, sampled : {FALSE}, turns : {0}, stayed : {FALSE}]
  /\ sensor \in BOOLEAN

--------------------------------------------------------------------------------
(* The drive (external).  It obeys and answers only while it is selected.  *)

Trk00 == drvsb /\ sensor /\ drive.state # "absent" /\ drive.head = 0
Index == drvsb /\ drive.state = "ready" /\ drive.position = 0
Turning == drvsb /\ moteb /\ drive.state = "ready"

(* The head after a pulse on STEP; there are stops at both ends.           *)
Moved(inwards) ==
  IF drvsb /\ drive.state # "absent"
    THEN IF inwards THEN IF drive.head < FLOPPY_TRACKS - 1 THEN drive.head + 1 ELSE drive.head
                    ELSE IF drive.head > 0 THEN drive.head - 1 ELSE 0
    ELSE drive.head

(* The disk turns on; the driver samples fast enough to see every position.*)
Rotate ==
  /\ Turning
  /\ kpc \in {"wait_index", "read"} => drive.sampled
  /\ drive' = [drive EXCEPT !.position = (@ + 1) % Turn, !.sampled = FALSE,
                            !.turns = IF kpc = "read" /\ drive.position = Turn - 1
                                        THEN IF @ < 2 THEN @ + 1 ELSE @ ELSE @]
  /\ UNCHANGED <<muxvars, drivervars, sensor>>

(* The disk is taken out or put in, at whatever the driver is.             *)
DiskMoved ==
  /\ drive.state # "absent"
  /\ drive' = [drive EXCEPT !.state = IF @ = "ready" THEN "empty" ELSE "ready", !.stayed = FALSE]
  /\ UNCHANGED <<muxvars, drivervars, sensor>>

(* The sensor breaks, or works again.                                      *)
SensorChanges ==
  /\ sensor' = ~sensor
  /\ UNCHANGED <<muxvars, drivervars, drive>>

--------------------------------------------------------------------------------
Floppy_goto(phase) == kpc' = phase
Rest == <<pin, alt, sensor>>
Buffer == <<scan, clobbered>>

(* kswfloppy_probe, up to the call of aximux_set_src: an instance that is  *)
(* not there ends it before anything was changed.                          *)
Probe ==
  /\ kpc = "unbound"
  /\ Floppy_goto("set_mux")
  /\ cur_track' = 0 /\ homed' = FALSE /\ clobbered' = {}
  /\ UNCHANGED <<muxvars, stuck, drvsb, moteb, scan, drive, Rest>>

SetMux(from, to, source) ==
  /\ kpc = from /\ Begin(Floppy, pin, source) /\ Floppy_goto(to)
  /\ UNCHANGED <<cur_track, homed, stuck, drvsb, moteb, Buffer, drive, Rest>>

MuxStep ==
  /\ Read(Floppy) \/ Write(Floppy)
  /\ UNCHANGED <<drivervars, drive, sensor>>

(* The GPIO lines, which may be taken; deassert_all; then floppy_home.     *)
Gpios ==
  /\ kpc = "in_mux" /\ ~Calling(Floppy)
  /\ \/ /\ Floppy_goto("home")
        /\ moteb' = FALSE /\ drvsb' = TRUE /\ stuck' = StuckCounter
     \/ Floppy_goto("unbound") /\ UNCHANGED <<drvsb, moteb, stuck>>
  /\ UNCHANGED <<muxvars, cur_track, homed, Buffer, drive, Rest>>

(* Slip: the count is not stopped at its ends.                             *)
FaultyStep(inwards) ==
  /\ cur_track' = IF inwards THEN cur_track + 1 ELSE cur_track - 1
  /\ drive' = [drive EXCEPT !.head = Moved(inwards)]

(* floppy_step: the count follows the pulse, within its range.             *)
floppy_step(inwards) ==
  /\ cur_track' = IF inwards THEN IF cur_track < FLOPPY_TRACKS THEN cur_track + 1 ELSE cur_track
                             ELSE IF cur_track > 0 THEN cur_track - 1 ELSE 0
  /\ drive' = [drive EXCEPT !.head = Moved(inwards)]

(* Slip: the attempts are not counted.                                     *)
FaultyHomeForever(from, to) ==
  /\ kpc = from
  /\ \/ /\ Trk00
        /\ cur_track' = 0 /\ homed' = TRUE
        /\ drvsb' = FALSE /\ stuck' = 0 /\ Floppy_goto(to)
        /\ UNCHANGED drive
     \/ /\ ~Trk00
        /\ floppy_step(FALSE)
        /\ UNCHANGED <<drvsb, stuck, kpc, homed>>
  /\ UNCHANGED <<muxvars, moteb, Buffer, Rest>>

(* Slip: giving up leaves the drive selected.                              *)
FaultyHomeStuck(from, to) ==
  /\ kpc = from
  /\ \/ /\ Trk00
        /\ cur_track' = 0 /\ homed' = TRUE
        /\ drvsb' = FALSE /\ stuck' = 0 /\ Floppy_goto(to)
        /\ UNCHANGED drive
     \/ /\ ~Trk00
        /\ floppy_step(FALSE)
        /\ IF stuck > 0 THEN stuck' = stuck - 1 /\ UNCHANGED <<drvsb, kpc>>
                        ELSE UNCHANGED drvsb /\ stuck' = 0 /\ Floppy_goto(to)
        /\ UNCHANGED homed
  /\ UNCHANGED <<muxvars, moteb, Buffer, Rest>>

(* floppy_home, one turn of its loop: in track 0, or a step outwards and   *)
(* once more, or stuck.                                                    *)
floppy_home(from, to) ==
  /\ kpc = from
  /\ \/ /\ Trk00
        /\ cur_track' = 0 /\ homed' = TRUE
        /\ drvsb' = FALSE /\ stuck' = 0 /\ Floppy_goto(to)
        /\ UNCHANGED drive
     \/ /\ ~Trk00
        /\ floppy_step(FALSE)
        /\ IF stuck > 0 THEN stuck' = stuck - 1 /\ UNCHANGED <<drvsb, kpc>>
                        ELSE drvsb' = FALSE /\ stuck' = 0 /\ Floppy_goto(to)
        /\ UNCHANGED homed
  /\ UNCHANGED <<muxvars, moteb, Buffer, Rest>>

(* Slip: the loop ends one track early.                                    *)
FaultySeek ==
  /\ kpc = "seek" /\ homed
  /\ \/ /\ drvsb /\ cur_track \notin {Track, Track - 1}
        /\ floppy_step(cur_track < Track)
        /\ UNCHANGED <<kpc, drvsb>>
     \/ /\ cur_track \in {Track, Track - 1}
        /\ drvsb' = FALSE /\ Floppy_goto("dump") /\ UNCHANGED <<cur_track, drive>>
  /\ UNCHANGED <<muxvars, homed, stuck, moteb, Buffer, Rest>>

(* Slip: the drive steps without having been selected.                     *)
FaultySeekUnselected ==
  /\ kpc = "seek" /\ homed
  /\ \/ /\ cur_track # Track
        /\ floppy_step(cur_track < Track)
        /\ UNCHANGED <<kpc, drvsb>>
     \/ /\ cur_track = Track
        /\ drvsb' = FALSE /\ Floppy_goto("dump") /\ UNCHANGED <<cur_track, drive>>
  /\ UNCHANGED <<muxvars, homed, stuck, moteb, Buffer, Rest>>

(* floppy_seek: the drive is selected on entry and released at the end; a  *)
(* head whose place is unknown is not moved, and nobody is told.           *)
SelectForSeek ==
  /\ kpc = "seek" /\ homed /\ ~drvsb /\ cur_track # Track
  /\ drvsb' = TRUE
  /\ UNCHANGED <<muxvars, kpc, cur_track, homed, stuck, moteb, Buffer, drive, Rest>>

floppy_seek ==
  /\ kpc = "seek" /\ homed
  /\ \/ /\ drvsb /\ cur_track # Track
        /\ floppy_step(cur_track < Track)
        /\ UNCHANGED <<kpc, drvsb>>
     \/ /\ cur_track = Track
        /\ drvsb' = FALSE /\ Floppy_goto("dump") /\ UNCHANGED <<cur_track, drive>>
  /\ UNCHANGED <<muxvars, homed, stuck, moteb, Buffer, Rest>>

SeekRefused ==
  /\ kpc = "seek" /\ ~homed
  /\ Floppy_goto("dump")
  /\ UNCHANGED <<muxvars, cur_track, homed, stuck, drvsb, moteb, Buffer, drive, Rest>>

(* floppy_dump_track: select, motor on, wait for the index.                *)
StartDump ==
  /\ kpc = "dump"
  /\ drvsb' = TRUE /\ moteb' = TRUE
  /\ scan' = NoScan
  /\ drive' = [drive EXCEPT !.sampled = FALSE, !.turns = 0]
  /\ Floppy_goto("wait_index")
  /\ UNCHANGED <<muxvars, cur_track, homed, stuck, clobbered, Rest>>

WaitIndex ==
  /\ kpc = "wait_index"
  /\ drive' = [drive EXCEPT !.sampled = TRUE, !.stayed = Index]
  /\ IF Index THEN Floppy_goto("read") /\ scan' = [scan EXCEPT !.wait = TRUE]
              ELSE UNCHANGED <<kpc, scan>>
  /\ UNCHANGED <<muxvars, cur_track, homed, stuck, drvsb, moteb, clobbered, Rest>>

(* Slip: the pulse that began the dump is taken for the next one.          *)
FaultyWaiting == FALSE

(* wait, after the index was sampled.                                      *)
Waiting == scan.wait /\ Index

(* Slip: the bits are compared before they are counted.                    *)
FaultyByteFull == scan.bits >= ByteBits - 2

ByteFull == scan.bits = ByteBits - 1

Sample ==
  /\ kpc = "read" /\ ~(Index /\ ~Waiting)
  /\ drive' = [drive EXCEPT !.sampled = TRUE]
  /\ UNCHANGED <<muxvars, cur_track, homed, stuck, drvsb, moteb, Rest>>

(* A bit more of data_byte.                                                *)
ReadBit ==
  /\ Sample /\ ~ByteFull
  /\ scan' = [scan EXCEPT !.wait = Waiting, !.bits = @ + 1, !.samples = @ + 1]
  /\ UNCHANGED <<kpc, clobbered>>

(* A full byte goes to the buffer, of which every other element is used;   *)
(* nothing keeps it from what is behind the buffer.                        *)
ReadByte ==
  /\ Sample /\ ByteFull /\ scan.buf_ptr < InstanceEnd
  /\ scan' = [wait |-> Waiting, bits |-> 0, buf_ptr |-> scan.buf_ptr + 2,
              samples |-> scan.samples + 1]
  /\ clobbered' = IF scan.buf_ptr < DumpSize THEN clobbered
                   ELSE clobbered \cup {Behind[(scan.buf_ptr - DumpSize) \div Word + 1]}
  /\ UNCHANGED kpc

(* Behind the instance is memory of others.                                *)
ReadTooFar ==
  /\ Sample /\ ByteFull /\ scan.buf_ptr >= InstanceEnd
  /\ Floppy_goto("lost") /\ scan' = NoScan
  /\ UNCHANGED clobbered

(* The second index: motor off, drive released; floppy_home selects again. *)
DumpDone ==
  /\ kpc = "read" /\ Index /\ ~Waiting
  /\ Floppy_goto("home_again")
  /\ drvsb' = TRUE /\ moteb' = FALSE /\ stuck' = StuckCounter
  /\ scan' = NoScan
  /\ drive' = [drive EXCEPT !.sampled = FALSE, !.turns = 0, !.stayed = FALSE]
  /\ UNCHANGED <<muxvars, cur_track, homed, clobbered, Rest>>

(* kswfloppy_remove: the mux it writes to is the one probe found, unless   *)
(* the dump has overwritten the pointer.                                   *)
UnsetMux == "mux_inst" \notin clobbered /\ SetMux("probed", "in_unset", FALSE)

UnsetLost ==
  /\ kpc = "probed" /\ "mux_inst" \in clobbered
  /\ Floppy_goto("lost")
  /\ UNCHANGED <<muxvars, cur_track, homed, stuck, drvsb, moteb, Buffer, drive, Rest>>

(* deassert_all; the instance is freed.                                    *)
Release ==
  /\ kpc = "in_unset" /\ ~Calling(Floppy)
  /\ Floppy_goto("unbound")
  /\ drvsb' = FALSE /\ moteb' = FALSE
  /\ cur_track' = 0 /\ homed' = FALSE /\ clobbered' = {}
  /\ UNCHANGED <<muxvars, stuck, scan, drive, Rest>>

InProbe ==
  \/ SetMux("set_mux", "in_mux", alt) \/ MuxStep \/ Gpios
  \/ floppy_home("home", "seek") \/ SelectForSeek \/ floppy_seek \/ SeekRefused
  \/ StartDump \/ WaitIndex \/ ReadBit \/ ReadByte \/ ReadTooFar \/ DumpDone
  \/ floppy_home("home_again", "probed")
  \/ Release

Next ==
  \/ Probe \/ InProbe
  \/ UnsetMux \/ UnsetLost
  \/ Rotate \/ DiskMoved \/ SensorChanges
  \/ \E w \in Writers : SysfsStep(w) /\ UNCHANGED <<drivervars, drive, sensor>>

(* The thread in probe runs, and a disk in the drive turns.  Nobody need   *)
(* bind or unbind the driver, take a disk or mend the sensor.              *)
Spec == Init /\ [][Next]_vars /\ WF_vars(InProbe) /\ WF_vars(Rotate)

--------------------------------------------------------------------------------
(* Properties.                                                             *)

(* Once the driver holds the head for homed, its count is the track the    *)
(* head is on: through seeks, a second homing that gives up because the    *)
(* sensor has failed since, and a second probe.                            *)
HomedMeansKnown == homed => cur_track = drive.head

(* What floppy_dump_track reads after a homing that succeeded comes from   *)
(* the track it was asked for.                                             *)
DumpOnTrack == kpc = "read" /\ homed => drive.head = Track

(* Outside probe and remove the drive is neither selected nor turning,     *)
(* however homing ended.                                                   *)
DriveReleased == kpc \in {"unbound", "probed"} => ~drvsb /\ ~moteb

(* How long a dump the buffer takes: the fields behind it are overwritten  *)
(* only after a byte for every other element, and one more, was sampled    *)
(* (128008 samples, against the 200000 that udelay(1) admits in a turn).   *)
RoomInDump ==
  kpc = "read" /\ scan.samples < ByteBits * (DumpSize \div 2 + 1) => clobbered = {}

(* The dump of a disk that stays in the drive ends at the second index     *)
(* pulse, not in the first one.                                            *)
OneTurn ==
  [][kpc = "read" /\ kpc' = "home_again" /\ drive.stayed => drive.turns = 1]_vars

(* aximux_set_src: a bit of the register changes only when a call for its  *)
(* port ends, or one that another call overlapped; and a call nobody       *)
(* overlapped leaves its port, if it has one, as it was asked.             *)
SoloWriteSticks ==
  [][/\ \A p \in AXIMUX_SEL_MASK : (p \in sel) # (p \in sel') =>
          \E k \in calls : k \notin calls' /\ k.step = "write" /\ (k.port = p \/ ~k.alone)
     /\ \A k \in calls : ~(\E l \in calls' : l.caller = k.caller) =>
          (k.alone /\ k.port \in AXIMUX_SEL_MASK => (k.port \in sel' <=> k.source))]_vars

(* Probe comes to its end unless the disk is taken out or the dump runs    *)
(* past the instance, and remove too, whatever the sensor of track 0 does  *)
(* and whoever writes to the mux.                                          *)
ProbeReturns ==
  /\ kpc = "set_mux" ~> kpc \in {"probed", "unbound", "lost"} \/ drive.state # "ready"
  /\ kpc = "in_unset" ~> kpc = "unbound"
================================================================================
