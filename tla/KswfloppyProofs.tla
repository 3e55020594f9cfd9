----------------------------- MODULE KswfloppyProofs ----------------------------
(***************************************************************************)
(* Proofs about Kswfloppy.tla and the register of Aximux.tla, for every    *)
(* number of tracks, size of the buffer, turn of the disk and set of       *)
(* writers: the driver knows where the head is, lets the drive go, dumps   *)
(* one turn of the right track, with room for so many samples, and no call *)
(* of aximux_set_src that was by itself loses its bit.                     *)
(***************************************************************************)
EXTENDS Kswfloppy, TLAPS

\* A call of aximux_set_src in progress.
CallRecord ==
  [caller : Callers, port : Int, source : BOOLEAN, step : {"read", "write"},
   cursrc : SUBSET AXIMUX_SEL_MASK, alone : BOOLEAN]

\* The calls: one for each caller, and one that is by itself has read what the
\* register still holds.
MuxInv ==
  /\ sel \subseteq AXIMUX_SEL_MASK /\ calls \subseteq CallRecord
  /\ \A k, l \in calls : k.caller = l.caller => k = l
  /\ \A k \in calls : k.alone => calls = {k} /\ (k.step = "write" => k.cursrc = sel)

\* The drive.
DriveRecord ==
  [state : {"absent", "empty", "ready"}, head : 0..(FLOPPY_TRACKS - 1),
   position : 0..(Turn - 1), sampled : BOOLEAN, turns : 0..2, stayed : BOOLEAN]

\* The locals of floppy_dump_track.
ScanRecord == [wait : BOOLEAN, bits : 0..(ByteBits - 1), buf_ptr : Nat, samples : Nat]

\* The types of the driver, the drive and the sensor.
Types ==
  /\ kpc \in Phases /\ pin \in 0..SelBits /\ alt \in BOOLEAN
  /\ cur_track \in 0..FLOPPY_TRACKS /\ homed \in BOOLEAN
  /\ stuck \in 0..StuckCounter
  /\ drvsb \in BOOLEAN /\ moteb \in BOOLEAN /\ sensor \in BOOLEAN
  /\ scan \in ScanRecord /\ drive \in DriveRecord
  /\ clobbered \subseteq {"pcap_inst", "mux_inst", "capture_pin"}

\* Where in probe the drive is selected and its motor on.
Lines ==
  /\ kpc \in {"home", "wait_index", "read", "home_again"} => drvsb
  /\ kpc \in {"unbound", "set_mux", "in_mux", "dump", "probed", "in_unset"} => ~drvsb
  /\ kpc = "seek" /\ drvsb => homed
  /\ kpc # "lost" => (moteb <=> kpc \in {"wait_index", "read"})

\* After a seek of a homed head the count is the track; only a drive is homed.
OnTrack ==
  /\ kpc \in {"dump", "wait_index", "read"} /\ homed => cur_track = Track
  /\ homed => drive.state # "absent"

\* While its disk stays, the dump starts in the first index pulse with wait set,
\* clears it after the pulse, and is at its end when the index comes round.
Turns ==
  /\ kpc # "read" => scan = NoScan
  /\ kpc = "wait_index" => drive.turns = 0
  /\ kpc = "read" /\ drive.stayed =>
       /\ drive.state = "ready"
       /\ \/ /\ drive.turns = 0
             /\ drive.position = 0 => scan.wait /\ drive.sampled
             /\ scan.wait => drive.position = 0 \/ (drive.position = 1 /\ ~drive.sampled)
          \/ drive.turns = 1 /\ drive.position = 0 /\ ~drive.sampled /\ ~scan.wait

\* The bytes stored and the bits left over are the samples.
Stored == \E m \in Nat : scan.buf_ptr = 2 * m /\ scan.samples = ByteBits * m + scan.bits

\* The dump overwrites what is behind it when buf_ptr has passed its end.
Room ==
  /\ kpc \in {"set_mux", "in_mux", "home", "seek", "dump", "wait_index"} => clobbered = {}
  /\ kpc = "read" => Stored /\ (clobbered # {} => scan.buf_ptr >= DumpSize + 2)

\* The driver's part of the inductive invariant.
DriverInv == Types /\ Lines /\ HomedMeansKnown /\ OnTrack /\ Turns /\ Room

\* The inductive invariant.
Inv == MuxInv /\ DriverInv
--------------------------------------------------------------------------------
\* A caller's call is one of the calls, and its own.
LEMMA CallIs ==
  ASSUME NEW c, Calling(c)
  PROVE  Call(c) \in calls /\ Call(c).caller = c
BY DEF Calling, Call

\* A call that begins keeps the invariant of the mux and ends no call.
LEMMA BeginMux ==
  ASSUME MuxInv, NEW c \in Callers, NEW port \in Int, NEW source \in BOOLEAN, Begin(c, port, source)
  PROVE  MuxInv' /\ \A k \in calls : \E l \in calls' : l.caller = k.caller
<1> DEFINE old == {[k EXCEPT !.alone = FALSE] : k \in calls}
           new == [caller |-> c, port |-> port, source |-> source,
                   step |-> "read", cursrc |-> {}, alone |-> calls = {}]
<1>1. calls' = old \cup {new} /\ UNCHANGED sel /\ \A k \in calls : k.caller # c
  BY DEF Begin, Calling
<1>2. new \in CallRecord /\ new.caller = c /\ (new.alone <=> calls = {}) /\ new.step = "read"
  BY DEF CallRecord
<1>3. \A l \in old : \E k \in calls : l = [k EXCEPT !.alone = FALSE] /\ k \in CallRecord
  BY DEF MuxInv
<1>4. \A l \in old : l \in CallRecord /\ ~l.alone /\ l.caller # c
  <2> SUFFICES ASSUME NEW l \in old
               PROVE  l \in CallRecord /\ ~l.alone /\ l.caller # c
    OBVIOUS
  <2>1. PICK k \in calls : l = [k EXCEPT !.alone = FALSE] /\ k \in CallRecord
    BY <1>3
  <2>2. l \in CallRecord /\ ~l.alone /\ l.caller = k.caller
    BY <2>1 DEF CallRecord
  <2> QED
    BY <1>1, <2>2
<1>5. \A k, l \in old : k.caller = l.caller => k = l
  <2> SUFFICES ASSUME NEW k \in old, NEW l \in old, k.caller = l.caller
               PROVE  k = l
    OBVIOUS
  <2>1. PICK k1 \in calls, l1 \in calls :
          /\ k = [k1 EXCEPT !.alone = FALSE] /\ l = [l1 EXCEPT !.alone = FALSE]
          /\ k1 \in CallRecord /\ l1 \in CallRecord
    BY <1>3
  <2>2. k1.caller = l1.caller
    BY <2>1 DEF CallRecord
  <2> QED
    BY <2>1, <2>2 DEF MuxInv
<1>6. \A k \in calls : [k EXCEPT !.alone = FALSE] \in old /\ [k EXCEPT !.alone = FALSE].caller = k.caller
  BY DEF MuxInv, CallRecord
<1>7. calls = {} => old = {}
  OBVIOUS
<1> HIDE DEF old, new
<1> QED
  BY <1>1, <1>2, <1>4, <1>5, <1>6, <1>7 DEF MuxInv

\* So does one that reads the register.
LEMMA ReadMux ==
  ASSUME MuxInv, NEW c, Read(c)
  PROVE  MuxInv' /\ \A k \in calls : \E l \in calls' : l.caller = k.caller
<1> DEFINE k == Call(c)
           l == [k EXCEPT !.step = "write", !.cursrc = sel]
<1>1. calls' = (calls \ {k}) \cup {l} /\ UNCHANGED sel
  BY DEF Read
<1>2. k \in calls /\ k \in CallRecord
  BY CallIs DEF Read, MuxInv
<1>3. l \in CallRecord /\ l.caller = k.caller /\ l.alone = k.alone /\ l.cursrc = sel
  BY <1>2 DEF CallRecord, MuxInv
<1> HIDE DEF k, l
<1> QED
  BY <1>1, <1>2, <1>3 DEF MuxInv

\* One that writes it back ends, and no other is by itself.
LEMMA WriteMux ==
  ASSUME MuxInv, NEW c, Write(c)
  PROVE  /\ MuxInv'
         /\ \E k \in calls : calls' = calls \ {k} /\ k.step = "write" /\ sel' = NewSelection(k)
<1> DEFINE k == Call(c)
<1>1. k \in calls /\ calls' = calls \ {k} /\ sel' = NewSelection(k) /\ k.step = "write"
  BY CallIs DEF Write
<1>2. sel' \subseteq AXIMUX_SEL_MASK
  BY <1>1 DEF NewSelection
<1>3. \A j \in calls' : ~j.alone
  BY <1>1 DEF MuxInv
<1> HIDE DEF k
<1> QED
  BY <1>1, <1>2, <1>3 DEF MuxInv

\* What the assumptions say of the sizes.
LEMMA Sizes ==
  /\ FLOPPY_TRACKS \in Nat \ {0} /\ Track \in Nat /\ Track < FLOPPY_TRACKS
  /\ StuckCounter \in Nat /\ SelBits \in Nat /\ ByteBits \in Nat \ {0}
  /\ Turn \in Nat /\ Turn > 1 /\ Word \in Nat \ {0} /\ DumpSize \in Nat
BY FloppyAssumption, AximuxAssumption

\* The fields behind the dump.
LEMMA BehindIs ==
  /\ Len(Behind) = 3 /\ \A i \in 1..3 : Behind[i] \in {"pcap_inst", "mux_inst", "capture_pin"}
  /\ {Behind[i] : i \in DOMAIN Behind} = {"pcap_inst", "mux_inst", "capture_pin"}
<1>1. Behind[1] = "pcap_inst" /\ Behind[2] = "mux_inst" /\ Behind[3] = "capture_pin"
  BY DEF Behind
<1>2. Len(Behind) = 3 /\ DOMAIN Behind = 1..3
  BY DEF Behind
<1>3. \A i \in 1..3 : i = 1 \/ i = 2 \/ i = 3
  OBVIOUS
<1>4. {1, 2, 3} \subseteq 1..3
  OBVIOUS
<1> QED
  BY <1>1, <1>2, <1>3, <1>4

\* A quotient below three.
LEMMA Quotient ==
  ASSUME NEW x \in Nat, NEW b \in Nat \ {0}, x < 3 * b
  PROVE  x \div b + 1 \in 1..3
OBVIOUS

\* Steps on the mux alone do not concern the driver.
LEMMA QuietStep == DriverInv /\ UNCHANGED <<drivervars, drive, sensor>> => DriverInv'
BY DEF drivervars, DriverInv, Types, Lines, HomedMeansKnown, OnTrack, Turns, Room, Stored

\* Binding, unbinding, and the calls of the mux.
LEMMA ProbeDriver ==
  ASSUME DriverInv,
         Probe \/ SetMux("set_mux", "in_mux", alt) \/ UnsetMux \/ UnsetLost \/ Gpios \/ Release
  PROVE  DriverInv'
<1>1. /\ UNCHANGED <<scan, drive, pin, alt, sensor>> /\ scan = NoScan
      /\ kpc \in {"unbound", "set_mux", "in_mux", "probed", "in_unset"} /\ ~drvsb /\ ~moteb
      /\ kpc' \in {"unbound", "set_mux", "in_mux", "home", "in_unset", "lost"}
      /\ kpc' = "home" => drvsb' = TRUE /\ moteb' = FALSE /\ stuck' = StuckCounter
      /\ kpc' # "home" => (drvsb' = drvsb \/ drvsb' = FALSE) /\ (moteb' = moteb \/ moteb' = FALSE)
                             /\ UNCHANGED stuck
      /\ UNCHANGED <<cur_track, homed>> \/ (cur_track' = 0 /\ homed' = FALSE)
      /\ clobbered' \in {clobbered, {}}
      /\ kpc' \in {"set_mux", "in_mux", "home"} => clobbered' = {}
  <2>1. scan = NoScan /\ ~drvsb /\ ~moteb
    BY DEF Probe, SetMux, UnsetMux, UnsetLost, Gpios, Release, DriverInv, Lines, Turns
  <2>2. UNCHANGED <<scan, drive, pin, alt, sensor>>
    BY DEF Probe, SetMux, UnsetMux, UnsetLost, Gpios, Release, Rest, Buffer
  <2>3. CASE Probe
    BY <2>1, <2>2, <2>3 DEF Probe, Floppy_goto
  <2>4. CASE SetMux("set_mux", "in_mux", alt)
    BY <2>1, <2>2, <2>4 DEF SetMux, Floppy_goto, Buffer, DriverInv, Room
  <2>7. CASE UnsetMux \/ UnsetLost
    BY <2>1, <2>2, <2>7 DEF UnsetMux, UnsetLost, SetMux, Floppy_goto, Buffer
  <2>5. CASE Gpios
    BY <2>1, <2>2, <2>5 DEF Gpios, Floppy_goto, Buffer, DriverInv, Room
  <2>6. CASE Release
    BY <2>1, <2>2, <2>6 DEF Release, Floppy_goto
  <2> QED
    BY <2>3, <2>4, <2>5, <2>6, <2>7
<1>2. Types'
  <2>1. kpc' \in Phases
    BY <1>1 DEF Phases
  <2>2. drvsb' \in BOOLEAN /\ moteb' \in BOOLEAN
    BY <1>1 DEF DriverInv, Types
  <2>3. homed' \in BOOLEAN
    BY <1>1 DEF DriverInv, Types
  <2>5. cur_track' \in 0..FLOPPY_TRACKS
    BY <1>1, Sizes DEF DriverInv, Types
  <2>4. stuck' \in 0..StuckCounter
    BY <1>1, Sizes DEF DriverInv, Types
  <2> QED
    BY <1>1, <2>1, <2>2, <2>3, <2>4, <2>5 DEF DriverInv, Types
<1>3. Lines'
  BY <1>1 DEF Lines
<1>4. HomedMeansKnown' /\ OnTrack' /\ Turns' /\ Room'
  BY <1>1 DEF DriverInv, HomedMeansKnown, OnTrack, Turns, Room
<1> QED
  BY <1>2, <1>3, <1>4 DEF DriverInv

\* The pulse of a selected drive moves the head as it moves the count.
LEMMA StepTogether ==
  ASSUME Types, NEW inwards \in BOOLEAN, floppy_step(inwards)
  PROVE  /\ cur_track' \in 0..FLOPPY_TRACKS /\ drive' \in DriveRecord
         /\ drive'.state = drive.state
         /\ drvsb /\ drive.state # "absent" /\ cur_track = drive.head
             /\ (inwards => cur_track < FLOPPY_TRACKS - 1) => cur_track' = drive'.head
<1>1. Moved(inwards) \in 0..(FLOPPY_TRACKS - 1)
  BY Sizes DEF Moved, Types, DriveRecord
<1>2. drive' = [drive EXCEPT !.head = Moved(inwards)]
  BY DEF floppy_step
<1>3. drive' \in DriveRecord /\ drive'.state = drive.state /\ drive'.head = Moved(inwards)
  BY <1>1, <1>2 DEF Types, DriveRecord
<1>4. cur_track' \in 0..FLOPPY_TRACKS
  BY Sizes DEF floppy_step, Types
<1>5. ASSUME drvsb, drive.state # "absent", cur_track = drive.head,
             inwards => cur_track < FLOPPY_TRACKS - 1
      PROVE  cur_track' = Moved(inwards)
  BY <1>5, Sizes DEF floppy_step, Moved, Types
<1> QED
  BY <1>3, <1>4, <1>5

\* Homing moves the head and the count alike until both are zero.
LEMMA HomeDriver ==
  ASSUME DriverInv,
         NEW from, NEW to, (from = "home" /\ to = "seek") \/ (from = "home_again" /\ to = "probed"),
         floppy_home(from, to)
  PROVE  DriverInv'
<1>1. /\ kpc = from /\ drvsb /\ ~moteb /\ UNCHANGED <<moteb, scan, pin, alt, sensor, clobbered>>
      /\ scan = NoScan
  BY DEF floppy_home, Rest, Buffer, DriverInv, Lines, Turns, Types
<1>2. CASE /\ Trk00 /\ cur_track' = 0 /\ homed' = TRUE
           /\ drvsb' = FALSE /\ stuck' = 0 /\ kpc' = to /\ UNCHANGED drive
  <2>1. Types'
    <3>1. kpc' \in Phases /\ cur_track' \in 0..FLOPPY_TRACKS /\ stuck' \in 0..StuckCounter
      BY <1>2, Sizes DEF Phases
    <3> QED
      BY <1>1, <1>2, <3>1 DEF DriverInv, Types
  <2>2. Lines'
    BY <1>1, <1>2 DEF Lines
  <2>3. HomedMeansKnown' /\ OnTrack' /\ Turns' /\ Room'
    BY <1>1, <1>2 DEF DriverInv, HomedMeansKnown, OnTrack, Turns, Room, Trk00
  <2> QED
    BY <2>1, <2>2, <2>3 DEF DriverInv
<1>3. CASE /\ ~Trk00 /\ floppy_step(FALSE) /\ UNCHANGED homed
           /\ IF stuck > 0 THEN stuck' = stuck - 1 /\ UNCHANGED <<drvsb, kpc>>
                           ELSE drvsb' = FALSE /\ stuck' = 0 /\ kpc' = to
  <2>1. /\ cur_track' \in 0..FLOPPY_TRACKS /\ drive' \in DriveRecord /\ drive'.state = drive.state
        /\ drive.state # "absent" /\ cur_track = drive.head => cur_track' = drive'.head
    BY <1>1, <1>3, StepTogether DEF DriverInv
  <2>5. /\ kpc' \in {from, to} /\ (kpc' # kpc => drvsb' = FALSE) /\ (kpc' = kpc => drvsb' = drvsb)
        /\ stuck' \in 0..StuckCounter
    <3>1. stuck' \in 0..StuckCounter
      BY <1>3, Sizes DEF DriverInv, Types
    <3> QED
      BY <1>1, <1>3, <3>1
  <2>2. Types'
    BY <1>1, <1>3, <2>1, <2>5 DEF DriverInv, Types, Phases
  <2>3. Lines'
    BY <1>1, <1>3 DEF DriverInv, Lines, Types
  <2>4. HomedMeansKnown' /\ OnTrack' /\ Turns' /\ Room'
    BY <1>1, <1>3, <2>1 DEF DriverInv, HomedMeansKnown, OnTrack, Turns, Room
  <2> QED
    BY <2>2, <2>3, <2>4 DEF DriverInv
<1> QED
  BY <1>2, <1>3 DEF floppy_home, Floppy_goto

\* Seeking moves a homed head, and only a selected drive.
LEMMA SeekDriver ==
  ASSUME DriverInv, SelectForSeek \/ floppy_seek \/ SeekRefused
  PROVE  DriverInv'
<1>1. /\ kpc = "seek" /\ ~moteb /\ scan = NoScan /\ clobbered = {}
      /\ UNCHANGED <<homed, stuck, moteb, scan, clobbered, pin, alt, sensor>>
  BY DEF SelectForSeek, floppy_seek, SeekRefused, Rest, Buffer, DriverInv, Lines, Turns, Room
<1>2. CASE SelectForSeek
  BY <1>1, <1>2 DEF SelectForSeek, DriverInv, Types, Lines, HomedMeansKnown, OnTrack, Turns, Room
<1>3. CASE SeekRefused
  <2>1. ~homed /\ kpc' = "dump" /\ UNCHANGED <<cur_track, drvsb, drive>> /\ ~drvsb
    BY <1>1, <1>3 DEF SeekRefused, Floppy_goto, DriverInv, Lines
  <2>2. Types'
    BY <1>1, <2>1 DEF DriverInv, Types, Phases
  <2>3. Lines'
    BY <1>1, <2>1 DEF Lines
  <2>4. HomedMeansKnown' /\ OnTrack' /\ Turns' /\ Room'
    BY <1>1, <2>1 DEF DriverInv, HomedMeansKnown, OnTrack, Turns, Room
  <2> QED
    BY <2>2, <2>3, <2>4 DEF DriverInv
<1>4. CASE homed /\ cur_track = Track /\ drvsb' = FALSE /\ kpc' = "dump" /\ UNCHANGED <<cur_track, drive>>
  BY <1>1, <1>4 DEF DriverInv, Types, Phases, Lines, HomedMeansKnown, OnTrack, Turns, Room
<1>5. CASE homed /\ drvsb /\ cur_track # Track /\ floppy_step(cur_track < Track) /\ UNCHANGED <<kpc, drvsb>>
  <2>1. cur_track < Track => cur_track < FLOPPY_TRACKS - 1
    BY Sizes DEF DriverInv, Types
  <2>2. /\ cur_track' \in 0..FLOPPY_TRACKS /\ drive' \in DriveRecord /\ drive'.state = drive.state
        /\ drive.state # "absent" /\ cur_track = drive.head => cur_track' = drive'.head
    <3>1. CASE cur_track < Track
      <4>1. floppy_step(TRUE)
        BY <1>5, <3>1 DEF floppy_step, Moved
      <4> QED
        BY <1>5, <2>1, <3>1, <4>1, StepTogether DEF DriverInv
    <3>2. CASE ~(cur_track < Track)
      <4>1. floppy_step(FALSE)
        BY <1>5, <3>2 DEF floppy_step, Moved
      <4> QED
        BY <1>5, <4>1, StepTogether DEF DriverInv
    <3> QED
      BY <3>1, <3>2
  <2>3. Types' /\ Lines'
    BY <1>1, <1>5, <2>2 DEF DriverInv, Types, Lines
  <2>4. HomedMeansKnown' /\ OnTrack' /\ Turns' /\ Room'
    BY <1>1, <1>5, <2>2 DEF DriverInv, HomedMeansKnown, OnTrack, Turns, Room
  <2> QED
    BY <2>3, <2>4 DEF DriverInv
<1> QED
  BY <1>2, <1>3, <1>4, <1>5 DEF floppy_seek, Floppy_goto

\* The dump begins with the drive selected and its motor on.
LEMMA StartDumpDriver ==
  ASSUME DriverInv, StartDump
  PROVE  DriverInv'
<1>1. /\ kpc = "dump" /\ kpc' = "wait_index" /\ drvsb' = TRUE /\ moteb' = TRUE /\ scan' = NoScan
      /\ drive' = [drive EXCEPT !.sampled = FALSE, !.turns = 0]
      /\ UNCHANGED <<cur_track, homed, stuck, clobbered, pin, alt, sensor>>
  BY DEF StartDump, Floppy_goto, Rest
<1>2. /\ drive' \in DriveRecord /\ drive'.state = drive.state /\ drive'.head = drive.head
      /\ drive'.turns = 0
  <2>1. drive \in DriveRecord /\ FALSE \in BOOLEAN /\ 0 \in 0..2
    BY DEF DriverInv, Types
  <2>2. drive' \in DriveRecord
    BY <1>1, <2>1 DEF DriveRecord
  <2> QED
    BY <1>1, <2>1, <2>2 DEF DriveRecord
<1>3. scan' \in ScanRecord
  BY <1>1, Sizes DEF NoScan, ScanRecord
<1>4. Types'
  BY <1>1, <1>2, <1>3 DEF DriverInv, Types, Phases
<1>5. Lines'
  BY <1>1 DEF Lines
<1>6. HomedMeansKnown' /\ OnTrack' /\ Turns' /\ Room'
  BY <1>1, <1>2 DEF DriverInv, HomedMeansKnown, OnTrack, Turns, Room
<1> QED
  BY <1>4, <1>5, <1>6 DEF DriverInv

\* Reading begins at the index, which has been sampled then.
LEMMA WaitIndexDriver ==
  ASSUME DriverInv, WaitIndex
  PROVE  DriverInv'
<1>1. /\ kpc = "wait_index" /\ drive' = [drive EXCEPT !.sampled = TRUE, !.stayed = Index]
      /\ UNCHANGED <<cur_track, homed, stuck, drvsb, moteb, clobbered, pin, alt, sensor>>
      /\ scan = NoScan /\ drive.turns = 0 /\ drvsb /\ moteb /\ clobbered = {}
  BY DEF WaitIndex, Rest, DriverInv, Turns, Lines, Room
<1>2. /\ drive' \in DriveRecord /\ drive'.state = drive.state /\ drive'.head = drive.head
      /\ drive'.position = drive.position /\ drive'.turns = 0 /\ drive'.sampled = TRUE
  <2>1. drive \in DriveRecord /\ TRUE \in BOOLEAN /\ Index \in BOOLEAN
    BY DEF DriverInv, Types, Index
  <2>2. drive' \in DriveRecord
    BY <1>1, <2>1 DEF DriveRecord
  <2> QED
    BY <1>1, <2>1, <2>2 DEF DriveRecord
<1>3. CASE Index /\ kpc' = "read" /\ scan' = [scan EXCEPT !.wait = TRUE]
  <2>1. drive.state = "ready" /\ drive.position = 0
    BY <1>3 DEF Index
  <2>2. scan' = [wait |-> TRUE, bits |-> 0, buf_ptr |-> 0, samples |-> 0]
    BY <1>1, <1>3 DEF NoScan
  <2>3. Stored'
    <3>1. scan'.buf_ptr = 2 * 0 /\ scan'.samples = ByteBits * 0 + scan'.bits
      BY <2>2, Sizes
    <3> QED
      BY <3>1 DEF Stored
  <2>4. Types'
    BY <1>1, <1>2, <1>3, <2>2, Sizes DEF DriverInv, Types, Phases, ScanRecord
  <2>5. Lines'
    BY <1>1, <1>3 DEF Lines
  <2>6. HomedMeansKnown' /\ OnTrack' /\ Room'
    BY <1>1, <1>2, <1>3, <2>3 DEF DriverInv, HomedMeansKnown, OnTrack, Room
  <2>7. Turns'
    BY <1>2, <1>3, <2>1, <2>2 DEF Turns
  <2> QED
    BY <2>4, <2>5, <2>6, <2>7 DEF DriverInv
<1>4. CASE UNCHANGED <<kpc, scan>>
  BY <1>1, <1>2, <1>4 DEF DriverInv, Types, Lines, HomedMeansKnown, OnTrack, Turns, Room
<1> QED
  BY <1>3, <1>4 DEF WaitIndex, Floppy_goto

\* A bit more, or a byte, is a sample more.
LEMMA OneMoreBit ==
  ASSUME scan \in ScanRecord, Stored, NEW w \in BOOLEAN,
         \/ scan.bits # ByteBits - 1
              /\ scan' = [scan EXCEPT !.wait = w, !.bits = scan.bits + 1, !.samples = scan.samples + 1]
         \/ scan.bits = ByteBits - 1
              /\ scan' = [wait |-> w, bits |-> 0, buf_ptr |-> scan.buf_ptr + 2,
                          samples |-> scan.samples + 1]
  PROVE  scan' \in ScanRecord /\ Stored' /\ scan'.wait = w
<1>1. PICK m \in Nat : scan.buf_ptr = 2 * m /\ scan.samples = ByteBits * m + scan.bits
  BY DEF Stored
<1>2. scan.bits \in 0..(ByteBits - 1) /\ scan.buf_ptr \in Nat /\ scan.samples \in Nat
  BY DEF ScanRecord
<1>3. CASE /\ scan.bits # ByteBits - 1
           /\ scan' = [scan EXCEPT !.wait = w, !.bits = scan.bits + 1, !.samples = scan.samples + 1]
  <2>1. scan.bits + 1 \in 0..(ByteBits - 1) /\ scan.samples + 1 \in Nat
    BY <1>2, <1>3, Sizes
  <2>2. scan' \in ScanRecord
    BY <1>3, <2>1 DEF ScanRecord
  <2>3. /\ scan'.bits = scan.bits + 1 /\ scan'.buf_ptr = scan.buf_ptr /\ scan'.wait = w
        /\ scan'.samples = scan.samples + 1
    BY <1>3 DEF ScanRecord
  <2>4. ByteBits * m \in Nat
    BY Sizes
  <2>5. scan'.samples = ByteBits * m + scan'.bits
    BY <1>1, <1>2, <2>3, <2>4
  <2> QED
    BY <1>1, <2>2, <2>3, <2>5 DEF Stored
<1>4. CASE /\ scan.bits = ByteBits - 1
           /\ scan' = [wait |-> w, bits |-> 0, buf_ptr |-> scan.buf_ptr + 2,
                       samples |-> scan.samples + 1]
  <2>1. 0 \in 0..(ByteBits - 1) /\ scan.samples + 1 \in Nat /\ scan.buf_ptr + 2 \in Nat
    BY <1>2, Sizes
  <2>2. scan' \in ScanRecord
    BY <1>4, <2>1 DEF ScanRecord
  <2>3. ByteBits * (m + 1) = ByteBits * m + ByteBits /\ ByteBits * m \in Nat
    BY Sizes
  <2>4. scan'.buf_ptr = 2 * (m + 1) /\ scan'.samples = ByteBits * (m + 1) + scan'.bits
    BY <1>1, <1>4, <2>3, Sizes
  <2> QED
    BY <1>4, <2>2, <2>4 DEF Stored
<1> QED
  BY <1>3, <1>4

\* A sample marks the position it was taken at.
LEMMA SampledDrive ==
  ASSUME drive \in DriveRecord, drive' = [drive EXCEPT !.sampled = TRUE]
  PROVE  /\ drive' \in DriveRecord /\ drive'.state = drive.state /\ drive'.head = drive.head
         /\ drive'.position = drive.position /\ drive'.turns = drive.turns
         /\ drive'.sampled = TRUE /\ drive'.stayed = drive.stayed
<1>1. drive' \in DriveRecord
  BY DEF DriveRecord
<1> QED
  BY <1>1 DEF DriveRecord

\* A bit that is read takes a sample, and clears wait after the pulse.
LEMMA ReadDriver ==
  ASSUME DriverInv, ReadBit \/ ReadByte \/ ReadTooFar
  PROVE  DriverInv'
<1>1. /\ kpc = "read" /\ (Index => Waiting) /\ drive' = [drive EXCEPT !.sampled = TRUE]
      /\ UNCHANGED <<cur_track, homed, stuck, drvsb, moteb, pin, alt, sensor>>
      /\ scan \in ScanRecord /\ drive \in DriveRecord /\ Stored /\ drvsb /\ moteb
  BY DEF ReadBit, ReadByte, ReadTooFar, Sample, Rest, DriverInv, Types, Lines, Room
<1>2. /\ drive' \in DriveRecord /\ drive'.state = drive.state /\ drive'.head = drive.head
      /\ drive'.position = drive.position /\ drive'.turns = drive.turns
      /\ drive'.sampled = TRUE /\ drive'.stayed = drive.stayed
  BY <1>1, SampledDrive
<1>3. CASE ReadTooFar
  <2>1. kpc' = "lost" /\ scan' = NoScan /\ clobbered' = clobbered
    BY <1>3 DEF ReadTooFar, Floppy_goto
  <2>2. Types'
    <3>1. scan' \in ScanRecord
      BY <2>1, Sizes DEF NoScan, ScanRecord
    <3> QED
      BY <1>1, <1>2, <2>1, <3>1 DEF DriverInv, Types, Phases
  <2>3. Lines' /\ HomedMeansKnown' /\ OnTrack' /\ Turns' /\ Room'
    BY <1>1, <1>2, <2>1 DEF DriverInv, Lines, HomedMeansKnown, OnTrack, Turns, Room
  <2> QED
    BY <2>2, <2>3 DEF DriverInv
<1>4. CASE ReadBit \/ ReadByte
  <2>1. PICK w \in BOOLEAN :
          /\ w <=> Waiting
          /\ \/ scan.bits # ByteBits - 1
                  /\ scan' = [scan EXCEPT !.wait = w, !.bits = scan.bits + 1,
                                          !.samples = scan.samples + 1]
             \/ scan.bits = ByteBits - 1
                  /\ scan' = [wait |-> w, bits |-> 0, buf_ptr |-> scan.buf_ptr + 2,
                              samples |-> scan.samples + 1]
    BY <1>4 DEF ReadBit, ReadByte, ByteFull, Waiting
  <2>2. scan' \in ScanRecord /\ Stored' /\ scan'.wait = w
    BY <1>1, <2>1, OneMoreBit
  <2>3. /\ kpc' = kpc /\ clobbered' \subseteq {"pcap_inst", "mux_inst", "capture_pin"}
        /\ clobbered' # {} => scan'.buf_ptr >= DumpSize + 2
    <3>0. /\ kpc' = kpc /\ scan.buf_ptr \in Nat
          /\ clobbered \subseteq {"pcap_inst", "mux_inst", "capture_pin"}
          /\ clobbered # {} => scan.buf_ptr >= DumpSize + 2
      BY <1>1, <1>4 DEF ReadBit, ReadByte, DriverInv, Types, Room, ScanRecord
    <3>1. CASE ReadBit
      <4>1. clobbered' = clobbered /\ scan'.buf_ptr = scan.buf_ptr
        BY <1>1, <3>1 DEF ReadBit, ScanRecord
      <4> QED
        BY <3>0, <4>1
    <3>2. CASE ReadByte
      <4>1. scan'.buf_ptr = scan.buf_ptr + 2
        BY <3>2 DEF ReadByte
      <4>2. CASE scan.buf_ptr < DumpSize
        <5>1. clobbered' = clobbered
          BY <3>2, <4>2 DEF ReadByte
        <5> QED
          BY <3>0, <4>1, <5>1, Sizes
      <4>3. CASE ~(scan.buf_ptr < DumpSize)
        <5>1. /\ clobbered' = clobbered \cup {Behind[(scan.buf_ptr - DumpSize) \div Word + 1]}
              /\ scan.buf_ptr < InstanceEnd
          BY <3>2, <4>3 DEF ReadByte
        <5>2. (scan.buf_ptr - DumpSize) \div Word + 1 \in 1..3
          <6>1. scan.buf_ptr - DumpSize \in Nat /\ scan.buf_ptr - DumpSize < 3 * Word
            BY <3>0, <4>3, <5>1, BehindIs, Sizes DEF InstanceEnd
          <6>2. PICK past \in Nat : past = scan.buf_ptr - DumpSize
            BY <6>1
          <6>3. past < 3 * Word
            BY <6>1, <6>2
          <6>4. past \div Word + 1 \in 1..3
            BY <6>3, Quotient, Sizes
          <6> QED
            BY <6>2, <6>4
        <5>3. scan'.buf_ptr >= DumpSize + 2
          BY <3>0, <4>1, <4>3, Sizes
        <5>4. Behind[(scan.buf_ptr - DumpSize) \div Word + 1]
                \in {"pcap_inst", "mux_inst", "capture_pin"}
          BY <5>2, BehindIs
        <5>5. clobbered' \subseteq {"pcap_inst", "mux_inst", "capture_pin"}
          BY <3>0, <5>1, <5>4
        <5> QED
          BY <3>0, <5>3, <5>5
      <4> QED
        BY <4>2, <4>3
    <3> QED
      BY <1>4, <3>1, <3>2
  <2>4. Types' /\ Lines'
    BY <1>1, <1>2, <2>2, <2>3 DEF DriverInv, Types, Lines
  <2>5. HomedMeansKnown' /\ OnTrack' /\ Room'
    BY <1>1, <1>2, <2>2, <2>3 DEF DriverInv, HomedMeansKnown, OnTrack, Room
  <2>6. Turns'
    <3> SUFFICES ASSUME drive.stayed
                 PROVE  /\ drive.state = "ready" /\ drive.turns = 0
                        /\ drive.position = 0 => w
                        /\ w => drive.position = 0
      BY <1>1, <1>2, <2>2, <2>3 DEF Turns
    <3>1. drive.state = "ready" /\ (Index <=> drive.position = 0)
      BY <1>1 DEF DriverInv, Turns, Index
    <3> QED
      BY <1>1, <2>1, <3>1 DEF DriverInv, Turns, Waiting
  <2> QED
    BY <2>4, <2>5, <2>6 DEF DriverInv
<1> QED
  BY <1>3, <1>4

\* The dump ends after one turn if the disk stayed, with the motor off.
LEMMA DumpDoneDriver ==
  ASSUME DriverInv, DumpDone
  PROVE  DriverInv' /\ (drive.stayed => drive.turns = 1)
<1>1. /\ kpc = "read" /\ Index /\ ~Waiting /\ kpc' = "home_again" /\ drvsb' = TRUE /\ moteb' = FALSE
      /\ stuck' = StuckCounter /\ scan' = NoScan
      /\ drive' = [drive EXCEPT !.sampled = FALSE, !.turns = 0, !.stayed = FALSE]
      /\ UNCHANGED <<cur_track, homed, clobbered, pin, alt, sensor>>
  BY DEF DumpDone, Floppy_goto, Rest
<1>2. scan' \in ScanRecord /\ stuck' \in 0..StuckCounter
  BY <1>1, Sizes DEF NoScan, ScanRecord
<1>3. drive' \in DriveRecord /\ drive'.state = drive.state /\ drive'.head = drive.head
  <2>1. drive \in DriveRecord /\ FALSE \in BOOLEAN /\ 0 \in 0..2
    BY DEF DriverInv, Types
  <2>2. drive' \in DriveRecord
    BY <1>1, <2>1 DEF DriveRecord
  <2> QED
    BY <1>1, <2>1, <2>2 DEF DriveRecord
<1>4. Types'
  BY <1>1, <1>2, <1>3 DEF DriverInv, Types, Phases
<1>5. Lines'
  BY <1>1 DEF Lines
<1>6. HomedMeansKnown' /\ OnTrack' /\ Turns' /\ Room'
  BY <1>1, <1>3 DEF DriverInv, HomedMeansKnown, OnTrack, Turns, Room
<1>7. drive.stayed => drive.turns = 1
  BY <1>1 DEF DriverInv, Turns, Index, Waiting
<1> QED
  BY <1>4, <1>5, <1>6, <1>7 DEF DriverInv

\* The disk turns on after it was sampled.
LEMMA RotateDriver ==
  ASSUME DriverInv, Rotate
  PROVE  DriverInv'
<1>1. UNCHANGED drivervars /\ UNCHANGED sensor /\ (kpc \in {"wait_index", "read"} => drive.sampled)
  BY DEF Rotate
<1> DEFINE last == kpc = "read" /\ drive.position = Turn - 1
           turns == IF last THEN IF drive.turns < 2 THEN drive.turns + 1 ELSE drive.turns
                    ELSE drive.turns
           position == (drive.position + 1) % Turn
<1>2. drive' = [drive EXCEPT !.position = position, !.sampled = FALSE, !.turns = turns]
  BY DEF Rotate
<1>3. drive \in DriveRecord /\ drive.position \in 0..(Turn - 1) /\ drive.turns \in 0..2
  BY DEF DriverInv, Types, DriveRecord
<1>4. position = IF drive.position = Turn - 1 THEN 0 ELSE drive.position + 1
  BY <1>3, Sizes
<1>5. turns \in 0..2 /\ position \in 0..(Turn - 1) /\ FALSE \in BOOLEAN
  BY <1>3, <1>4, Sizes
<1>6. kpc # "read" => turns = drive.turns
  OBVIOUS
<1>7. kpc = "read" /\ drive.turns = 0 => turns = IF drive.position = Turn - 1 THEN 1 ELSE 0
  OBVIOUS
<1> HIDE DEF turns, position
<1>8. drive' \in DriveRecord
  BY <1>2, <1>3, <1>5 DEF DriveRecord
<1>9. /\ drive'.state = drive.state /\ drive'.head = drive.head /\ drive'.sampled = FALSE
      /\ drive'.turns = turns /\ drive'.position = position /\ drive'.stayed = drive.stayed
  BY <1>2, <1>3 DEF DriveRecord
<1>10. Types' /\ Lines'
  BY <1>1, <1>8 DEF drivervars, DriverInv, Types, Lines
<1>11. HomedMeansKnown' /\ OnTrack' /\ Room'
  BY <1>1, <1>9 DEF drivervars, DriverInv, HomedMeansKnown, OnTrack, Room, Stored
<1>12. Turns'
  <2>1. UNCHANGED <<scan, kpc>>
    BY <1>1 DEF drivervars
  <2>2. CASE kpc # "read"
    BY <1>6, <1>9, <2>1, <2>2 DEF DriverInv, Turns
  <2>3. CASE kpc = "read" /\ ~drive.stayed
    BY <1>9, <2>1, <2>3 DEF Turns
  <2>4. CASE kpc = "read" /\ drive.stayed
    <3>1. drive.turns = 0 /\ drive.state = "ready" /\ (scan.wait => drive.position = 0)
      BY <1>1, <2>4 DEF DriverInv, Turns
    <3>2. CASE drive.position = Turn - 1
      <4>1. drive'.turns = 1 /\ drive'.position = 0 /\ ~scan.wait
        BY <1>4, <1>7, <1>9, <2>4, <3>1, <3>2, Sizes
      <4> QED
        BY <1>9, <2>1, <2>4, <3>1, <4>1 DEF Turns
    <3>3. CASE drive.position # Turn - 1
      <4>1. drive'.turns = 0 /\ drive'.position = drive.position + 1 /\ drive'.position # 0
        BY <1>3, <1>4, <1>7, <1>9, <2>4, <3>1, <3>3
      <4>2. scan.wait => drive'.position = 1
        BY <3>1, <4>1
      <4> QED
        BY <1>9, <2>1, <2>4, <3>1, <4>1, <4>2 DEF Turns
    <3> QED
      BY <3>2, <3>3
  <2> QED
    BY <2>2, <2>3, <2>4
<1> QED
  BY <1>10, <1>11, <1>12 DEF DriverInv

\* A disk that is moved did not stay, and takes no head with it.
LEMMA DiskDriver ==
  ASSUME DriverInv, DiskMoved
  PROVE  DriverInv'
<1>1. UNCHANGED <<drivervars, sensor>> /\ drive.state # "absent" /\ drive \in DriveRecord
  BY DEF DiskMoved, DriverInv, Types
<1> DEFINE state == IF drive.state = "ready" THEN "empty" ELSE "ready"
<1>2. drive' = [drive EXCEPT !.state = state, !.stayed = FALSE]
  BY DEF DiskMoved
<1>3. state \in {"empty", "ready"} /\ FALSE \in BOOLEAN
  OBVIOUS
<1> HIDE DEF state
<1>4. /\ drive' \in DriveRecord /\ drive'.head = drive.head /\ drive'.turns = drive.turns
      /\ drive'.stayed = FALSE /\ drive'.state # "absent"
  <2>1. drive' \in DriveRecord
    BY <1>1, <1>2, <1>3 DEF DriveRecord
  <2> QED
    BY <1>1, <1>2, <1>3, <2>1 DEF DriveRecord
<1>5. Types' /\ Lines'
  BY <1>1, <1>4 DEF drivervars, DriverInv, Types, Lines
<1>6. HomedMeansKnown' /\ OnTrack' /\ Turns' /\ Room'
  BY <1>1, <1>4 DEF drivervars, DriverInv, HomedMeansKnown, OnTrack, Turns, Room, Stored
<1> QED
  BY <1>5, <1>6 DEF DriverInv

\* The sensor matters only to a homing.
LEMMA SensorDriver ==
  ASSUME DriverInv, SensorChanges
  PROVE  DriverInv'
<1>1. UNCHANGED <<drivervars, drive>> /\ sensor' \in BOOLEAN
  BY DEF SensorChanges, DriverInv, Types
<1> QED
  BY <1>1 DEF drivervars, DriverInv, Types, Lines, HomedMeansKnown, OnTrack, Turns, Room, Stored

\* Every step keeps the invariant.
LEMMA NextInv == Inv /\ [Next]_vars => Inv'
<1> SUFFICES ASSUME Inv, [Next]_vars
             PROVE  Inv'
  OBVIOUS
<1>1. MuxInv /\ DriverInv
  BY DEF Inv
<1>2. Floppy \in Callers /\ pin \in Int /\ alt \in BOOLEAN /\ FALSE \in BOOLEAN
  BY <1>1, Sizes DEF Callers, DriverInv, Types
<1>3. CASE \E w \in Writers : SysfsStep(w) /\ UNCHANGED <<drivervars, drive, sensor>>
  <2>1. PICK w \in Writers : SysfsStep(w)
    BY <1>3
  <2>2. ASSUME NEW port \in 0..(Width - 1), NEW value \in Values, src_store(w, port, value)
        PROVE  MuxInv'
    <3>1. Begin(w, port, value # 0) /\ (value # 0) \in BOOLEAN /\ w \in Callers /\ port \in Int
      BY <2>2, AximuxAssumption DEF src_store, Callers
    <3> QED
      BY <1>1, <3>1, BeginMux
  <2>3. MuxInv'
    BY <1>1, <2>1, <2>2, ReadMux, WriteMux DEF SysfsStep
  <2> QED
    BY <1>1, <1>3, <2>3, QuietStep DEF Inv
<1>4. CASE MuxStep
  BY <1>1, <1>4, ReadMux, WriteMux, QuietStep DEF MuxStep, Inv
<1>5. CASE SetMux("set_mux", "in_mux", alt) \/ UnsetMux
  <2>1. Begin(Floppy, pin, alt) \/ Begin(Floppy, pin, FALSE)
    BY <1>5 DEF UnsetMux, SetMux
  <2>2. MuxInv'
    BY <1>1, <1>2, <2>1, BeginMux
  <2> QED
    BY <1>1, <1>5, <2>2, ProbeDriver DEF Inv
<1>6. CASE UNCHANGED muxvars /\ DriverInv'
  BY <1>1, <1>6 DEF muxvars, Inv, MuxInv
<1>7. CASE UNCHANGED vars
  BY <1>1, <1>6, <1>7, QuietStep DEF vars
<1>8. CASE Probe \/ UnsetLost \/ Gpios \/ Release
  BY <1>1, <1>6, <1>8, ProbeDriver DEF Probe, UnsetLost, Gpios, Release
<1>9. CASE floppy_home("home", "seek") \/ floppy_home("home_again", "probed")
  BY <1>1, <1>6, <1>9, HomeDriver DEF floppy_home
<1>10. CASE SelectForSeek \/ floppy_seek \/ SeekRefused
  BY <1>1, <1>6, <1>10, SeekDriver DEF SelectForSeek, floppy_seek, SeekRefused
<1>11. CASE StartDump \/ WaitIndex \/ ReadBit \/ ReadByte \/ ReadTooFar \/ DumpDone
  BY <1>1, <1>6, <1>11, StartDumpDriver, WaitIndexDriver, ReadDriver, DumpDoneDriver
  DEF StartDump, WaitIndex, ReadBit, ReadByte, ReadTooFar, Sample, DumpDone
<1>12. CASE Rotate \/ DiskMoved \/ SensorChanges
  BY <1>1, <1>6, <1>12, RotateDriver, DiskDriver, SensorDriver DEF Rotate, DiskMoved, SensorChanges
<1> QED
  BY <1>3, <1>4, <1>5, <1>7, <1>8, <1>9, <1>10, <1>11, <1>12 DEF Next, InProbe

\* It holds before the driver is bound.
LEMMA InitInv == Init => Inv
<1> SUFFICES ASSUME Init
             PROVE  Inv
  OBVIOUS
<1>1. MuxInv
  BY DEF Init, MuxInit, MuxInv
<1>2. kpc \in Phases /\ pin \in 0..SelBits /\ 0 \in 0..FLOPPY_TRACKS /\ 0 \in 0..StuckCounter
  BY Sizes DEF Init, Phases
<1>3. NoScan \in ScanRecord
  BY Sizes DEF NoScan, ScanRecord
<1>4. drive \in DriveRecord
  <2>1. {0, 1} \subseteq 0..(Turn - 1) /\ {0} \subseteq 0..2
    BY Sizes
  <2> QED
    BY <2>1 DEF Init, DriveRecord
<1>5. Types
  BY <1>2, <1>3, <1>4 DEF Init, Types
<1>6. Lines /\ HomedMeansKnown /\ OnTrack /\ Turns /\ Room
  BY DEF Init, Lines, HomedMeansKnown, OnTrack, Turns, Room
<1> QED
  BY <1>1, <1>5, <1>6 DEF Inv, DriverInv

\* Every variable keeps its type: the count and the head stay on the disk
\* (kswfloppy.c:135-206).
THEOREM TypeCorrect == Spec => []TypeOK
<1>1. MuxInv => MuxTypeOK
  BY DEF MuxInv, MuxTypeOK, CallRecord
<1>2. DriverInv => TypeOK \/ ~MuxTypeOK
  BY BehindIs DEF DriverInv, Types, TypeOK, ScanRecord, DriveRecord
<1>3. Inv => TypeOK
  BY <1>1, <1>2 DEF Inv
<1> QED
  BY <1>3, InitInv, NextInv, PTL DEF Spec

\* Once the head is homed its count is the track it is on, through seeks, a second
\* homing that gives up because the sensor has failed, and a second probe
\* (kswfloppy.c:135-206).
THEOREM HeadIsKnown == Spec => []HomedMeansKnown
<1>1. Inv => HomedMeansKnown
  BY DEF Inv, DriverInv
<1> QED
  BY <1>1, InitInv, NextInv, PTL DEF Spec

\* What is read after a homing that succeeded is the track asked for
\* (kswfloppy.c:189-272).
THEOREM DumpsTheTrack == Spec => []DumpOnTrack
<1>1. Inv => DumpOnTrack
  BY DEF Inv, DriverInv, HomedMeansKnown, OnTrack, Turns, DumpOnTrack
<1> QED
  BY <1>1, InitInv, NextInv, PTL DEF Spec

\* Outside probe and remove the drive is let go, however homing ended
\* (kswfloppy.c:135-377).
THEOREM LetsGo == Spec => []DriveReleased
<1>1. Inv => DriveReleased
  BY DEF Inv, DriverInv, Lines, DriveReleased
<1> QED
  BY <1>1, InitInv, NextInv, PTL DEF Spec

\* Nothing behind the dump is overwritten before a byte was read for every other
\* element of it, and one more, whatever the sizes; and nothing keeps it from being
\* overwritten then (kswfloppy.c:212-272).
THEOREM DumpHasRoom == Spec => []RoomInDump
<1>1. ASSUME Inv, kpc = "read", clobbered # {}
      PROVE  ~(scan.samples < ByteBits * (DumpSize \div 2 + 1))
  <2>1. /\ scan.buf_ptr >= DumpSize + 2 /\ Stored /\ scan \in ScanRecord
    BY <1>1 DEF Inv, DriverInv, Room, Types
  <2>2. PICK m \in Nat : scan.buf_ptr = 2 * m /\ scan.samples = ByteBits * m + scan.bits
    BY <2>1 DEF Stored
  <2>3. m >= DumpSize \div 2 + 1 /\ DumpSize \div 2 + 1 \in Nat
    BY <2>1, <2>2, Sizes
  <2>4. PICK k \in Nat : k = DumpSize \div 2 + 1 /\ k <= m
    BY <2>3
  <2>5. ByteBits * k <= ByteBits * m /\ ByteBits * k \in Nat /\ ByteBits * m \in Nat
    BY <2>4, Sizes
  <2>6. scan.bits \in Nat /\ scan.samples \in Nat
    BY <2>1, Sizes DEF ScanRecord
  <2>7. ByteBits * k <= scan.samples
    BY <2>2, <2>5, <2>6
  <2> QED
    BY <2>4, <2>5, <2>6, <2>7
<1>2. Inv => RoomInDump
  BY <1>1 DEF RoomInDump
<1> QED
  BY <1>2, InitInv, NextInv, PTL DEF Spec

\* The dump of a disk that stays in the drive ends at the second index pulse and not
\* in the first one (kswfloppy.c:227-260).
THEOREM DumpsOneTurn == Spec => OneTurn
<1>1. Inv /\ [Next]_vars => [kpc = "read" /\ kpc' = "home_again" /\ drive.stayed => drive.turns = 1]_vars
  <2> SUFFICES ASSUME Inv, Next, kpc = "read", kpc' = "home_again", drive.stayed
               PROVE  drive.turns = 1
    BY DEF vars
  <2>1. DumpDone
    BY DEF Next, InProbe, Probe, SetMux, UnsetMux, UnsetLost, MuxStep, Gpios, floppy_home,
           SelectForSeek, floppy_seek, SeekRefused, StartDump, WaitIndex, ReadBit, ReadByte,
           ReadTooFar, Release, Rotate, DiskMoved, SensorChanges, drivervars, Floppy_goto
  <2> QED
    BY <2>1, DumpDoneDriver DEF Inv
<1> QED
  BY <1>1, InitInv, NextInv, PTL DEF Spec, OneTurn

\* What a call that writes the register back changes.
LEMMA SoloWrite ==
  ASSUME MuxInv, NEW c, Write(c)
  PROVE  /\ \A p \in AXIMUX_SEL_MASK : (p \in sel) # (p \in sel') =>
              \E k \in calls : k \notin calls' /\ k.step = "write" /\ (k.port = p \/ ~k.alone)
         /\ \A k \in calls : ~(\E l \in calls' : l.caller = k.caller) =>
              (k.alone /\ k.port \in AXIMUX_SEL_MASK => (k.port \in sel' <=> k.source))
<1>1. PICK k \in calls : calls' = calls \ {k} /\ k.step = "write" /\ sel' = NewSelection(k)
  BY WriteMux
<1>2. k.alone => k.cursrc = sel
  BY <1>1 DEF MuxInv
<1>3. \A p \in AXIMUX_SEL_MASK : k.alone /\ p # k.port => (p \in sel <=> p \in sel')
  BY <1>1, <1>2 DEF NewSelection
<1>4. k.port \in AXIMUX_SEL_MASK => (k.port \in sel' <=> k.source)
  BY <1>1 DEF NewSelection
<1>5. \A j \in calls : ~(\E l \in calls' : l.caller = j.caller) => j = k
  BY <1>1
<1>6. k \notin calls'
  BY <1>1
<1> QED
  BY <1>1, <1>3, <1>4, <1>5, <1>6

\* A bit of the register changes only when a call for its port ends or one that
\* was overlapped, and a call by itself leaves its port as asked
\* (aximux.c:85-95).
THEOREM WritesStick == Spec => SoloWriteSticks
<1>1. Inv /\ [Next]_vars =>
        [/\ \A p \in AXIMUX_SEL_MASK : (p \in sel) # (p \in sel') =>
              \E k \in calls : k \notin calls' /\ k.step = "write" /\ (k.port = p \/ ~k.alone)
         /\ \A k \in calls : ~(\E l \in calls' : l.caller = k.caller) =>
              (k.alone /\ k.port \in AXIMUX_SEL_MASK => (k.port \in sel' <=> k.source))]_vars
  <2> SUFFICES ASSUME Inv, Next
               PROVE  /\ \A p \in AXIMUX_SEL_MASK : (p \in sel) # (p \in sel') =>
                           \E k \in calls : k \notin calls' /\ k.step = "write" /\ (k.port = p \/ ~k.alone)
                      /\ \A k \in calls : ~(\E l \in calls' : l.caller = k.caller) =>
                           (k.alone /\ k.port \in AXIMUX_SEL_MASK => (k.port \in sel' <=> k.source))
    OBVIOUS
  <2>1. MuxInv
    BY DEF Inv
  <2>2. CASE \E c : Write(c)
    BY <2>1, <2>2, SoloWrite
  <2>3. CASE UNCHANGED sel /\ \A k \in calls : \E l \in calls' : l.caller = k.caller
    BY <2>3
  <2>4. CASE \E c \in Callers, port \in Int, source \in BOOLEAN : Begin(c, port, source)
    BY <2>1, <2>3, <2>4, BeginMux DEF Begin
  <2>5. CASE \E c : Read(c)
    BY <2>1, <2>3, <2>5, ReadMux DEF Read
  <2>6. CASE UNCHANGED muxvars
    BY <2>3, <2>6 DEF muxvars
  <2>7. CASE MuxStep
    BY <2>2, <2>5, <2>7 DEF MuxStep
  <2>8. CASE SetMux("set_mux", "in_mux", alt) \/ UnsetMux
    <3>1. Floppy \in Callers /\ pin \in Int /\ alt \in BOOLEAN /\ FALSE \in BOOLEAN
      BY Sizes DEF Callers, Inv, DriverInv, Types
    <3> QED
      BY <2>4, <2>8, <3>1 DEF SetMux, UnsetMux
  <2>9. ASSUME NEW w \in Writers, SysfsStep(w)
        PROVE  (\E c : Write(c)) \/ (\E c : Read(c))
               \/ \E c \in Callers, port \in Int, source \in BOOLEAN : Begin(c, port, source)
    <3>1. ASSUME NEW port \in 0..(Width - 1), NEW value \in Values, src_store(w, port, value)
          PROVE  \E c \in Callers, source \in BOOLEAN : Begin(c, port, source)
      <4>1. Begin(w, port, value # 0) /\ (value # 0) \in BOOLEAN /\ w \in Callers
        BY <3>1 DEF src_store, Callers
      <4> QED
        BY <4>1
    <3> QED
      BY <2>9, <3>1, AximuxAssumption DEF SysfsStep
  <2>10. CASE Next /\ ~UNCHANGED muxvars
    BY <2>2, <2>4, <2>5, <2>7, <2>8, <2>9, <2>10
    DEF Next, InProbe, Probe, UnsetLost, Gpios, floppy_home, SelectForSeek, floppy_seek,
        SeekRefused, StartDump, WaitIndex, ReadBit, ReadByte, ReadTooFar, Sample, DumpDone,
        Release, Rotate, DiskMoved, SensorChanges
  <2> QED
    BY <2>6, <2>10
<1> QED
  BY <1>1, InitInv, NextInv, PTL DEF Spec, SoloWriteSticks
================================================================================
