\* Three tracks, a turn of three positions, one sysfs writer; the pin lies in
\* the register's mask or outside it.
CONSTANTS
  Writers = {w1}
  Floppy = floppy
  Width = 2
  SelBits = 2
  Values = {0, 1, 4}
  FLOPPY_TRACKS = 3
  StuckCounter = 3
  Track = 2
  DumpSize = 2
  ByteBits = 2
  Word = 2
  Turn = 3
SPECIFICATION Spec
INVARIANTS
  TypeOK
  HomedMeansKnown
  DumpOnTrack
  DriveReleased
  RoomInDump
PROPERTIES
  OneTurn
  SoloWriteSticks
  ProbeReturns
