------------------------------ MODULE SimDisk ------------------------------
(***************************************************************************)
(* The simulated disks (flex9io.c): a disk image is a host file of blocks  *)
(* of SectorBytes bytes, reached through the drivers' software interrupt   *)
(* (drive_ctr) or through the registers of an FD1771 (brkmemon).           *)
(*                                                                         *)
(* The state k of the disks is a record: the images (a function on 0..3;   *)
(* <<>> is a file that cannot be opened), seldrv, the buffer file_rwbuf,   *)
(* and the controller's registers under their names.                       *)
(***************************************************************************)
EXTENDS Integers, Sequences, SequencesExt, TLC

CONSTANT SectorBytes   \* 256

TrackSectors == 36
Drives == 0 .. 3

NoRegisters == [drv |-> 0, com |-> 0, trk |-> 0, sec |-> 0, dat |-> 0,
                dcount |-> 0, dmax |-> 0, delay |-> 0]

Disks(images) ==
  [images |-> images, seldrv |-> 0, buf |-> [i \in 0 .. (2 * SectorBytes) - 1 |-> 0],
   fdc |-> NoRegisters]

\* The half of file_rwbuf that is transferred, and the buffer with it replaced.
Half(k) == [i \in 0 .. SectorBytes - 1 |-> k.buf[i]]
Filled(k, block) == [i \in DOMAIN k.buf |-> IF i < SectorBytes THEN block[i] ELSE k.buf[i]]

Ready(k) == k.seldrv \in Drives /\ k.images[k.seldrv] # <<>>

\* Mutant: sectors are counted from 0.
BlockOfZero(track, sector) == (TrackSectors * track) + sector

\* The place of a sector in the file.  fseek refuses the address before the
\* file and stays at its beginning.
BlockOf(track, sector) ==
  LET dadr == (TrackSectors * track) + sector - 1
  IN  IF dadr < 0 THEN 0 ELSE dadr

\* file_read: after the end of the file the buffer keeps what it held, and
\* the read is reported well all the same.
FileRead(k, track, sector) ==
  LET image == k.images[k.seldrv]
      b     == BlockOf(track, sector) + 1
  IN  IF ~Ready(k) THEN k
      ELSE [k EXCEPT !.fdc.dmax = SectorBytes,
                     !.buf = IF b <= Len(image) THEN Filled(k, image[b]) ELSE @]

\* file_write: a block after the end makes the file longer.
Zeros == [i \in 0 .. SectorBytes - 1 |-> 0]
FileWrite(k, track, sector) ==
  LET image == k.images[k.seldrv]
      b     == BlockOf(track, sector) + 1
      longer == [i \in 1 .. (IF b > Len(image) THEN b ELSE Len(image)) |->
                   IF i = b THEN Half(k) ELSE IF i <= Len(image) THEN image[i] ELSE Zeros]
  IN  IF ~Ready(k) THEN k ELSE [k EXCEPT !.images[k.seldrv] = longer]

-----------------------------------------------------------------------------
\* Writing a register of the controller.  A read command fetches the sector
\* and leaves its status behind for ten looks; the address of a write is
\* taken when the last byte arrives.  What else dmsg does, one look at the
\* keyboard per command, is not modelled here.
Restore(k) == [k EXCEPT !.fdc.trk = 0, !.fdc.com = 0]
Seek(k)    == [k EXCEPT !.fdc.com = 0, !.fdc.trk = k.fdc.dat]

ReadRecord(k, val) ==
  LET k1 == [k EXCEPT !.fdc.delay = IF val = 140 THEN 0 ELSE 10, !.fdc.com = 3,
                      !.fdc.dcount = 0, !.seldrv = k.fdc.drv]
  IN  FileRead(k1, k1.fdc.trk, k1.fdc.sec)

WriteRecord(k) == [k EXCEPT !.fdc.com = 3, !.fdc.dcount = 0, !.seldrv = k.fdc.drv]

Command(k, val) ==
  CASE val \div 16 = 0  -> Restore(k)
    [] val \div 16 = 1  -> Seek(k)
    [] val \div 16 = 8  -> ReadRecord(k, val)
    [] val \div 16 = 10 -> WriteRecord(k)
    [] OTHER            -> k

\* Mutant: every byte from the last one on writes the sector.
WriteDataOn(k, val) ==
  LET n  == k.fdc.dcount + 1
      k1 == [k EXCEPT !.fdc.dat = val, !.buf[k.fdc.dcount] = val, !.fdc.dcount = n]
  IN  IF n >= k.fdc.dmax THEN FileWrite([k1 EXCEPT !.fdc.com = 0], k.fdc.trk, k.fdc.sec) ELSE k1

WriteData(k, val) ==
  LET n  == k.fdc.dcount + 1
      k1 == [k EXCEPT !.fdc.dat = val, !.buf[k.fdc.dcount] = val, !.fdc.dcount = n]
  IN  IF n = k.fdc.dmax THEN FileWrite([k1 EXCEPT !.fdc.com = 0], k.fdc.trk, k.fdc.sec) ELSE k1

PortWrite(k, port, val) ==
  CASE port = "drv" -> [k EXCEPT !.fdc.drv = val % 16]
    [] port = "com" -> Command(k, val)
    [] port = "trk" -> [k EXCEPT !.fdc.trk = val]
    [] port = "sec" -> [k EXCEPT !.fdc.sec = val]
    [] port = "dat" -> WriteData(k, val)

\* Reading one: the value and the disks afterwards.
Status(k) ==
  IF k.fdc.delay = 0 THEN [val |-> k.fdc.com, k |-> k]
  ELSE [val |-> (k.fdc.com \div 2) * 2, k |-> [k EXCEPT !.fdc.delay = @ - 1]]

ReadData(k) ==
  LET n == k.fdc.dcount + 1
  IN  [val |-> k.buf[k.fdc.dcount],
       k |-> [k EXCEPT !.fdc.dcount = n, !.fdc.com = IF n = k.fdc.dmax THEN 0 ELSE @]]

PortRead(k, port) ==
  CASE port = "com" -> Status(k)
    [] port = "dat" -> ReadData(k)
    [] port = "trk" -> [val |-> k.fdc.trk, k |-> k]
=============================================================================
