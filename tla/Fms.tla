-------------------------------- MODULE Fms --------------------------------
(***************************************************************************)
(* The FLEX file management system (FLX29FMS.ASM) on one drive: the chain  *)
(* of file control blocks, the directory, the chain of available sectors   *)
(* with its copy SECMAP in memory and its record in the system information *)
(* sector, and the FMS calls that create, extend, update, close, rename    *)
(* and delete sequential files.                                            *)
(*                                                                         *)
(* One step is one disk write of the code, with everything the code does   *)
(* in memory up to the next one; so between the steps of CLOSE, DELETE and *)
(* a directory extension the disk is what a power failure would leave.     *)
(* FMS calls do not overlap: LOCK and the masked interrupts serialize them *)
(* (module Scheduler).  A call moves whole sectors: the characters that    *)
(* fill the sector buffer between two calls of WTNEXT change nothing here. *)
(*                                                                         *)
(* A transfer that fails ends its call with an error.  FaultAt names the   *)
(* transfers that may fail; left out are those that fail before the call   *)
(* has changed anything (the reads of the directory and of the system      *)
(* information record in GETAVL, FNDNAM and SETMAX), and two that damage   *)
(* the directory itself: an error at the new sector while the directory    *)
(* grows (970, 1412), and a failed read in WRTDIR or PUTAVL of a CLOSE     *)
(* that is then repeated (it writes a buffer that is not that sector's).   *)
(* Of a block that is not in the list only its status is modelled: what    *)
(* GETIR leaves in it is overwritten by the next open.                     *)
(***************************************************************************)
EXTENDS Naturals, FiniteSets, SequencesExt

CONSTANTS
  Sectors,      \* the number of data sectors on the disk
  DirSlots,     \* directory entries in one directory sector
  Names,        \* file names
  Fcb,          \* the file control blocks of the running programs
  MaxSlots,     \* bound: the directory does not grow past this many entries
  MaxRecords,   \* bound: sectors a program writes between open and close
  MaxFaults,    \* bound: disk errors
  Modes,        \* bound: how the programs open files that exist
  Contents,     \* whether the contents of sectors are told apart
  FaultAt,      \* the transfers that may fail (see May)
  Discipline    \* what the running programs refrain from (see Caller)

ASSUME SizeAssumption ==
  /\ Sectors \in Nat \ {0} /\ DirSlots \in Nat \ {0}
  /\ MaxSlots \in Nat /\ MaxRecords \in Nat /\ MaxFaults \in Nat
  /\ Contents \in BOOLEAN
  /\ Modes \subseteq {"read", "update", "append"}
  /\ Discipline \subseteq {"busy", "reopen", "share", "exhausted", "append",
                            "unread", "retry", "power"}

None == 0
WTAPP == 19                    \* a function code, for a moment also a status
Sector == 1..Sectors
Never == "never used"          \* first name byte 0
Deleted == "deleted"           \* first name byte $FF

ASSUME NameAssumption == Never \notin Names /\ Deleted \notin Names

VARIABLES
  \* on the disk
  link,      \* forward link in the first two bytes of each data sector
  data,      \* what a sector holds: <<FCB, a number>> or <<>>
  dir,       \* the directory entries, in search order
  dirext,    \* the data sectors appended to the directory
  sir,       \* the avail pointers in the system information record
  \* in memory
  secmap,    \* SECMAP: first, last, count of the available sectors
  loaded,    \* history: SECMAP was read since INIT
  fcb,       \* the FCBs
  fcblist,   \* the list that starts at FCBBAS
  call,      \* the FMS call in progress and the write it does next
  faults,    \* history: disk errors so far
  lossy      \* history: sectors were forgotten, by a block or by the avail map

disk == <<link, data, dir, dirext, sir>>
memory == <<secmap, loaded, fcb, fcblist>>
vars == <<disk, memory, call, faults, lossy>>

NoAvail == [first |-> None, last |-> None, count |-> 0]
Entry(n, a, e, z) == [name |-> n, fsa |-> a, fea |-> e, fsz |-> z]
NoFile(n) == Entry(n, None, None, 0)
Tag(f, k) == IF Contents THEN <<f, k>> ELSE <<>>
Idle == [op |-> "idle"]
Excls == [op |-> "excls"]

\* A control block that describes no file.  The fields keep the code's names:
\* FAS status, FSA and FEA first and last sector, FSZ size, FCD directory
\* position, FCS current sector, FRN record number; fwd and tag are the link
\* and the data in its sector buffer FSB.  fsb tells what the buffer is: the
\* sector FCS ("own"), what was in it when a read of that sector failed ("old"),
\* or, after a failed CLOSE, image: a directory sector or the avail pointers.
Blank == [fas |-> 0, name |-> Never, fcd |-> 0, fsa |-> None, fea |-> None,
          fsz |-> 0, fcs |-> None, frn |-> 0, fwd |-> None, tag |-> <<>>,
          fsb |-> "own", image |-> <<>>]

Init ==
  /\ link = [s \in Sector |-> IF s = Sectors THEN None ELSE s + 1]
  /\ data = [s \in Sector |-> <<>>]
  /\ dir = [i \in 1..DirSlots |-> NoFile(Never)]
  /\ dirext = <<>>
  /\ sir = [first |-> 1, last |-> Sectors, count |-> Sectors]
  /\ secmap = NoAvail /\ loaded = FALSE
  /\ fcb = [f \in Fcb |-> Blank]
  /\ fcblist = <<>>
  /\ call = Idle
  /\ faults = 0
  /\ lossy = FALSE

-----------------------------------------------------------------------------
(* The FCB list, the directory search and the avail map.                   *)

Listed(f) == f \in Range(fcblist)
SETFCB(f) == Append(fcblist, f)
\* Mutant: the block is not found.
REMFCBFails(f) == fcblist

REMFCB(f) ==
  IF Listed(f) THEN RemoveAt(fcblist, CHOOSE k \in DOMAIN fcblist : fcblist[k] = f)
  ELSE fcblist

\* FNDNAM reads entries up to the first one that was never used.
Searched == {i \in DOMAIN dir : \A j \in 1..(i - 1) : dir[j].name # Never}
Found(n) == {i \in Searched : dir[i].name = n}
FNDNAM(n) == Min(Found(n))

\* FFD: the first deleted or never used entry the search passed.
Reusable == {i \in Searched : dir[i].name \in {Deleted, Never}}

\* Mutant: FFD keeps the position an earlier search found.
FirstDeletedStale == 1

FirstDeleted == Min(Reusable)

\* Mutant: the record is always read.
GETAVLAlways == sir

\* GETAVL reads the system information record if the map looks unset.
GETAVL == IF secmap.first = None THEN sir ELSE secmap

\* Mutant: the rest of an empty map is not cleared.
TakeFirstUncleared(map) == [map EXCEPT !.first = link[map.first], !.count = @ - 1]

\* ASNNXT: the next available sector is the one linked to the first.
TakeFirst(map) ==
  IF link[map.first] = None THEN NoAvail
  ELSE [map EXCEPT !.first = link[map.first], !.count = @ - 1]

\* The entries of directory d that are in one sector with entry i.
DirSector(d, i) ==
  LET slots == {k \in DOMAIN d : (k - 1) \div DirSlots = (i - 1) \div DirSlots}
  IN [k \in slots |-> d[k]]

\* The blocks in use on directory entry i, and those that are being written
\* (not the one for which the directory is still growing).
OpenOn(i) == {f \in Fcb : Listed(f) /\ fcb[f].fcd = i}
Writers == {f \in Fcb : Listed(f) /\ fcb[f].fas = 2 /\ fcb[f].fcd # 0}

\* CLOSE of the block has failed behind its data sector.
HalfClosed(f) == fcb[f].fsb \in {"dir", "sir"}

\* The block holds sectors that no directory entry records.
Unrecorded(f) == f \in Writers /\ fcb[f].fsz # dir[fcb[f].fcd].fsz

\* FMSINT: the list and the avail maps are cleared.  A block that is not in the
\* list is not used any more; it is written Blank here.
INIT ==
  /\ lossy' = (lossy \/ \E f \in Fcb : Unrecorded(f))
  /\ secmap' = NoAvail /\ loaded' = FALSE
  /\ fcb' = [f \in Fcb |-> Blank]
  /\ fcblist' = <<>>
  /\ call' = Idle

-----------------------------------------------------------------------------
(* The callers.  The code accepts any sequence of calls; Discipline names  *)
(* the habits of the programs of a run.                                    *)

\* A program whose CLOSE fails behind the data sector calls CLOSE again, or ends
\* and leaves it to EXCLS, before there is another call.
CallerFree(f) ==
  /\ call = Idle
  /\ "retry" \in Discipline => \A g \in Fcb \ {f} : ~(Listed(g) /\ HalfClosed(g))

\* No program opens a block it has open, or at least none it is writing with.
CallerOpens(f) ==
  /\ CallerFree(f)
  /\ "busy" \in Discipline => ~Listed(f)
  /\ "reopen" \in Discipline => f \notin Writers

\* A program uses a block after its open succeeded and until its close does.
CallerUses(f) == CallerFree(f) /\ Listed(f)

\* A block whose CLOSE has failed is not written to any more, nor, with "unread",
\* one whose last read has failed.
CallerChanges(f) ==
  /\ CallerUses(f)
  /\ ~HalfClosed(f)
  /\ "unread" \in Discipline => fcb[f].fsb = "own"

\* No program opens, renames or deletes a file another one has open.
CallerOwns(n) ==
  "share" \in Discipline => \A i \in Found(n) : OpenOn(i) = {}

\* No create or delete while the last free sector is taken but unrecorded.
CallerMapValid ==
  "exhausted" \in Discipline => ~(loaded /\ secmap.first = None /\ sir # NoAvail)

\* No append before some create or delete has loaded the map.
CallerMapLoaded == "append" \in Discipline => loaded

-----------------------------------------------------------------------------
(* Disk operations.  They fail once the driver's retries are used up       *)
(* (module FmsRetry); FaultAt and MaxFaults bound the failures:            *)
(*   open, grow      the entry, or the link to a new directory sector      *)
(*   append          reading the last sector in WTAPP                      *)
(*   read            reading a sector of a file                            *)
(*   write, update   writing a sector of a file, a changed one             *)
(*   assign          reading the sector that ASNNXT assigns                *)
(*   empty, data, entry, record, excls    the writes of CLOSE; "excls" is  *)
(*                   its last one, of the avail pointers, in EXCLS         *)
(*   link, delete, avail, rename          the writes of DELETE and RENAME; *)
(*                   "avail" also PUTAVL while the directory grows         *)

May(step) == step \in FaultAt /\ faults < MaxFaults
Fault(step) == May(step) /\ faults' = faults + 1
Good == faults' = faults

WriteData(s, fwd, tag) ==
  /\ link' = [link EXCEPT ![s] = fwd]
  /\ data' = [data EXCEPT ![s] = tag]

WriteEntry(i, e) == dir' = [dir EXCEPT ![i] = e]

\* RDNEX2 reads sector s into the buffer of block b.
Reads(b, s) ==
  [b EXCEPT !.fcs = s, !.fwd = link[s], !.tag = data[s], !.fsb = "own"]

\* It fails: FCS is set, but of the sector no more than the link may have come.
Unread(b, s, fwd) == [b EXCEPT !.fcs = s, !.fwd = fwd, !.fsb = "old"]
Arrived(b, s) == {b.fwd, link[s]}

-----------------------------------------------------------------------------
(* OPNWT: create a file and open it for writing.                           *)

\* SETFCB finds the block already in the list; OPNERR takes it out.
OpenWriteBusy(f) ==
  /\ CallerOpens(f) /\ Listed(f)
  /\ fcblist' = REMFCB(f)
  /\ lossy' = (lossy \/ Unrecorded(f))
  /\ UNCHANGED <<disk, secmap, loaded, fcb, call, faults>>

\* The name exists: FEER, and the block leaves the list again.
OpenWriteExists(f, n) ==
  /\ CallerOpens(f) /\ ~Listed(f) /\ CallerMapValid
  /\ Found(n) # {}
  /\ secmap' = GETAVL /\ loaded' = TRUE
  /\ UNCHANGED <<disk, fcb, fcblist, call, faults, lossy>>

\* The entry is written empty; if that fails OPNERR unlinks the block, whose
\* status WRTDIR has already set.
OpenWrite(f, n) ==
  /\ CallerOpens(f) /\ ~Listed(f) /\ CallerMapValid
  /\ Found(n) = {} /\ Reusable # {}
  /\ secmap' = GETAVL /\ loaded' = TRUE
  /\ LET new == [Blank EXCEPT !.fas = 2, !.name = n, !.fcd = FirstDeleted]
     IN \/ /\ Good
           /\ WriteEntry(FirstDeleted, NoFile(n))
           /\ fcb' = [fcb EXCEPT ![f] = new]
           /\ fcblist' = SETFCB(f)
        \/ /\ Fault("open")
           /\ fcb' = [fcb EXCEPT ![f] = new]
           /\ UNCHANGED <<dir, fcblist>>
  /\ UNCHANGED <<link, data, dirext, sir, call, lossy>>

\* OPNWT8: every entry is in use.  The directory's last sector is linked to
\* the first available sector (first write), unless the disk is full.
DirExtend(f, n) ==
  /\ CallerOpens(f) /\ ~Listed(f) /\ CallerMapValid
  /\ Found(n) = {} /\ Reusable = {}
  /\ Len(dir) + DirSlots <= MaxSlots
  /\ LET map == GETAVL
         new == map.first
     IN /\ loaded' = TRUE
        /\ fcb' = [fcb EXCEPT ![f] = [Blank EXCEPT !.fas = fcb[f].fas]]
        /\ \/ /\ (new = None /\ Good) \/ Fault("grow")
              /\ secmap' = map
              /\ UNCHANGED <<dirext, fcblist, call>>
           \/ /\ new # None /\ Good
              /\ secmap' = TakeFirst(map)
              /\ dirext' = Append(dirext, new)
              /\ fcblist' = SETFCB(f)
              /\ call' = [op |-> "extend", f |-> f, name |-> n, next |-> "clear"]
  /\ UNCHANGED <<link, data, dir, sir, lossy>>

\* The new sector is written empty (second write) ...
DirExtendClear ==
  /\ call.op = "extend" /\ call.next = "clear"
  /\ LET new == dirext[Len(dirext)] IN WriteData(new, None, <<>>)
  /\ dir' = dir \o [i \in 1..DirSlots |-> NoFile(Never)]
  /\ call' = [call EXCEPT !.next = "sir"]
  /\ UNCHANGED <<dirext, sir, memory, faults, lossy>>

\* Mutant: the map is not recorded.
DirExtendUnrecorded ==
  /\ call.op = "extend" /\ call.next = "sir"
  /\ call' = [call EXCEPT !.next = "entry"]
  /\ UNCHANGED <<disk, memory, faults, lossy>>

\* ... PUTAVL records the map (third write) ...
DirExtendRecord ==
  /\ call.op = "extend" /\ call.next = "sir"
  /\ \/ /\ Good
        /\ sir' = secmap
        /\ call' = [call EXCEPT !.next = "entry"]
        /\ UNCHANGED fcblist
     \/ /\ Fault("avail")
        /\ fcblist' = REMFCB(call.f)
        /\ call' = Idle
        /\ UNCHANGED sir
  /\ UNCHANGED <<link, data, dir, dirext, secmap, loaded, fcb, lossy>>

\* ... and OPNWT4 writes the entry into it (fourth write).
DirExtendEntry ==
  /\ call.op = "extend" /\ call.next = "entry"
  /\ LET i == Len(dir) - DirSlots + 1
     IN /\ fcb' = [fcb EXCEPT ![call.f] =
                     [Blank EXCEPT !.fas = 2, !.name = call.name, !.fcd = i]]
        /\ \/ /\ Good
              /\ WriteEntry(i, NoFile(call.name))
              /\ UNCHANGED fcblist
           \/ /\ Fault("open")
              /\ fcblist' = REMFCB(call.f)
              /\ UNCHANGED dir
  /\ call' = Idle
  /\ UNCHANGED <<link, data, dirext, sir, secmap, loaded, lossy>>

-----------------------------------------------------------------------------
(* OPNRD, OPNRW and WTAPP: open an existing file.                          *)

\* Found by FNDNAM, the entry is copied into the block (GETIR).
FromEntry(i) == [Blank EXCEPT !.name = dir[i].name, !.fcd = i, !.fsa = dir[i].fsa,
                              !.fea = dir[i].fea, !.fsz = dir[i].fsz]

\* The block is busy, or no file has the name: nothing is left open.
OpenFails(f, n) ==
  /\ CallerOpens(f)
  /\ Listed(f) \/ Found(n) = {}
  /\ UNCHANGED vars

\* The next link to follow is the first sector's address; no sector is read.
OpenRead(f, n) ==
  /\ "read" \in Modes
  /\ CallerOpens(f) /\ ~Listed(f) /\ CallerOwns(n) /\ Found(n) # {}
  /\ fcblist' = SETFCB(f)
  /\ LET e == FromEntry(FNDNAM(n))
     IN fcb' = [fcb EXCEPT ![f] = [e EXCEPT !.fas = 1, !.fwd = e.fsa]]
  /\ UNCHANGED <<disk, secmap, loaded, call, faults, lossy>>

\* OPNRW: OPNRD and RDNEXT; the first sector is in the buffer.  If the file
\* has none, or it cannot be read, OPNRW returns an error and the block stays in
\* the list.
OpenUpdate(f, n) ==
  /\ "update" \in Modes
  /\ CallerOpens(f) /\ ~Listed(f) /\ CallerOwns(n) /\ Found(n) # {}
  /\ fcblist' = SETFCB(f)
  /\ LET e == [FromEntry(FNDNAM(n)) EXCEPT !.fas = 3]
         b == [e EXCEPT !.frn = 1, !.fwd = e.fsa]
     IN \/ /\ e.fsa = None /\ Good
           /\ fcb' = [fcb EXCEPT ![f] = e]
        \/ /\ e.fsa # None /\ Good
           /\ fcb' = [fcb EXCEPT ![f] = Reads(b, e.fsa)]
        \/ /\ e.fsa # None /\ Fault("read")
           /\ \E fwd \in Arrived(b, e.fsa) :
                fcb' = [fcb EXCEPT ![f] = Unread(b, e.fsa, fwd)]
  /\ UNCHANGED <<disk, secmap, loaded, call, lossy>>

\* WTAPP: the last sector is in the buffer; SECMAP is not looked at.  When the
\* file is write protected or the sector cannot be read, the block stays in the
\* list with the function code 19 as its status.  (A file without sectors is
\* outside the model: WTAPP reads sector 0 of track 0.)
OpenAppend(f, n) ==
  /\ "append" \in Modes
  /\ CallerOpens(f) /\ ~Listed(f) /\ CallerOwns(n) /\ CallerMapLoaded
  /\ Found(n) # {}
  /\ dir[FNDNAM(n)].fsa # None
  /\ fcblist' = SETFCB(f)
  /\ LET e == FromEntry(FNDNAM(n))
     IN \/ /\ Good
           /\ fcb' = [fcb EXCEPT ![f] =
                        Reads([e EXCEPT !.fas = 2], e.fea)]
        \/ /\ Fault("append")
           /\ fcb' = [fcb EXCEPT ![f] = [e EXCEPT !.fas = WTAPP]]
  /\ UNCHANGED <<disk, secmap, loaded, call, lossy>>

-----------------------------------------------------------------------------
(* Sectors of an open file.                                                *)

\* RDNEXT for a file open for reading; after an error the next call follows the
\* link that is in the buffer then.
ReadNext(f) ==
  /\ CallerUses(f)
  /\ fcb[f].fas = 1 /\ fcb[f].fwd # None
  /\ fcb[f].frn <= Sectors           \* bound
  /\ LET b == [fcb[f] EXCEPT !.frn = @ + 1]
     IN \/ /\ Good
           /\ fcb' = [fcb EXCEPT ![f] = Reads(b, b.fwd)]
        \/ /\ Fault("read")
           /\ \E fwd \in Arrived(b, b.fwd) :
                fcb' = [fcb EXCEPT ![f] = Unread(b, b.fwd, fwd)]
  /\ UNCHANGED <<disk, secmap, loaded, fcblist, call, lossy>>

\* PUTRAN changes the buffer and marks it for writing.
Update(f) ==
  /\ CallerChanges(f)
  /\ fcb[f].fas \in {3, 131} /\ fcb[f].fcs # None
  /\ fcb' = [fcb EXCEPT ![f].fas = 131, ![f].tag = Tag(f, Sectors + fcb[f].frn)]
  /\ UNCHANGED <<disk, secmap, loaded, fcblist, call, faults, lossy>>

\* NEXTS on a file open for update: CHKWT writes a changed buffer, then the
\* next sector is read.  CHKWT clears the mark before it writes.  (At the end of
\* the file FRN counts on; frn stays the number of the record in the buffer.)
NextSector(f) ==
  /\ CallerUses(f)
  /\ fcb[f].fas \in {3, 131} /\ fcb[f].fcs # None
  /\ fcb[f].frn <= Sectors           \* bound
  /\ LET b == [fcb[f] EXCEPT !.fas = 3]
         next == [b EXCEPT !.frn = @ + 1]
     IN \/ /\ IF fcb[f].fas = 131 THEN WriteData(b.fcs, b.fwd, b.tag)
              ELSE UNCHANGED <<link, data>>
           /\ \/ /\ b.fwd = None /\ Good
                 /\ fcb' = [fcb EXCEPT ![f] = b]
              \/ /\ b.fwd # None /\ Good
                 /\ fcb' = [fcb EXCEPT ![f] = Reads(next, b.fwd)]
              \/ /\ b.fwd # None /\ Fault("read")
                 /\ \E fwd \in Arrived(b, b.fwd) :
                      fcb' = [fcb EXCEPT ![f] = Unread(next, b.fwd, fwd)]
        \/ /\ fcb[f].fas = 131 /\ Fault("update")
           /\ fcb' = [fcb EXCEPT ![f] = b]
           /\ UNCHANGED <<link, data>>
  /\ UNCHANGED <<dir, dirext, sir, secmap, loaded, fcblist, call, lossy>>

\* The block names the next available sector as its last one.
Assigned(b, new) ==
  [b EXCEPT !.fea = new, !.fsz = @ + 1, !.fsa = IF @ = None THEN new ELSE @]

\* Mutant: the sector buffer keeps the link it was read with.
ASNNXTUncleared(f, b) ==
  LET new == secmap.first
      k == b.frn + 1
  IN /\ Good
     /\ fcb' = [fcb EXCEPT ![f] =
                  [Reads(Assigned(b, new), new) EXCEPT !.frn = k, !.tag = Tag(f, k)]]
     /\ secmap' = TakeFirst(secmap)

\* ASNNXT gives the block the first available sector and reads it for the link to
\* the one after it; then the buffer is cleared and the record number stored in
\* it.  When the read fails the block has the sector, but it is still available.
ASNNXT(f, b) ==
  LET new == secmap.first
      c == Assigned(b, new)
      k == b.frn + 1
  IN \/ /\ Good
        /\ fcb' = [fcb EXCEPT ![f] = [c EXCEPT !.fcs = new, !.frn = k, !.fwd = None,
                                               !.tag = Tag(f, k), !.fsb = "own"]]
        /\ secmap' = TakeFirst(secmap)
     \/ /\ Fault("assign")
        /\ \E fwd \in Arrived(b, new) : fcb' = [fcb EXCEPT ![f] = Unread(c, new, fwd)]
        /\ UNCHANGED secmap

\* WTNEXT when the file has no sector yet.
WriteFirst(f) ==
  /\ CallerChanges(f)
  /\ fcb[f].fas = 2 /\ fcb[f].fsa = None
  /\ secmap.first # None
  /\ ASNNXT(f, fcb[f])
  /\ UNCHANGED <<disk, loaded, fcblist, call, lossy>>

\* WTNEX1: the full buffer is written with a link to the first available
\* sector, which then becomes the current one.
WriteNext(f) ==
  /\ CallerChanges(f)
  /\ fcb[f].fas = 2 /\ fcb[f].fsa # None /\ fcb[f].frn < MaxRecords
  /\ secmap.first # None
  /\ fcb[f].fsz < Sectors            \* bound, reached after an error only
  /\ LET b == [fcb[f] EXCEPT !.fwd = secmap.first]
     IN \/ WriteData(b.fcs, b.fwd, b.tag) /\ ASNNXT(f, b)
        \/ /\ Fault("write")
           /\ fcb' = [fcb EXCEPT ![f] = b]
           /\ UNCHANGED <<link, data, secmap>>
  /\ UNCHANGED <<dir, dirext, sir, loaded, fcblist, call, lossy>>

\* The disk is full: the buffer is written with an empty link, then DFER.
WriteFull(f) ==
  /\ CallerChanges(f)
  /\ fcb[f].fas = 2 /\ fcb[f].fsa # None
  /\ secmap.first = None
  /\ \/ Good /\ WriteData(fcb[f].fcs, None, fcb[f].tag)
     \/ Fault("write") /\ UNCHANGED <<link, data>>
  /\ fcb' = [fcb EXCEPT ![f].fwd = None]
  /\ UNCHANGED <<dir, dirext, sir, secmap, loaded, fcblist, call, lossy>>

-----------------------------------------------------------------------------
(* CLOSE, alone or from EXCLS; "then" is what follows the call.            *)

\* CLOSE1: the block is free and leaves the list.
Closed(f, then) ==
  /\ fcb' = [fcb EXCEPT ![f] = Blank]
  /\ fcblist' = REMFCB(f)
  /\ call' = IF then = "excls" THEN Excls ELSE Idle
  /\ UNCHANGED <<secmap, loaded, lossy>>

\* Mutant: the block that could not be closed leaves the list all the same.
CloseFailsUnlisted(f, then, b) ==
  /\ fcb' = [fcb EXCEPT ![f] = b]
  /\ fcblist' = REMFCB(f)
  /\ call' = Idle
  /\ UNCHANGED <<secmap, loaded, lossy>>

\* CLOSE returns an error and b is what it leaves of the block.  After an error
\* in EXCLS the command processor calls FMSINT.
CloseFails(f, then, b) ==
  \/ /\ then = "excls" /\ INIT
  \/ /\ then = "return"
     /\ fcb' = [fcb EXCEPT ![f] = b]
     /\ call' = Idle
     /\ UNCHANGED <<secmap, loaded, fcblist, lossy>>

\* CLOSE of a block that is not being written; a changed buffer is written.
CloseRead(f, then) ==
  /\ fcb[f].fas \in {0, 1, 3, 131}
  /\ \/ /\ fcb[f].fas # 131 /\ Good
        /\ Closed(f, then)
        /\ UNCHANGED <<link, data>>
     \/ /\ fcb[f].fas = 131 /\ Good
        /\ WriteData(fcb[f].fcs, fcb[f].fwd, fcb[f].tag)
        /\ Closed(f, then)
     \/ /\ fcb[f].fas = 131 /\ Fault("update")
        /\ CloseFails(f, then, [fcb[f] EXCEPT !.fas = 3])
        /\ UNCHANGED <<link, data>>
  /\ UNCHANGED <<dir, dirext, sir>>

\* DOSTAT refuses a status above 3, which only a failed WTAPP leaves.
CloseRefused(f, then) ==
  /\ fcb[f].fas = WTAPP
  /\ CloseFails(f, then, fcb[f])
  /\ UNCHANGED <<disk, faults>>

\* CLOSE2: nothing was written, so the name is deleted.
CloseEmpty(f, then) ==
  /\ fcb[f].fas = 2 /\ fcb[f].fsa = None
  /\ \/ /\ Good
        /\ WriteEntry(fcb[f].fcd, NoFile(Deleted))
        /\ Closed(f, then)
     \/ /\ Fault("empty")
        /\ CloseFails(f, then, [fcb[f] EXCEPT !.fas = 0])
        /\ UNCHANGED dir
  /\ UNCHANGED <<link, data, dirext, sir>>

\* Mutant: CLOSE goes on when the sector could not be written.
CloseDataIgnores(f, then) ==
  /\ fcb[f].fas = 2 /\ fcb[f].fsa # None /\ ~HalfClosed(f)
  /\ \/ Good /\ WriteData(fcb[f].fcs, fcb[f].fwd, fcb[f].tag)
     \/ Fault("data") /\ UNCHANGED <<link, data>>
  /\ call' = [op |-> "close", f |-> f, then |-> then, next |-> "entry"]
  /\ UNCHANGED <<dir, dirext, sir, memory, lossy>>

\* CLOSE3: the current sector (first write) ...
CloseData(f, then) ==
  /\ fcb[f].fas = 2 /\ fcb[f].fsa # None /\ ~HalfClosed(f)
  /\ \/ /\ Good
        /\ WriteData(fcb[f].fcs, fcb[f].fwd, fcb[f].tag)
        /\ call' = [op |-> "close", f |-> f, then |-> then, next |-> "entry"]
        /\ UNCHANGED <<memory, lossy>>
     \/ /\ Fault("data")
        /\ CloseFails(f, then, fcb[f])
        /\ UNCHANGED <<link, data>>
  /\ UNCHANGED <<dir, dirext, sir>>

\* CLOSE3 of a block whose CLOSE has failed in WRTDIR or PUTAVL: the sector that
\* is in the buffer since then goes where it came from.
CloseAgain(f, then) ==
  /\ fcb[f].fas = 2 /\ fcb[f].fsa # None /\ HalfClosed(f)
  /\ \/ /\ Good
        /\ \/ /\ fcb[f].fsb = "dir"
              /\ LET image == fcb[f].image
                 IN dir' = [i \in DOMAIN dir |->
                              IF i \in DOMAIN image THEN image[i] ELSE dir[i]]
              /\ UNCHANGED sir
           \/ /\ fcb[f].fsb = "sir"
              /\ sir' = fcb[f].image[1]
              /\ UNCHANGED dir
        /\ call' = [op |-> "close", f |-> f, then |-> then, next |-> "entry"]
        /\ UNCHANGED <<memory, lossy>>
     \/ /\ Fault("data")
        /\ CloseFails(f, then, fcb[f])
        /\ UNCHANGED <<dir, sir>>
  /\ UNCHANGED <<link, data, dirext>>

\* Mutant: the entry keeps its old size.
CloseEntryOldSize ==
  /\ call.op = "close" /\ call.next = "entry"
  /\ LET b == fcb[call.f]
     IN WriteEntry(b.fcd, Entry(b.name, b.fsa, b.fea, dir[b.fcd].fsz))
  /\ call' = [call EXCEPT !.next = "sir"]
  /\ UNCHANGED <<link, data, dirext, sir, memory, faults, lossy>>

\* ... the directory entry (second write) ...
CloseEntry ==
  /\ call.op = "close" /\ call.next = "entry"
  /\ LET b == fcb[call.f]
         e == Entry(b.name, b.fsa, b.fea, b.fsz)
     IN \/ /\ Good
           /\ WriteEntry(b.fcd, e)
           /\ call' = [call EXCEPT !.next = "sir"]
           /\ UNCHANGED <<memory, lossy>>
        \/ /\ Fault("entry")
           /\ CloseFails(call.f, call.then,
                         [b EXCEPT !.fcs = None, !.fsb = "dir",
                                   !.image = DirSector([dir EXCEPT ![b.fcd] = e], b.fcd)])
           /\ UNCHANGED dir
  /\ UNCHANGED <<link, data, dirext, sir>>

\* ... and the avail pointers (third write).
CloseRecord ==
  /\ call.op = "close" /\ call.next = "sir"
  /\ \/ /\ Good
        /\ sir' = secmap
        /\ Closed(call.f, call.then)
     \/ /\ Fault(IF call.then = "excls" THEN "excls" ELSE "record")
        /\ CloseFails(call.f, call.then,
                      [fcb[call.f] EXCEPT !.fcs = None, !.fsb = "sir", !.image = <<secmap>>])
        /\ UNCHANGED sir
  /\ UNCHANGED <<link, data, dir, dirext>>

CLOSE(f, then) ==
  \/ CloseRead(f, then) \/ CloseRefused(f, then)
  \/ CloseEmpty(f, then) \/ CloseData(f, then) \/ CloseAgain(f, then)

CloseCall(f) == CallerUses(f) /\ CLOSE(f, "return")

\* EXCLS closes the blocks of the list one after another, then INIT2 clears
\* the avail maps.
ExclsCall ==
  /\ call = Idle
  /\ call' = Excls
  /\ UNCHANGED <<disk, memory, faults, lossy>>

ExclsNext == call = Excls /\ fcblist # <<>> /\ CLOSE(Head(fcblist), "excls")

ExclsDone ==
  /\ call = Excls /\ fcblist = <<>>
  /\ secmap' = NoAvail /\ loaded' = FALSE
  /\ call' = Idle
  /\ UNCHANGED <<disk, fcb, fcblist, faults, lossy>>

-----------------------------------------------------------------------------
(* DELETE and RENAME.  Their callers pass a block that is not in the list; *)
(* it is scratch space and is not entered there.                           *)

\* The file's sectors are appended to the chain of available sectors: the
\* last available one is linked to them on the disk (first write) and the
\* map in memory is extended.
DeleteLink(f, n) ==
  /\ CallerFree(f) /\ ~Listed(f)
  /\ CallerOwns(n) /\ CallerMapValid
  /\ Found(n) # {}
  /\ LET i == FNDNAM(n)
         e == dir[i]
         map == GETAVL
     IN /\ loaded' = TRUE
        /\ map.count + e.fsz <= 2 * Sectors  \* bound, reached after a write error only
        /\ \/ /\ Good
              /\ secmap' = IF e.fsa = None THEN map
                           ELSE [first |-> IF map.last = None THEN e.fsa ELSE map.first,
                                 last  |-> e.fea,
                                 count |-> map.count + e.fsz]
              /\ link' = IF e.fsa = None \/ map.last = None THEN link
                         ELSE [link EXCEPT ![map.last] = e.fsa]
              /\ call' = [op |-> "delete", slot |-> i, next |-> "entry"]
           \/ /\ Fault("link") /\ map.last # None
              /\ secmap' = map
              /\ UNCHANGED <<link, call>>
  /\ UNCHANGED <<data, dir, dirext, sir, fcb, fcblist, lossy>>

\* DELNAM marks the entry deleted (second write); if that fails the file still
\* exists and the map in memory has its sectors ...
DeleteEntry ==
  /\ call.op = "delete" /\ call.next = "entry"
  /\ \/ /\ Good
        /\ WriteEntry(call.slot, NoFile(Deleted))
        /\ call' = [call EXCEPT !.next = "sir"]
     \/ /\ Fault("delete")
        /\ call' = Idle
        /\ UNCHANGED dir
  /\ UNCHANGED <<link, data, dirext, sir, memory, lossy>>

\* ... and PUTAVL records the map (third write).  After a failure only the map
\* in memory knows the sectors, and EXCLS or FMSINT will clear it.
DeleteRecord ==
  /\ call.op = "delete" /\ call.next = "sir"
  /\ \/ Good /\ sir' = secmap
     \/ Fault("avail") /\ UNCHANGED sir
  /\ lossy' = (lossy \/ sir' # secmap)
  /\ call' = Idle
  /\ UNCHANGED <<link, data, dir, dirext, memory>>

\* RENAME: the new name must not exist, the old one must.
Rename(f, old, new) ==
  /\ CallerFree(f) /\ ~Listed(f)
  /\ CallerOwns(old)
  /\ Found(new) = {} /\ Found(old) # {}
  /\ \/ Good /\ dir' = [dir EXCEPT ![FNDNAM(old)].name = new]
     \/ Fault("rename") /\ UNCHANGED dir
  /\ UNCHANGED <<link, data, dirext, sir, memory, call, lossy>>

-----------------------------------------------------------------------------
\* Where the disk is inconsistent for a while (TornOnlyInWindow): between the
\* entry and the avail pointers of CLOSE, also if that write failed and CLOSE is
\* repeated, in DELETE, while the directory grows, and from the first sector an
\* append links to its file until its CLOSE.
Window ==
  \/ call.op = "close" /\ call.next = "sir"
  \/ call.op = "delete"
  \/ call.op = "extend" /\ call.next \in {"clear", "sir"}
  \/ \E f \in Writers :
       \/ HalfClosed(f) /\ fcb[f].fea = dir[fcb[f].fcd].fea
       \/ dir[fcb[f].fcd].fsa # None /\ fcb[f].fea # dir[fcb[f].fcd].fea

\* The machine is switched off, or FLEX is started again: with "power" outside
\* those windows, else at any moment but one (bound: while the new sector of the
\* directory is linked and not yet cleared).
Restart ==
  /\ ~(call.op = "extend" /\ call.next = "clear")
  /\ "power" \in Discipline => ~Window
  /\ INIT
  /\ UNCHANGED <<disk, faults>>

Opening(f, n) ==
  \/ OpenWriteBusy(f) \/ OpenWriteExists(f, n) \/ OpenWrite(f, n)
  \/ DirExtend(f, n) \/ OpenFails(f, n) \/ OpenRead(f, n) \/ OpenUpdate(f, n)
  \/ OpenAppend(f, n)

Using(f) ==
  \/ ReadNext(f) \/ Update(f) \/ NextSector(f)
  \/ WriteFirst(f) \/ WriteNext(f) \/ WriteFull(f) \/ CloseCall(f)

\* What continues the call in progress.
Continue ==
  \/ DirExtendClear \/ DirExtendRecord \/ DirExtendEntry
  \/ CloseEntry \/ CloseRecord \/ ExclsNext \/ ExclsDone
  \/ DeleteEntry \/ DeleteRecord

Next ==
  \/ \E f \in Fcb, n \in Names : Opening(f, n) \/ DeleteLink(f, n)
  \/ \E f \in Fcb, o, n \in Names : Rename(f, o, n)
  \/ \E f \in Fcb : Using(f)
  \/ ExclsCall
  \/ Continue
  \/ Restart

Spec == Init /\ [][Next]_vars

=============================================================================
