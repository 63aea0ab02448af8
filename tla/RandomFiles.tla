----------------------------- MODULE RandomFiles -----------------------------
(***************************************************************************)
(* Random files of the file management system (FLX29FMS.ASM): WTNEXT and   *)
(* UPDFSM build the file sector map while a program writes, CLOSE records  *)
(* its last entry, and OPNRD, RDNEXT, POSIT and BKREC use it to reach a    *)
(* record.  Every sector goes through READSS and WRITSS of FmsRetry, one   *)
(* step per transfer and retry, with the try counter ETRIES that POSIT     *)
(* borrows to count map entries.                                           *)
(*                                                                         *)
(* One program writes one file and then looks for records in it.  A call   *)
(* between two sector transfers is one step; place names the transfer the  *)
(* call waits for.  Directory and avail map are in module Fms; here the    *)
(* available sectors are a sequence of addresses.                          *)
(***************************************************************************)
EXTENDS FmsRetry, SequencesExt

CONSTANTS
  FMX,          \* sectors on a track
  PerSector,    \* entries in a sector of the map: 84 in the code
  MaxRun,       \* the largest number in an entry's count byte: 255 in the code
  Layouts,      \* bound: the chains of available sectors the file may get
  RecordData,   \* what a record's bytes look like when read as map entries
  MaxRecords,   \* bound: records a program writes
  MaxCalls      \* bound: calls of POSIT, BKREC and NEXTS on the closed file

\* The counter of map entries is a byte; a successful transfer may leave
\* fewer than RTC soft errors in it.
ASSUME MapAssumption ==
  /\ FMX \in Nat \ {0} /\ MaxRun \in Nat \ {0}
  /\ PerSector \in Nat \ {0} /\ RTC <= PerSector /\ 2 * PerSector \in Byte

\* A sector is available once, and has an address on the disk.
ASSUME LayoutAssumption ==
  \A chain \in Layouts : chain \in Seq(Nat \X (1..FMX)) /\ IsInjective(chain)

\* An address is a track and a sector number; sectors count from 1.
Nil == <<0, 0>>
SIR == <<0, 3>>

VARIABLES
  disk,       \* what the sectors hold
  avail,      \* the available sectors, first one first
  fcb,        \* the control block of the program
  fsb,        \* its sector buffer
  op, place,  \* the call in progress, and the transfer it waits for
  order,      \* the transfer to start next
  rest,       \* sectors of the map the call has still to go through
  entry,      \* DATAPT: the map entry POSIT looks at
  total,      \* its sum of records up to there
  written,    \* history: records assigned
  seek        \* history: what the last call on the closed file came to

file == <<disk, avail, fcb, fsb, op, place, order, rest, entry, total, written, seek>>
vars == <<retryVars, file>>

NoEntry == [at |-> Nil, count |-> 0]
Zeros == [i \in 1..PerSector |-> NoEntry]
Clear == [link |-> Nil, lrn |-> 0, map |-> Zeros]

\* FAS status, FMP size of the map, FSA and FEA first and last sector, FCS the
\* current one, FRN record number, FLR and SBC the map entry that is growing,
\* FNK the sector of the map and the place in it where that entry goes.
Init ==
  /\ RetryInit /\ VRFYFG = 255
  /\ disk = <<>>
  /\ avail \in Layouts
  /\ fcb = [fas |-> 2, fmp |-> 1, fsa |-> Nil, fea |-> Nil, fcs |-> Nil, frn |-> 0,
            flr |-> Nil, sbc |-> 0, fnk |-> Nil, off |-> 1]
  /\ fsb = Clear
  /\ op = "none" /\ place = "program" /\ order = "none" /\ rest = 0
  /\ entry = 1 /\ total = 0
  /\ written = 0
  /\ seek = [asked |-> 0, result |-> "none", positioned |-> FALSE,
             retried |-> FALSE, calls |-> 0]

-----------------------------------------------------------------------------
(* Sector transfers.                                                       *)

ReadFrom(a) == fcb' = [fcb EXCEPT !.fcs = a] /\ order' = "read"

\* READSS or WRITSS of the current sector begins.
Issue ==
  /\ order # "none"
  /\ Start(order)
  /\ order' = "none"
  /\ UNCHANGED <<disk, avail, fcb, fsb, op, place, rest, entry, total, written, seek>>

Machine ==
  /\ Select \/ Transfer \/ Verify \/ RetryTransfer \/ RetryRestore \/ GiveUp
  /\ UNCHANGED file

OnDisk(a) == IF a \in DOMAIN disk THEN disk[a] ELSE Clear
Stored(a, s) == [b \in DOMAIN disk \cup {a} |-> IF b = a THEN s ELSE disk[b]]

\* It returns: a sector read is in the buffer, the buffer is on the disk.
Deliver ==
  /\ Return
  /\ CASE kind = "read" /\ pc = "done" -> fsb' = OnDisk(fcb.fcs) /\ UNCHANGED disk
       [] kind = "write" /\ media # "old" ->
            /\ disk' = Stored(fcb.fcs, IF media = "new" THEN fsb ELSE Clear)
            /\ UNCHANGED fsb
       [] OTHER -> UNCHANGED <<disk, fsb>>
  /\ seek' = [seek EXCEPT !.retried = @ \/ (place \in {"map", "next map"} /\ seen # {"ok"})]
  /\ UNCHANGED <<avail, fcb, op, place, order, rest, entry, total, written>>

\* The call continues behind the transfer it waited for.
Behind(p) == pc = "idle" /\ order = "none" /\ place = p /\ status = "ok"

\* A call of the program; between two calls nothing is transferred.
Call(name, status_) ==
  /\ pc = "idle" /\ order = "none" /\ place = "program" /\ fcb.fas = status_
  /\ op' = name

\* Back to the program.
Done == place' = "program" /\ UNCHANGED order

\* A transfer failed while the file was written: the program gives it up.
Abandon ==
  /\ pc = "idle" /\ order = "none" /\ status # "ok"
  /\ op \in {"write", "close"} /\ place \notin {"program", "abandoned"}
  /\ place' = "abandoned"
  /\ UNCHANGED <<retryVars, disk, avail, fcb, fsb, op, order, rest, entry, total, written, seek>>

-----------------------------------------------------------------------------
(* WTNEXT: the next record of the file.                                    *)

\* Mutant: the last sector of a track is taken for the first of the next.
LocateEarly(a, k) == <<a[1] + ((a[2] + k) \div FMX), (a[2] + k) % FMX>>

\* The address behind a, and the one k sectors behind a (POSIT6).
Following(a) == IF a[2] < FMX THEN <<a[1], a[2] + 1>> ELSE <<a[1] + 1, 1>>
Locate(a, k) ==
  <<a[1] + ((a[2] - 1 + k) \div FMX), ((a[2] - 1 + k) % FMX) + 1>>

\* Mutant: the count byte is not looked at and wraps round.
ContiguousAlways(b) == Following(b.fcs) = b.fea

\* UPDFSM: the new sector continues the entry, whose count is not at its limit.
Contiguous(b) == Following(b.fcs) = b.fea /\ b.sbc # MaxRun
Longer(b) == [b EXCEPT !.sbc = (@ + 1) % (MaxRun + 1)]
NewEntry(b) == [b EXCEPT !.flr = b.fea, !.sbc = 1]

\* ASNNXT up to its first transfer: the first available sector ends the file;
\* in a file that has its map UPDFSM records it, or begins by writing the entry
\* that is complete.  Without a sector left the disk is full.
Assign(b) ==
  IF avail = <<>>
    THEN /\ fcb' = b /\ UNCHANGED order
         /\ place' = IF b.fmp = 0 THEN "abandoned" ELSE "program"
    ELSE LET e == [b EXCEPT !.fea = Head(avail),
                            !.fsa = IF @ = Nil THEN Head(avail) ELSE @]
         IN /\ order' = "read"
            /\ IF e.fmp = 0 \/ Contiguous(e)
                 THEN /\ fcb' = [(IF e.fmp = 0 THEN e ELSE Longer(e)) EXCEPT !.fcs = e.fea]
                      /\ place' = "assigned"
                 ELSE /\ fcb' = [e EXCEPT !.fcs = e.fnk]
                      /\ place' = "entry"

\* The first record: the flag is cleared until the map has its two sectors.
WriteFirst ==
  /\ Call("write", 2) /\ fcb.fsa = Nil /\ fcb.fmp # 0
  /\ Assign([fcb EXCEPT !.fmp = 0])
  /\ rest' = 2
  /\ UNCHANGED <<retryVars, disk, avail, fsb, entry, total, written, seek>>

\* WTNEX1: the full buffer goes to the disk with the link to the next sector.
Link(buffer) ==
  /\ fsb' = [buffer EXCEPT !.link = IF avail = <<>> THEN Nil ELSE Head(avail)]
  /\ order' = "write" /\ place' = "linked"

WriteNext ==
  /\ Call("write", 2) /\ fcb.fsa # Nil /\ written < MaxRecords
  /\ Link(fsb)
  /\ UNCHANGED <<retryVars, disk, avail, fcb, rest, entry, total, written, seek>>

Linked ==
  /\ Behind("linked")
  /\ Assign(fcb)
  /\ UNCHANGED <<retryVars, disk, avail, fsb, op, rest, entry, total, written, seek>>

\* ASNNXT has read the link of the new sector; its buffer is cleared and gets
\* the record number.  While the map is built CLRLRN makes it record 0 and goes
\* on to the next sector; behind the map comes the first record, with which
\* UPDF75 begins the map.
Assigned ==
  /\ Behind("assigned")
  /\ avail' = Tail(avail)
  /\ LET b == [fcb EXCEPT !.frn = @ + 1]
         record == [link |-> Nil, lrn |-> b.frn, map |-> RecordData]
     IN IF fcb.fmp = 0 /\ rest > 0
          THEN /\ fcb' = [b EXCEPT !.frn = 0]
               /\ fsb' = [Clear EXCEPT !.link = IF avail' = <<>> THEN Nil ELSE Head(avail')]
               /\ order' = "write" /\ place' = "linked" /\ rest' = rest - 1
               /\ UNCHANGED written
          ELSE /\ fcb' = IF fcb.fmp # 0 THEN b
                         ELSE [NewEntry(b) EXCEPT !.fmp = 2, !.fnk = b.fsa, !.off = 1]
               /\ fsb' = record /\ written' = b.frn
               /\ Done /\ UNCHANGED rest
  /\ UNCHANGED <<retryVars, disk, op, entry, total, seek>>

\* WTFSM: the complete entry is put into its sector of the map ...
PutEntry ==
  /\ Behind("entry")
  /\ fsb' = [fsb EXCEPT !.map[fcb.off] = [at |-> fcb.flr, count |-> fcb.sbc]]
  /\ order' = "write" /\ place' = "entry put"
  /\ UNCHANGED <<retryVars, disk, avail, fcb, op, rest, entry, total, written, seek>>

\* ... and behind it, in the second sector if need be, begins the next one.
\* Behind the last place of the second sector UPDFSM fails.
NextEntry ==
  /\ Behind("entry put") /\ op = "write"
  /\ LET full == fcb.off = PerSector
         b == NewEntry(IF full THEN [fcb EXCEPT !.fnk = fsb.link, !.off = 1]
                       ELSE [fcb EXCEPT !.off = @ + 1])
     IN IF full /\ fcb.fcs # fcb.fsa
          THEN /\ place' = "abandoned"
               /\ UNCHANGED <<fcb, order>>
          ELSE /\ fcb' = [b EXCEPT !.fcs = b.fea]
               /\ order' = "read" /\ place' = "assigned"
  /\ UNCHANGED <<retryVars, disk, avail, fsb, op, rest, entry, total, written, seek>>

\* CLOSE: the last buffer, then the last entry of the map, are written.  The
\* directory entry and the avail map that follow are in Fms.
Close ==
  /\ Call("close", 2) /\ fcb.fsa # Nil
  /\ order' = "write" /\ place' = "last"
  /\ UNCHANGED <<retryVars, disk, avail, fcb, fsb, rest, entry, total, written, seek>>

CloseMap ==
  /\ Behind("last")
  /\ ReadFrom(fcb.fnk) /\ place' = "entry"
  /\ UNCHANGED <<retryVars, disk, avail, fsb, op, rest, entry, total, written, seek>>

Closed ==
  /\ Behind("entry put") /\ op = "close"
  /\ fcb' = [fcb EXCEPT !.fas = 0]
  /\ Done
  /\ UNCHANGED <<retryVars, disk, avail, fsb, op, rest, entry, total, written, seek>>

-----------------------------------------------------------------------------
(* The closed file is opened for reading: OPNRD.                           *)

\* SETMAX reads the system information record for FMX.
Open ==
  /\ Call("open", 0)
  /\ ReadFrom(SIR) /\ place' = "maximum"
  /\ UNCHANGED <<retryVars, disk, avail, fsb, rest, entry, total, written, seek>>

\* RDNEXT: the record number counts up, then the sector linked to is read.
ReadNext(b, link, next) ==
  /\ fcb' = [b EXCEPT !.frn = @ + 1, !.fcs = IF link = Nil THEN @ ELSE link]
  /\ IF link = Nil THEN Done
     ELSE order' = "read" /\ place' = next

Opened ==
  /\ Behind("maximum")
  /\ fsb' = [Clear EXCEPT !.link = fcb.fsa]
  /\ ReadNext([fcb EXCEPT !.fas = 1, !.frn = 0], fcb.fsa, "skip")
  /\ rest' = fcb.fmp - 1
  /\ UNCHANGED <<retryVars, disk, avail, op, entry, total, written, seek>>

\* OPNR12 reads over the sectors of the map; they are counted in FRN.
SkipMap ==
  /\ Behind("skip")
  /\ IF rest = 0 THEN Done /\ UNCHANGED <<fcb, rest>>
     ELSE ReadNext(fcb, fsb.link, "skip") /\ rest' = rest - 1
  /\ UNCHANGED <<retryVars, disk, avail, fsb, op, entry, total, written, seek>>

\* Whatever fails, the program gets the error and may call again; behind SETMAX
\* the block stays open.
OpenFails ==
  /\ pc = "idle" /\ order = "none" /\ status # "ok"
  /\ op = "open" /\ place # "program"
  /\ Done
  /\ seek' = [seek EXCEPT !.result = "error"]
  /\ UNCHANGED <<retryVars, disk, avail, fcb, fsb, op, rest, entry, total, written>>

-----------------------------------------------------------------------------
(* NEXTS, POSIT and BKREC.                                                 *)

More == seek.calls < MaxCalls
Asks(n) == seek' = [seek EXCEPT !.asked = n, !.result = "none", !.retried = FALSE,
                                !.calls = @ + 1]
\* Behind record 0, the first sector of the map, comes the second, no record.
Ends(r) ==
  /\ Done
  /\ seek' = [seek EXCEPT !.result = r, !.positioned = (r = "ok" /\ fcb.frn # 0)]

\* NEXTS of a file open for reading is RDNEXT.  No program goes on from a
\* buffer that a failed transfer has left.
Nexts ==
  /\ Call("next", 1) /\ More /\ seek.result # "error"
  /\ ReadNext(fcb, fsb.link, "next")
  /\ seek' = [seek EXCEPT !.asked = fcb.frn + 1, !.retried = FALSE, !.calls = @ + 1,
                          !.result = IF fsb.link = Nil THEN "eof" ELSE "none"]
  /\ UNCHANGED <<retryVars, disk, avail, fsb, rest, entry, total, written>>

\* POSIT1: record 0 is the first sector of the map; otherwise it is searched.
Position(n) ==
  /\ fcb' = [fcb EXCEPT !.frn = n, !.fcs = fcb.fsa]
  /\ order' = "read" /\ place' = IF n = 0 THEN "record" ELSE "map"
  /\ ETRIES' = 0
  /\ UNCHANGED <<pc, kind, VRFYFG, STRIES, status, media, transfers, seen>>
  /\ Asks(n)

POSIT(n) ==
  /\ Call("posit", 1) /\ More
  /\ Position(n)
  /\ UNCHANGED <<disk, avail, fsb, rest, entry, total, written>>

BKREC ==
  /\ Call("back", 1) /\ More
  /\ IF fcb.frn = 0
       THEN /\ Done
            /\ seek' = [seek EXCEPT !.asked = 0, !.result = "range", !.positioned = FALSE,
                                    !.calls = @ + 1]
            /\ UNCHANGED <<retryVars, fcb>>
       ELSE Position(fcb.frn - 1)
  /\ UNCHANGED <<disk, avail, fsb, rest, entry, total, written>>

\* GETFSM has read a sector of the map: DATAPT points to its first entry.
MapRead ==
  /\ \/ Behind("map") /\ total' = 0
     \/ Behind("next map") /\ UNCHANGED total
  /\ entry' = 1
  /\ place' = "scan"
  /\ UNCHANGED <<retryVars, disk, avail, fcb, fsb, op, order, rest, written, seek>>

Scanning == Behind("scan")
Counted == total + fsb.map[entry].count

\* POSIT6: the record is in this entry, so many sectors behind its first.
Find ==
  /\ Scanning /\ fsb.map[entry].count # 0 /\ Counted >= fcb.frn
  /\ ReadFrom(Locate(fsb.map[entry].at, fcb.frn - total - 1)) /\ place' = "record"
  /\ UNCHANGED <<retryVars, disk, avail, fsb, op, rest, entry, total, written, seek>>

\* POSIT4: the next entry; ETRIES tells when the sector's last one is passed.
Pass ==
  /\ Scanning /\ fsb.map[entry].count # 0 /\ Counted < fcb.frn
  /\ ETRIES' = Bump(ETRIES)
  /\ CASE ETRIES' = PerSector ->
            /\ ReadFrom(fsb.link) /\ place' = "next map"
            /\ total' = Counted
            /\ UNCHANGED <<entry, seek>>
       [] ETRIES' = 2 * PerSector -> Ends("range") /\ UNCHANGED <<fcb, entry, total>>
       [] OTHER ->
            /\ entry' = entry + 1 /\ total' = Counted
            /\ UNCHANGED <<fcb, place, order, seek>>
  /\ UNCHANGED <<pc, kind, VRFYFG, STRIES, status, media, transfers, seen>>
  /\ UNCHANGED <<disk, avail, fsb, op, rest, written>>

\* An entry without records ends the map: POSIT8.
PastEnd ==
  /\ Scanning /\ fsb.map[entry].count = 0
  /\ Ends("range")
  /\ UNCHANGED <<retryVars, disk, avail, fcb, fsb, op, rest, entry, total, written>>

\* The sector is there: POSIT compares its record number with FRN.
Found ==
  /\ \/ /\ Behind("record")
        /\ Ends(IF fsb.lrn = fcb.frn THEN "ok" ELSE "match")
     \/ /\ Behind("next") /\ Done
        /\ seek' = [seek EXCEPT !.result = "ok"]
  /\ UNCHANGED <<retryVars, disk, avail, fcb, fsb, op, rest, entry, total, written>>

\* A transfer failed.  Behind the second sector of the map POSIT8 returns with
\* two bytes too many on the stack: the program does not get control back.
SeekFails ==
  /\ pc = "idle" /\ order = "none" /\ status # "ok"
  /\ op \in {"next", "posit", "back"} /\ place # "program"
  /\ IF place = "next map" THEN place' = "lost" /\ UNCHANGED <<order, seek>>
     ELSE Ends("error")
  /\ UNCHANGED <<retryVars, disk, avail, fcb, fsb, op, rest, entry, total, written>>

-----------------------------------------------------------------------------
Program ==
  \/ WriteFirst \/ WriteNext \/ Close \/ Open \/ Nexts \/ BKREC
  \/ \E n \in 0..(MaxRecords + 1) : POSIT(n)

Continue ==
  \/ Abandon \/ Linked \/ Assigned \/ PutEntry \/ NextEntry \/ CloseMap \/ Closed
  \/ Opened \/ SkipMap \/ OpenFails \/ MapRead \/ Find \/ Pass \/ PastEnd \/ Found
  \/ SeekFails

FmsStep == Issue \/ Machine \/ Deliver \/ Continue

Next == Program \/ FmsStep

Spec == Init /\ [][Next]_vars

\* The code of a call runs to its end; the program may stop calling.
FairSpec == Spec /\ WF_vars(FmsStep)

-----------------------------------------------------------------------------
\* The sectors the map of the file names, record by record.
Run(e) ==
  LET at[k \in 1..e.count] == IF k = 1 THEN e.at ELSE Following(at[k - 1]) IN at
Mapped ==
  LET first == OnDisk(fcb.fsa)
      entries == first.map \o OnDisk(first.link).map
  IN FlattenSeq([i \in DOMAIN entries |-> Run(entries[i])])

\* A closed random file's map names exactly the sectors of its chain, in their
\* order and with their record numbers, whether they lie side by side or apart,
\* whichever entry, sector of the map or count was full on the way, and also
\* when the disk was: WTNEXT and UPDFSM while writing, WTFSM at CLOSE.
MapIsChain ==
  place = "program" /\ fcb.fas \in {0, 1} =>
    LET at == Mapped
    IN /\ Len(at) = written
       /\ OnDisk(OnDisk(fcb.fsa).link).link = at[1]
       /\ at[written] = fcb.fea
       /\ \A k \in 1..written :
            /\ OnDisk(at[k]).lrn = k
            /\ OnDisk(at[k]).link = IF k = written THEN Nil ELSE at[k + 1]

\* POSIT and BKREC find every record of the file, at its own sector, and NEXTS
\* goes on from there record by record to the last one.  They may miss it only
\* when a sector of the map was read at a second try: READSS leaves the soft
\* errors in ETRIES, where POSIT counts the entries.
PositFinds ==
  place = "program" /\ fcb.fas = 1 =>
    /\ op \in {"posit", "back"} /\ seek.asked \in 1..written /\ ~seek.retried
         => seek.result \in {"ok", "error"}
    /\ seek.positioned /\ seek.result = "ok"
         => /\ fsb.lrn = seek.asked
            /\ fcb.fcs = Mapped[seek.asked]
    /\ seek.positioned /\ seek.result = "eof" => seek.asked > written

\* POSIT never looks at bytes behind the last entry of a sector of the map, and
\* counts at most one sector's entries: its test for twice as many never holds.
ScanInMap == place = "scan" => entry \in 1..PerSector /\ ETRIES < PerSector

\* Every FMS call on the file comes back to the program, however the drive
\* fails, unless the program gave the file up or POSIT5 lost its return address.
OperationReturns == place # "program" ~> place \in {"program", "abandoned", "lost"}
=============================================================================
