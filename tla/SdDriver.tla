------------------------------ MODULE SdDriver ------------------------------
(***************************************************************************)
(* The disk driver of the FPGA machine (CONSOLE_FPGA.ASM: S_DRIVE, SDREAD, *)
(* SDWRITE) talking to the SD controller.  The card's blocks hold two FLEX *)
(* sectors each, so a write reads the block, replaces one half and writes  *)
(* it back.  One step is one access to the controller's registers; the     *)
(* processor and the controller run side by side.                          *)
(*                                                                         *)
(* A call is what READSS and WRITSS of FMS make of the driver: select the  *)
(* drive, then transfer a sector.  The reset button resets the processor   *)
(* and the controller but not the memory or the card.                      *)
(***************************************************************************)
EXTENDS SdController, SdAddress

CONSTANTS
  Half,        \* bytes of a FLEX sector: 256
  Sectors,     \* the sectors called for, as <<drive, track, sector>>
  Values,      \* what a sector may hold
  None,
  EarlyCalls,  \* TRUE: calls need not wait for the card's initialisation
  MaxCalls,    \* bound on the calls of a behaviour
  MaxResets    \* bound on its resets

ASSUME HalfAssumption == /\ Half \in Nat \ {0}
                         /\ BlockSize = 2 * Half
                         /\ Values \X (0 .. Half - 1) \subseteq Byte

ASSUME BoundAssumption == MaxCalls \in Nat /\ MaxResets \in Nat

\* None is no value, request or result.
ASSUME NoneAssumption ==
  None \notin Values \cup {"ok", "refused"}
              \cup [op : {"read", "write"}, sector : Sectors, value : Values \cup {None}]
              \cup [sector : Sectors, value : Values]

ASSUME SectorsAssumption == Sectors \subseteq (0 .. 127) \X Byte256 \X Byte256

VARIABLES
  pc,
  call,        \* the request, or None
  base,        \* SDDRV: the three bytes of the selected drive
  SECPOS,
  count,       \* bytes transferred of the block
  buffer,      \* SDRWBUF and SDRWBUF2
  user,        \* the caller's sector buffer
  asked,       \* the write the card has been asked for, or None; read by
               \* the properties only
  calls, resets  \* how many there have been, for the bounds

bounds == <<calls, resets>>
driverVars == <<pc, call, base, SECPOS, count, buffer, user, asked, bounds>>
vars == <<sdVars, driverVars>>

Contents(value) == [k \in 0 .. Half - 1 |-> <<value, k>>]
Empty == [k \in 0 .. Half - 1 |-> Filler]

Requests == [op : {"read"}, sector : Sectors, value : {None}]
            \cup [op : {"write"}, sector : Sectors, value : Values]

\* The half of the block the sector is.
InUpper == SECPOS % 2 = 1
Mine(i) == (i >= Half) <=> InUpper

Init ==
  /\ state = "rst" /\ return_state = "rst" /\ byte_counter = 0
  /\ address = 0 /\ cmd_address = 0 /\ sdhc = FALSE
  /\ block_read = 0 /\ block_write = 0 /\ block_start_ack = 0
  /\ block_busy = 0 /\ init_busy = 0
  /\ sd_read_flag = 0 /\ host_read_flag = 0
  /\ sd_write_flag = 0 /\ host_write_flag = 0
  /\ dout = Filler /\ din_latched = Filler
  /\ \E v \in Values : card = [b \in Blocks |-> [i \in 0 .. BlockSize - 1 |->
                                                   <<v, i % Half>>]]
  /\ line = <<>>
  /\ pc = "idle" /\ call = None /\ base = <<0, 0, 0>> /\ SECPOS = 0
  /\ count = 0 /\ buffer = [i \in 0 .. BlockSize - 1 |-> Filler]
  /\ user = Empty /\ asked = None
  /\ calls = 0 /\ resets = 0

Settled == state \notin {"rst", "init", "cardsel"} /\ init_busy = 0

\* FMS calls with the sector to write in its block.
Start(request) ==
  /\ pc = "idle"
  /\ EarlyCalls \/ Settled
  /\ calls < MaxCalls
  /\ calls' = calls + 1
  /\ call' = request
  /\ user' = IF request.op = "write" THEN Contents(request.value) ELSE Empty
  /\ pc' = "select"
  /\ UNCHANGED <<base, SECPOS, count, buffer, asked, resets, sdVars>>

Select ==
  LET drive == call.sector[1] IN
  /\ pc = "select"
  /\ IF NODRV(drive)
     THEN pc' = "error" /\ UNCHANGED base
     ELSE pc' = "load" /\ base' = DriveTable[drive]
  /\ UNCHANGED <<call, SECPOS, count, buffer, user, asked, bounds, sdVars>>

\* LDSDADRS loads the address registers before the wait for the controller.
LoadAddress ==
  /\ pc = "load"
  /\ SECPOS' = SECPOSOf(call.sector[3])
  /\ HostAddress(LDSDADRS(base, call.sector[2], call.sector[3]))
  /\ pc' = "wait"
  /\ UNCHANGED <<call, base, count, buffer, user, asked, bounds>>

\* A loop over the status register.
Poll(from, value, next) ==
  /\ pc = from
  /\ status = value
  /\ pc' = next
  /\ UNCHANGED <<call, base, SECPOS, count, buffer, user, asked, bounds,
                 sdVars>>

Wait == Poll("wait", 128, "readcmd")
ByteReady == Poll("byte", 224, "take")
WaitWrite == Poll("waitw", 128, "writecmd")
Space == Poll("space", 160, "store")

\* Both calls read the block first.
ReadCommand ==
  /\ pc = "readcmd"
  /\ HostCommand(FALSE)
  /\ count' = 0
  /\ pc' = "byte"
  /\ UNCHANGED <<call, base, SECPOS, buffer, user, asked, bounds>>

\* Mutant: SDREAD keeps the lower half for every sector.
KeepLower ==
  IF count < Half
  THEN /\ user' = [user EXCEPT ![count % Half] = dout]
       /\ UNCHANGED buffer
  ELSE /\ buffer' = [buffer EXCEPT ![count % Half] = dout]
       /\ UNCHANGED user

\* SDREAD keeps its own half and drops the other one in SDRWBUF.
Keep ==
  IF Mine(count)
  THEN /\ user' = [user EXCEPT ![count % Half] = dout]
       /\ UNCHANGED buffer
  ELSE /\ buffer' = [buffer EXCEPT ![count % Half] = dout]
       /\ UNCHANGED user

\* SDWRITE keeps the whole block.
KeepAll ==
  /\ buffer' = [buffer EXCEPT ![count] = dout]
  /\ UNCHANGED user

Take ==
  /\ pc = "take"
  /\ IF call.op = "read" THEN Keep ELSE KeepAll
  /\ HostTake
  /\ count' = count + 1
  /\ pc' = CASE count' < BlockSize -> "byte"
             [] count' = BlockSize /\ call.op = "read" -> "done"
             [] OTHER -> "update"
  /\ UNCHANGED <<call, base, SECPOS, asked, bounds>>

\* WUPDT: the caller's sector over its half.
Update ==
  /\ pc = "update"
  /\ buffer' = [i \in 0 .. BlockSize - 1 |->
                  IF Mine(i) THEN user[i % Half] ELSE buffer[i]]
  /\ pc' = "waitw"
  /\ UNCHANGED <<call, base, SECPOS, count, user, asked, bounds, sdVars>>

WriteCommand ==
  /\ pc = "writecmd"
  /\ HostCommand(TRUE)
  /\ asked' = [sector |-> call.sector, value |-> call.value]
  /\ count' = 0
  /\ pc' = "space"
  /\ UNCHANGED <<call, base, SECPOS, buffer, user, bounds>>

Store ==
  /\ pc = "store"
  /\ HostStore(buffer[count])
  /\ count' = count + 1
  /\ pc' = IF count' < BlockSize THEN "space" ELSE "done"
  /\ UNCHANGED <<call, base, SECPOS, buffer, user, asked, bounds>>

\* CLRA, RTS: without an error in any case.
Return ==
  /\ pc \in {"done", "error"}
  /\ pc' = "idle"
  /\ call' = None
  /\ user' = Empty
  /\ UNCHANGED <<base, SECPOS, count, buffer, asked, bounds, sdVars>>

Driver ==
  \/ Select \/ LoadAddress
  \/ Wait \/ ReadCommand \/ ByteReady \/ Take
  \/ Update \/ WaitWrite \/ WriteCommand \/ Space \/ Store
  \/ Return

\* The card has the whole block: the write is done.
Clock ==
  /\ Controller
  /\ asked' = IF state = "write_block_data" /\ byte_counter = 1
              THEN None ELSE asked
  /\ UNCHANGED <<pc, call, base, SECPOS, count, buffer, user, bounds>>

Reset ==
  /\ ControllerReset
  /\ pc' = "idle"
  /\ call' = None
  /\ user' = Empty
  /\ asked' = None
  /\ resets < MaxResets
  /\ resets' = resets + 1
  /\ UNCHANGED <<base, SECPOS, count, buffer, calls>>

Next ==
  \/ \E request \in Requests : Start(request)
  \/ Driver
  \/ Clock
  \/ Reset

\* The processor and the controller are clocked; the card answers.
Spec == Init /\ [][Next]_vars /\ WF_vars(Driver) /\ WF_vars(Clock)

-----------------------------------------------------------------------------

\* The reset button in the one clock in which a request is acknowledged: the
\* acknowledgement stays and holds every later request down.
AckStuck == block_start_ack = 1
            /\ state \notin {"read_block_cmd", "write_block_cmd"}

\* SDREAD, SDWRITE: a call comes back, unless the acknowledgement is stuck.
CallReturns == pc # "idle" ~> (pc = "idle" \/ AckStuck)

\* The sector halves of the card, as (block, first byte).
HalfOf(contents, lower) == [k \in 0 .. Half - 1 |-> contents[lower + k]]
BlockOf(s) == LDSDADRS(DriveTable[s[1]], s[2], s[3])
LowerOf(s) == Half * (SECPOSOf(s[3]) % 2)

-----------------------------------------------------------------------------
Torn == "torn"
Existing == {s \in Sectors : ~NODRV(s[1])}
ValueOf(bytes) == IF \E v \in Values : bytes = Contents(v)
                  THEN CHOOSE v \in Values : bytes = Contents(v) ELSE Torn
Holds(s) == ValueOf(HalfOf(card[BlockOf(s)], LowerOf(s)))

Result ==
  CASE pc = "error" -> "refused"
    [] pc = "done" /\ call.op = "read" -> ValueOf(user)
    [] pc \in {"space", "store"} \/ (pc = "done" /\ call.op # "read") -> "ok"
    [] OTHER -> None

Disk == INSTANCE SectorDisk WITH
  disk <- [s \in Existing |-> Holds(s)], pending <- asked, result <- Result

\* The card makes no errors, calls wait for its initialisation, and the sectors
\* lie on the documented geometry, eighty tracks of thirty-six, and on the card.
Documented ==
  /\ CardErrors = {}
  /\ ~EarlyCalls
  /\ \A s \in Existing : s[2] \in 0 .. 79 /\ s[3] \in 1 .. 36 /\ BlockOf(s) \in Blocks

\* The driver, the controller and the card together are the disk FMS relies
\* on: SectorDisk.
DiskSpec == Disk!DiskSpec
=============================================================================
