------------------------------ MODULE FmsRetry ------------------------------
(***************************************************************************)
(* The single-sector transfers of the file management system: READSS and   *)
(* WRITSS with the two try counters ETRIES and STRIES that CLRTRY clears   *)
(* and RETRY counts (FLX29FMS.ASM).  The disk driver below DRIVE, DREAD,   *)
(* DWRITE, VERIFY and RESTOR answers nondeterministically: a transfer may  *)
(* succeed, fail, or report success over a sector it wrote badly.  VERIFY  *)
(* is to find such a sector ("Verify last sector written", says line 74 of *)
(* DRIVERS.ASM); the drivers of the repository (S_VERIFY, line 146 of      *)
(* CONSOLE_FPGA.ASM, and the simulator) always answer that there is none.  *)
(***************************************************************************)
EXTENDS Naturals

CONSTANTS
  RTC,         \* soft errors allowed before the head is restored
  RSC,         \* restores allowed before the transfer is given up
  BadWrites,   \* whether a write may report success and store the sector badly
  Verifies     \* whether VERIFY finds a sector that was stored badly

\* The two limits and their counters are single bytes.
Byte == 0..255
ASSUME CountAssumption == RTC \in Byte \ {0} /\ RSC \in Byte \ {0}
ASSUME DriverAssumption == BadWrites \in BOOLEAN /\ Verifies \in BOOLEAN

\* The driver's reports can be trusted: what it stores badly, it finds.
Reliable == BadWrites => Verifies

VARIABLES
  pc,         \* where the current call is, "idle" between calls
  kind,       \* "read" for READSS, "write" for WRITSS
  VRFYFG,     \* the system's verify flag
  ETRIES,     \* soft errors since the last restore
  STRIES,     \* restores in this call
  status,     \* what the driver reported last, and B on an error return
  media,      \* what the addressed sector holds, for a write
  transfers,  \* history: DREAD or DWRITE calls of this call, up to RTC*RSC+1
  seen        \* history: what the driver has reported during this call

retryVars == <<pc, kind, VRFYFG, ETRIES, STRIES, status, media, transfers, seen>>

Soft == {"crc"}                       \* neither bit 4 nor bit 7 of the status
Kinds == {"read", "write"}
Outcomes(k) == {"ok", "crc", "seek", "notready"}
                 \cup (IF k = "write" THEN {"protect"} ELSE {})
Medium == {"old", "bad", "new"}

RetryInit ==
  /\ pc = "idle"
  /\ kind \in Kinds
  /\ VRFYFG \in {0, 255}
  /\ ETRIES = 0 /\ STRIES = 0
  /\ status = "ok"
  /\ media = "old"
  /\ transfers = 0
  /\ seen = {}

-----------------------------------------------------------------------------
\* SWAP and POSIT use ETRIES as a scratch byte between transfers.
Borrow ==
  /\ pc = "idle"
  /\ ETRIES' \in Byte
  /\ UNCHANGED <<pc, kind, VRFYFG, STRIES, status, media, transfers, seen>>

\* Mutant: CLRTRY forgotten.
ClearNothing == UNCHANGED <<ETRIES, STRIES>>

ClearTries == ETRIES' = 0 /\ STRIES' = 0

\* Entry of READSS or WRITSS: CLRTRY, then the drive is selected.
Start(k) ==
  /\ pc = "idle"
  /\ pc' = "select"
  /\ kind' = k
  /\ ClearTries
  /\ media' = "old"
  /\ transfers' = 0
  /\ seen' = {}
  /\ UNCHANGED <<VRFYFG, status>>

Select ==
  /\ pc = "select"
  /\ \/ pc' = "transfer" /\ status' = status
     \/ pc' = "error" /\ status' = "drive"
  /\ UNCHANGED <<kind, VRFYFG, ETRIES, STRIES, media, transfers, seen>>

\* What a write leaves of its sector: an error the old data or damaged ones;
\* with BadWrites it may have stored the data badly behind a report of success.
Leaves(st) ==
  IF st # "ok" THEN {media, "bad"} ELSE IF BadWrites THEN {"new", "bad"} ELSE {"new"}

\* DREAD or DWRITE.
Transfer ==
  /\ pc = "transfer"
  /\ transfers' = IF transfers > RTC * RSC THEN transfers ELSE transfers + 1
  /\ \E st \in Outcomes(kind) :
       /\ status' = st
       /\ seen' = seen \cup {st}
       /\ media' \in IF kind = "read" THEN {media} ELSE Leaves(st)
       /\ pc' = IF st # "ok" THEN "failed"
               ELSE IF kind = "write" /\ VRFYFG # 0 THEN "verify" ELSE "done"
  /\ UNCHANGED <<kind, VRFYFG, ETRIES, STRIES>>

\* VERIFY, called with the verify flag set: the driver reads the sector again.
Verify ==
  /\ pc = "verify"
  /\ IF media = "new" \/ ~Verifies
       THEN pc' = "done" /\ status' = "ok" /\ UNCHANGED seen
       ELSE /\ pc' = "failed"
            /\ status' \in {"crc", "seek", "notready"}
            /\ seen' = seen \cup {status'}
  /\ UNCHANGED <<kind, VRFYFG, ETRIES, STRIES, media, transfers>>

Bump(n) == (n + 1) % 256              \* INCB

NextRound == status = "seek" \/ (status \in Soft /\ Bump(ETRIES) = RTC)

\* RETRY: another transfer without moving the head.
RetryTransfer ==
  /\ pc = "failed"
  /\ status \in Soft /\ ~NextRound
  /\ ETRIES' = Bump(ETRIES)
  /\ pc' = "transfer"
  /\ UNCHANGED <<kind, VRFYFG, STRIES, status, media, transfers, seen>>

\* Mutant: restores are not counted.
FreeRestore ==
  /\ pc = "failed"
  /\ NextRound
  /\ ETRIES' = 0
  /\ pc' = "transfer"
  /\ UNCHANGED <<kind, VRFYFG, STRIES, status, media, transfers, seen>>

\* RETRY2: the head is restored and the soft count starts again.
RetryRestore ==
  /\ pc = "failed"
  /\ NextRound
  /\ Bump(STRIES) # RSC
  /\ ETRIES' = 0
  /\ STRIES' = Bump(STRIES)
  /\ pc' = "transfer"
  /\ UNCHANGED <<kind, VRFYFG, status, media, transfers, seen>>

\* RETRY6, and WRITS8 for a write-protected disk: the call fails.
GiveUp ==
  /\ pc = "failed"
  /\ \/ status \in {"notready", "protect"} /\ UNCHANGED ETRIES
     \/ NextRound /\ Bump(STRIES) = RSC /\ ETRIES' = 0
  /\ pc' = "error"
  /\ UNCHANGED <<kind, VRFYFG, STRIES, status, media, transfers, seen>>

Return ==
  /\ pc \in {"done", "error"}
  /\ pc' = "idle"
  /\ UNCHANGED <<kind, VRFYFG, ETRIES, STRIES, status, media, transfers, seen>>

RetryStep == Select \/ Transfer \/ Verify \/ RetryTransfer \/ RetryRestore
          \/ GiveUp \/ Return

RetryNext == Borrow \/ RetryStep \/ \E k \in Kinds : Start(k)

RetrySpec == RetryInit /\ [][RetryNext]_retryVars

-----------------------------------------------------------------------------
\* Every variable has the values the code can give it.
RetryTypes ==
  /\ pc \in {"idle", "select", "transfer", "verify", "failed", "done", "error"}
  /\ kind \in Kinds
  /\ VRFYFG \in {0, 255}
  /\ ETRIES \in Byte
  /\ STRIES \in 0..(RSC - 1)
  /\ status \in Outcomes("write") \cup {"drive"}
  /\ media \in Medium
  /\ transfers \in 0..(RTC * RSC + 1)
  /\ seen \subseteq Outcomes("write")

\* However the drive misbehaves, and whatever SWAP or POSIT left in ETRIES,
\* one call of READSS or WRITSS makes at most RTC*RSC transfers.
TransfersBounded == transfers <= RTC * RSC

\* RETRY does not give up early: a sector that only ever fails with soft
\* errors has been tried exactly RTC*RSC times when the call reports the error.
SoftErrorEffort ==
  pc = "error" /\ status = "crc" /\ "seek" \notin seen => transfers = RTC * RSC
=============================================================================
