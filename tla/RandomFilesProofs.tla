-------------------------- MODULE RandomFilesProofs --------------------------
(***************************************************************************)
(* What is proved of the sector transfers and of random files, for every   *)
(* value of the constants.                                                 *)
(*                                                                         *)
(* READSS and WRITSS make at most RTC*RSC transfers, give up on soft       *)
(* errors only after exactly that many.  The random files use them as      *)
(* FmsRetry allows, whatever POSIT leaves in ETRIES, so these theorems     *)
(* hold of them; POSIT's count of entries keeps it inside the sector of    *)
(* the map; and the sectors UPDFSM counts as one run are the ones POSIT6   *)
(* computes.  What is proved of the map and of POSIT assumes that the      *)
(* driver is Reliable: a sector is what the last good write made it.       *)
(*                                                                         *)
(* The map of a closed file names the chain of its records (MapNamesChain) *)
(* by MapInv: while the file is written there are the second sector p of   *)
(* the map, the chain T of the records, the number d of entries that are   *)
(* on the disk and the sums b of their counts with Writing(p, T, b, d);    *)
(* CLOSE makes of them Finished(p, T, c).  POSIT finds the records         *)
(* (PositFindsRecord) by PositInv, which follows it through such a map.    *)
(***************************************************************************)
EXTENDS RandomFiles, SequenceTheorems, WellFoundedInduction, TLAPS

-----------------------------------------------------------------------------
(* READSS and WRITSS alone: every step of RetrySpec.                        *)

\* Transfers made in the rounds that are over and the soft errors of this one.
Spent == STRIES * RTC + ETRIES

\* Transfers never run ahead of the counters; without a seek error they agree.
CountersTrack ==
  /\ pc = "transfer" => /\ ETRIES < RTC
                        /\ transfers <= Spent
                        /\ "seek" \notin seen => transfers = Spent
  /\ pc \in {"verify", "failed"} => /\ ETRIES < RTC
                                    /\ transfers <= Spent + 1
                                    /\ "seek" \notin seen => transfers = Spent + 1
  /\ pc = "select" => transfers = 0 /\ ETRIES = 0 /\ STRIES = 0 /\ "seek" \notin seen
  /\ pc = "failed" => (status = "seek" => "seek" \in seen)

\* A write that needs no VERIFY, or has passed it, has stored the new data.
WriteTrusted ==
  kind = "write" =>
    /\ pc \in {"verify", "done"} /\ ~BadWrites => media = "new"
    /\ pc = "done" /\ Verifies /\ VRFYFG # 0 => media = "new"

IInv ==
  /\ RetryTypes
  /\ CountersTrack
  /\ TransfersBounded
  /\ SoftErrorEffort
  /\ WriteTrusted

\* A full round costs RTC transfers: the only arithmetic the argument needs.
LEMMA RoundBound ==
  ASSUME NEW s \in Nat, s < RSC
  PROVE  /\ s * RTC \in Nat
         /\ RTC * RSC \in Nat
         /\ (s + 1) * RTC = s * RTC + RTC
         /\ s * RTC + RTC <= RTC * RSC
         /\ s + 1 = RSC => s * RTC + RTC = RTC * RSC
  <1>1. RTC \in Nat /\ RSC \in Nat
    BY CountAssumption DEF Byte
  <1>2. s * RTC \in Nat /\ RTC * RSC \in Nat /\ (s + 1) * RTC = s * RTC + RTC
    BY <1>1
  <1>3. PICK d \in Nat : RSC = s + 1 + d
    <2>1. RSC - (s + 1) \in Nat /\ RSC = s + 1 + (RSC - (s + 1))
      BY <1>1
    <2> QED  BY <2>1
  <1>4. RTC * RSC = (s + 1) * RTC + d * RTC /\ d * RTC \in Nat
    BY <1>1, <1>3
  <1>5. s + 1 = RSC => RTC * RSC = (s + 1) * RTC
    BY <1>1
  <1>6. s * RTC + RTC <= RTC * RSC
    BY <1>1, <1>2, <1>4
  <1> QED  BY <1>2, <1>5, <1>6

LEMMA InitInv == RetryInit => IInv
  <1>1. 0 < RSC /\ RTC * RSC \in Nat /\ RTC \in Nat /\ RSC - 1 \in Nat
    BY CountAssumption DEF Byte
  <1> QED
    BY <1>1
    DEF RetryInit, IInv, RetryTypes, Byte, CountersTrack, TransfersBounded, SoftErrorEffort,
      WriteTrusted, Kinds, Outcomes, Medium, Spent

LEMMA StepInv == IInv /\ [RetryNext]_retryVars => IInv'
  <1> SUFFICES ASSUME IInv, [RetryNext]_retryVars  PROVE IInv'
    OBVIOUS
  <1> USE CountAssumption DEF Byte
  <1> DEFINE S == STRIES * RTC
  <1>0. /\ STRIES \in Nat /\ STRIES < RSC /\ ETRIES \in Nat /\ S \in Nat
        /\ RTC * RSC \in Nat /\ S + RTC <= RTC * RSC
        /\ (STRIES + 1) * RTC = S + RTC
        /\ STRIES + 1 = RSC => S + RTC = RTC * RSC
        /\ Bump(STRIES) = STRIES + 1
        /\ ETRIES < RTC => Bump(ETRIES) = ETRIES + 1
    BY RoundBound DEF IInv, RetryTypes, Bump, Byte
  <1>1. CASE Borrow
    BY <1>1 DEF IInv, Borrow, RetryTypes, CountersTrack, TransfersBounded,
       SoftErrorEffort, WriteTrusted
  <1>2. ASSUME NEW k \in Kinds, Start(k)  PROVE IInv'
    BY <1>2, <1>0 DEF IInv, Start, ClearTries, RetryTypes, CountersTrack, TransfersBounded,
       SoftErrorEffort, WriteTrusted, Medium
  <1>3. CASE Select
    <2>1. STRIES = 0 => STRIES * RTC = 0
      OBVIOUS
    <2>2. STRIES' * RTC = STRIES * RTC
      BY <1>3 DEF Select
    <2>3. Spent' = Spent /\ (STRIES = 0 /\ ETRIES = 0 => Spent = 0)
      BY <1>3, <2>1, <2>2 DEF Select, Spent
    <2> QED
      BY <1>3, <1>0, <2>3 DEF IInv, Select, RetryTypes, CountersTrack, TransfersBounded,
         SoftErrorEffort, WriteTrusted
  <1>4. CASE Transfer
    <2>1. /\ pc = "transfer" /\ transfers <= Spent /\ Spent < RTC * RSC
          /\ transfers \in Nat /\ Spent \in Nat /\ ETRIES < RTC
          /\ "seek" \notin seen => transfers = Spent
      BY <1>4, <1>0 DEF IInv, Transfer, RetryTypes, CountersTrack, Spent
    <2>2. /\ transfers' = transfers + 1 /\ Spent' = Spent
          /\ kind' = kind /\ VRFYFG' = VRFYFG /\ ETRIES' = ETRIES /\ STRIES' = STRIES
      BY <1>4, <1>0, <2>1 DEF Transfer, Spent
    <2>3. PICK st \in Outcomes(kind) :
            /\ status' = st
            /\ seen' = seen \cup {st}
            /\ media' \in IF kind = "read" THEN {media} ELSE Leaves(st)
            /\ pc' = IF st # "ok" THEN "failed"
                     ELSE IF kind = "write" /\ VRFYFG # 0 THEN "verify" ELSE "done"
      BY <1>4 DEF Transfer
    <2>4. RetryTypes'
      BY <1>0, <2>1, <2>2, <2>3 DEF IInv, RetryTypes, Outcomes, Medium, Kinds, Leaves
    <2>5. CountersTrack'
      BY <2>1, <2>2, <2>3 DEF CountersTrack
    <2>6. TransfersBounded' /\ SoftErrorEffort'
      BY <1>0, <2>1, <2>2, <2>3 DEF TransfersBounded, SoftErrorEffort
    <2>7. WriteTrusted'
      <3>1. ~BadWrites /\ kind = "write" /\ st = "ok" => media' = "new"
        BY <2>3 DEF Leaves
      <3>2. kind = "write" /\ VRFYFG # 0 => pc' # "done"
        BY <2>3
      <3>3. pc' \in {"verify", "done"} => st = "ok"
        BY <2>3
      <3> QED  BY <2>2, <3>1, <3>2, <3>3 DEF WriteTrusted
    <2> QED  BY <2>4, <2>5, <2>6, <2>7 DEF IInv
  <1>5. CASE Verify
    <2>1. /\ Spent' = Spent /\ Spent \in Nat
          /\ transfers' = transfers /\ STRIES' = STRIES /\ ETRIES' = ETRIES
          /\ kind' = kind /\ VRFYFG' = VRFYFG /\ media' = media
      BY <1>5, <1>0 DEF Verify, Spent
    <2>2. CASE media = "new" \/ ~Verifies
      BY <1>5, <1>0, <2>1, <2>2 DEF IInv, Verify, RetryTypes, CountersTrack,
         TransfersBounded, SoftErrorEffort, WriteTrusted, Outcomes
    <2>3. CASE ~(media = "new" \/ ~Verifies)
      <3>1. /\ pc = "verify" /\ pc' = "failed"
            /\ status' \in {"crc", "seek", "notready"}
            /\ seen' = seen \cup {status'}
        BY <1>5, <2>3 DEF Verify
      <3>2. RetryTypes'
        BY <1>0, <2>1, <3>1 DEF IInv, RetryTypes, Outcomes
      <3>3. CountersTrack'
        BY <1>0, <2>1, <3>1 DEF IInv, RetryTypes, CountersTrack
      <3> QED
        BY <2>1, <3>1, <3>2, <3>3
           DEF IInv, TransfersBounded, SoftErrorEffort, WriteTrusted
    <2> QED  BY <2>2, <2>3
  <1>6. CASE RetryTransfer
    BY <1>6, <1>0 DEF IInv, RetryTransfer, NextRound, Soft, RetryTypes, CountersTrack,
       TransfersBounded, SoftErrorEffort, WriteTrusted, Spent
  <1>7. CASE RetryRestore
    BY <1>7, <1>0 DEF IInv, RetryRestore, NextRound, Soft, RetryTypes, CountersTrack,
       TransfersBounded, SoftErrorEffort, WriteTrusted, Spent
  <1>8. CASE GiveUp
    BY <1>8, <1>0 DEF IInv, GiveUp, NextRound, Soft, RetryTypes, CountersTrack,
       TransfersBounded, SoftErrorEffort, WriteTrusted, Spent
  <1>9. CASE Return
    BY <1>9 DEF IInv, Return, RetryTypes, CountersTrack, TransfersBounded,
       SoftErrorEffort, WriteTrusted
  <1>10. CASE UNCHANGED retryVars
    BY <1>10 DEF IInv, retryVars, RetryTypes, CountersTrack, TransfersBounded,
       SoftErrorEffort, WriteTrusted, Spent
  <1> QED
    BY <1>1, <1>2, <1>3, <1>4, <1>5, <1>6, <1>7, <1>8, <1>9, <1>10 DEF RetryNext, RetryStep

LEMMA Inductive == RetrySpec => []IInv
  BY InitInv, StepInv, PTL DEF RetrySpec

\* The counters and the call's progress always have the values the code gives.
THEOREM RetryTypeOK == RetrySpec => []RetryTypes
  <1>1. IInv => RetryTypes  BY DEF IInv
  <1> QED  BY Inductive, <1>1, PTL

\* No drive behaviour makes one READSS or WRITSS call exceed RTC*RSC transfers.
THEOREM RetryBounded == RetrySpec => []TransfersBounded
  <1>1. IInv => TransfersBounded  BY DEF IInv
  <1> QED  BY Inductive, <1>1, PTL

\* Soft errors alone are reported only after the full RTC*RSC transfers.
THEOREM RetryEffort == RetrySpec => []SoftErrorEffort
  <1>1. IInv => SoftErrorEffort  BY DEF IInv
  <1> QED  BY Inductive, <1>1, PTL

-----------------------------------------------------------------------------
(* The random files: every step of Spec is a step of RetrySpec.             *)

\* A transfer that succeeds leaves fewer than RTC soft errors in ETRIES, and
\* POSIT begins to count there; it has passed at most as many entries as that.
ScanInv ==
  /\ order \in Kinds \cup {"none"}
  /\ pc \in {"transfer", "verify", "failed", "done"} => ETRIES < RTC
  /\ pc = "error" => status # "ok"
  /\ pc = "idle" /\ order = "none" /\ place \in {"map", "next map"} /\ status = "ok"
       => ETRIES < RTC
  /\ place = "scan" => /\ pc = "idle" /\ order = "none"
                       /\ entry \in Nat /\ entry >= 1 /\ entry <= ETRIES + 1
                       /\ ETRIES < PerSector

\* The widths of the counters.
LEMMA Widths ==
  ASSUME RetryTypes
  PROVE  /\ ETRIES \in Nat /\ ETRIES < 256 /\ Bump(ETRIES) \in Byte
         /\ RTC \in Nat /\ RTC > 0 /\ RTC < 256
         /\ FMX \in Nat /\ FMX > 0
         /\ PerSector \in Nat /\ PerSector < 256 /\ PerSector > 0 /\ RTC <= PerSector
  <1>1. ETRIES \in Byte
    BY DEF RetryTypes
  <1> QED
    BY <1>1, CountAssumption, MapAssumption DEF Byte, Bump

LEMMA BumpIsNext ==
  ASSUME NEW n \in Nat, n < 255
  PROVE  Bump(n) = n + 1
  BY DEF Bump

LEMMA RandomInit == Init => IInv /\ ScanInv
  <1> SUFFICES ASSUME Init  PROVE IInv /\ ScanInv
    OBVIOUS
  <1>1. IInv
    BY InitInv DEF Init
  <1>2. ScanInv
    BY DEF Init, RetryInit, ScanInv, Behind
  <1> QED
    BY <1>1, <1>2

\* What a step of the program or of a call does to the transfer machine: at
\* most it changes ETRIES while no transfer runs.
LEMMA CallsBorrow ==
  ASSUME RetryTypes, Program \/ Continue
  PROVE  UNCHANGED retryVars \/ Borrow
  <1> USE DEF retryVars
  <1>1. CASE WriteFirst \/ WriteNext \/ Close \/ Open \/ Nexts
    BY <1>1 DEF WriteFirst, WriteNext, Close, Open, Nexts
  <1>2. ASSUME NEW n, Position(n), pc = "idle"  PROVE Borrow
    BY <1>2 DEF Position, Borrow, Byte
  <1>3. CASE BKREC
    BY <1>2, <1>3 DEF BKREC, Call
  <1>4. CASE \E n \in 0..(MaxRecords + 1) : POSIT(n)
    BY <1>2, <1>4 DEF POSIT, Call
  <1>5. CASE Pass
    <2>1. ETRIES' \in Byte
      BY <1>5, Widths DEF Pass
    <2> QED
      BY <1>5, <2>1 DEF Pass, Scanning, Behind, Borrow
  <1>6. CASE Abandon \/ Linked \/ Assigned \/ PutEntry \/ NextEntry \/ CloseMap \/ Closed
    BY <1>6 DEF Abandon, Linked, Assigned, PutEntry, NextEntry, CloseMap, Closed
  <1>7. CASE Opened \/ SkipMap \/ OpenFails \/ MapRead \/ Find \/ PastEnd \/ Found \/ SeekFails
    BY <1>7 DEF Opened, SkipMap, OpenFails, MapRead, Find, PastEnd, Found, SeekFails
  <1> QED
    BY <1>1, <1>3, <1>4, <1>5, <1>6, <1>7 DEF Program, Continue

LEMMA StepOfRetry ==
  ASSUME RetryTypes, ScanInv, [Next]_vars
  PROVE  [RetryNext]_retryVars
  <1>1. CASE UNCHANGED vars
    BY <1>1 DEF vars
  <1>2. CASE Issue
    BY <1>2 DEF Issue, ScanInv, RetryNext
  <1>3. CASE Machine
    BY <1>3 DEF Machine, RetryNext, RetryStep
  <1>4. CASE Deliver
    BY <1>4 DEF Deliver, RetryNext, RetryStep
  <1>5. CASE Program \/ Continue
    BY <1>5, CallsBorrow DEF RetryNext
  <1> QED
    BY <1>1, <1>2, <1>3, <1>4, <1>5 DEF Next, FmsStep

\* The transfer machine keeps its part.
LEMMA StepMachine ==
  ASSUME IInv, ScanInv, Issue \/ Machine \/ Deliver
  PROVE  ScanInv'
  <1>0. RTC \in Nat /\ RTC > 0 /\ RTC < 256 /\ ETRIES \in Nat
    BY Widths DEF IInv
  <1>1. CASE Issue
    BY <1>0, <1>1 DEF Issue, Start, ClearTries, ScanInv
  <1>2. CASE Machine
    <2>1. /\ order' = order /\ place' = place /\ entry' = entry
          /\ pc \in {"select", "transfer", "verify", "failed"}
          /\ pc' # "idle"
      BY <1>2 DEF Machine, Select, Transfer, Verify, RetryTransfer, RetryRestore, GiveUp, file
    <2>2. pc' \in {"transfer", "verify", "failed", "done"} => ETRIES' < RTC
      <3>1. CASE Select
        BY <3>1, <1>0 DEF Select, IInv, CountersTrack
      <3>2. CASE Transfer \/ Verify
        BY <3>2, <1>0 DEF Transfer, Verify, ScanInv
      <3>3. CASE RetryTransfer
        <4>1. Bump(ETRIES) # RTC /\ ETRIES' = Bump(ETRIES) /\ pc = "failed"
          BY <3>3 DEF RetryTransfer, NextRound
        <4>2. ETRIES < RTC
          BY <4>1 DEF ScanInv
        <4>3. Bump(ETRIES) = ETRIES + 1
          BY <4>2, <1>0, BumpIsNext
        <4> QED
          BY <4>1, <4>2, <4>3, <1>0
      <3>4. CASE RetryRestore
        BY <3>4, <1>0 DEF RetryRestore
      <3>5. CASE GiveUp
        BY <3>5 DEF GiveUp
      <3> QED
        BY <1>2, <3>1, <3>2, <3>3, <3>4, <3>5 DEF Machine
    <2>3. pc' = "error" => status' # "ok"
      BY <1>2 DEF Machine, Select, Transfer, Verify, RetryTransfer, RetryRestore, GiveUp,
         NextRound, Soft
    <2> QED
      BY <2>1, <2>2, <2>3 DEF ScanInv
  <1>3. CASE Deliver
    <2>1. /\ order' = order /\ place' = place /\ entry' = entry /\ ETRIES' = ETRIES
          /\ pc \in {"done", "error"} /\ pc' = "idle" /\ status' = status
      BY <1>3 DEF Deliver, Return
    <2> QED
      BY <2>1 DEF ScanInv
  <1> QED
    BY <1>1, <1>2, <1>3

\* The steps of the calls keep it: only MapRead and Pass look through the map.
LEMMA StepCalls ==
  ASSUME IInv, ScanInv, Program \/ Continue
  PROVE  ScanInv'
  <1>0. /\ ETRIES \in Nat /\ ETRIES < 256 /\ RTC \in Nat /\ RTC > 0
        /\ PerSector \in Nat /\ PerSector < 256 /\ PerSector > 0 /\ RTC <= PerSector
    BY Widths DEF IInv
  <1>1. CASE UNCHANGED retryVars /\ place' # "scan" /\ order' = "none"
             /\ place' \notin {"map", "next map"}
    BY <1>1 DEF retryVars, ScanInv
  <1>2. CASE UNCHANGED retryVars /\ place' # "scan" /\ order' \in Kinds
    BY <1>2 DEF retryVars, ScanInv, Kinds
  <1>3. ASSUME NEW n, Position(n), pc = "idle"  PROVE ScanInv'
    BY <1>3, <1>0 DEF Position, ScanInv, Kinds
  <1>4. CASE BKREC
    <2>1. CASE fcb.frn = 0
      BY <1>1, <1>4, <2>1 DEF BKREC, Call, Done
    <2>2. CASE fcb.frn # 0
      BY <1>3, <1>4, <2>2 DEF BKREC, Call
    <2> QED  BY <2>1, <2>2
  <1>5. CASE \E n \in 0..(MaxRecords + 1) : POSIT(n)
    BY <1>3, <1>5 DEF POSIT, Call
  <1>6. CASE MapRead
    <2>1. /\ ETRIES < RTC /\ pc = "idle" /\ order = "none"
          /\ place' = "scan" /\ entry' = 1
          /\ ETRIES' = ETRIES /\ pc' = pc /\ order' = order
      BY <1>6 DEF MapRead, retryVars, Behind, ScanInv
    <2>2. entry' \in Nat /\ entry' >= 1 /\ entry' <= ETRIES' + 1 /\ ETRIES' < PerSector
      BY <1>0, <2>1
    <2> QED
      BY <2>1, <2>2 DEF ScanInv
  <1>7. CASE Pass
    <2>1. /\ place = "scan" /\ pc = "idle" /\ order = "none" /\ pc' = pc
          /\ ETRIES' = Bump(ETRIES)
      BY <1>7 DEF Pass, Scanning, Behind
    <2>2. ETRIES' = ETRIES + 1 /\ ETRIES' <= PerSector /\ ETRIES' # 2 * PerSector
      <3>1. ETRIES < PerSector
        BY <2>1 DEF ScanInv
      <3>2. Bump(ETRIES) = ETRIES + 1
        BY <1>0, <3>1, BumpIsNext
      <3> QED
        BY <1>0, <2>1, <3>1, <3>2
    <2>3. CASE ETRIES' = PerSector
      <3>1. place' = "next map" /\ order' = "read"
        BY <1>0, <1>7, <2>2, <2>3 DEF Pass, ReadFrom
      <3> QED
        BY <2>1, <3>1 DEF ScanInv, Kinds
    <2>4. CASE ETRIES' # PerSector
      <3>1. place' = "scan" /\ order' = "none" /\ entry' = entry + 1
        BY <1>7, <2>1, <2>2, <2>4 DEF Pass
      <3> QED
        BY <1>0, <2>1, <2>2, <2>4, <3>1 DEF ScanInv
    <2> QED  BY <2>3, <2>4
  <1>8. CASE WriteFirst \/ WriteNext \/ Close \/ Open \/ Nexts
    BY <1>8, <1>1, <1>2 DEF Kinds, WriteFirst, WriteNext, Close, Open, Nexts, Call, Assign, Link,
       ReadFrom, ReadNext, Done
  <1>9. CASE Abandon \/ Linked \/ Assigned \/ PutEntry \/ NextEntry \/ CloseMap \/ Closed
    BY <1>9, <1>1, <1>2 DEF Kinds, Abandon, Linked, Assigned, PutEntry, NextEntry, CloseMap, Closed,
       Behind, Assign, ReadFrom, Done
  <1>10. CASE Opened \/ SkipMap \/ OpenFails \/ Find \/ PastEnd \/ Found \/ SeekFails
    BY <1>10, <1>1, <1>2 DEF Kinds, Opened, SkipMap, OpenFails, Find, PastEnd, Found, SeekFails,
       Scanning, Behind, ReadFrom, ReadNext, Done, Ends
  <1> QED
    BY <1>4, <1>5, <1>6, <1>7, <1>8, <1>9, <1>10 DEF Program, Continue

LEMMA ScanStutters ==
  ASSUME ScanInv, UNCHANGED vars
  PROVE  ScanInv'
  <1>1. /\ pc' = pc /\ ETRIES' = ETRIES /\ status' = status
        /\ order' = order /\ place' = place /\ entry' = entry
    BY DEF vars, file, retryVars
  <1> QED
    BY <1>1 DEF ScanInv

LEMMA RandomStep == IInv /\ ScanInv /\ [Next]_vars => (IInv /\ ScanInv)'
  <1> SUFFICES ASSUME IInv, ScanInv, [Next]_vars  PROVE IInv' /\ ScanInv'
    OBVIOUS
  <1>1. IInv'
    BY StepOfRetry, StepInv DEF IInv
  <1>2. ScanInv'
    BY ScanStutters, StepMachine, StepCalls DEF Next, FmsStep
  <1> QED
    BY <1>1, <1>2

LEMMA RandomInductive == Spec => [](IInv /\ ScanInv)
  BY RandomInit, RandomStep, PTL DEF Spec

\* The transfers of random files are transfers of FmsRetry: POSIT's use of
\* ETRIES between them (POSIT1, POSIT4) is its Borrow.
THEOREM RandomImplementsRetry == Spec => RetrySpec
  <1>1. Init => RetryInit
    BY DEF Init
  <1>2. IInv /\ ScanInv /\ [Next]_vars => [RetryNext]_retryVars
    BY StepOfRetry DEF IInv
  <1> QED
    BY <1>1, <1>2, RandomInductive, PTL DEF Spec, RetrySpec

\* However POSIT uses ETRIES, every transfer of a random file that fails with
\* soft errors alone has been tried RTC*RSC times.
THEOREM RandomEffort == Spec => []SoftErrorEffort
  BY RandomImplementsRetry, RetryEffort, PTL

\* POSIT reads no entry behind the last one of a map sector, and its test for
\* twice the number of entries (CMPA #168) never holds, for every try limit.
THEOREM ScanStaysInMap == Spec => []ScanInMap
  <1>1. ASSUME IInv, ScanInv, place = "scan"
        PROVE  entry \in 1..PerSector /\ ETRIES < PerSector
    <2>1. ETRIES \in Nat /\ PerSector \in Nat
      BY <1>1, Widths DEF IInv
    <2>2. entry \in Nat /\ entry >= 1 /\ entry <= ETRIES + 1 /\ ETRIES < PerSector
      BY <1>1 DEF ScanInv
    <2> QED
      BY <2>1, <2>2
  <1>2. IInv /\ ScanInv => ScanInMap
    BY <1>1 DEF ScanInMap
  <1> QED
    BY RandomInductive, <1>2, PTL

\* POSIT6 divides where UPDFSM counts: k sectors behind an address it finds the
\* sector that UPDFSM takes k times for the following one.
THEOREM LocateWalks ==
  ASSUME NEW t \in Nat, NEW s \in 1..FMX, NEW k \in Nat
  PROVE  /\ Locate(<<t, s>>, 0) = <<t, s>>
         /\ Locate(<<t, s>>, k + 1) = Following(Locate(<<t, s>>, k))
  <1> DEFINE n == s - 1 + k
             q == n \div FMX
             r == n % FMX
  <1>1. FMX \in Nat /\ FMX > 0 /\ n \in Nat /\ s \in Nat /\ s <= FMX /\ s > 0
    BY Widths, MapAssumption
  <1>2. (s - 1) \div FMX = 0 /\ (s - 1) % FMX = s - 1
    BY <1>1
  <1>3. Locate(<<t, s>>, 0) = <<t, s>>
    BY <1>1, <1>2 DEF Locate
  <1>4. q \in Nat /\ r \in Nat /\ r < FMX /\ n = FMX * q + r
    BY <1>1
  <1>5. Locate(<<t, s>>, k) = <<t + q, r + 1>>
    BY DEF Locate
  <1>6. Locate(<<t, s>>, k + 1) = <<t + ((n + 1) \div FMX), ((n + 1) % FMX) + 1>>
    <2>1. s - 1 + (k + 1) = n + 1
      BY <1>1
    <2> QED
      BY <2>1 DEF Locate
  <1>7. ASSUME NEW m \in Nat, NEW p \in Nat, NEW x \in 0..(FMX - 1), m = FMX * p + x
        PROVE  m \div FMX = p /\ m % FMX = x
    BY <1>1, <1>7
  <1>8. CASE r + 1 < FMX
    <2>1. n + 1 \in Nat /\ n + 1 = FMX * q + (r + 1) /\ r + 1 \in 0..(FMX - 1)
      BY <1>1, <1>4, <1>8
    <2>2. (n + 1) \div FMX = q /\ (n + 1) % FMX = r + 1
      BY <1>4, <1>7, <2>1
    <2> QED
      BY <1>3, <1>4, <1>5, <1>6, <1>8, <2>2 DEF Following
  <1>9. CASE r + 1 = FMX
    <2>1. n + 1 \in Nat /\ n + 1 = FMX * (q + 1) + 0 /\ 0 \in 0..(FMX - 1) /\ q + 1 \in Nat
      BY <1>1, <1>4, <1>9
    <2>2. (n + 1) \div FMX = q + 1 /\ (n + 1) % FMX = 0
      BY <1>7, <2>1
    <2>3. Following(<<t + q, r + 1>>) = <<t + q + 1, 1>>
      BY <1>1, <1>4, <1>9 DEF Following
    <2>4. t + q + 1 = t + (q + 1)
      BY <1>4
    <2> QED
      BY <1>3, <1>5, <1>6, <2>2, <2>3, <2>4
  <1> QED
    BY <1>1, <1>4, <1>8, <1>9

-----------------------------------------------------------------------------
(* The map as one sequence: what FlattenSeq and Run compute from entries    *)
(* that cut the chain of records into runs.                                 *)

\* A set of naturals has a least element.
LEMMA LeastNat ==
  ASSUME NEW S, S \subseteq Nat, S # {}
  PROVE  \E x \in S : \A y \in S : x <= y
  <1> DEFINE Below == {ss \in Nat \X Nat : ss[1] < ss[2]}
  <1>1. IsWellFoundedOn(Below, Nat)
    BY NatLessThanWellFounded DEF OpToRel
  <1> HIDE DEF Below
  <1>2. PICK x \in S : \A y \in S : <<y, x>> \notin Below
    BY <1>1, WFMin, Zenon
  <1>3. \A y \in S : x <= y
    <2> TAKE y \in S
    <2>1. x \in Nat /\ y \in Nat
      OBVIOUS
    <2>2. <<y, x>> \notin Below
      BY <1>2
    <2>3. y < x => <<y, x>> \in Below
      BY <2>1 DEF Below
    <2> QED  BY <2>1, <2>2, <2>3
  <1> QED  BY <1>3

\* n members of T behind the first a.
Cut(T, a, n) == [k \in 1 .. n |-> T[a + k]]

\* What Run computes.
IsRun(r, e) == r = [k \in 1 .. e.count |-> IF k = 1 THEN e.at ELSE Following(r[k - 1])]

\* An entry names these members of T.
Names(e, T, a) ==
  /\ e.count \in Nat
  /\ e.count # 0 => e.at = T[a + 1]
  /\ \A j \in 1 .. (e.count - 1) : T[a + j + 1] = Following(T[a + j])

\* What Run computes from an entry is what the entry names.
LEMMA CutIsRun ==
  ASSUME NEW e, NEW T, NEW a \in Nat, Names(e, T, a)
  PROVE  IsRun(Cut(T, a, e.count), e)
<1>1. PICK n \in Nat : n = e.count
  BY DEF Names
<1>2. PICK r : r = Cut(T, a, n)
  OBVIOUS
<1>3. ASSUME NEW k \in 1 .. n
      PROVE  T[a + k] = IF k = 1 THEN e.at ELSE Following(r[k - 1])
  <2>1. CASE k = 1
    <3>1. n # 0 /\ a + k = a + 1
      BY <2>1
    <3> QED  BY <1>1, <2>1, <3>1 DEF Names
  <2>2. CASE k # 1
    <3>1. k - 1 \in 1 .. (n - 1) /\ k - 1 \in 1 .. n /\ a + (k - 1) + 1 = a + k
      BY <2>2
    <3>2. T[a + (k - 1) + 1] = Following(T[a + (k - 1)])
      BY <1>1, <3>1 DEF Names
    <3>3. r[k - 1] = T[a + (k - 1)]
      BY <1>2, <3>1 DEF Cut
    <3> QED  BY <2>2, <3>1, <3>2, <3>3
  <2> QED  BY <2>1, <2>2
<1>4. r = [k \in 1 .. n |-> IF k = 1 THEN e.at ELSE Following(r[k - 1])]
  <2>1. [k \in 1 .. n |-> T[a + k]] = [k \in 1 .. n |-> IF k = 1 THEN e.at ELSE Following(r[k - 1])]
    BY <1>3, Zenon
  <2> QED  BY <1>2, <2>1, Zenon DEF Cut
<1> QED  BY <1>1, <1>2, <1>4, Zenon DEF IsRun

\* Only one function is what Run describes.
LEMMA RunUnique ==
  ASSUME NEW e, NEW q, NEW r, e.count \in Nat, IsRun(q, e), IsRun(r, e)
  PROVE  q = r
<1>1. PICK n \in Nat : n = e.count
  OBVIOUS
<1> DEFINE Bad == {k \in 1 .. n : q[k] # r[k]}
<1>2. ASSUME Bad # {}
      PROVE  FALSE
  <2>0. Bad \subseteq Nat
    OBVIOUS
  <2>1. PICK k \in Bad : \A j \in Bad : k <= j
    BY <1>2, <2>0, LeastNat, Zenon
  <2>2. k \in 1 .. n /\ q[k] # r[k]
    BY <2>1
  <2>3. q[k] = IF k = 1 THEN e.at ELSE Following(q[k - 1])
    BY <1>1, <2>2, Zenon DEF IsRun
  <2>4. r[k] = IF k = 1 THEN e.at ELSE Following(r[k - 1])
    BY <1>1, <2>2, Zenon DEF IsRun
  <2>5. k # 1 => q[k - 1] = r[k - 1]
    <3>1. k # 1 => k - 1 \in 1 .. n /\ ~ (k <= k - 1)
      BY <2>2
    <3> QED  BY <2>1, <3>1
  <2> QED  BY <2>2, <2>3, <2>4, <2>5, Zenon
<1>3. \A k \in 1 .. n : q[k] = r[k]
  BY <1>2
<1>4. q = [k \in 1 .. n |-> q[k]]
  BY <1>1 DEF IsRun
<1>5. r = [k \in 1 .. n |-> r[k]]
  BY <1>1 DEF IsRun
<1>6. [k \in 1 .. n |-> q[k]] = [k \in 1 .. n |-> r[k]]
  BY <1>3, Zenon
<1> QED  BY <1>4, <1>5, <1>6, Zenon

\* Run of an entry is the part of the chain that the entry names.
LEMMA RunIsCut ==
  ASSUME NEW e, NEW T, NEW a \in Nat, Names(e, T, a)
  PROVE  Run(e) = Cut(T, a, e.count)
<1>1. IsRun(Cut(T, a, e.count), e)
  BY CutIsRun
<1>2. Run(e) = CHOOSE r : IsRun(r, e)
  BY Zenon DEF Run, IsRun
<1>3. IsRun(Run(e), e)
  BY <1>1, <1>2, Zenon
<1>4. e.count \in Nat
  BY DEF Names
<1> QED  BY <1>1, <1>3, <1>4, RunUnique, Zenon

\* What FlattenSeq computes.
IsFlat(g, s, n) == g = [i \in 1 .. n |-> IF i = 1 THEN s[i] ELSE g[i - 1] \o s[i]]

\* b[i] members of T are in the first i of the n cuts s.
Cuts(s, T, b, n) ==
  /\ b[0] = 0
  /\ \A i \in 0 .. n : b[i] \in 0 .. Len(T)
  /\ \A i \in 1 .. n : b[i - 1] <= b[i] /\ s[i] = Cut(T, b[i - 1], b[i] - b[i - 1])

\* Neighbouring parts of a sequence make one part.
LEMMA CutsJoin ==
  ASSUME NEW S, NEW T \in Seq(S), NEW x \in Nat, NEW y \in Nat, x <= y, y <= Len(T)
  PROVE  Cut(T, 0, x) \o Cut(T, x, y - x) = Cut(T, 0, y)
<1>1. \A i \in 1 .. Len(T) : T[i] \in S
  OBVIOUS
<1>2. PICK n \in Nat : n = y - x /\ y = x + n
  <2>1. y - x \in Nat /\ y = x + (y - x)
    OBVIOUS
  <2> QED  BY <2>1
<1>3. PICK u \in Seq(S) : u = Cut(T, 0, x) /\ Len(u) = x
  <2>1. \A k \in 1 .. x : T[0 + k] \in S
    BY <1>1
  <2>2. [k \in 1 .. x |-> T[0 + k]] \in Seq(S) /\ Len([k \in 1 .. x |-> T[0 + k]]) = x
    BY <2>1
  <2> QED  BY <2>2, Zenon DEF Cut
<1>4. PICK v \in Seq(S) : v = Cut(T, x, n) /\ Len(v) = n
  <2>1. \A k \in 1 .. n : T[x + k] \in S
    BY <1>1, <1>2
  <2>2. [k \in 1 .. n |-> T[x + k]] \in Seq(S) /\ Len([k \in 1 .. n |-> T[x + k]]) = n
    BY <2>1
  <2> QED  BY <2>2, Zenon DEF Cut
<1>5. PICK w \in Seq(S) : w = Cut(T, 0, y) /\ Len(w) = y
  <2>1. \A k \in 1 .. y : T[0 + k] \in S
    BY <1>1
  <2>2. [k \in 1 .. y |-> T[0 + k]] \in Seq(S) /\ Len([k \in 1 .. y |-> T[0 + k]]) = y
    BY <2>1
  <2> QED  BY <2>2, Zenon DEF Cut
<1>6. PICK z : z = u \o v
  OBVIOUS
<1>7. /\ z \in Seq(S) /\ Len(z) = x + n
      /\ \A i \in 1 .. (x + n) : z[i] = IF i <= x THEN u[i] ELSE v[i - x]
  BY <1>3, <1>4, <1>6, ConcatProperties
<1>8. ASSUME NEW i \in 1 .. y
      PROVE  z[i] = w[i]
  <2>1. w[i] = T[i]
    BY <1>5 DEF Cut
  <2>2. CASE i <= x
    BY <1>2, <1>3, <1>7, <2>1, <2>2 DEF Cut
  <2>3. CASE ~ (i <= x)
    <3>1. i - x \in 1 .. n /\ x + (i - x) = i
      BY <1>2, <2>3
    <3>2. v[i - x] = T[x + (i - x)]
      BY <1>4, <3>1 DEF Cut
    <3> QED  BY <1>2, <1>7, <2>1, <2>3, <3>1, <3>2
  <2> QED  BY <2>2, <2>3
<1>9. z = w
  BY <1>2, <1>5, <1>7, <1>8, SeqEqual
<1> QED  BY <1>2, <1>3, <1>4, <1>5, <1>6, <1>9, Zenon

\* FlattenSeq of neighbouring parts is the sequence they are cut from.
LEMMA FlattenCuts ==
  ASSUME NEW S, NEW T \in Seq(S), NEW s, NEW b, NEW n \in Nat, n # 0,
         Len(s) = n, Cuts(s, T, b, n)
  PROVE  FlattenSeq(s) = Cut(T, 0, b[n])
<1>1. /\ b[0] = 0
      /\ \A i \in 0 .. n : b[i] \in Nat /\ b[i] <= Len(T)
      /\ \A i \in 1 .. n : b[i - 1] <= b[i] /\ s[i] = Cut(T, b[i - 1], b[i] - b[i - 1])
  BY DEF Cuts
<1>2. PICK g : g = [i \in 1 .. n |-> Cut(T, 0, b[i])]
  OBVIOUS
<1>3. ASSUME NEW i \in 1 .. n
      PROVE  Cut(T, 0, b[i]) = IF i = 1 THEN s[i] ELSE g[i - 1] \o s[i]
  <2>1. i \in 0 .. n /\ i - 1 \in 0 .. n
    OBVIOUS
  <2>2. PICK x \in Nat : x = b[i - 1]
    BY <1>1, <2>1
  <2>3. PICK y \in Nat : y = b[i] /\ y <= Len(T)
    BY <1>1, <2>1
  <2>4. x <= y /\ s[i] = Cut(T, x, y - x)
    BY <1>1, <2>2, <2>3, Zenon
  <2>5. CASE i = 1
    <3>1. x = 0 /\ y - x = y
      BY <1>1, <2>2, <2>5
    <3> QED  BY <2>3, <2>4, <2>5, <3>1, Zenon
  <2>6. CASE i # 1
    <3>1. g[i - 1] = Cut(T, 0, x)
      BY <1>2, <2>2, <2>6
    <3>2. Cut(T, 0, x) \o Cut(T, x, y - x) = Cut(T, 0, y)
      BY <2>3, <2>4, CutsJoin
    <3> QED  BY <2>3, <2>4, <2>6, <3>1, <3>2, Zenon
  <2> QED  BY <2>5, <2>6
<1>4. IsFlat(g, s, n)
  <2>1. [i \in 1 .. n |-> Cut(T, 0, b[i])]
          = [i \in 1 .. n |-> IF i = 1 THEN s[i] ELSE g[i - 1] \o s[i]]
    BY <1>3, Zenon
  <2> QED  BY <1>2, <2>1, Zenon DEF IsFlat
<1>5. PICK f : f = CHOOSE h : IsFlat(h, s, n)
  OBVIOUS
<1>6. IsFlat(f, s, n)
  BY <1>4, <1>5, Zenon
<1>7. FlattenSeq(s) = f[n]
  BY <1>5, Zenon DEF FlattenSeq, IsFlat
<1> DEFINE Bad == {i \in 1 .. n : f[i] # g[i]}
<1>8. ASSUME Bad # {}
      PROVE  FALSE
  <2>0. Bad \subseteq Nat
    OBVIOUS
  <2>1. PICK k \in Bad : \A j \in Bad : k <= j
    BY <1>8, <2>0, LeastNat, Zenon
  <2>2. k \in 1 .. n /\ f[k] # g[k]
    BY <2>1
  <2>3. f[k] = IF k = 1 THEN s[k] ELSE f[k - 1] \o s[k]
    BY <1>6, <2>2, Zenon DEF IsFlat
  <2>4. g[k] = IF k = 1 THEN s[k] ELSE g[k - 1] \o s[k]
    BY <1>4, <2>2, Zenon DEF IsFlat
  <2>5. k # 1 => f[k - 1] = g[k - 1]
    <3>1. k # 1 => k - 1 \in 1 .. n /\ ~ (k <= k - 1)
      BY <2>2
    <3> QED  BY <2>1, <3>1
  <2> QED  BY <2>2, <2>3, <2>4, <2>5, Zenon
<1>9. n \in 1 .. n
  OBVIOUS
<1>10. f[n] = g[n]
  BY <1>8, <1>9
<1>11. g[n] = Cut(T, 0, b[n])
  BY <1>2, <1>9
<1> QED  BY <1>7, <1>10, <1>11, Zenon

-----------------------------------------------------------------------------
(* The map on the disk.                                                     *)

Addr == Nat \X (1..FMX)
Places == 1..PerSector
MapSize == 2 * PerSector

\* A sector's entries, and the i-th of the two sectors.
Entries == [Places -> [at : Nat \X Nat, count : Nat]]
EntryOf(m1, m2, i) == IF i <= PerSector THEN m1[i] ELSE m2[i - PerSector]

\* The first d entries name the first b[d] members of T.
Ledger(m1, m2, T, b, d) ==
  /\ b[0] = 0
  /\ \A i \in 0 .. d : b[i] \in 0 .. Len(T)
  /\ \A i \in 1 .. d : /\ b[i] = b[i - 1] + EntryOf(m1, m2, i).count
                       /\ Names(EntryOf(m1, m2, i), T, b[i - 1])

\* Entries without records name nothing.
LEMMA LedgerRest ==
  ASSUME NEW m1, NEW m2, NEW T, NEW b, NEW d \in 0 .. MapSize, Len(T) \in Nat,
         Ledger(m1, m2, T, b, d),
         \A i \in (d + 1) .. MapSize : EntryOf(m1, m2, i) = NoEntry
  PROVE  \E c : /\ Ledger(m1, m2, T, c, MapSize) /\ c[MapSize] = b[d]
                /\ \A i \in d .. MapSize : c[i] = b[d]
<1>0. MapSize \in Nat /\ d \in Nat
  BY MapAssumption DEF MapSize
<1>1. PICK c : c = [i \in 0 .. MapSize |-> IF i <= d THEN b[i] ELSE b[d]]
  OBVIOUS
<1>2. b[d] \in 0 .. Len(T) /\ c[0] = 0 /\ c[MapSize] = b[d]
  BY <1>0, <1>1 DEF Ledger
<1>3. ASSUME NEW i \in 0 .. MapSize
      PROVE  c[i] \in 0 .. Len(T)
  BY <1>0, <1>1, <1>2 DEF Ledger
<1>4. ASSUME NEW i \in 1 .. MapSize
      PROVE  /\ c[i] = c[i - 1] + EntryOf(m1, m2, i).count
             /\ Names(EntryOf(m1, m2, i), T, c[i - 1])
  <2>1. i - 1 \in 0 .. MapSize /\ i \in 0 .. MapSize
    BY <1>0
  <2>2. CASE i <= d
    <3>1. c[i] = b[i] /\ c[i - 1] = b[i - 1] /\ i \in 1 .. d
      BY <1>0, <1>1, <2>1, <2>2
    <3> QED  BY <3>1, Zenon DEF Ledger
  <2>3. CASE ~ (i <= d)
    <3>1. c[i] = b[d] /\ c[i - 1] = b[d] /\ i \in (d + 1) .. MapSize
      BY <1>0, <1>1, <2>1, <2>3
    <3>2. EntryOf(m1, m2, i).count = 0
      BY <3>1 DEF NoEntry
    <3>3. Names(EntryOf(m1, m2, i), T, c[i - 1])
      BY <3>2 DEF Names
    <3> QED  BY <1>2, <3>1, <3>2, <3>3
  <2> QED  BY <2>2, <2>3
<1>5. Ledger(m1, m2, T, c, MapSize)
  BY <1>2, <1>3, <1>4 DEF Ledger
<1>6. \A i \in d .. MapSize : c[i] = b[d]
  BY <1>0, <1>1
<1> QED  BY <1>2, <1>5, <1>6

\* The chain gets another sector: what is named stays named.
LEMMA LedgerAppend ==
  ASSUME NEW S, NEW T \in Seq(S), NEW x \in S, NEW m1, NEW m2, NEW b, NEW d \in Nat,
         Ledger(m1, m2, T, b, d)
  PROVE  Ledger(m1, m2, Append(T, x), b, d)
<1>1. PICK u \in Seq(S) : u = Append(T, x) /\ Len(u) = Len(T) + 1 /\ Len(T) \in Nat
                          /\ \A j \in 1 .. Len(T) : u[j] = T[j]
  <2>1. /\ Append(T, x) \in Seq(S) /\ Len(Append(T, x)) = Len(T) + 1 /\ Len(T) \in Nat
        /\ \A j \in 1 .. Len(T) : Append(T, x)[j] = T[j]
    OBVIOUS
  <2> QED  BY <2>1, Zenon
<1>2. /\ b[0] = 0
      /\ \A i \in 0 .. d : b[i] \in 0 .. Len(T)
      /\ \A i \in 1 .. d : /\ b[i] = b[i - 1] + EntryOf(m1, m2, i).count
                           /\ Names(EntryOf(m1, m2, i), T, b[i - 1])
  BY DEF Ledger
<1>3. \A i \in 0 .. d : b[i] \in 0 .. Len(u)
  BY <1>1, <1>2
<1>4. ASSUME NEW i \in 1 .. d
      PROVE  Names(EntryOf(m1, m2, i), u, b[i - 1])
  <2>1. PICK e : e = EntryOf(m1, m2, i)
    OBVIOUS
  <2>2. i - 1 \in 0 .. d /\ i \in 0 .. d
    OBVIOUS
  <2>3. PICK a \in Nat : a = b[i - 1]
    BY <1>2, <2>2
  <2>4. Names(e, T, a) /\ a + e.count <= Len(T)
    BY <1>2, <2>1, <2>2, <2>3
  <2>5. e.count # 0 => a + 1 \in 1 .. Len(T)
    BY <2>4 DEF Names
  <2>6. \A j \in 1 .. (e.count - 1) : a + j \in 1 .. Len(T) /\ a + j + 1 \in 1 .. Len(T)
    BY <1>1, <2>4 DEF Names
  <2>7. Names(e, u, a)
    BY <1>1, <2>4, <2>5, <2>6 DEF Names
  <2> QED  BY <2>1, <2>3, <2>7
<1> QED  BY <1>1, <1>2, <1>3, <1>4, Zenon DEF Ledger

\* One more entry is written; the ones before it stay.
LEMMA LedgerMore ==
  ASSUME NEW m1, NEW m2, NEW n1, NEW n2, NEW T, NEW b, NEW d \in Nat, NEW n \in Nat,
         Len(T) \in Nat, Ledger(m1, m2, T, b, d),
         \A i \in 1 .. d : EntryOf(n1, n2, i) = EntryOf(m1, m2, i),
         EntryOf(n1, n2, d + 1).count = n,
         Names(EntryOf(n1, n2, d + 1), T, b[d]),
         b[d] + n <= Len(T)
  PROVE  \E c : Ledger(n1, n2, T, c, d + 1) /\ c[d + 1] = b[d] + n
<1>1. PICK c : c = [i \in 0 .. (d + 1) |-> IF i = d + 1 THEN b[d] + n ELSE b[i]]
  OBVIOUS
<1>2. /\ b[0] = 0
      /\ \A i \in 0 .. d : b[i] \in 0 .. Len(T)
      /\ \A i \in 1 .. d : /\ b[i] = b[i - 1] + EntryOf(m1, m2, i).count
                           /\ Names(EntryOf(m1, m2, i), T, b[i - 1])
  BY DEF Ledger
<1>3. c[d + 1] = b[d] + n /\ (\A i \in 0 .. d : c[i] = b[i]) /\ b[d] \in Nat
  BY <1>1, <1>2
<1>4. c[0] = 0 /\ \A i \in 0 .. (d + 1) : c[i] \in 0 .. Len(T)
  <2>1. ASSUME NEW i \in 0 .. (d + 1)
        PROVE  c[i] \in 0 .. Len(T)
    <3>1. i = d + 1 \/ i \in 0 .. d
      OBVIOUS
    <3>2. CASE i = d + 1
      BY <1>3, <3>2
    <3>3. CASE i \in 0 .. d
      BY <1>2, <1>3, <3>3
    <3> QED  BY <3>1, <3>2, <3>3
  <2>2. 0 \in 0 .. d
    OBVIOUS
  <2> QED  BY <1>2, <1>3, <2>1, <2>2
<1>5. ASSUME NEW i \in 1 .. (d + 1)
      PROVE  /\ c[i] = c[i - 1] + EntryOf(n1, n2, i).count
             /\ Names(EntryOf(n1, n2, i), T, c[i - 1])
  <2>1. CASE i = d + 1
    <3>1. i - 1 = d /\ c[i - 1] = b[d]
      BY <1>3, <2>1
    <3> QED  BY <1>3, <2>1, <3>1
  <2>2. CASE i # d + 1
    <3>1. i \in 1 .. d /\ i \in 0 .. d /\ i - 1 \in 0 .. d
      BY <2>2
    <3>2. c[i] = b[i] /\ c[i - 1] = b[i - 1] /\ EntryOf(n1, n2, i) = EntryOf(m1, m2, i)
      BY <1>3, <3>1
    <3> QED  BY <1>2, <3>1, <3>2, Zenon
  <2> QED  BY <2>1, <2>2
<1>6. Ledger(n1, n2, T, c, d + 1)
  BY <1>4, <1>5 DEF Ledger
<1> QED  BY <1>3, <1>6

\* A complete map, read entry by entry, is the chain of the records.
LEMMA MappedIs ==
  ASSUME NEW S, NEW T \in Seq(S), NEW m1 \in Entries, NEW m2 \in Entries, NEW b,
         OnDisk(fcb.fsa).map = m1, OnDisk(OnDisk(fcb.fsa).link).map = m2,
         Ledger(m1, m2, T, b, MapSize), b[MapSize] = Len(T)
  PROVE  Mapped = T
<1>1. PerSector \in Nat /\ PerSector # 0 
      /\ MapSize \in Nat /\ MapSize # 0 /\ MapSize = PerSector + PerSector
  BY MapAssumption DEF MapSize
<1>2. PICK e : e = m1 \o m2
  OBVIOUS
<1>3. DOMAIN e = 1 .. MapSize /\ \A i \in 1 .. MapSize : e[i] = EntryOf(m1, m2, i)
  <2>0. PICK E : E = [at : Nat \X Nat, count : Nat]
    OBVIOUS
  <2>1. /\ m1 \in Seq(E) /\ Len(m1) = PerSector
        /\ m2 \in Seq(E) /\ Len(m2) = PerSector
    <3>1. m1 \in [1 .. PerSector -> E] /\ m2 \in [1 .. PerSector -> E]
      BY <2>0, Zenon DEF Entries, Places
    <3> QED  BY <1>1, <3>1
  <2>2. /\ e \in Seq(E) /\ Len(e) = PerSector + PerSector
        /\ \A i \in 1 .. (PerSector + PerSector) :
             e[i] = IF i <= PerSector THEN m1[i] ELSE m2[i - PerSector]
    <3>1. PICK u \in Seq(E) : u = m1 /\ Len(u) = PerSector
      BY <2>1, Zenon
    <3>2. PICK v \in Seq(E) : v = m2 /\ Len(v) = PerSector
      BY <2>1, Zenon
    <3>3. e = u \o v
      BY <1>2, <3>1, <3>2, Zenon
    <3>4. /\ e \in Seq(E) /\ Len(e) = PerSector + PerSector
          /\ \A i \in 1 .. (PerSector + PerSector) :
               e[i] = IF i <= PerSector THEN u[i] ELSE v[i - PerSector]
      BY <3>1, <3>2, <3>3, ConcatProperties
    <3> QED  BY <3>1, <3>2, <3>4, Zenon
  <2>3. DOMAIN e = 1 .. Len(e)
    BY <2>2
  <2> QED  BY <1>1, <2>2, <2>3 DEF EntryOf
<1>4. PICK s : s = [i \in DOMAIN e |-> Run(e[i])]
  OBVIOUS
<1>5. ASSUME NEW i \in 1 .. MapSize
      PROVE  /\ b[i - 1] \in Nat /\ b[i] \in Nat /\ b[i - 1] <= b[i]
             /\ s[i] = Cut(T, b[i - 1], b[i] - b[i - 1])
  <2>1. i \in 0 .. MapSize /\ i - 1 \in 0 .. MapSize
    BY <1>1
  <2>2. b[i - 1] \in Nat /\ b[i] \in Nat
    BY <2>1 DEF Ledger
  <2>3. PICK x : x = e[i]
    OBVIOUS
  <2>4. b[i] = b[i - 1] + x.count /\ Names(x, T, b[i - 1])
    BY <1>3, <2>3 DEF Ledger
  <2>5. x.count \in Nat
    BY <2>4 DEF Names
  <2>6. x.count = b[i] - b[i - 1] /\ b[i - 1] <= b[i]
    BY <2>2, <2>4, <2>5
  <2>7. Run(x) = Cut(T, b[i - 1], x.count)
    BY <2>2, <2>4, RunIsCut
  <2>8. s[i] = Run(x)
    BY <1>3, <1>4, <2>3
  <2> QED  BY <2>2, <2>6, <2>7, <2>8, Zenon
<1>6. Cuts(s, T, b, MapSize)
  <2>1. b[0] = 0 /\ \A i \in 0 .. MapSize : b[i] \in 0 .. Len(T)
    BY DEF Ledger
  <2> QED  BY <1>5, <2>1, Zenon DEF Cuts
<1>7. Len(s) = MapSize
  <2>1. s = [i \in 1 .. MapSize |-> Run(e[i])]
    BY <1>3, <1>4, Zenon
  <2> QED  BY <1>1, <2>1
<1>8. FlattenSeq(s) = Cut(T, 0, b[MapSize])
  BY <1>1, <1>6, <1>7, FlattenCuts
<1>9. Mapped = FlattenSeq(s)
  BY <1>2, <1>4, Zenon DEF Mapped
<1>10. Cut(T, 0, Len(T)) = T
  BY DEF Cut
<1> QED  BY <1>8, <1>9, <1>10, Zenon

-----------------------------------------------------------------------------
(* What is on the disk while the file is written.                           *)

\* The transfer the call waits for is over, well or badly.
Ready == order = "none" /\ pc = "idle" /\ status = "ok"
Broken == order = "none" /\ pc = "idle" /\ status # "ok"

\* The transfer of this kind is ordered, runs or is over.
Waits(k) == \/ order = k /\ pc = "idle"
            \/ order = "none" /\ (pc = "idle" \/ kind = k)

Reads == {"assigned", "entry"}
Writes == {"linked", "entry put", "last"}

TransferInv ==
  /\ VRFYFG = 255
  /\ place \in {"program", "abandoned"} => order = "none" /\ pc = "idle"
  /\ fcb.fas = 2 /\ place \in Reads => Waits("read")
  /\ fcb.fas = 2 /\ place \in Writes => Waits("write")
  /\ fcb.fas # 2 => Waits("read")

\* Where the program can be while it writes the file, and afterwards.
ProgramInv ==
  IF fcb.fas = 2
  THEN /\ place \in Reads \cup Writes \cup {"program", "abandoned"}
       /\ op \in {"none", "write", "close"}
       /\ place \in Reads \cup Writes => op # "none"
       /\ place \in {"assigned", "linked"} => op = "write"
       /\ place = "last" => op = "close"
  ELSE /\ place \in {"program", "maximum", "skip", "next", "map", "next map", "scan", "record",
                     "lost"}
       /\ place # "program" => op \in {"open", "next", "posit", "back"}

\* The sector at the head of avail is the file's already.
Pending == place = "assigned" \/ (place \in {"entry", "entry put"} /\ op = "write")
Unused == IF Pending THEN Tail(avail) ELSE avail
NextLink == IF avail = <<>> THEN Nil ELSE Head(avail)

\* Different sectors, and none of those in use.
Fresh(f, used) ==
  /\ f \in Seq(Addr)
  /\ \A i, j \in 1 .. Len(f) : f[i] = f[j] => i = j
  /\ \A i \in 1 .. Len(f) : f[i] \notin used

\* No other sector looks like a record.
Unnumbered(used) == \A a : a \notin used => OnDisk(a).lrn = 0

Blank ==
  /\ place = "program" /\ fcb.fsa = Nil /\ fcb.fmp = 1 /\ fcb.frn = 0 /\ written = 0
  /\ Fresh(avail, {}) /\ Unnumbered({})

\* A sector of the map before it has entries.
Empty(next) == [link |-> next, lrn |-> 0, map |-> Zeros]

\* The map gets its first sector, its second, and the file its first record:
\* left is how many sectors of the map are still to come.
Assigning(left) ==
  /\ place = "assigned" /\ rest = left
  /\ fcb.fmp = 0 /\ fcb.frn = 0 /\ written = 0 /\ fcb.fcs = fcb.fea
  /\ fcb.fsa \in Addr /\ fcb.fea \in Addr
  /\ avail # <<>> /\ Head(avail) = fcb.fea /\ Unnumbered({})
Linking(left) ==
  /\ place = "linked" /\ rest = left
  /\ fcb.fmp = 0 /\ fcb.frn = 0 /\ written = 0 /\ fcb.fcs = fcb.fea
  /\ fcb.fsa \in Addr /\ fcb.fea \in Addr
  /\ fsb = Empty(NextLink) /\ (Ready => OnDisk(fcb.fea) = fsb) /\ Unnumbered({})

FirstAssigned == Assigning(2) /\ fcb.fea = fcb.fsa /\ Fresh(Tail(avail), {fcb.fsa})
FirstLinked == Linking(1) /\ fcb.fea = fcb.fsa /\ Fresh(avail, {fcb.fsa})
SecondAssigned ==
  /\ Assigning(1) /\ fcb.fea # fcb.fsa /\ Fresh(Tail(avail), {fcb.fsa, fcb.fea})
  /\ OnDisk(fcb.fsa) = Empty(fcb.fea)
SecondLinked ==
  /\ Linking(0) /\ fcb.fea # fcb.fsa /\ Fresh(avail, {fcb.fsa, fcb.fea})
  /\ OnDisk(fcb.fsa) = Empty(fcb.fea)
RecordAssigned(p) ==
  /\ Assigning(0) /\ p \in Addr /\ p # fcb.fsa /\ fcb.fea \notin {fcb.fsa, p}
  /\ Fresh(Tail(avail), {fcb.fsa, p, fcb.fea})
  /\ OnDisk(fcb.fsa) = Empty(p) /\ OnDisk(p) = Empty(fcb.fea)

\* Then: p is the second sector of the map, T the sectors of the records.
Records(T) == {T[k] : k \in 1 .. Len(T)}
Taken(p, T) == {fcb.fsa, p} \cup Records(T)

SectorsOK(p, T) ==
  /\ fcb.fmp = 2
  /\ fcb.fsa \in Addr /\ p \in Addr /\ T \in Seq(Addr) /\ T # <<>>
  /\ fcb.fsa # p /\ fcb.fsa \notin Records(T) /\ p \notin Records(T)
  /\ \A i, j \in 1 .. Len(T) : T[i] = T[j] => i = j
  /\ fcb.fea = T[Len(T)]
  /\ Fresh(Unused, Taken(p, T))
  /\ Pending => avail # <<>> /\ Head(avail) = fcb.fea
  /\ written = fcb.frn /\ fcb.frn \in Nat \ {0}
  /\ fcb.frn = IF Pending THEN Len(T) - 1 ELSE Len(T)

\* A sector of the map.
Sheet == [link : Nat \X Nat, lrn : {0}, map : Entries]

ChainOK(p, T) ==
  /\ OnDisk(fcb.fsa) \in Sheet /\ OnDisk(p) \in Sheet
  /\ OnDisk(fcb.fsa).link = p /\ OnDisk(p).link = T[1]
  /\ \A k \in 1 .. (Len(T) - 1) : OnDisk(T[k]).lrn = k /\ OnDisk(T[k]).link = T[k + 1]
  /\ place \in {"entry", "entry put"} /\ op = "close" =>
       OnDisk(fcb.fea).lrn = Len(T) /\ OnDisk(fcb.fea).link = Nil
  /\ Unnumbered(Records(T))

\* d entries of the map are complete and on the disk.
EntriesOK(p, T, b, d) ==
  /\ d \in 0 .. (MapSize - 1)
  /\ fcb.fnk = IF d < PerSector THEN fcb.fsa ELSE p
  /\ fcb.off = IF d < PerSector THEN d + 1 ELSE d + 1 - PerSector
  /\ Ledger(OnDisk(fcb.fsa).map, OnDisk(p).map, T, b, d)
  /\ \A i \in (d + 2) .. MapSize : EntryOf(OnDisk(fcb.fsa).map, OnDisk(p).map, i) = NoEntry
  /\ \A i \in 1 .. d : EntryOf(OnDisk(fcb.fsa).map, OnDisk(p).map, i).count # 0
  /\ place # "entry put" => EntryOf(OnDisk(fcb.fsa).map, OnDisk(p).map, d + 1) = NoEntry

\* The entry that is growing in the control block names the records since.
Grown == [at |-> fcb.flr, count |-> fcb.sbc]
GrowingOK(T, a) ==
  /\ fcb.sbc \in 1 .. MaxRun /\ fcb.flr \in Addr
  /\ a + fcb.sbc = IF Pending /\ place # "assigned" THEN Len(T) - 1 ELSE Len(T)
  /\ Names(Grown, T, a)

Record(next) == [link |-> next, lrn |-> fcb.frn, map |-> RecordData]
BufferOK ==
  /\ place \in {"program", "assigned", "linked", "last"} => fcb.fcs = fcb.fea
  /\ place \in {"program", "last"} => fsb = Record(Nil)
  /\ place = "linked" => fsb = Record(NextLink)
  /\ place \in {"linked", "last"} /\ Ready => OnDisk(fcb.fea) = fsb
  /\ place \in {"entry", "entry put"} => fcb.fcs = fcb.fnk
  /\ place = "entry" /\ Ready => fsb = OnDisk(fcb.fnk)
  /\ place = "entry put" =>
       /\ fsb \in Sheet /\ fsb.link = OnDisk(fcb.fnk).link
       /\ \A i \in Places :
            fsb.map[i] = IF i = fcb.off THEN Grown ELSE OnDisk(fcb.fnk).map[i]
       /\ Ready => OnDisk(fcb.fnk) = fsb

Writing(p, T, b, d) ==
  SectorsOK(p, T) /\ ChainOK(p, T) /\ EntriesOK(p, T, b, d) /\ GrowingOK(T, b[d]) /\ BufferOK

\* The control block has these fields.
BlockShape ==
  fcb = [fas |-> fcb.fas, fmp |-> fcb.fmp, fsa |-> fcb.fsa, fea |-> fcb.fea, fcs |-> fcb.fcs,
         frn |-> fcb.frn, flr |-> fcb.flr, sbc |-> fcb.sbc, fnk |-> fcb.fnk, off |-> fcb.off]

\* The file is closed: c counts the records that the entries name.
Finished(p, T, c) ==
  /\ T \in Seq(Addr) /\ T # <<>> /\ Len(T) = written /\ fcb.fea = T[Len(T)]
  /\ OnDisk(fcb.fsa) \in Sheet /\ OnDisk(p) \in Sheet
  /\ OnDisk(fcb.fsa).link = p /\ OnDisk(p).link = T[1]
  /\ \A k \in 1 .. Len(T) : /\ OnDisk(T[k]).lrn = k
                            /\ OnDisk(T[k]).link = IF k = Len(T) THEN Nil ELSE T[k + 1]
  /\ Unnumbered(Records(T))
  /\ Ledger(OnDisk(fcb.fsa).map, OnDisk(p).map, T, c, MapSize) /\ c[MapSize] = Len(T)
  /\ \A i \in 1 .. MapSize :
       EntryOf(OnDisk(fcb.fsa).map, OnDisk(p).map, i).count = 0 => c[i - 1] = Len(T)

Begun ==
  \/ Blank \/ FirstAssigned \/ FirstLinked \/ SecondAssigned \/ SecondLinked
  \/ \E p : RecordAssigned(p)
  \/ \E p, T, b, d : Writing(p, T, b, d)

\* Of a file that the program has given up nothing is claimed.
Unharmed == place = "program" \/ (place # "abandoned" /\ ~Broken)

MapInv ==
  /\ BlockShape /\ TransferInv /\ ProgramInv
  /\ fcb.fas = 2 /\ Unharmed => Begun
  /\ fcb.fas # 2 => \E p, T, c : Finished(p, T, c)

\* A write changes one sector.
LEMMA OnDiskStored ==
  ASSUME NEW x, NEW v, disk' = Stored(x, v)
  PROVE  \A a : OnDisk(a)' = IF a = x THEN v ELSE OnDisk(a)
  BY DEF Stored, OnDisk

\* The first available sector is taken.
LEMMA FreshLess ==
  ASSUME NEW f, NEW used, Fresh(f, used), f # <<>>
  PROVE  /\ Head(f) \in Addr /\ Head(f) \notin used
         /\ Fresh(Tail(f), used \cup {Head(f)})
<1>1. PICK g \in Seq(Addr) : g = Tail(f) /\ f \in Seq(Addr) /\ Len(f) \in Nat /\ Len(f) # 0
                             /\ Len(g) = Len(f) - 1 /\ \A i \in 1 .. Len(g) : g[i] = f[i + 1]
  <2>1. f \in Seq(Addr)
    BY DEF Fresh
  <2>2. Tail(f) \in Seq(Addr) /\ Len(Tail(f)) = Len(f) - 1 /\ Len(f) \in Nat /\ Len(f) # 0
        /\ \A i \in 1 .. Len(Tail(f)) : Tail(f)[i] = f[i + 1]
    BY <2>1, HeadTailProperties
  <2> QED  BY <2>1, <2>2, Zenon
<1>2. PICK h : h = Head(f) /\ h = f[1]
  BY <1>1
<1>3. /\ \A i, j \in 1 .. Len(f) : f[i] = f[j] => i = j
      /\ \A i \in 1 .. Len(f) : f[i] \notin used
  BY DEF Fresh
<1>4. h \in Addr /\ h \notin used
  BY <1>1, <1>2, <1>3
<1>5. \A i \in 1 .. Len(g) : i + 1 \in 1 .. Len(f)
  BY <1>1
<1>6. \A i, j \in 1 .. Len(g) : g[i] = g[j] => i = j
  <2> SUFFICES ASSUME NEW i \in 1 .. Len(g), NEW j \in 1 .. Len(g), g[i] = g[j]
               PROVE  i = j
    OBVIOUS
  <2>1. f[i + 1] = f[j + 1] /\ i + 1 \in 1 .. Len(f) /\ j + 1 \in 1 .. Len(f)
    BY <1>1, <1>5
  <2>2. i + 1 = j + 1
    BY <1>3, <2>1, Zenon
  <2> QED  BY <2>2
<1>7. \A i \in 1 .. Len(g) : g[i] \notin used \cup {h}
  <2> SUFFICES ASSUME NEW i \in 1 .. Len(g)
               PROVE  g[i] \notin used /\ g[i] # h
    OBVIOUS
  <2>1. i + 1 \in 1 .. Len(f) /\ 1 \in 1 .. Len(f) /\ i + 1 # 1 /\ g[i] = f[i + 1]
    BY <1>1, <1>5
  <2> QED  BY <1>2, <1>3, <2>1
<1>8. Fresh(g, used \cup {h})
  BY <1>6, <1>7 DEF Fresh
<1> QED  BY <1>1, <1>2, <1>4, <1>8

\* The transfer machine at work: nothing of the file is touched.
LEMMA QuietBegun ==
  ASSUME Begun, UNCHANGED <<disk, avail, fcb, fsb, op, place, rest, written>>,
         Ready' => Ready
  PROVE  Begun'
<1>1. /\ disk' = disk /\ avail' = avail /\ fcb' = fcb /\ fsb' = fsb /\ op' = op
      /\ place' = place /\ rest' = rest /\ written' = written
  OBVIOUS
<1>2. Blank => Blank'
  BY <1>1 DEF Blank, Unnumbered, OnDisk
<1>3. \A left : Assigning(left) => Assigning(left)'
  BY <1>1 DEF Assigning, Unnumbered, OnDisk
<1>4. \A left : Linking(left) => Linking(left)'
  BY <1>1 DEF Linking, NextLink, Unnumbered, OnDisk
<1>5. FirstAssigned \/ FirstLinked \/ SecondAssigned \/ SecondLinked
        => FirstAssigned' \/ FirstLinked' \/ SecondAssigned' \/ SecondLinked'
  BY <1>1, <1>3, <1>4 DEF FirstAssigned, FirstLinked, SecondAssigned, SecondLinked, OnDisk
<1>6. \A p : RecordAssigned(p) => RecordAssigned(p)'
  BY <1>1, <1>3 DEF RecordAssigned, OnDisk
<1>7. ASSUME NEW p, NEW T, NEW b, NEW d, Writing(p, T, b, d)
      PROVE  Writing(p, T, b, d)'
  <2>1. SectorsOK(p, T)'
    BY <1>1, <1>7 DEF Writing, SectorsOK, Pending, Unused, Taken
  <2>2. ChainOK(p, T)'
    BY <1>1, <1>7 DEF Writing, ChainOK, Unnumbered, OnDisk
  <2>3. EntriesOK(p, T, b, d)'
    BY <1>1, <1>7 DEF Writing, EntriesOK, OnDisk
  <2>4. GrowingOK(T, b[d])'
    BY <1>1, <1>7 DEF Writing, GrowingOK, Grown, Pending
  <2>5. BufferOK'
    BY <1>1, <1>7 DEF Writing, BufferOK, Record, NextLink, OnDisk, Grown
  <2> QED  BY <2>1, <2>2, <2>3, <2>4, <2>5 DEF Writing
<1> QED  BY <1>2, <1>5, <1>6, <1>7 DEF Begun

\* What is claimed of the closed file depends on these variables alone.
LEMMA ClosedStays ==
  ASSUME disk' = disk, written' = written, fcb'.fsa = fcb.fsa, fcb'.fea = fcb.fea
  PROVE  /\ \A p, T, c : Finished(p, T, c)' <=> Finished(p, T, c)
         /\ (\E p, T, c : Finished(p, T, c)) => (\E p, T, c : Finished(p, T, c))'
<1>1. \A a : OnDisk(a)' = OnDisk(a)
  BY DEF OnDisk
<1>2. ASSUME NEW p, NEW T, NEW c
      PROVE  Finished(p, T, c)' <=> Finished(p, T, c)
  BY <1>1 DEF Finished, Unnumbered
<1> QED  BY <1>2

\* Ordering a transfer, and what the transfer machine does.
LEMMA MachineKeepsMap ==
  ASSUME MapInv, ScanInv, Issue \/ Machine
  PROVE  MapInv'
<1>1. UNCHANGED <<disk, avail, fcb, fsb, op, place, rest, written>> /\ ~Ready' /\ ~Broken'
      /\ VRFYFG' = VRFYFG
  <2>1. CASE Issue
    BY <2>1 DEF Issue, Start, Ready, Broken
  <2>2. CASE Machine
    BY <2>2 DEF Machine, Select, Transfer, Verify, RetryTransfer, RetryRestore, GiveUp, file,
      Ready, Broken
  <2> QED  BY <2>1, <2>2
<1>2. place # "program" /\ place # "abandoned" /\ ~Broken
  BY DEF MapInv, TransferInv, Issue, Machine, Select, Transfer, Verify, RetryTransfer, RetryRestore,
    GiveUp, Broken
<1>3. \A k : Waits(k) => Waits(k)'
  <2>1. CASE Issue
    BY <2>1 DEF Issue, Start, Waits, ScanInv, Kinds
  <2>2. CASE Machine
    BY <2>2 DEF Machine, Select, Transfer, Verify, RetryTransfer, RetryRestore, GiveUp, file, Waits
  <2> QED  BY <2>1, <2>2
<1>4. BlockShape' /\ ProgramInv'
  BY <1>1 DEF MapInv, BlockShape, ProgramInv
<1>5. TransferInv'
  BY <1>1, <1>2, <1>3 DEF MapInv, TransferInv
<1>6. fcb'.fas = 2 => Begun'
  BY <1>1, <1>2, QuietBegun DEF MapInv, Unharmed
<1>7. fcb'.fas # 2 => (\E p, T, c : Finished(p, T, c))'
  BY <1>1, ClosedStays DEF MapInv
<1> QED  BY <1>4, <1>5, <1>6, <1>7 DEF MapInv

\* A sector read is in the buffer, or the buffer on the disk.
Transferred ==
  \/ place \in Reads /\ fsb' = OnDisk(fcb.fcs) /\ disk' = disk
  \/ place \in Writes /\ fsb' = fsb /\ disk' = Stored(fcb.fcs, fsb)

\* What a write does to the sector of the map it goes to: one entry more.
LEMMA WritingTransfer ==
  ASSUME NEW p, NEW T, NEW b, NEW d, Writing(p, T, b, d), Transferred,
         place # "program", UNCHANGED <<avail, fcb, op, place, rest, written>>
  PROVE  Writing(p, T, b, d)'
<1>0. SectorsOK(p, T) /\ ChainOK(p, T) /\ EntriesOK(p, T, b, d) /\ GrowingOK(T, b[d]) /\ BufferOK
  BY DEF Writing
<1>1. avail' = avail /\ fcb' = fcb /\ op' = op /\ place' = place /\ written' = written
  OBVIOUS
<1>2. SectorsOK(p, T)'
  BY <1>0, <1>1 DEF SectorsOK, Pending, Unused, Taken
<1>3. GrowingOK(T, b[d])'
  BY <1>0, <1>1 DEF GrowingOK, Grown, Pending
<1>4. CASE place \in Reads
  <2>1. disk' = disk /\ fsb' = OnDisk(fcb.fcs)
    BY <1>4 DEF Transferred, Reads, Writes
  <2>2. \A a : OnDisk(a)' = OnDisk(a)
    BY <2>1 DEF OnDisk
  <2>3. ChainOK(p, T)'
    BY <1>0, <1>1, <2>2 DEF ChainOK, Unnumbered
  <2>4. EntriesOK(p, T, b, d)'
    BY <1>0, <1>1, <2>2 DEF EntriesOK
  <2>5. BufferOK'
    BY <1>0, <1>1, <1>4, <2>1, <2>2 DEF BufferOK, Reads
  <2> QED  BY <1>2, <1>3, <2>3, <2>4, <2>5 DEF Writing
<1>5. CASE place \in {"linked", "last"}
  <2>1. fsb' = fsb /\ disk' = Stored(fcb.fea, fsb)
    BY <1>0, <1>5 DEF Transferred, Reads, Writes, BufferOK
  <2>2. \A a : OnDisk(a)' = IF a = fcb.fea THEN fsb ELSE OnDisk(a)
    BY <2>1, OnDiskStored
  <2>3. Len(T) \in Nat /\ Len(T) \in 1 .. Len(T) /\ fcb.fea = T[Len(T)]
    BY <1>0 DEF SectorsOK
  <2>4. OnDisk(fcb.fsa)' = OnDisk(fcb.fsa) /\ OnDisk(p)' = OnDisk(p)
    BY <1>0, <1>1, <2>2, <2>3 DEF SectorsOK, Records
  <2>5. \A k \in 1 .. (Len(T) - 1) : OnDisk(T[k])' = OnDisk(T[k])
    <3>1. \A k \in 1 .. (Len(T) - 1) : k \in 1 .. Len(T) /\ k # Len(T)
      BY <2>3
    <3>2. \A k \in 1 .. (Len(T) - 1) : T[k] # fcb.fea
      BY <1>0, <2>3, <3>1 DEF SectorsOK
    <3> QED  BY <2>2, <3>2
  <2>9. Unnumbered(Records(T))'
    <3>1. fcb.fea \in Records(T) /\ Unnumbered(Records(T))
      BY <1>0, <2>3 DEF ChainOK, Records
    <3>2. Records(T)' = Records(T)
      BY DEF Records
    <3> QED  BY <2>2, <3>1, <3>2 DEF Unnumbered
  <2>6. ChainOK(p, T)'
    BY <1>0, <1>1, <1>5, <2>4, <2>5, <2>9 DEF ChainOK
  <2>7. EntriesOK(p, T, b, d)'
    BY <1>0, <1>1, <2>4 DEF EntriesOK
  <2>8. BufferOK'
    BY <1>0, <1>1, <1>5, <2>1, <2>2 DEF BufferOK, Record, NextLink
  <2> QED  BY <1>2, <1>3, <2>6, <2>7, <2>8 DEF Writing
<1>6. CASE place = "entry put"
  <2>1. fsb' = fsb /\ disk' = Stored(fcb.fnk, fsb)
    BY <1>0, <1>6 DEF Transferred, Reads, Writes, BufferOK
  <2>2. \A a : OnDisk(a)' = IF a = fcb.fnk THEN fsb ELSE OnDisk(a)
    BY <2>1, OnDiskStored
  <2>3. /\ fsb \in Sheet /\ fsb.link = OnDisk(fcb.fnk).link
        /\ \A i \in Places :
             fsb.map[i] = IF i = fcb.off THEN Grown ELSE OnDisk(fcb.fnk).map[i]
    BY <1>0, <1>6 DEF BufferOK
  <2>4. /\ d \in 0 .. (MapSize - 1)
        /\ fcb.fnk = IF d < PerSector THEN fcb.fsa ELSE p
        /\ fcb.off = IF d < PerSector THEN d + 1 ELSE d + 1 - PerSector
        /\ fcb.fsa # p
    BY <1>0 DEF EntriesOK, SectorsOK
  <2>5. \A k \in 1 .. Len(T) : T[k] # fcb.fnk
    BY <1>0, <2>4 DEF SectorsOK, Records
  <2>6. \A k \in 1 .. Len(T) : OnDisk(T[k])' = OnDisk(T[k])
    BY <2>2, <2>5
  <2>7. /\ OnDisk(fcb.fsa)' = IF d < PerSector THEN fsb ELSE OnDisk(fcb.fsa)
        /\ OnDisk(p)' = IF d < PerSector THEN OnDisk(p) ELSE fsb
    BY <1>1, <2>2, <2>4
  <2>8. ChainOK(p, T)'
    <3>1. /\ OnDisk(fcb.fsa)' \in Sheet /\ OnDisk(p)' \in Sheet
          /\ OnDisk(fcb.fsa)'.link = p /\ OnDisk(p)'.link = T[1]
      BY <1>0, <2>3, <2>4, <2>7 DEF ChainOK
    <3>2. Len(T) \in 1 .. Len(T) /\ fcb.fea = T[Len(T)] /\ \A k \in 1 .. (Len(T) - 1) : k \in 1 .. Len(T)
      BY <1>0 DEF SectorsOK
    <3>3. OnDisk(fcb.fea)' = OnDisk(fcb.fea)
      BY <1>1, <2>6, <3>2
    <3>4. Unnumbered(Records(T))'
      <4>1. fsb.lrn = 0 /\ Unnumbered(Records(T))
        BY <1>0, <2>3 DEF ChainOK, Sheet
      <4>2. Records(T)' = Records(T)
        BY DEF Records
      <4> QED  BY <2>2, <4>1, <4>2 DEF Unnumbered
    <3> QED  BY <1>0, <1>1, <2>6, <3>1, <3>2, <3>3, <3>4 DEF ChainOK
  <2>9. \A i \in 1 .. MapSize : i # d + 1 =>
          EntryOf(OnDisk(fcb.fsa).map, OnDisk(p).map, i)'
            = EntryOf(OnDisk(fcb.fsa).map, OnDisk(p).map, i)
    <3> SUFFICES ASSUME NEW i \in 1 .. MapSize, i # d + 1
                 PROVE  EntryOf(OnDisk(fcb.fsa).map, OnDisk(p).map, i)'
                          = EntryOf(OnDisk(fcb.fsa).map, OnDisk(p).map, i)
      OBVIOUS
    <3>1. PerSector \in Nat /\ MapSize = PerSector + PerSector
      BY MapAssumption DEF MapSize
    <3>2. i <= PerSector => i \in Places
      BY <3>1 DEF Places
    <3>3. ~ (i <= PerSector) => i - PerSector \in Places
      BY <3>1 DEF Places
    <3>4. CASE d < PerSector
      <4>1. fcb.fnk = fcb.fsa /\ fcb.off = d + 1 /\ OnDisk(fcb.fsa)' = fsb /\ OnDisk(p)' = OnDisk(p)
        BY <2>4, <2>7, <3>4
      <4> QED  BY <2>3, <3>2, <4>1 DEF EntryOf
    <3>5. CASE ~ (d < PerSector)
      <4>1. fcb.fnk = p /\ fcb.off = d + 1 - PerSector /\ OnDisk(fcb.fsa)' = OnDisk(fcb.fsa)
            /\ OnDisk(p)' = fsb
        BY <2>4, <2>7, <3>5
      <4>2. ~ (i <= PerSector) => i - PerSector # fcb.off
        BY <2>4, <3>1, <4>1
      <4> QED  BY <2>3, <3>3, <4>1, <4>2 DEF EntryOf
    <3> QED  BY <3>4, <3>5
  <2>10. EntriesOK(p, T, b, d)'
    <3>1. Ledger(OnDisk(fcb.fsa).map, OnDisk(p).map, T, b, d)'
      <4>1. \A i \in 1 .. d : i \in 1 .. MapSize /\ i # d + 1
        BY <2>4, MapAssumption DEF MapSize
      <4> QED  BY <1>0, <2>9, <4>1 DEF EntriesOK, Ledger
    <3>2. \A i \in (d + 2) .. MapSize : i \in 1 .. MapSize /\ i # d + 1
      BY <2>4
    <3>3. \A i \in 1 .. d : i \in 1 .. MapSize /\ i # d + 1
      BY <2>4, MapAssumption DEF MapSize
    <3> QED  BY <1>0, <1>1, <1>6, <2>9, <3>1, <3>2, <3>3 DEF EntriesOK
  <2>11. BufferOK'
    BY <1>0, <1>1, <1>6, <2>1, <2>2 DEF BufferOK, Grown
  <2> QED  BY <1>2, <1>3, <2>8, <2>10, <2>11 DEF Writing
<1> QED  BY <1>4, <1>5, <1>6 DEF Transferred, Reads, Writes

\* The transfer the call waits for is over.
LEMMA BegunTransfer ==
  ASSUME Begun, Transferred, place # "program",
         UNCHANGED <<avail, fcb, op, place, rest, written>>
  PROVE  Begun'
<1>1. /\ avail' = avail /\ fcb' = fcb /\ op' = op
      /\ place' = place /\ rest' = rest /\ written' = written
  OBVIOUS
<1>2. CASE Blank
  BY <1>2 DEF Blank
<1>3. CASE FirstAssigned \/ SecondAssigned \/ \E p : RecordAssigned(p)
  <2>1. place = "assigned"
    BY <1>3 DEF FirstAssigned, SecondAssigned, RecordAssigned, Assigning
  <2>2. disk' = disk
    BY <2>1 DEF Transferred, Writes
  <2>3. \A left : Assigning(left) => Assigning(left)'
    BY <1>1, <2>2 DEF Assigning, Unnumbered, OnDisk
  <2>4. \A a : OnDisk(a)' = OnDisk(a)
    BY <2>2 DEF OnDisk
  <2>5. FirstAssigned \/ SecondAssigned => FirstAssigned' \/ SecondAssigned'
    BY <1>1, <2>3, <2>4 DEF FirstAssigned, SecondAssigned
  <2>6. \A p : RecordAssigned(p) => RecordAssigned(p)'
    BY <1>1, <2>3, <2>4 DEF RecordAssigned
  <2> QED  BY <1>3, <2>5, <2>6 DEF Begun
<1>4. CASE FirstLinked \/ SecondLinked
  <2>1. place = "linked" /\ fcb.fcs = fcb.fea
    BY <1>4 DEF FirstLinked, SecondLinked, Linking
  <2>2. fsb' = fsb /\ disk' = Stored(fcb.fea, fsb)
    BY <2>1 DEF Transferred, Reads
  <2>3. \A a : OnDisk(a)' = IF a = fcb.fea THEN fsb ELSE OnDisk(a)
    BY <2>2, OnDiskStored
  <2>4. \A left : Linking(left) => Linking(left)'
    BY <1>1, <2>2, <2>3 DEF Linking, NextLink, Unnumbered, Empty
  <2>5. FirstLinked => FirstLinked'
    BY <1>1, <2>4 DEF FirstLinked
  <2>6. SecondLinked => SecondLinked'
    BY <1>1, <2>3, <2>4 DEF SecondLinked
  <2> QED  BY <1>4, <2>5, <2>6 DEF Begun
<1>5. ASSUME NEW p, NEW T, NEW b, NEW d, Writing(p, T, b, d)
      PROVE  Writing(p, T, b, d)'
  BY <1>5, WritingTransfer
<1> QED  BY <1>2, <1>3, <1>4, <1>5 DEF Begun

\* A transfer returns: the disk holds what a write wrote with success.
LEMMA DeliverKeepsMap ==
  ASSUME Reliable, IInv, ScanInv, MapInv, Deliver
  PROVE  MapInv'
<1>1. /\ pc \in {"done", "error"} /\ pc' = "idle"
      /\ UNCHANGED <<kind, status, VRFYFG, avail, fcb, op, place, order, rest, written>>
  BY DEF Deliver, Return
<1>2. place # "program" /\ place # "abandoned" /\ ~Broken
  BY <1>1 DEF MapInv, TransferInv, Broken
<1>3. \A k : Waits(k) => Waits(k)' /\ order = "none" /\ kind = k
  BY <1>1 DEF Waits
<1>4. BlockShape' /\ ProgramInv'
  BY <1>1 DEF MapInv, BlockShape, ProgramInv
<1>5. TransferInv'
  BY <1>1, <1>2, <1>3 DEF MapInv, TransferInv
<1>6. pc = "error" => status # "ok"
  BY DEF ScanInv
<1>7. CASE fcb.fas # 2
  <2>1. kind = "read"
    BY <1>3, <1>7 DEF MapInv, TransferInv
  <2>2. disk' = disk
    BY <2>1 DEF Deliver
  <2>3. (\E p, T, c : Finished(p, T, c))'
    BY <1>1, <1>7, <2>2, ClosedStays DEF MapInv
  <2> QED  BY <1>1, <1>4, <1>5, <1>7, <2>3 DEF MapInv
<1>8. CASE fcb.fas = 2 /\ pc = "error"
  <2>1. order = "none"
    BY <1>2, <1>3, <1>8 DEF MapInv, TransferInv, ProgramInv
  <2>2. ~Unharmed'
    BY <1>1, <1>2, <1>6, <1>8, <2>1 DEF Unharmed, Broken
  <2> QED  BY <1>1, <1>4, <1>5, <1>8, <2>2 DEF MapInv
<1>9. CASE fcb.fas = 2 /\ pc = "done"
  <2>1. Begun
    BY <1>2, <1>9 DEF MapInv, Unharmed
  <2>2. Transferred
    <3>1. CASE place \in Reads
      <4>1. kind = "read"
        BY <1>3, <1>9, <3>1 DEF MapInv, TransferInv
      <4> QED  BY <1>9, <3>1, <4>1 DEF Deliver, Transferred
    <3>2. CASE place \in Writes
      <4>1. kind = "write" /\ VRFYFG = 255
        BY <1>3, <1>9, <3>2 DEF MapInv, TransferInv
      <4>2. media = "new"
        BY <1>9, <4>1, DriverAssumption DEF IInv, WriteTrusted, Reliable
      <4> QED  BY <3>2, <4>1, <4>2 DEF Deliver, Transferred
    <3> QED  BY <1>2, <1>9, <3>1, <3>2 DEF MapInv, ProgramInv
  <2>3. Begun'
    BY <1>1, <1>2, <2>1, <2>2, BegunTransfer
  <2> QED  BY <1>1, <1>4, <1>5, <1>9, <2>3 DEF MapInv
<1> QED  BY <1>1, <1>7, <1>8, <1>9

\* The end of a chain is no sector of the disk.
LEMMA NilNoAddress == Nil \notin Addr
  BY MapAssumption DEF Nil, Addr

\* The first sector of the file is assigned, or the disk is full.
LEMMA WriteFirstKeepsMap ==
  ASSUME MapInv, WriteFirst
  PROVE  MapInv'
<1>0. /\ BlockShape /\ TransferInv /\ Begun
      /\ pc = "idle" /\ order = "none" /\ place = "program" /\ fcb.fas = 2 /\ op' = "write"
      /\ fcb.fsa = Nil /\ rest' = 2 /\ pc' = "idle" /\ VRFYFG' = 255
      /\ disk' = disk /\ avail' = avail /\ fsb' = fsb /\ written' = written
  BY DEF WriteFirst, Call, MapInv, TransferInv, Unharmed, retryVars
<1>1. Blank
  BY <1>0, NilNoAddress DEF Begun, FirstAssigned, FirstLinked, SecondAssigned, SecondLinked,
    RecordAssigned, Assigning, Linking, Writing, SectorsOK
<1>2. PICK b : b = [fcb EXCEPT !.fmp = 0]
  OBVIOUS
<1>3. /\ b = [fas |-> 2, fmp |-> 0, fsa |-> Nil, fea |-> fcb.fea, fcs |-> fcb.fcs,
              frn |-> 0, flr |-> fcb.flr, sbc |-> fcb.sbc, fnk |-> fcb.fnk, off |-> fcb.off]
  BY <1>0, <1>1, <1>2 DEF BlockShape, Blank
<1>4. Assign(b)
  BY <1>2 DEF WriteFirst
<1>5. CASE avail = <<>>
  <2>1. fcb' = b /\ order' = order /\ place' = "abandoned"
    BY <1>3, <1>4, <1>5 DEF Assign
  <2>2. BlockShape' /\ ~Unharmed' /\ fcb'.fas = 2
    BY <1>3, <2>1 DEF BlockShape, Unharmed
  <2>3. TransferInv' /\ ProgramInv'
    BY <1>0, <2>1, <2>2 DEF TransferInv, ProgramInv, Reads, Writes
  <2> QED  BY <2>2, <2>3 DEF MapInv
<1>6. CASE avail # <<>>
  <2>1. PICK h : h = Head(avail)
    OBVIOUS
  <2>2. h \in Addr /\ Fresh(Tail(avail), {h})
    <3>1. h \in Addr /\ Fresh(Tail(avail), {} \cup {h})
      BY <1>1, <1>6, <2>1, FreshLess, Zenon DEF Blank
    <3>2. {} \cup {h} = {h}
      OBVIOUS
    <3> QED  BY <3>1, <3>2, Zenon
  <2>3. /\ order' = "read" /\ place' = "assigned"
        /\ fcb' = [fas |-> 2, fmp |-> 0, fsa |-> h, fea |-> h, fcs |-> h,
              frn |-> 0, flr |-> fcb.flr, sbc |-> fcb.sbc, fnk |-> fcb.fnk, off |-> fcb.off]
    BY <1>3, <1>4, <1>6, <2>1 DEF Assign
  <2>4. BlockShape' /\ fcb'.fas = 2
    BY <2>3 DEF BlockShape
  <2>5. TransferInv' /\ ProgramInv'
    BY <1>0, <2>3, <2>4 DEF TransferInv, ProgramInv, Reads, Writes, Waits
  <2>6. FirstAssigned'
    BY <1>0, <1>1, <1>6, <2>1, <2>2, <2>3 DEF FirstAssigned, Assigning, Blank, Unnumbered, OnDisk
  <2> QED  BY <2>4, <2>5, <2>6 DEF MapInv, Begun
<1> QED  BY <1>5, <1>6

\* The full buffer goes to the disk.
LEMMA WriteNextKeepsMap ==
  ASSUME MapInv, WriteNext
  PROVE  MapInv'
<1>0. /\ BlockShape /\ Begun /\ fcb.fsa # Nil
      /\ pc = "idle" /\ order = "none" /\ place = "program" /\ fcb.fas = 2 /\ op' = "write"
      /\ order' = "write" /\ place' = "linked" /\ pc' = "idle" /\ VRFYFG' = 255
      /\ fsb' = [fsb EXCEPT !.link = NextLink]
      /\ disk' = disk /\ avail' = avail /\ fcb' = fcb /\ written' = written
  BY DEF WriteNext, Link, NextLink, Call, MapInv, TransferInv, Unharmed, retryVars
<1>1. PICK p, T, b, d : Writing(p, T, b, d)
  BY <1>0 DEF Begun, FirstAssigned, FirstLinked, SecondAssigned, SecondLinked,
    RecordAssigned, Assigning, Linking, Blank
<1>2. BlockShape' /\ TransferInv' /\ ProgramInv'
  BY <1>0 DEF BlockShape, TransferInv, ProgramInv, Reads, Writes, Waits
<1>3. SectorsOK(p, T)'
  BY <1>0, <1>1 DEF Writing, SectorsOK, Pending, Unused, Taken
<1>4. ChainOK(p, T)'
  BY <1>0, <1>1 DEF Writing, ChainOK, Unnumbered, OnDisk
<1>5. EntriesOK(p, T, b, d)'
  BY <1>0, <1>1 DEF Writing, EntriesOK, OnDisk
<1>6. GrowingOK(T, b[d])'
  BY <1>0, <1>1 DEF Writing, GrowingOK, Grown, Pending
<1>7. BufferOK'
  <2>1. fsb = Record(Nil) /\ fcb.fcs = fcb.fea
    BY <1>0, <1>1 DEF Writing, BufferOK
  <2>2. fsb' = Record(NextLink)
    BY <1>0, <2>1 DEF Record
  <2>3. Record(NextLink)' = Record(NextLink)
    BY <1>0 DEF Record, NextLink
  <2> QED  BY <1>0, <2>1, <2>2, <2>3 DEF BufferOK, Ready
<1> QED  BY <1>0, <1>2, <1>3, <1>4, <1>5, <1>6, <1>7 DEF MapInv, Begun, Writing

\* The map has two sectors of at least one entry each.
LEMMA MapSizes ==
  /\ PerSector \in Nat /\ PerSector # 0
  /\ MapSize = PerSector + PerSector /\ MapSize \in Nat
  BY MapAssumption DEF MapSize

\* Not all entries are written, and those that are name part of the chain.
LEMMA EntriesNumbers ==
  ASSUME NEW p, NEW T, NEW b, NEW d, EntriesOK(p, T, b, d), Len(T) \in Nat
  PROVE  d \in Nat /\ d < MapSize /\ b[d] \in 0 .. Len(T)
<1>1. d \in 0 .. (MapSize - 1)
  BY DEF EntriesOK
<1>2. d \in Nat /\ d < MapSize
  BY <1>1, MapSizes
<1>3. d \in 0 .. d
  BY <1>2
<1> QED  BY <1>2, <1>3 DEF EntriesOK, Ledger

\* The growing entry, when the chain gets another sector: it stays right, and
\* it may take in that sector if that follows the last one.
LEMMA NamesAppend ==
  ASSUME NEW S, NEW T \in Seq(S), NEW x \in S, NEW a \in Nat, NEW e, NEW n \in Nat,
         n # 0, e.count = n, Names(e, T, a), a + n = Len(T)
  PROVE  /\ Names(e, Append(T, x), a)
         /\ \A f : /\ f.at = e.at /\ f.count = n + 1 /\ Following(T[Len(T)]) = x
                   => Names(f, Append(T, x), a)
<1>1. PICK u \in Seq(S) : u = Append(T, x) /\ Len(u) = Len(T) + 1 /\ Len(T) \in Nat
                          /\ (\A j \in 1 .. Len(T) : u[j] = T[j]) /\ u[Len(T) + 1] = x
  <2>1. /\ Append(T, x) \in Seq(S) /\ Len(Append(T, x)) = Len(T) + 1 /\ Len(T) \in Nat
        /\ \A j \in 1 .. Len(T) : Append(T, x)[j] = T[j]
        /\ Append(T, x)[Len(T) + 1] = x
    OBVIOUS
  <2> QED  BY <2>1, Zenon
<1>2. /\ e.at = T[a + 1]
      /\ \A j \in 1 .. (n - 1) : T[a + j + 1] = Following(T[a + j])
  BY DEF Names
<1>3. a + 1 \in 1 .. Len(T) /\ \A j \in 1 .. (n - 1) : a + j \in 1 .. Len(T) /\ a + j + 1 \in 1 .. Len(T)
  BY <1>1
<1>4. e.at = u[a + 1] /\ \A j \in 1 .. (n - 1) : u[a + j + 1] = Following(u[a + j])
  BY <1>1, <1>2, <1>3
<1>5. Names(e, u, a)
  BY <1>4 DEF Names
<1>6. ASSUME NEW f, f.at = e.at, f.count = n + 1, Following(T[Len(T)]) = x
      PROVE  Names(f, u, a)
  <2>1. ASSUME NEW j \in 1 .. n
        PROVE  u[a + j + 1] = Following(u[a + j])
    <3>1. CASE j = n
      <4>1. a + j = Len(T) /\ Len(T) \in 1 .. Len(T)
        BY <1>1, <3>1
      <4> QED  BY <1>1, <1>6, <4>1
    <3>2. CASE j # n
      <4>1. j \in 1 .. (n - 1)
        BY <3>2
      <4> QED  BY <1>4, <4>1
    <3> QED  BY <3>1, <3>2
  <2>2. (n + 1) - 1 = n /\ n + 1 \in Nat
    OBVIOUS
  <2> QED  BY <1>4, <1>6, <2>1, <2>2 DEF Names
<1> QED  BY <1>1, <1>5, <1>6, Zenon

\* The assigned sector joins the records of the file.
LEMMA SectorsMore ==
  ASSUME NEW p, NEW T, SectorsOK(p, T), ~Pending, avail # <<>>,
         Pending', avail' = avail, fcb'.fmp = 2, fcb'.fsa = fcb.fsa, fcb'.fea = Head(avail),
         fcb'.frn = fcb.frn, written' = written
  PROVE  /\ SectorsOK(p, Append(T, Head(avail)))'
         /\ Head(avail) \in Addr
<1>1. PICK h : h = Head(avail)
  OBVIOUS
<1>2. /\ T \in Seq(Addr) /\ Len(T) \in Nat /\ Len(T) # 0
      /\ fcb.fsa \in Addr /\ p \in Addr
      /\ fcb.fsa # p /\ fcb.fsa \notin Records(T) /\ p \notin Records(T)
      /\ written = fcb.frn /\ fcb.frn \in Nat \ {0} /\ fcb.frn = Len(T)
      /\ \A i, j \in 1 .. Len(T) : T[i] = T[j] => i = j
      /\ Fresh(avail, Taken(p, T))
  BY DEF SectorsOK, Unused
<1>3. h \in Addr /\ h \notin Taken(p, T) /\ Fresh(Tail(avail), Taken(p, T) \cup {h})
  BY <1>1, <1>2, FreshLess, Zenon
<1>4. PICK u \in Seq(Addr) : u = Append(T, h) /\ Len(u) = Len(T) + 1 /\ Len(u) \in Nat
                          /\ (\A j \in 1 .. Len(T) : u[j] = T[j]) /\ u[Len(T) + 1] = h
  <2>1. /\ Append(T, h) \in Seq(Addr) /\ Len(Append(T, h)) = Len(T) + 1
        /\ Len(Append(T, h)) \in Nat
        /\ \A j \in 1 .. Len(T) : Append(T, h)[j] = T[j]
        /\ Append(T, h)[Len(T) + 1] = h
    BY <1>2, <1>3
  <2> QED  BY <2>1, Zenon
<1>5. Records(u) = Records(T) \cup {h}
  <2>1. \A k \in 1 .. Len(u) : k \in 1 .. Len(T) \/ k = Len(T) + 1
    BY <1>2, <1>4
  <2>2. \A k \in 1 .. Len(T) : k \in 1 .. Len(u)
    BY <1>2, <1>4
  <2>3. Len(T) + 1 \in 1 .. Len(u)
    BY <1>2, <1>4
  <2> QED  BY <1>4, <2>1, <2>2, <2>3 DEF Records
<1>6. Taken(p, u) = Taken(p, T) \cup {h}
  BY <1>5 DEF Taken
<1>7. h # fcb.fsa /\ h # p /\ \A k \in 1 .. Len(T) : T[k] # h
  BY <1>3 DEF Taken, Records
<1>8. \A i, j \in 1 .. Len(u) : u[i] = u[j] => i = j
  <2>1. \A k \in 1 .. Len(u) : k \in 1 .. Len(T) \/ k = Len(T) + 1
    BY <1>2, <1>4
  <2> QED  BY <1>2, <1>4, <1>7, <2>1
<1>9. fcb.fsa \notin Records(u) /\ p \notin Records(u)
  BY <1>2, <1>5, <1>7
<1>10. Taken(p, u)' = Taken(p, u)
  BY DEF Taken
<1>11. Unused' = Tail(avail)
  BY DEF Unused
<1>12. Fresh(Unused', Taken(p, u)')
  BY <1>3, <1>6, <1>10, <1>11, Zenon
<1>13. u # <<>> /\ u[Len(u)] = h
  BY <1>2, <1>4
<1>14. Len(u) - 1 = fcb.frn
  BY <1>2, <1>4
<1>15. SectorsOK(p, u)'
  BY <1>1, <1>2, <1>4, <1>8, <1>9, <1>12, <1>13, <1>14 DEF SectorsOK
<1> QED  BY <1>1, <1>3, <1>4, <1>15, Zenon

\* ASNNXT gets the next sector: the growing entry takes it in, or is put on the disk
\* first.
LEMMA LinkedKeepsMap ==
  ASSUME MapInv, Linked
  PROVE  MapInv'
<1>0. /\ BlockShape /\ Begun /\ fcb.fas = 2
      /\ Ready /\ place = "linked" /\ op = "write"
      /\ pc = "idle" /\ order = "none" /\ pc' = "idle" /\ VRFYFG' = 255 /\ status' = "ok"
      /\ Assign(fcb)
      /\ op' = op /\ rest' = rest
      /\ disk' = disk /\ avail' = avail /\ fsb' = fsb /\ written' = written
  BY DEF Linked, Behind, MapInv, TransferInv, ProgramInv, Unharmed, Ready, Broken, retryVars
<1>1. \A a : OnDisk(a)' = OnDisk(a)
  BY <1>0 DEF OnDisk
<1>2. FirstLinked \/ SecondLinked \/ \E p, T, b, d : Writing(p, T, b, d)
  BY <1>0 DEF Begun, Blank, FirstAssigned, SecondAssigned, RecordAssigned, Assigning
<1>3. ASSUME place' = "abandoned", fcb' = fcb, order' = order
      PROVE  MapInv'
  <2>1. BlockShape' /\ ~Unharmed'
    BY <1>0, <1>3 DEF BlockShape, Unharmed
  <2>2. TransferInv' /\ ProgramInv'
    BY <1>0, <1>3 DEF TransferInv, ProgramInv, Reads, Writes
  <2> QED  BY <1>0, <1>3, <2>1, <2>2 DEF MapInv
<1>4. ASSUME place' \in {"assigned", "entry"}, BlockShape', order' = "read", fcb'.fas = 2, Begun'
      PROVE  MapInv'
  <2>1. TransferInv' /\ ProgramInv'
    BY <1>0, <1>4 DEF TransferInv, ProgramInv, Reads, Writes, Waits
  <2> QED  BY <1>4, <2>1 DEF MapInv
<1>5. PICK h : h = Head(avail)
  OBVIOUS
<1>6. CASE FirstLinked \/ SecondLinked
  <2>0. /\ fcb.fmp = 0 /\ fcb.frn = 0 /\ written = 0 /\ fcb.fsa \in Addr /\ fcb.fea \in Addr
        /\ OnDisk(fcb.fea) = Empty(NextLink)
    BY <1>0, <1>6 DEF FirstLinked, SecondLinked, Linking
  <2>1. CASE avail = <<>>
    BY <1>0, <1>3, <2>0, <2>1 DEF Assign
  <2>2. CASE avail # <<>>
    <3>1. fcb.fsa # Nil
      BY <2>0, NilNoAddress
    <3>2. /\ order' = "read" /\ place' = "assigned"
          /\ fcb' = [fas |-> 2, fmp |-> 0, fsa |-> fcb.fsa, fea |-> h, fcs |-> h,
                frn |-> 0, flr |-> fcb.flr, sbc |-> fcb.sbc, fnk |-> fcb.fnk, off |-> fcb.off]
      BY <1>0, <1>5, <2>0, <2>2, <3>1 DEF Assign, BlockShape
    <3>3. BlockShape' /\ fcb'.fas = 2
      BY <3>2 DEF BlockShape
    <3>4. OnDisk(fcb.fea) = Empty(h)
      BY <1>5, <2>0, <2>2 DEF NextLink
    <3>5. CASE FirstLinked
      <4>1. h \in Addr /\ h \notin {fcb.fsa} /\ Fresh(Tail(avail), {fcb.fsa} \cup {h})
        BY <1>5, <2>2, <3>5, FreshLess, Zenon DEF FirstLinked
      <4>2. {fcb.fsa} \cup {h} = {fcb.fsa, h}
        OBVIOUS
      <4>3. Fresh(Tail(avail), {fcb.fsa, h})
        BY <4>1, <4>2, Zenon
      <4>4. Assigning(1)'
        BY <1>0, <1>5, <2>0, <2>2, <3>2, <3>5, <4>1 DEF Assigning, FirstLinked, Linking, Unnumbered, OnDisk
      <4>5. SecondAssigned'
        BY <1>0, <1>1, <3>2, <3>4, <3>5, <4>1, <4>3, <4>4 DEF SecondAssigned, FirstLinked, Empty
      <4> QED  BY <1>4, <3>2, <3>3, <4>5 DEF Begun
    <3>6. CASE SecondLinked
      <4>0. fcb.fea # fcb.fsa /\ OnDisk(fcb.fsa) = Empty(fcb.fea)
        BY <3>6 DEF SecondLinked
      <4>1. h \in Addr /\ h \notin {fcb.fsa, fcb.fea} /\ Fresh(Tail(avail), {fcb.fsa, fcb.fea} \cup {h})
        BY <1>5, <2>2, <3>6, FreshLess, Zenon DEF SecondLinked
      <4>2. {fcb.fsa, fcb.fea} \cup {h} = {fcb.fsa, fcb.fea, h}
        OBVIOUS
      <4>3. Fresh(Tail(avail), {fcb.fsa, fcb.fea, h})
        BY <4>1, <4>2, Zenon
      <4>4. Assigning(0)'
        BY <1>0, <1>5, <2>0, <2>2, <3>2, <3>6, <4>1 DEF Assigning, SecondLinked, Linking, Unnumbered, OnDisk
      <4>5. PICK p : p = fcb.fea
        OBVIOUS
      <4>6. RecordAssigned(p)'
        BY <1>0, <1>1, <2>0, <3>2, <3>4, <4>0, <4>1, <4>3, <4>4, <4>5 DEF RecordAssigned, Empty
      <4> QED  BY <1>4, <3>2, <3>3, <4>6 DEF Begun
    <3> QED  BY <1>6, <3>5, <3>6
  <2> QED  BY <2>1, <2>2
<1>7. ASSUME NEW p, NEW T, NEW b, NEW d, Writing(p, T, b, d)
      PROVE  MapInv'
  <2>0. SectorsOK(p, T) /\ ChainOK(p, T) /\ EntriesOK(p, T, b, d) /\ GrowingOK(T, b[d]) /\ BufferOK
    BY <1>7 DEF Writing
  <2>1. ~Pending
    BY <1>0 DEF Pending
  <2>2. /\ fcb.fmp = 2 /\ fcb.fcs = fcb.fea /\ fcb.fsa # Nil
        /\ fsb = Record(NextLink) /\ OnDisk(fcb.fea) = fsb
    BY <1>0, <2>0, NilNoAddress DEF BufferOK, SectorsOK
  <2>3. CASE avail = <<>>
    <3>1. fcb' = fcb /\ place' = "program" /\ order' = order
      BY <1>0, <2>2, <2>3 DEF Assign
    <3>2. BlockShape' /\ TransferInv' /\ ProgramInv'
      BY <1>0, <3>1 DEF BlockShape, TransferInv, ProgramInv, Reads, Writes
    <3>3. SectorsOK(p, T)'
      BY <1>0, <2>0, <3>1 DEF SectorsOK, Pending, Unused, Taken
    <3>4. ChainOK(p, T)'
      BY <1>0, <1>1, <2>0, <3>1 DEF ChainOK, Unnumbered, Unnumbered
    <3>5. EntriesOK(p, T, b, d)'
      BY <1>0, <1>1, <2>0, <3>1 DEF EntriesOK
    <3>6. GrowingOK(T, b[d])'
      BY <1>0, <2>0, <3>1 DEF GrowingOK, Grown, Pending
    <3>7. BufferOK'
      BY <1>0, <2>2, <2>3, <3>1 DEF BufferOK, Record, NextLink
    <3> QED  BY <1>0, <3>1, <3>2, <3>3, <3>4, <3>5, <3>6, <3>7 DEF MapInv, Begun, Writing
  <2>4. CASE avail # <<>>
    <3>1. PICK u : u = Append(T, h)
      OBVIOUS
    <3>2. /\ order' = "read"
          /\ \/ /\ Following(fcb.fea) = h /\ fcb.sbc # MaxRun /\ place' = "assigned"
                /\ fcb' = [fas |-> 2, fmp |-> 2, fsa |-> fcb.fsa, fea |-> h, fcs |-> h,
                           frn |-> fcb.frn, flr |-> fcb.flr, sbc |-> (fcb.sbc + 1) % (MaxRun + 1),
                           fnk |-> fcb.fnk, off |-> fcb.off]
             \/ /\ place' = "entry"
                /\ fcb' = [fas |-> 2, fmp |-> 2, fsa |-> fcb.fsa, fea |-> h, fcs |-> fcb.fnk,
                           frn |-> fcb.frn, flr |-> fcb.flr, sbc |-> fcb.sbc,
                           fnk |-> fcb.fnk, off |-> fcb.off]
      <4>1. PICK e : e = [[fcb EXCEPT !.fea = Head(avail)]
                             EXCEPT !.fsa = IF @ = Nil THEN Head(avail) ELSE @]
        OBVIOUS
      <4>2. e = [fas |-> 2, fmp |-> 2, fsa |-> fcb.fsa, fea |-> h, fcs |-> fcb.fea,
                 frn |-> fcb.frn, flr |-> fcb.flr, sbc |-> fcb.sbc, fnk |-> fcb.fnk, off |-> fcb.off]
        BY <1>0, <1>5, <2>2, <4>1 DEF BlockShape
      <4>3. /\ order' = "read"
            /\ IF e.fmp = 0 \/ Contiguous(e)
               THEN /\ fcb' = [(IF e.fmp = 0 THEN e ELSE Longer(e)) EXCEPT !.fcs = e.fea]
                    /\ place' = "assigned"
               ELSE /\ fcb' = [e EXCEPT !.fcs = e.fnk]
                    /\ place' = "entry"
        BY <1>0, <2>4, <4>1, Zenon DEF Assign
      <4>4. CASE Contiguous(e)
        <5>1. fcb' = [Longer(e) EXCEPT !.fcs = e.fea] /\ place' = "assigned"
          BY <4>2, <4>3, <4>4
        <5>2. Following(fcb.fea) = h /\ fcb.sbc # MaxRun
          BY <4>2, <4>4 DEF Contiguous
        <5> QED  BY <4>2, <4>3, <5>1, <5>2 DEF Longer
      <4>5. CASE ~Contiguous(e)
        BY <4>2, <4>3, <4>5
      <4> QED  BY <4>4, <4>5
    <3>3. BlockShape' /\ fcb'.fas = 2
      BY <3>2 DEF BlockShape
    <3>4. /\ place' \in {"assigned", "entry"} /\ fcb'.fmp = 2 /\ fcb'.fsa = fcb.fsa
          /\ fcb'.fea = h /\ fcb'.frn = fcb.frn /\ fcb'.fnk = fcb.fnk /\ fcb'.off = fcb.off
          /\ fcb'.flr = fcb.flr
      BY <3>2
    <3>5. Pending'
      BY <1>0, <3>4 DEF Pending
    <3>6. SectorsOK(p, u)' /\ h \in Addr
      BY <1>0, <1>5, <2>0, <2>1, <2>4, <3>1, <3>4, <3>5, SectorsMore
    <3>7. /\ T \in Seq(Addr) /\ Len(T) \in Nat /\ Len(T) # 0 /\ fcb.frn = Len(T)
          /\ T[Len(T)] = fcb.fea
      BY <2>0, <2>1 DEF SectorsOK
    <3>8. /\ Len(u) = Len(T) + 1 /\ \A j \in 1 .. Len(T) : u[j] = T[j]
          /\ u[Len(T) + 1] = h
      <4>1. /\ Len(Append(T, h)) = Len(T) + 1
            /\ \A j \in 1 .. Len(T) : Append(T, h)[j] = T[j]
            /\ Append(T, h)[Len(T) + 1] = h
        BY <3>6, <3>7
      <4> QED  BY <3>1, <4>1, Zenon
    <3>9. ChainOK(p, u)'
      <4>1. OnDisk(fcb.fea).lrn = Len(T) /\ OnDisk(fcb.fea).link = h
        BY <1>5, <2>2, <2>4, <3>7 DEF Record, NextLink
      <4>2. \A k \in 1 .. Len(T) : OnDisk(T[k]).lrn = k /\ OnDisk(T[k]).link = u[k + 1]
        <5> SUFFICES ASSUME NEW k \in 1 .. Len(T)
                     PROVE  OnDisk(T[k]).lrn = k /\ OnDisk(T[k]).link = u[k + 1]
          OBVIOUS
        <5>1. CASE k = Len(T)
          BY <3>7, <3>8, <4>1, <5>1
        <5>2. CASE k # Len(T)
          <6>1. k \in 1 .. (Len(T) - 1) /\ k + 1 \in 1 .. Len(T)
            BY <3>7, <5>2
          <6> QED  BY <2>0, <3>8, <6>1 DEF ChainOK, Unnumbered
        <5> QED  BY <5>1, <5>2
      <4>3. Len(u) - 1 = Len(T) /\ 1 \in 1 .. Len(T)
        BY <3>7, <3>8
      <4>4. Unnumbered(Records(u))'
        <5>1. \A k \in 1 .. Len(T) : k \in 1 .. Len(u) /\ u[k] = T[k]
          BY <3>7, <3>8
        <5>2. \A a : a \notin Records(u) => a \notin Records(T)
          BY <5>1 DEF Records
        <5>3. Unnumbered(Records(T)) /\ Records(u)' = Records(u)
          BY <2>0 DEF ChainOK, Records
        <5> QED  BY <1>1, <5>2, <5>3 DEF Unnumbered
      <4> QED  BY <1>0, <1>1, <2>0, <3>4, <3>8, <4>2, <4>3, <4>4 DEF ChainOK
    <3>10. EntriesOK(p, u, b, d)'
      <4>1. d \in Nat
        BY <2>0, <3>7, EntriesNumbers
      <4>2. PICK m1, m2 : m1 = OnDisk(fcb.fsa).map /\ m2 = OnDisk(p).map
        OBVIOUS
      <4>3. Ledger(m1, m2, T, b, d)
        BY <2>0, <4>2 DEF EntriesOK
      <4>4. Ledger(m1, m2, u, b, d)
        BY <3>1, <3>6, <3>7, <4>1, <4>3, LedgerAppend
      <4>5. m1 = OnDisk(fcb.fsa)'.map /\ m2 = OnDisk(p)'.map
        BY <1>1, <3>4, <4>2
      <4> QED  BY <1>0, <2>0, <3>4, <4>2, <4>4, <4>5 DEF EntriesOK
    <3>11. GrowingOK(u, b[d])'
      <4>1. /\ fcb.sbc \in 1 .. MaxRun /\ fcb.flr \in Addr /\ b[d] + fcb.sbc = Len(T)
            /\ Names(Grown, T, b[d])
        BY <1>0, <2>0 DEF GrowingOK, Pending
      <4>2. b[d] \in Nat
        <5>1. b[d] \in 0 .. Len(T)
          BY <2>0, <3>7, EntriesNumbers
        <5> QED  BY <3>7, <5>1
      <4>3. PICK n \in Nat : n = fcb.sbc /\ n # 0
        BY <4>1
      <4>4. PICK e : e = Grown
        OBVIOUS
      <4>5. PICK a \in Nat : a = b[d]
        BY <4>2
      <4>6. e.count = n /\ e.at = fcb.flr /\ Names(e, T, a) /\ a + n = Len(T)
        BY <4>1, <4>3, <4>4, <4>5 DEF Grown
      <4>7. Names(e, u, a)
        BY <3>1, <3>6, <3>7, <4>3, <4>6, NamesAppend
      <4>8. CASE place' = "entry"
        <5>1. fcb'.sbc = fcb.sbc
          BY <3>2, <4>8
        <5>2. Grown' = e
          BY <3>4, <4>4, <5>1 DEF Grown
        <5> QED  BY <3>4, <3>5, <3>7, <3>8, <4>1, <4>5, <4>7, <4>8, <5>1, <5>2 DEF GrowingOK
      <4>9. CASE place' = "assigned"
        <5>1. fcb'.sbc = n + 1 /\ n + 1 \in 1 .. MaxRun /\ Following(T[Len(T)]) = h
          <6>1. fcb'.sbc = (fcb.sbc + 1) % (MaxRun + 1) /\ Following(fcb.fea) = h /\ fcb.sbc # MaxRun
            BY <3>2, <4>9
          <6>2. n + 1 \in 1 .. MaxRun /\ MaxRun \in Nat
            BY <4>1, <4>3, <6>1, MapAssumption
          <6>3. (n + 1) % (MaxRun + 1) = n + 1
            BY <6>2
          <6> QED  BY <3>7, <4>3, <6>1, <6>2, <6>3
        <5>2. PICK f : f = Grown'
          OBVIOUS
        <5>3. f.at = e.at /\ f.count = n + 1
          BY <3>4, <4>6, <5>1, <5>2 DEF Grown
        <5>4. Names(f, u, a)
          BY <3>1, <3>6, <3>7, <4>3, <4>6, <5>1, <5>3, NamesAppend
        <5>5. a + fcb'.sbc = Len(u)
          BY <3>8, <4>6, <5>1
        <5> QED  BY <3>4, <4>1, <4>5, <4>9, <5>1, <5>2, <5>4, <5>5 DEF GrowingOK
      <4> QED  BY <3>4, <4>8, <4>9
    <3>12. BufferOK'
      <4>1. CASE place' = "assigned"
        <5>1. fcb'.fcs = h
          BY <3>2, <4>1
        <5> QED  BY <3>4, <4>1, <5>1 DEF BufferOK
      <4>2. CASE place' = "entry"
        <5>1. fcb'.fcs = fcb.fnk
          BY <3>2, <4>2
        <5>2. ~Ready'
          BY <3>2 DEF Ready
        <5> QED  BY <3>4, <4>2, <5>1, <5>2 DEF BufferOK
      <4> QED  BY <3>4, <4>1, <4>2
    <3>13. Writing(p, u, b, d)'
      BY <3>6, <3>9, <3>10, <3>11, <3>12 DEF Writing
    <3>14. Begun'
      BY <3>13 DEF Begun
    <3> QED  BY <1>4, <3>2, <3>3, <3>4, <3>14
  <2> QED  BY <2>3, <2>4
<1> QED  BY <1>2, <1>6, <1>7

\* With the first record the file has its map: two empty sectors, and the
\* growing entry names that record.
LEMMA FirstRecord ==
  ASSUME NEW p, RecordAssigned(p), place' = "program", disk' = disk, avail' = Tail(avail),
         written' = 1, fsb' = Record(Nil)',
         fcb' = [fas |-> 2, fmp |-> 2, fsa |-> fcb.fsa, fea |-> fcb.fea, fcs |-> fcb.fea,
                 frn |-> 1, flr |-> fcb.fea, sbc |-> 1, fnk |-> fcb.fsa, off |-> 1]
  PROVE  Begun'
<1>0. /\ fcb.fsa \in Addr /\ fcb.fea \in Addr /\ p \in Addr /\ p # fcb.fsa /\ fcb.fea # fcb.fsa
      /\ fcb.fea # p /\ Fresh(Tail(avail), {fcb.fsa, p, fcb.fea})
      /\ OnDisk(fcb.fsa) = Empty(p) /\ OnDisk(p) = Empty(fcb.fea)
      /\ \A a : OnDisk(a).lrn = 0
  BY DEF RecordAssigned, Assigning, Unnumbered
<1>1. \A a : OnDisk(a)' = OnDisk(a)
  BY DEF OnDisk
<1>2. PICK x \in Addr : x = fcb.fea
  BY <1>0
<1>3. PICK T \in Seq(Addr) : /\ T = <<x>> /\ Len(T) = 1 /\ T[1] = x /\ T # <<>>
  <2>1. <<x>> \in Seq(Addr) /\ Len(<<x>>) = 1 /\ <<x>>[1] = x /\ <<x>> # <<>>
    OBVIOUS
  <2> QED  BY <2>1, Zenon
<1>4. PICK b : b[0] = 0
  <2>1. [i \in {0} |-> 0][0] = 0
    OBVIOUS
  <2> QED  BY <2>1, Zenon
<1>5. PICK a \in Addr : a = fcb.fsa
  BY <1>0
<1>6. Records(T) = {x}
  BY <1>3 DEF Records
<1>7. Taken(p, T)' = {a, p, x}
  BY <1>5, <1>6 DEF Taken, Records
<1>8. ~Pending' /\ Unused' = Tail(avail)
  BY DEF Pending, Unused
<1>9. SectorsOK(p, T)'
  <2>1. Fresh(Unused', Taken(p, T)')
    BY <1>0, <1>2, <1>5, <1>7, <1>8, Zenon
  <2> QED  BY <1>0, <1>2, <1>3, <1>5, <1>6, <1>8, <2>1 DEF SectorsOK, Records
<1>10. ChainOK(p, T)'
  <2>1. Zeros \in Entries
    BY DEF Zeros, Entries, Places, NoEntry, Nil
  <2>2. \A y \in Addr : Empty(y) \in Sheet
    BY <2>1 DEF Empty, Sheet, Addr
  <2>3. Unnumbered(Records(T))'
    BY <1>0, <1>1 DEF Unnumbered
  <2> QED  BY <1>0, <1>1, <1>2, <1>3, <2>2, <2>3 DEF ChainOK, Empty
<1>11. EntriesOK(p, T, b, 0)'
  <2>1. Ledger(OnDisk(fcb.fsa).map, OnDisk(p).map, T, b, 0)'
    BY <1>3, <1>4 DEF Ledger
  <2>2. OnDisk(fcb.fsa)'.map = Zeros /\ OnDisk(p)'.map = Zeros
    BY <1>0, <1>1 DEF Empty
  <2>3. ASSUME NEW i \in 1 .. MapSize
        PROVE  EntryOf(OnDisk(fcb.fsa).map, OnDisk(p).map, i)' = NoEntry
    <3>1. i \in 1 .. PerSector \/ (i - PerSector \in 1 .. PerSector /\ ~(i <= PerSector))
      BY MapSizes
    <3>2. \A j \in 1 .. PerSector : Zeros[j] = NoEntry
      BY DEF Zeros
    <3> QED  BY <2>2, <3>1, <3>2 DEF EntryOf
  <2>4. 0 \in 0 .. (MapSize - 1) /\ 0 < PerSector /\ 0 + 1 \in 1 .. MapSize
        /\ \A i \in (0 + 2) .. MapSize : i \in 1 .. MapSize
    BY MapSizes
  <2>5. fcb'.fnk = fcb'.fsa /\ fcb'.off = 0 + 1
    OBVIOUS
  <2> QED  BY <2>1, <2>3, <2>4, <2>5 DEF EntriesOK
<1>12. GrowingOK(T, b[0])'
  <2>1. Names(Grown, T, 0)'
    BY <1>2, <1>3 DEF Names, Grown
  <2>2. 1 \in 1 .. MaxRun
    BY MapAssumption
  <2> QED  BY <1>0, <1>3, <1>4, <1>8, <2>1, <2>2 DEF GrowingOK
<1>13. BufferOK'
  BY DEF BufferOK
<1>14. Writing(p, T, b, 0)'
  BY <1>9, <1>10, <1>11, <1>12, <1>13 DEF Writing
<1> QED  BY <1>14 DEF Begun

\* The new sector is the next one of the map, or the file's next record.
LEMMA AssignedKeepsMap ==
  ASSUME MapInv, Assigned
  PROVE  MapInv'
<1>0. /\ BlockShape /\ Begun /\ fcb.fas = 2
      /\ Ready /\ place = "assigned" /\ op = "write"
      /\ pc = "idle" /\ order = "none" /\ pc' = "idle" /\ VRFYFG' = 255 /\ status' = "ok"
      /\ op' = op
      /\ disk' = disk /\ avail' = Tail(avail)
  BY DEF Assigned, Behind, MapInv, TransferInv, ProgramInv, Unharmed, Ready, Broken, retryVars
<1>1. \A a : OnDisk(a)' = OnDisk(a)
  BY <1>0 DEF OnDisk
<1>2. \/ FirstAssigned \/ SecondAssigned \/ \E p : RecordAssigned(p)
      \/ \E p, T, b, d : Writing(p, T, b, d)
  BY <1>0 DEF Begun, Blank, FirstLinked, SecondLinked, Linking
<1>3. PICK e : e = [fcb EXCEPT !.frn = fcb.frn + 1]
  OBVIOUS
<1>4. e = [fas |-> 2, fmp |-> fcb.fmp, fsa |-> fcb.fsa, fea |-> fcb.fea, fcs |-> fcb.fcs,
           frn |-> fcb.frn + 1, flr |-> fcb.flr, sbc |-> fcb.sbc, fnk |-> fcb.fnk, off |-> fcb.off]
  BY <1>0, <1>3 DEF BlockShape
<1>5. PICK r : r = [link |-> Nil, lrn |-> e.frn, map |-> RecordData]
  OBVIOUS
<1>6. CASE FirstAssigned \/ SecondAssigned
  <2>0. /\ fcb.fmp = 0 /\ fcb.frn = 0 /\ written = 0 /\ fcb.fcs = fcb.fea
        /\ fcb.fsa \in Addr /\ fcb.fea \in Addr /\ rest \in {1, 2}
    BY <1>6 DEF FirstAssigned, SecondAssigned, Assigning
  <2>1. /\ fcb' = [e EXCEPT !.frn = 0]
        /\ fsb' = [Clear EXCEPT !.link = IF avail' = <<>> THEN Nil ELSE Head(avail')]
        /\ order' = "write" /\ place' = "linked" /\ rest' = rest - 1 /\ written' = written
    BY <1>3, <2>0 DEF Assigned
  <2>2. fcb' = fcb
    BY <1>0, <1>4, <2>0, <2>1 DEF BlockShape
  <2>3. fsb' = Empty(NextLink')
    BY <2>1 DEF Clear, Empty, NextLink
  <2>9. PICK left : left = rest - 1
    OBVIOUS
  <2>10. Unnumbered({})'
    BY <1>1, <1>6 DEF FirstAssigned, SecondAssigned, Assigning, Unnumbered
  <2>4. Linking(left)'
    BY <1>0, <2>10, <2>9, <2>0, <2>1, <2>2, <2>3 DEF Linking, Ready, Empty, NextLink
  <2>5. FirstAssigned => FirstLinked'
    <3>1. FirstAssigned => left = 1 /\ fcb.fea = fcb.fsa /\ Fresh(Tail(avail), {fcb.fsa})
      BY <2>9 DEF FirstAssigned, Assigning
    <3> QED  BY <1>0, <2>2, <2>4, <3>1 DEF FirstLinked
  <2>6. SecondAssigned => SecondLinked'
    <3>1. SecondAssigned => left = 0 /\ fcb.fea # fcb.fsa /\ Fresh(Tail(avail), {fcb.fsa, fcb.fea})
                            /\ OnDisk(fcb.fsa) = Empty(fcb.fea)
      BY <2>9 DEF SecondAssigned, Assigning
    <3> QED  BY <1>0, <1>1, <2>2, <2>4, <3>1 DEF SecondLinked, Empty
  <2>7. Begun'
    BY <1>6, <2>5, <2>6 DEF Begun
  <2>8. BlockShape' /\ TransferInv' /\ ProgramInv'
    BY <1>0, <2>1, <2>2 DEF BlockShape, TransferInv, ProgramInv, Reads, Writes, Waits
  <2> QED  BY <1>0, <2>2, <2>7, <2>8 DEF MapInv
<1>7. ASSUME place' = "program", order' = order, BlockShape', fcb'.fas = 2, Begun'
      PROVE  MapInv'
  <2>1. TransferInv' /\ ProgramInv'
    BY <1>0, <1>7 DEF TransferInv, ProgramInv, Reads, Writes
  <2> QED  BY <1>7, <2>1 DEF MapInv
<1>8. ASSUME NEW p, RecordAssigned(p)
      PROVE  MapInv'
  <2>0. fcb.fmp = 0 /\ fcb.frn = 0 /\ rest = 0 /\ fcb.fcs = fcb.fea
    BY <1>8 DEF RecordAssigned, Assigning
  <2>1. /\ fcb' = [NewEntry(e) EXCEPT !.fmp = 2, !.fnk = e.fsa, !.off = 1]
        /\ fsb' = r /\ written' = e.frn /\ place' = "program" /\ order' = order
    BY <1>3, <1>5, <2>0 DEF Assigned, Done
  <2>6. e = [fas |-> 2, fmp |-> 0, fsa |-> fcb.fsa, fea |-> fcb.fea, fcs |-> fcb.fea,
             frn |-> 1, flr |-> fcb.flr, sbc |-> fcb.sbc, fnk |-> fcb.fnk, off |-> fcb.off]
    <3>1. fcb.frn + 1 = 1
      BY <2>0
    <3> QED  BY <1>4, <2>0, <3>1, Zenon
  <2>2. fcb' = [fas |-> 2, fmp |-> 2, fsa |-> fcb.fsa, fea |-> fcb.fea, fcs |-> fcb.fea,
                 frn |-> 1, flr |-> fcb.fea, sbc |-> 1, fnk |-> fcb.fsa, off |-> 1]
    BY <2>1, <2>6 DEF NewEntry
  <2>3. e.frn = 1 /\ fsb' = Record(Nil)'
    <3>1. e.frn = 1
      BY <2>6
    <3>2. r = [link |-> Nil, lrn |-> 1, map |-> RecordData]
      BY <1>5, <3>1, Zenon
    <3>3. fcb'.frn = 1
      BY <2>2
    <3>4. Record(Nil)' = [link |-> Nil, lrn |-> 1, map |-> RecordData]
      BY <3>3 DEF Record, Nil
    <3> QED  BY <2>1, <3>1, <3>2, <3>4
  <2>4. Begun'
    BY <1>0, <1>8, <2>1, <2>2, <2>3, FirstRecord
  <2>5. BlockShape' /\ fcb'.fas = 2
    BY <2>2 DEF BlockShape
  <2> QED  BY <1>7, <2>1, <2>4, <2>5
<1>9. ASSUME NEW p, NEW T, NEW b, NEW d, Writing(p, T, b, d)
      PROVE  MapInv'
  <2>0. SectorsOK(p, T) /\ ChainOK(p, T) /\ EntriesOK(p, T, b, d) /\ GrowingOK(T, b[d]) /\ BufferOK
    BY <1>9 DEF Writing
  <2>1. Pending
    BY <1>0 DEF Pending
  <2>2. /\ fcb.fmp = 2 /\ fcb.fcs = fcb.fea
    BY <1>0, <2>0 DEF BufferOK, SectorsOK
  <2>3. fcb' = e /\ fsb' = r /\ written' = e.frn /\ place' = "program" /\ order' = order
    BY <1>3, <1>5, <2>2 DEF Assigned, Done
  <2>4. fsb' = Record(Nil)'
    BY <1>4, <1>5, <2>3 DEF Record
  <2>5. /\ fcb'.fas = 2 /\ fcb'.fmp = 2 /\ fcb'.fsa = fcb.fsa /\ fcb'.fea = fcb.fea
        /\ fcb'.fcs = fcb.fcs /\ fcb'.frn = fcb.frn + 1 /\ fcb'.flr = fcb.flr
        /\ fcb'.sbc = fcb.sbc /\ fcb'.fnk = fcb.fnk /\ fcb'.off = fcb.off /\ written' = fcb.frn + 1
        /\ BlockShape'
    BY <1>4, <2>2, <2>3 DEF BlockShape
  <2>6. ~Pending'
    BY <2>3 DEF Pending
  <2>7. SectorsOK(p, T)'
    <3>1. Taken(p, T)' = Taken(p, T) /\ Unused' = Unused
      BY <1>0, <2>1, <2>5, <2>6 DEF Taken, Unused
    <3>2. Len(T) \in Nat /\ fcb.frn + 1 = Len(T) /\ fcb.frn \in Nat
      BY <2>0, <2>1 DEF SectorsOK
    <3> QED  BY <2>0, <2>5, <2>6, <3>1, <3>2 DEF SectorsOK
  <2>8. ChainOK(p, T)'
    BY <1>0, <1>1, <2>0, <2>3, <2>5 DEF ChainOK, Unnumbered, Records
  <2>9. EntriesOK(p, T, b, d)'
    BY <1>0, <1>1, <2>0, <2>3, <2>5 DEF EntriesOK
  <2>10. GrowingOK(T, b[d])'
    BY <1>0, <2>0, <2>3, <2>5, <2>6 DEF GrowingOK, Grown
  <2>11. BufferOK'
    BY <2>2, <2>3, <2>4, <2>5 DEF BufferOK
  <2>12. Writing(p, T, b, d)'
    BY <2>7, <2>8, <2>9, <2>10, <2>11 DEF Writing
  <2>13. Begun'
    BY <2>12 DEF Begun
  <2> QED  BY <1>7, <2>3, <2>5, <2>13
<1> QED  BY <1>2, <1>6, <1>8, <1>9

\* Where the growing entry will go.
LEMMA EntryPlace ==
  ASSUME NEW p, NEW T, NEW b, NEW d, EntriesOK(p, T, b, d)
  PROVE  /\ fcb.off \in Places
         /\ d < PerSector => fcb.fnk = fcb.fsa /\ fcb.off = d + 1 /\ d + 1 <= PerSector
         /\ ~(d < PerSector) =>
              fcb.fnk = p /\ fcb.off = d + 1 - PerSector /\ ~(d + 1 <= PerSector)
<1>1. /\ d \in 0 .. (MapSize - 1)
      /\ fcb.fnk = IF d < PerSector THEN fcb.fsa ELSE p
      /\ fcb.off = IF d < PerSector THEN d + 1 ELSE d + 1 - PerSector
  BY DEF EntriesOK
<1> QED  BY <1>1, MapSizes DEF Places

\* The growing entry names at least one record behind those of the entries.
LEMMA GrowingNumbers ==
  ASSUME NEW T, NEW a, GrowingOK(T, a)
  PROVE  fcb.sbc \in Nat /\ fcb.sbc # 0 /\ Grown \in [at : Nat \X Nat, count : Nat]
<1>1. fcb.sbc \in 1..MaxRun /\ fcb.flr \in Addr
  BY DEF GrowingOK
<1>2. fcb.sbc \in Nat /\ fcb.sbc # 0
  BY <1>1, MapAssumption
<1>3. fcb.flr \in Nat \X Nat
  BY <1>1, MapAssumption DEF Addr
<1> QED  BY <1>2, <1>3 DEF Grown

\* CLOSE writes the last record ...
LEMMA CloseKeepsMap ==
  ASSUME MapInv, Close
  PROVE  MapInv'
<1>0. /\ BlockShape /\ Begun /\ fcb.fsa # Nil
      /\ pc = "idle" /\ order = "none" /\ place = "program" /\ fcb.fas = 2 /\ op' = "close"
      /\ order' = "write" /\ place' = "last" /\ pc' = "idle" /\ VRFYFG' = 255
      /\ disk' = disk /\ avail' = avail /\ fcb' = fcb /\ fsb' = fsb /\ written' = written
  BY DEF Close, Call, MapInv, TransferInv, Unharmed, retryVars
<1>1. PICK p, T, b, d : Writing(p, T, b, d)
  BY <1>0 DEF Begun, FirstAssigned, FirstLinked, SecondAssigned, SecondLinked,
    RecordAssigned, Assigning, Linking, Blank
<1>2. BlockShape' /\ TransferInv' /\ ProgramInv'
  BY <1>0 DEF BlockShape, TransferInv, ProgramInv, Reads, Writes, Waits
<1>3. SectorsOK(p, T)'
  BY <1>0, <1>1 DEF Writing, SectorsOK, Pending, Unused, Taken
<1>4. ChainOK(p, T)'
  BY <1>0, <1>1 DEF Writing, ChainOK, Unnumbered, OnDisk
<1>5. EntriesOK(p, T, b, d)'
  BY <1>0, <1>1 DEF Writing, EntriesOK, OnDisk
<1>6. GrowingOK(T, b[d])'
  BY <1>0, <1>1 DEF Writing, GrowingOK, Grown, Pending
<1>7. BufferOK'
  BY <1>0, <1>1 DEF Writing, BufferOK, Ready, Record
<1> QED  BY <1>0, <1>2, <1>3, <1>4, <1>5, <1>6, <1>7 DEF MapInv, Begun, Writing

\* Behind a transfer of the file being written: one of the states of Begun.
LEMMA BehindWriting ==
  ASSUME MapInv, Ready, place \in {"entry", "entry put", "last"}
  PROVE  /\ BlockShape /\ TransferInv /\ ProgramInv /\ fcb.fas = 2 /\ Begun
         /\ \E p, T, b, d : Writing(p, T, b, d)
<1>1. BlockShape /\ TransferInv /\ ProgramInv /\ fcb.fas = 2 /\ Begun
  BY DEF MapInv, ProgramInv, Unharmed, Ready, Broken
<1> QED
  BY <1>1 DEF Begun, FirstAssigned, FirstLinked, SecondAssigned, SecondLinked,
    RecordAssigned, Assigning, Linking, Blank

\* ... then reads the sector of the map that gets the last entry.
LEMMA CloseMapKeepsMap ==
  ASSUME MapInv, CloseMap
  PROVE  MapInv'
<1>0. /\ Ready /\ place = "last" /\ op' = op
      /\ pc = "idle" /\ order = "none" /\ order' = "read" /\ place' = "entry" /\ pc' = "idle"
      /\ VRFYFG' = VRFYFG
      /\ fcb' = [fcb EXCEPT !.fcs = fcb.fnk]
      /\ disk' = disk /\ avail' = avail /\ fsb' = fsb /\ written' = written
  BY DEF CloseMap, Behind, ReadFrom, Ready, retryVars
<1>1. BlockShape /\ TransferInv /\ ProgramInv /\ fcb.fas = 2 /\ \E p, T, b, d : Writing(p, T, b, d)
  BY <1>0, BehindWriting
<1>2. PICK p, T, b, d : Writing(p, T, b, d)
  BY <1>1
<1>3. op = "close" /\ VRFYFG' = 255
  BY <1>0, <1>1 DEF ProgramInv, TransferInv
<1>4. fcb' = [fas |-> 2, fmp |-> fcb.fmp, fsa |-> fcb.fsa, fea |-> fcb.fea, fcs |-> fcb.fnk,
           frn |-> fcb.frn, flr |-> fcb.flr, sbc |-> fcb.sbc, fnk |-> fcb.fnk, off |-> fcb.off]
  BY <1>0, <1>1 DEF BlockShape
<1>5. /\ fcb'.fas = 2 /\ fcb'.fmp = fcb.fmp /\ fcb'.fsa = fcb.fsa /\ fcb'.fea = fcb.fea
      /\ fcb'.fcs = fcb.fnk /\ fcb'.frn = fcb.frn /\ fcb'.flr = fcb.flr
      /\ fcb'.sbc = fcb.sbc /\ fcb'.fnk = fcb.fnk /\ fcb'.off = fcb.off /\ BlockShape'
  BY <1>4 DEF BlockShape
<1>6. TransferInv' /\ ProgramInv'
  BY <1>0, <1>3, <1>5 DEF TransferInv, ProgramInv, Reads, Writes, Waits
<1>7. SectorsOK(p, T) /\ ChainOK(p, T) /\ EntriesOK(p, T, b, d) /\ GrowingOK(T, b[d]) /\ BufferOK
  BY <1>2 DEF Writing
<1>8. \A a : OnDisk(a)' = OnDisk(a)
  BY <1>0 DEF OnDisk
<1>9. ~Pending /\ ~Pending'
  BY <1>0, <1>3 DEF Pending
<1>10. SectorsOK(p, T)'
  <2>1. Taken(p, T)' = Taken(p, T) /\ Unused' = Unused
    BY <1>0, <1>5, <1>9 DEF Taken, Unused
  <2> QED  BY <1>0, <1>5, <1>7, <1>9, <2>1 DEF SectorsOK
<1>11. ChainOK(p, T)'
  <2>1. fcb.frn = Len(T)
    BY <1>7, <1>9 DEF SectorsOK
  <2>2. OnDisk(fcb.fea) = fsb /\ fsb = Record(Nil)
    BY <1>0, <1>7 DEF BufferOK
  <2>3. OnDisk(fcb.fea).lrn = Len(T) /\ OnDisk(fcb.fea).link = Nil
    BY <2>1, <2>2 DEF Record
  <2> QED  BY <1>5, <1>7, <1>8, <2>3 DEF ChainOK, Unnumbered, Records
<1>12. EntriesOK(p, T, b, d)'
  BY <1>0, <1>5, <1>7, <1>8 DEF EntriesOK
<1>13. GrowingOK(T, b[d])'
  BY <1>0, <1>5, <1>7, <1>9 DEF GrowingOK, Grown
<1>14. BufferOK'
  BY <1>0, <1>5 DEF BufferOK, Ready
<1> QED  BY <1>5, <1>6, <1>10, <1>11, <1>12, <1>13, <1>14 DEF MapInv, Begun, Writing

\* The complete entry is put into the buffer, behind the ones before it.
LEMMA PutEntryKeepsMap ==
  ASSUME MapInv, PutEntry
  PROVE  MapInv'
<1>0. /\ Ready /\ place = "entry" /\ op' = op
      /\ pc = "idle" /\ order = "none" /\ order' = "write" /\ place' = "entry put" /\ pc' = "idle"
      /\ VRFYFG' = VRFYFG
      /\ fsb' = [fsb EXCEPT !.map[fcb.off] = Grown]
      /\ disk' = disk /\ avail' = avail /\ fcb' = fcb /\ written' = written
  BY DEF PutEntry, Behind, Ready, retryVars, Grown
<1>1. BlockShape /\ TransferInv /\ ProgramInv /\ fcb.fas = 2 /\ \E p, T, b, d : Writing(p, T, b, d)
  BY <1>0, BehindWriting
<1>2. PICK p, T, b, d : Writing(p, T, b, d)
  BY <1>1
<1>3. SectorsOK(p, T) /\ ChainOK(p, T) /\ EntriesOK(p, T, b, d) /\ GrowingOK(T, b[d]) /\ BufferOK
  BY <1>2 DEF Writing
<1>4. BlockShape' /\ TransferInv' /\ ProgramInv'
  BY <1>0, <1>1 DEF BlockShape, TransferInv, ProgramInv, Reads, Writes, Waits
<1>5. \A a : OnDisk(a)' = OnDisk(a)
  BY <1>0 DEF OnDisk
<1>6. Pending' <=> Pending
  BY <1>0 DEF Pending
<1>7. SectorsOK(p, T)'
  <2>1. Taken(p, T)' = Taken(p, T) /\ Unused' = Unused
    BY <1>0, <1>6 DEF Taken, Unused
  <2> QED  BY <1>0, <1>3, <1>6, <2>1 DEF SectorsOK
<1>8. ChainOK(p, T)'
  BY <1>0, <1>3, <1>5 DEF ChainOK, Unnumbered, Records
<1>9. EntriesOK(p, T, b, d)'
  BY <1>0, <1>3, <1>5 DEF EntriesOK
<1>10. GrowingOK(T, b[d])'
  BY <1>0, <1>3, <1>6 DEF GrowingOK, Grown
<1>11. BufferOK'
  <2>1. fsb = OnDisk(fcb.fnk) /\ fsb \in Sheet /\ fcb.fcs = fcb.fnk
    BY <1>0, <1>3 DEF BufferOK, EntriesOK, ChainOK
  <2>2. PICK m \in Entries : m = fsb.map
    BY <2>1 DEF Sheet
  <2>3. PICK l \in Nat \X Nat, n \in {0} : fsb = [link |-> l, lrn |-> n, map |-> m]
    BY <2>1, <2>2 DEF Sheet
  <2>4. PICK g \in [at : Nat \X Nat, count : Nat] : g = Grown
    BY <1>3, GrowingNumbers
  <2>5. fcb.off \in Places
    BY <1>3, EntryPlace
  <2>6. fsb' = [link |-> l, lrn |-> n, map |-> [m EXCEPT ![fcb.off] = g]]
    BY <1>0, <2>3, <2>4
  <2>7. PICK k \in Entries : /\ k = [m EXCEPT ![fcb.off] = g]
                             /\ \A i \in Places : k[i] = IF i = fcb.off THEN g ELSE m[i]
    <3>1. PICK E : E = [at : Nat \X Nat, count : Nat]
      OBVIOUS
    <3>2. m \in [Places -> E] /\ g \in E
      BY <2>2, <2>4, <3>1, Zenon DEF Entries
    <3>3. PICK k : k = [m EXCEPT ![fcb.off] = g]
      OBVIOUS
    <3>4. k \in [Places -> E] /\ \A i \in Places : k[i] = IF i = fcb.off THEN g ELSE m[i]
      BY <3>2, <3>3
    <3> QED  BY <3>1, <3>3, <3>4, Zenon DEF Entries
  <2>8. fsb' = [link |-> l, lrn |-> n, map |-> k]
    BY <2>6, <2>7, Zenon
  <2>9. fsb' \in Sheet /\ fsb'.link = l /\ fsb'.map = k
    BY <2>8 DEF Sheet
  <2>10. OnDisk(fcb.fnk).link = l /\ OnDisk(fcb.fnk).map = m
    BY <2>1, <2>3
  <2>11. Grown' = g
    BY <1>0, <2>4 DEF Grown
  <2> QED  BY <1>0, <1>5, <2>1, <2>7, <2>9, <2>10, <2>11 DEF BufferOK, Ready
<1> QED  BY <1>0, <1>1, <1>4, <1>7, <1>8, <1>9, <1>10, <1>11 DEF MapInv, Begun, Writing

\* The entry is on the disk: the map names that much more of the chain.
Extended(p, T, b, d) ==
  \E c : /\ Ledger(OnDisk(fcb.fsa).map, OnDisk(p).map, T, c, d + 1)
         /\ c[d + 1] = b[d] + fcb.sbc
         /\ \A i \in 1 .. (d + 1) : EntryOf(OnDisk(fcb.fsa).map, OnDisk(p).map, i).count # 0

\* The entry is on the disk: one more is complete.
LEMMA EntryWritten ==
  ASSUME NEW p, NEW T, NEW b, NEW d
  PROVE  Writing(p, T, b, d) /\ Ready /\ place = "entry put" => Extended(p, T, b, d)
<1>1. ASSUME Writing(p, T, b, d), Ready, place = "entry put"
      PROVE  Extended(p, T, b, d)
  <2>1. /\ EntriesOK(p, T, b, d) /\ GrowingOK(T, b[d]) /\ T \in Seq(Addr) /\ Len(T) \in Nat
        /\ OnDisk(fcb.fnk).map[fcb.off] = Grown /\ OnDisk(fcb.fnk) = fsb
    <3>1. EntriesOK(p, T, b, d) /\ GrowingOK(T, b[d]) /\ T \in Seq(Addr) /\ BufferOK
      BY <1>1 DEF Writing, SectorsOK
    <3>2. fcb.off \in Places
      BY <3>1, EntryPlace
    <3>3. fsb.map[fcb.off] = Grown /\ OnDisk(fcb.fnk) = fsb
      BY <1>1, <3>1, <3>2 DEF BufferOK
    <3>4. Len(T) \in Nat
      <4>1. T \in Seq(Addr)
        BY <3>1
      <4> QED  BY <4>1, LenProperties
    <3> QED  BY <3>1, <3>3, <3>4
  <2>2. d \in Nat /\ d < MapSize /\ b[d] \in 0 .. Len(T)
    BY <2>1, EntriesNumbers
  <2>3. PICK m1, m2 : m1 = OnDisk(fcb.fsa).map /\ m2 = OnDisk(p).map
    OBVIOUS
  <2>4. PICK g : g = Grown
    OBVIOUS
  <2>5. EntryOf(m1, m2, d + 1) = g
    <3>1. CASE d < PerSector
      <4>1. fcb.fnk = fcb.fsa /\ fcb.off = d + 1 /\ d + 1 <= PerSector
        BY <2>1, <3>1, EntryPlace
      <4> QED  BY <2>1, <2>3, <2>4, <4>1 DEF EntryOf
    <3>2. CASE ~(d < PerSector)
      <4>1. fcb.fnk = p /\ fcb.off = d + 1 - PerSector /\ ~(d + 1 <= PerSector)
        BY <2>1, <3>2, EntryPlace
      <4>2. m2[d + 1 - PerSector] = g
        BY <2>1, <2>3, <2>4, <4>1, Zenon
      <4>3. EntryOf(m1, m2, d + 1) = m2[d + 1 - PerSector]
        BY <2>2, <4>1, MapSizes DEF EntryOf
      <4> QED  BY <4>2, <4>3
    <3> QED  BY <3>1, <3>2
  <2>6. PICK n \in Nat : n = fcb.sbc
    BY <2>1, GrowingNumbers
  <2>7. g.count = n /\ Names(g, T, b[d]) /\ b[d] + n <= Len(T)
    <3>1. b[d] + fcb.sbc \in {Len(T), Len(T) - 1} /\ Names(Grown, T, b[d])
      BY <2>1 DEF GrowingOK
    <3>2. g.count = n
      BY <2>4, <2>6 DEF Grown
    <3>3. b[d] + n \in {Len(T), Len(T) - 1} /\ Names(g, T, b[d]) /\ Len(T) \in Nat
      BY <2>1, <2>4, <2>6, <3>1, Zenon
    <3>4. b[d] + n <= Len(T)
      <4>1. b[d] + n \in {Len(T), Len(T) - 1} /\ Len(T) \in Nat
        BY <3>3
      <4>2. b[d] \in 0 .. Len(T) /\ n \in Nat
        BY <2>2, <2>6
      <4> QED  BY <4>1, <4>2
    <3> QED  BY <3>2, <3>3, <3>4, Zenon
  <2>8. Ledger(m1, m2, T, b, d)
    BY <2>1, <2>3 DEF EntriesOK
  <2>9. \E c : Ledger(m1, m2, T, c, d + 1) /\ c[d + 1] = b[d] + n
    <3>1. EntryOf(m1, m2, d + 1).count = n /\ Names(EntryOf(m1, m2, d + 1), T, b[d])
      BY <2>5, <2>7, Zenon
    <3>2. Len(T) \in Nat /\ d \in Nat /\ b[d] + n <= Len(T)
      BY <2>1, <2>2, <2>7, Zenon
    <3>3. n \in Nat
      BY <2>6
    <3>4. \A i \in 1 .. d : EntryOf(m1, m2, i) = EntryOf(m1, m2, i)
      OBVIOUS
    <3> QED  BY <2>8, <3>1, <3>2, <3>3, <3>4, LedgerMore
  <2>10. \A i \in 1 .. (d + 1) : EntryOf(m1, m2, i).count # 0
    <3>1. \A i \in 1 .. d : EntryOf(m1, m2, i).count # 0
      BY <2>1, <2>3 DEF EntriesOK
    <3>2. EntryOf(m1, m2, d + 1).count # 0
      BY <2>1, <2>5, <2>6, <2>7, GrowingNumbers
    <3>3. \A i \in 1 .. (d + 1) : i \in 1 .. d \/ i = d + 1
      BY <2>2
    <3> QED  BY <3>1, <3>2, <3>3
  <2> QED  BY <2>3, <2>6, <2>9, <2>10 DEF Extended
<1> QED  BY <1>1

\* The next entry begins with the assigned sector; behind the last place of
\* the map the file is given up.
LEMMA NextEntryKeepsMap ==
  ASSUME MapInv, NextEntry
  PROVE  MapInv'
<1>0. /\ Ready /\ place = "entry put" /\ op = "write" /\ op' = "write"
      /\ pc = "idle" /\ order = "none" /\ pc' = "idle" /\ VRFYFG' = VRFYFG
      /\ disk' = disk /\ avail' = avail /\ fsb' = fsb /\ written' = written
  BY DEF NextEntry, Behind, Ready, retryVars
<1>1. BlockShape /\ TransferInv /\ ProgramInv /\ fcb.fas = 2 /\ \E p, T, b, d : Writing(p, T, b, d)
  BY <1>0, BehindWriting
<1>2. PICK p, T, b, d : Writing(p, T, b, d)
  BY <1>1
<1>3. SectorsOK(p, T) /\ ChainOK(p, T) /\ EntriesOK(p, T, b, d) /\ GrowingOK(T, b[d]) /\ BufferOK
  BY <1>2 DEF Writing
<1>4. VRFYFG' = 255
  BY <1>0, <1>1 DEF TransferInv
<1>5. CASE fcb.off = PerSector /\ fcb.fcs # fcb.fsa
  <2>1. place' = "abandoned" /\ fcb' = fcb /\ order' = order
    BY <1>5 DEF NextEntry
  <2>2. BlockShape' /\ ~Unharmed'
    BY <1>1, <2>1 DEF BlockShape, Unharmed
  <2>3. TransferInv' /\ ProgramInv'
    BY <1>0, <1>1, <1>4, <2>1 DEF TransferInv, ProgramInv, Reads, Writes
  <2> QED  BY <1>1, <2>1, <2>2, <2>3 DEF MapInv
<1>6. CASE ~(fcb.off = PerSector /\ fcb.fcs # fcb.fsa)
  <2>1. /\ fcb.fcs = fcb.fnk /\ fsb.link = OnDisk(fcb.fnk).link /\ fcb.fsa # p
        /\ OnDisk(fcb.fsa).link = p
    BY <1>0, <1>3 DEF BufferOK, ChainOK, SectorsOK
  <2>2. T \in Seq(Addr) /\ Len(T) \in Nat /\ Len(T) # 0 /\ fcb.fea = T[Len(T)] /\ fcb.fmp = 2
    <3>1. T \in Seq(Addr) /\ T # <<>> /\ fcb.fea = T[Len(T)] /\ fcb.fmp = 2
      BY <1>3 DEF SectorsOK
    <3>2. Len(T) \in Nat /\ Len(T) # 0
      BY <3>1
    <3> QED  BY <3>1, <3>2
  <2>3. d \in Nat /\ d < MapSize /\ b[d] \in 0 .. Len(T)
    BY <1>3, <2>2, EntriesNumbers
  <2>4. /\ fcb.off \in Places
        /\ d < PerSector => fcb.fnk = fcb.fsa /\ fcb.off = d + 1 /\ d + 1 <= PerSector
        /\ ~(d < PerSector) =>
             fcb.fnk = p /\ fcb.off = d + 1 - PerSector /\ ~(d + 1 <= PerSector)
    BY <1>3, EntryPlace
  <2>5. PICK k, o : /\ k = IF fcb.off = PerSector THEN p ELSE fcb.fnk
                    /\ o = IF fcb.off = PerSector THEN 1 ELSE fcb.off + 1
    OBVIOUS
  <2>6. /\ fcb' = [fas |-> 2, fmp |-> 2, fsa |-> fcb.fsa, fea |-> fcb.fea, fcs |-> fcb.fea,
                   frn |-> fcb.frn, flr |-> fcb.fea, sbc |-> 1, fnk |-> k, off |-> o]
        /\ order' = "read" /\ place' = "assigned"
    <3>1. PICK e : e = IF fcb.off = PerSector THEN [fcb EXCEPT !.fnk = fsb.link, !.off = 1]
                       ELSE [fcb EXCEPT !.off = @ + 1]
      OBVIOUS
    <3>4. PICK f : f = NewEntry(e)
      OBVIOUS
    <3>5. fcb' = [f EXCEPT !.fcs = f.fea] /\ order' = "read" /\ place' = "assigned"
      BY <1>6, <3>1, <3>4, Zenon DEF NextEntry
    <3>2. CASE fcb.off = PerSector
      <4>1. fsb.link = p /\ k = p /\ o = 1
        BY <1>6, <2>1, <2>5, <3>2
      <4>2. e = [fas |-> 2, fmp |-> 2, fsa |-> fcb.fsa, fea |-> fcb.fea, fcs |-> fcb.fcs,
                   frn |-> fcb.frn, flr |-> fcb.flr, sbc |-> fcb.sbc, fnk |-> k, off |-> o]
        BY <1>1, <2>2, <3>1, <3>2, <4>1 DEF BlockShape
      <4> QED  BY <3>4, <3>5, <4>2 DEF NewEntry
    <3>3. CASE fcb.off # PerSector
      <4>1. k = fcb.fnk /\ o = fcb.off + 1
        BY <2>5, <3>3
      <4>2. e = [fas |-> 2, fmp |-> 2, fsa |-> fcb.fsa, fea |-> fcb.fea, fcs |-> fcb.fcs,
                   frn |-> fcb.frn, flr |-> fcb.flr, sbc |-> fcb.sbc, fnk |-> k, off |-> o]
        BY <1>1, <2>2, <3>1, <3>3, <4>1 DEF BlockShape
      <4> QED  BY <3>4, <3>5, <4>2 DEF NewEntry
    <3> QED  BY <3>2, <3>3
  <2>7. /\ fcb'.fas = 2 /\ fcb'.fmp = 2 /\ fcb'.fsa = fcb.fsa /\ fcb'.fea = fcb.fea
        /\ fcb'.fcs = fcb.fea /\ fcb'.frn = fcb.frn /\ fcb'.flr = fcb.fea
        /\ fcb'.sbc = 1 /\ fcb'.fnk = k /\ fcb'.off = o /\ BlockShape'
    BY <2>6 DEF BlockShape
  <2>8. TransferInv' /\ ProgramInv'
    BY <1>0, <1>4, <2>6, <2>7 DEF TransferInv, ProgramInv, Reads, Writes, Waits
  <2>9. \A a : OnDisk(a)' = OnDisk(a)
    BY <1>0 DEF OnDisk
  <2>10. Pending /\ Pending'
    BY <1>0, <2>6 DEF Pending
  <2>11. SectorsOK(p, T)'
    <3>1. Taken(p, T)' = Taken(p, T) /\ Unused' = Unused
      BY <1>0, <2>7, <2>10 DEF Taken, Unused
    <3> QED  BY <1>0, <1>3, <2>7, <2>10, <3>1 DEF SectorsOK
  <2>12. ChainOK(p, T)'
    BY <1>3, <2>6, <2>7, <2>9 DEF ChainOK, Unnumbered, Records
  <2>13. PICK c : /\ Ledger(OnDisk(fcb.fsa).map, OnDisk(p).map, T, c, d + 1)
                  /\ c[d + 1] = b[d] + fcb.sbc
                  /\ \A i \in 1 .. (d + 1) : EntryOf(OnDisk(fcb.fsa).map, OnDisk(p).map, i).count # 0
    <3>1. Extended(p, T, b, d)
      BY <1>0, <1>2, EntryWritten
    <3> QED  BY <3>1 DEF Extended
  <2>14. PICK n : n = d + 1
    OBVIOUS
  <2>15. PICK m1, m2 : m1 = OnDisk(fcb.fsa).map /\ m2 = OnDisk(p).map
    OBVIOUS
  <2>16. /\ n \in 0 .. (MapSize - 1)
         /\ k = IF n < PerSector THEN fcb.fsa ELSE p
         /\ o = IF n < PerSector THEN n + 1 ELSE n + 1 - PerSector
    <3>1. CASE d < PerSector
      <4>1. fcb.fnk = fcb.fsa /\ fcb.off = d + 1 /\ n <= PerSector
        BY <2>4, <2>14, <3>1
      <4>2. CASE n = PerSector
        BY <2>5, <2>14, <4>1, <4>2, MapSizes
      <4>3. CASE n # PerSector
        <5>1. n < PerSector /\ fcb.off # PerSector /\ n \in Nat
          BY <2>3, <2>14, <4>1, <4>3, MapSizes
        <5>2. k = fcb.fsa /\ o = n + 1
          BY <2>5, <2>14, <4>1, <5>1
        <5> QED  BY <5>1, <5>2, MapSizes
      <4> QED  BY <4>2, <4>3
    <3>2. CASE ~(d < PerSector)
      <4>1. fcb.fnk = p /\ fcb.off = d + 1 - PerSector
        BY <2>4, <3>2
      <4>2. fcb.off # PerSector
        BY <1>6, <2>1, <4>1
      <4>3. k = p /\ o = n - PerSector + 1
        BY <2>3, <2>5, <2>14, <4>1, <4>2, MapSizes
      <4>4. n \in Nat /\ ~(n < PerSector) /\ n # MapSize /\ n <= MapSize
        BY <2>3, <2>14, <3>2, <4>1, <4>2, MapSizes
      <4> QED  BY <4>3, <4>4, MapSizes
    <3> QED  BY <3>1, <3>2
  <2>17. EntriesOK(p, T, c, n)'
    <3>1. Ledger(m1, m2, T, c, n)
      BY <2>13, <2>14, <2>15
    <3>2. \A i \in (d + 2) .. MapSize : EntryOf(m1, m2, i) = NoEntry
      BY <1>3, <2>15 DEF EntriesOK
    <3>3. \A i \in (n + 1) .. MapSize : i \in (d + 2) .. MapSize
      BY <2>3, <2>14, MapSizes
    <3>4. \A i \in (n + 2) .. MapSize : i \in (n + 1) .. MapSize
      BY <2>16, MapSizes
    <3>5. n + 1 \in (n + 1) .. MapSize
      BY <2>16, MapSizes
    <3>6. m1 = OnDisk(fcb.fsa)'.map /\ m2 = OnDisk(p)'.map
      BY <2>7, <2>9, <2>15
    <3>7. \A i \in (n + 1) .. MapSize : EntryOf(m1, m2, i) = NoEntry
      BY <3>2, <3>3
    <3>8. \A i \in 1 .. n : EntryOf(m1, m2, i).count # 0
      BY <2>13, <2>14, <2>15
    <3> QED  BY <2>7, <2>16, <3>1, <3>4, <3>5, <3>6, <3>7, <3>8 DEF EntriesOK
  <2>18. c[n] = Len(T) - 1
    BY <1>0, <1>3, <2>10, <2>13, <2>14 DEF GrowingOK
  <2>19. GrowingOK(T, c[n])'
    <3>1. fcb.fea \in Addr
      BY <2>2
    <3>2. 1 \in 1 .. MaxRun
      BY MapAssumption
    <3>3. PICK a \in Nat : a = c[n] /\ a + 1 = Len(T)
      <4>1. Len(T) - 1 \in Nat /\ (Len(T) - 1) + 1 = Len(T)
        BY <2>2
      <4> QED  BY <2>18, <4>1, Zenon
    <3>4. Names(Grown', T, a)
      BY <2>2, <2>7, <3>3 DEF Names, Grown
    <3> QED  BY <2>6, <2>7, <3>1, <3>2, <3>3, <3>4 DEF GrowingOK
  <2>20. BufferOK'
    BY <2>6, <2>7 DEF BufferOK
  <2> QED  BY <2>7, <2>8, <2>11, <2>12, <2>17, <2>19, <2>20 DEF MapInv, Begun, Writing
<1> QED  BY <1>5, <1>6

\* With its last entry the map is complete.
LEMMA ClosedKeepsMap ==
  ASSUME MapInv, Closed
  PROVE  MapInv'
<1>0. /\ Ready /\ place = "entry put" /\ op = "close" /\ op' = "close"
      /\ pc = "idle" /\ order = "none" /\ pc' = "idle" /\ order' = "none" /\ place' = "program"
      /\ VRFYFG' = VRFYFG
      /\ fcb' = [fcb EXCEPT !.fas = 0]
      /\ disk' = disk /\ avail' = avail /\ fsb' = fsb /\ written' = written
  BY DEF Closed, Behind, Ready, Done, retryVars
<1>1. BlockShape /\ TransferInv /\ ProgramInv /\ fcb.fas = 2 /\ \E p, T, b, d : Writing(p, T, b, d)
  BY <1>0, BehindWriting
<1>2. PICK p, T, b, d : Writing(p, T, b, d)
  BY <1>1
<1>3. SectorsOK(p, T) /\ ChainOK(p, T) /\ EntriesOK(p, T, b, d) /\ GrowingOK(T, b[d]) /\ BufferOK
  BY <1>2 DEF Writing
<1>4. fcb' = [fas |-> 0, fmp |-> fcb.fmp, fsa |-> fcb.fsa, fea |-> fcb.fea, fcs |-> fcb.fcs,
           frn |-> fcb.frn, flr |-> fcb.flr, sbc |-> fcb.sbc, fnk |-> fcb.fnk, off |-> fcb.off]
  BY <1>0, <1>1 DEF BlockShape
<1>5. BlockShape' /\ TransferInv' /\ ProgramInv' /\ fcb'.fas = 0
  BY <1>0, <1>1, <1>4 DEF BlockShape, TransferInv, ProgramInv, Waits
<1>6. ~Pending
  BY <1>0 DEF Pending
<1>7. /\ T \in Seq(Addr) /\ Len(T) \in Nat /\ Len(T) # 0 /\ fcb.fea = T[Len(T)]
      /\ written = Len(T)
  <2>1. T \in Seq(Addr) /\ T # <<>> /\ fcb.fea = T[Len(T)] /\ written = Len(T)
    BY <1>3, <1>6 DEF SectorsOK
  <2>2. Len(T) \in Nat /\ Len(T) # 0
    BY <2>1
  <2> QED  BY <2>1, <2>2
<1>8. d \in Nat /\ d < MapSize /\ b[d] \in 0 .. Len(T)
  BY <1>3, <1>7, EntriesNumbers
<1>9. PICK m1, m2 : m1 = OnDisk(fcb.fsa).map /\ m2 = OnDisk(p).map
  OBVIOUS
<1>10. PICK c : /\ Ledger(OnDisk(fcb.fsa).map, OnDisk(p).map, T, c, d + 1)
                /\ c[d + 1] = b[d] + fcb.sbc
                /\ \A i \in 1 .. (d + 1) : EntryOf(OnDisk(fcb.fsa).map, OnDisk(p).map, i).count # 0
  <2>1. Extended(p, T, b, d)
    BY <1>0, <1>2, EntryWritten
  <2> QED  BY <2>1 DEF Extended
<1>11. PICK n \in 0 .. MapSize : n = d + 1
  BY <1>8, MapSizes
<1>12. c[n] = Len(T)
  BY <1>3, <1>6, <1>10, <1>11 DEF GrowingOK
<1>13. Ledger(m1, m2, T, c, n) /\ \A i \in (n + 1) .. MapSize : EntryOf(m1, m2, i) = NoEntry
  <2>1. \A i \in (d + 2) .. MapSize : EntryOf(m1, m2, i) = NoEntry
    BY <1>3, <1>9 DEF EntriesOK
  <2>2. n + 1 = d + 2
    BY <1>8, <1>11
  <2> QED  BY <1>9, <1>10, <1>11, <2>1, <2>2
<1>14. PICK r : /\ Ledger(m1, m2, T, r, MapSize) /\ r[MapSize] = Len(T)
                /\ \A i \in n .. MapSize : r[i] = Len(T)
  BY <1>7, <1>11, <1>12, <1>13, LedgerRest
<1>15. \A i \in 1 .. MapSize : EntryOf(m1, m2, i).count = 0 => r[i - 1] = Len(T)
  <2> SUFFICES ASSUME NEW i \in 1 .. MapSize, EntryOf(m1, m2, i).count = 0
               PROVE  r[i - 1] = Len(T)
    OBVIOUS
  <2>1. ~ (i \in 1 .. n)
    BY <1>9, <1>10, <1>11
  <2>2. i - 1 \in n .. MapSize
    BY <1>8, <1>11, <2>1, MapSizes
  <2> QED  BY <1>14, <2>2
<1>16. \A a : OnDisk(a)' = OnDisk(a)
  BY <1>0 DEF OnDisk
<1>17. \A k \in 1 .. Len(T) : /\ OnDisk(T[k]).lrn = k
                             /\ OnDisk(T[k]).link = IF k = Len(T) THEN Nil ELSE T[k + 1]
  <2>1. OnDisk(fcb.fea).lrn = Len(T) /\ OnDisk(fcb.fea).link = Nil
    BY <1>0, <1>3 DEF ChainOK
  <2> SUFFICES ASSUME NEW k \in 1 .. Len(T)
               PROVE  /\ OnDisk(T[k]).lrn = k
                      /\ OnDisk(T[k]).link = IF k = Len(T) THEN Nil ELSE T[k + 1]
    OBVIOUS
  <2>2. CASE k = Len(T)
    BY <1>7, <2>1, <2>2
  <2>3. CASE k # Len(T)
    <3>1. k \in 1 .. (Len(T) - 1)
      BY <1>7, <2>3
    <3> QED  BY <1>3, <2>3, <3>1 DEF ChainOK
  <2> QED  BY <2>2, <2>3
<1>18. Finished(p, T, r)
  <2>1. /\ OnDisk(fcb.fsa) \in Sheet /\ OnDisk(p) \in Sheet
        /\ OnDisk(fcb.fsa).link = p /\ OnDisk(p).link = T[1] /\ Unnumbered(Records(T))
    BY <1>3 DEF ChainOK
  <2>2. T # <<>>
    BY <1>3 DEF SectorsOK
  <2> QED  BY <1>7, <1>9, <1>14, <1>15, <1>17, <2>1, <2>2 DEF Finished
<1>19. (\E q, u, c1 : Finished(q, u, c1))'
  BY <1>0, <1>4, <1>18, ClosedStays
<1> QED  BY <1>5, <1>19 DEF MapInv

\* A transfer failed: nothing is claimed any more of a file that is not closed.
LEMMA AbandonKeepsMap ==
  ASSUME MapInv, Abandon
  PROVE  MapInv'
<1>1. /\ place' = "abandoned" /\ fcb' = fcb /\ order = "none" /\ order' = order /\ op' = op
      /\ pc = "idle" /\ pc' = pc /\ VRFYFG' = VRFYFG /\ op \in {"write", "close"}
      /\ place # "program"
  BY DEF Abandon, retryVars
<1>2. fcb.fas = 2
  BY <1>1 DEF MapInv, ProgramInv
<1>3. BlockShape' /\ ~Unharmed'
  BY <1>1 DEF MapInv, BlockShape, Unharmed
<1>4. TransferInv' /\ ProgramInv'
  BY <1>1, <1>2 DEF MapInv, TransferInv, ProgramInv, Reads, Writes
<1> QED  BY <1>1, <1>2, <1>3, <1>4 DEF MapInv

\* What a step of a call on the closed file leaves alone.
ReadingPlaces ==
  {"program", "maximum", "skip", "next", "map", "next map", "scan", "record", "lost"}
ReadingStep ==
  /\ fcb.fas # 2 /\ fcb'.fas # 2 /\ BlockShape'
  /\ fcb'.fsa = fcb.fsa /\ fcb'.fea = fcb.fea /\ disk' = disk /\ written' = written
  /\ pc' = "idle" /\ VRFYFG' = VRFYFG
  /\ order' \in {"none", "read"} /\ place' \in ReadingPlaces
  /\ place' = "program" => order' = "none"
  /\ place' # "program" => op' \in {"open", "next", "posit", "back"}

\* Such a step keeps the map.
LEMMA ReadingKeepsMap ==
  ASSUME MapInv, ReadingStep
  PROVE  MapInv'
<1>1. (\E p, T, c : Finished(p, T, c))'
  BY ClosedStays DEF ReadingStep, MapInv
<1>2. TransferInv'
  BY DEF ReadingStep, ReadingPlaces, MapInv, TransferInv, Waits
<1>3. ProgramInv'
  BY DEF ReadingStep, ReadingPlaces, ProgramInv
<1> QED  BY <1>1, <1>2, <1>3 DEF ReadingStep, MapInv

\* OPNRD is made of such steps ...
LEMMA OpenReads ==
  ASSUME MapInv, Open \/ Opened \/ SkipMap \/ OpenFails
  PROVE  ReadingStep
<1>0. BlockShape /\ ProgramInv /\ TransferInv
  BY DEF MapInv
<1>1. CASE Open
  <2>1. fcb' = [fcb EXCEPT !.fcs = SIR] /\ fcb.fas = 0
    BY <1>1 DEF Open, Call, ReadFrom
  <2>2. BlockShape' /\ fcb'.fas = fcb.fas /\ fcb'.fsa = fcb.fsa /\ fcb'.fea = fcb.fea
    BY <1>0, <2>1 DEF BlockShape
  <2> QED  BY <1>1, <2>1, <2>2 DEF Open, Call, ReadFrom, retryVars, ReadingStep, ReadingPlaces
<1>2. CASE Opened
  <2>0. fcb.fas # 2 /\ op \in {"open", "next", "posit", "back"}
    <3>1. place = "maximum"
      BY <1>2 DEF Opened, Behind
    <3> QED  BY <1>0, <3>1 DEF ProgramInv, Reads, Writes
  <2>1. PICK f : f = [fcb EXCEPT !.fas = 1, !.frn = 0]
    OBVIOUS
  <2>2. f = [fas |-> 1, fmp |-> fcb.fmp, fsa |-> fcb.fsa, fea |-> fcb.fea, fcs |-> fcb.fcs,
             frn |-> 0, flr |-> fcb.flr, sbc |-> fcb.sbc, fnk |-> fcb.fnk, off |-> fcb.off]
    BY <1>0, <2>1 DEF BlockShape
  <2>3. fcb' = [f EXCEPT !.frn = @ + 1, !.fcs = IF fcb.fsa = Nil THEN @ ELSE fcb.fsa]
    BY <1>2, <2>1 DEF Opened, ReadNext, Done
  <2>6. \/ place' = "program" /\ order' = order
        \/ place' = "skip" /\ order' = "read"
    BY <1>2, <2>1 DEF Opened, ReadNext, Done
  <2>4. BlockShape' /\ fcb'.fas = 1 /\ fcb'.fsa = fcb.fsa /\ fcb'.fea = fcb.fea
    BY <2>2, <2>3 DEF BlockShape
  <2>5. /\ pc = "idle" /\ order = "none" /\ pc' = pc /\ VRFYFG' = VRFYFG /\ op' = op
        /\ disk' = disk /\ written' = written
    BY <1>2 DEF Opened, Behind, retryVars
  <2>11. fcb.fas # 2 /\ fcb'.fas # 2 /\ BlockShape' /\ fcb'.fsa = fcb.fsa /\ fcb'.fea = fcb.fea
    BY <2>0, <2>4, <2>5, <2>6
  <2>12. disk' = disk /\ written' = written /\ pc' = "idle" /\ VRFYFG' = VRFYFG
    BY <2>0, <2>4, <2>5, <2>6
  <2>13. order' \in {"none", "read"} /\ place' \in ReadingPlaces
    BY <2>0, <2>4, <2>5, <2>6 DEF ReadingPlaces
  <2>14. /\ place' = "program" => order' = "none"
         /\ place' # "program" => op' \in {"open", "next", "posit", "back"}
    BY <2>0, <2>4, <2>5, <2>6
  <2> QED  BY <2>11, <2>12, <2>13, <2>14 DEF ReadingStep
<1>3. CASE SkipMap
  <2>0. fcb.fas # 2 /\ op \in {"open", "next", "posit", "back"}
    <3>1. place = "skip"
      BY <1>3 DEF SkipMap, Behind
    <3> QED  BY <1>0, <3>1 DEF ProgramInv, Reads, Writes
  <2>1. \/ place' = "program" /\ order' = order /\ fcb' = fcb
        \/ /\ \/ place' = "program" /\ order' = order
              \/ place' = "skip" /\ order' = "read"
           /\ fcb' = [fcb EXCEPT !.frn = @ + 1, !.fcs = IF fsb.link = Nil THEN @ ELSE fsb.link]
    BY <1>3 DEF SkipMap, ReadNext, Done
  <2>2. BlockShape' /\ fcb'.fas = fcb.fas /\ fcb'.fsa = fcb.fsa /\ fcb'.fea = fcb.fea
    BY <1>0, <2>1 DEF BlockShape
  <2> QED  BY <1>3, <2>0, <2>1, <2>2 DEF SkipMap, Behind, retryVars, ReadingStep, ReadingPlaces
<1>4. CASE OpenFails
  <2>0. fcb.fas # 2
    BY <1>0, <1>4 DEF OpenFails, ProgramInv
  <2> QED  BY <1>0, <1>4, <2>0 DEF OpenFails, Done, retryVars, ReadingStep, ReadingPlaces, BlockShape
<1> QED  BY <1>1, <1>2, <1>3, <1>4

\* ... so are the calls of NEXTS, POSIT and BKREC ...
LEMMA CallReads ==
  ASSUME MapInv, Nexts \/ BKREC \/ \E n \in 0..(MaxRecords + 1) : POSIT(n)
  PROVE  ReadingStep
<1>0. BlockShape /\ ProgramInv /\ TransferInv
  BY DEF MapInv
<1>1. CASE Nexts
  <2>1. fcb' = [fcb EXCEPT !.frn = @ + 1, !.fcs = IF fsb.link = Nil THEN @ ELSE fsb.link]
    BY <1>1 DEF Nexts, Call, ReadNext, Done
  <2>4. /\ \/ place' = "program" /\ order' = order
           \/ place' = "next" /\ order' = "read"
        /\ fcb.fas = 1 /\ op' = "next"
    BY <1>1 DEF Nexts, Call, ReadNext, Done
  <2>2. BlockShape' /\ fcb'.fas = fcb.fas /\ fcb'.fsa = fcb.fsa /\ fcb'.fea = fcb.fea
    BY <1>0, <2>1 DEF BlockShape
  <2>3. /\ pc = "idle" /\ order = "none" /\ pc' = pc /\ VRFYFG' = VRFYFG
        /\ disk' = disk /\ written' = written
    BY <1>1 DEF Nexts, Call, retryVars
  <2>11. fcb.fas # 2 /\ fcb'.fas # 2 /\ BlockShape' /\ fcb'.fsa = fcb.fsa /\ fcb'.fea = fcb.fea
    BY <2>2, <2>3, <2>4
  <2>12. disk' = disk /\ written' = written /\ pc' = "idle" /\ VRFYFG' = VRFYFG
    BY <2>2, <2>3, <2>4
  <2>13. order' \in {"none", "read"} /\ place' \in ReadingPlaces
    BY <2>2, <2>3, <2>4 DEF ReadingPlaces
  <2>14. /\ place' = "program" => order' = "none"
         /\ place' # "program" => op' \in {"open", "next", "posit", "back"}
    BY <2>2, <2>3, <2>4
  <2> QED  BY <2>11, <2>12, <2>13, <2>14 DEF ReadingStep
<1>2. ASSUME NEW n, Position(n), Call("back", 1) \/ Call("posit", 1),
             UNCHANGED <<disk, written>>
      PROVE  ReadingStep
  <2>1. fcb' = [fcb EXCEPT !.frn = n, !.fcs = fcb.fsa]
    BY <1>2 DEF Position
  <2>3. /\ order' = "read" /\ place' \in {"record", "map"} /\ pc' = pc /\ VRFYFG' = VRFYFG
        /\ fcb.fas = 1 /\ op' \in {"back", "posit"} /\ pc = "idle"
        /\ disk' = disk /\ written' = written
    BY <1>2 DEF Position, Call
  <2>2. BlockShape' /\ fcb'.fas = fcb.fas /\ fcb'.fsa = fcb.fsa /\ fcb'.fea = fcb.fea
    BY <1>0, <2>1 DEF BlockShape
  <2>11. fcb.fas # 2 /\ fcb'.fas # 2 /\ BlockShape' /\ fcb'.fsa = fcb.fsa /\ fcb'.fea = fcb.fea
    BY <2>2, <2>3
  <2>12. disk' = disk /\ written' = written /\ pc' = "idle" /\ VRFYFG' = VRFYFG
    BY <2>2, <2>3
  <2>13. order' \in {"none", "read"} /\ place' \in ReadingPlaces
    BY <2>2, <2>3 DEF ReadingPlaces
  <2>14. /\ place' = "program" => order' = "none"
         /\ place' # "program" => op' \in {"open", "next", "posit", "back"}
    BY <2>2, <2>3
  <2> QED  BY <2>11, <2>12, <2>13, <2>14 DEF ReadingStep
<1>3. CASE BKREC
  <2>1. CASE fcb.frn = 0
    BY <1>0, <1>3, <2>1 DEF BKREC, Call, Done, retryVars, ReadingStep, ReadingPlaces, BlockShape
  <2>2. CASE fcb.frn # 0
    BY <1>2, <1>3, <2>2 DEF BKREC
  <2> QED  BY <2>1, <2>2
<1>4. CASE \E n \in 0..(MaxRecords + 1) : POSIT(n)
  BY <1>2, <1>4 DEF POSIT
<1> QED  BY <1>1, <1>3, <1>4

\* ... and what these do behind each transfer.
LEMMA SeekReads ==
  ASSUME MapInv, MapRead \/ Find \/ Pass \/ PastEnd \/ Found \/ SeekFails
  PROVE  ReadingStep
<1>0. BlockShape /\ ProgramInv /\ TransferInv
  BY DEF MapInv
<1>1. /\ fcb.fas # 2 /\ place # "program" /\ op \in {"open", "next", "posit", "back"}
      /\ op' = op /\ pc = "idle" /\ pc' = pc /\ VRFYFG' = VRFYFG /\ order = "none"
      /\ disk' = disk /\ written' = written
  <2>1. CASE MapRead
    BY <1>0, <2>1 DEF MapRead, Behind, ProgramInv, Reads, Writes, retryVars
  <2>2. CASE Find \/ PastEnd
    BY <1>0, <2>2 DEF Find, PastEnd, Scanning, Behind, ProgramInv, Reads, Writes, retryVars
  <2>3. CASE Pass
    BY <1>0, <2>3 DEF Pass, Scanning, Behind, ProgramInv, Reads, Writes
  <2>4. CASE Found
    BY <1>0, <2>4 DEF Found, Behind, ProgramInv, Reads, Writes, retryVars
  <2>5. CASE SeekFails
    BY <1>0, <2>5 DEF SeekFails, ProgramInv, Reads, Writes, retryVars
  <2> QED  BY <2>1, <2>2, <2>3, <2>4, <2>5
<1>2. CASE MapRead \/ PastEnd \/ Found \/ SeekFails
  <2>1. fcb' = fcb /\ order' = order /\ place' \in {"scan", "program", "lost"}
    BY <1>2 DEF MapRead, PastEnd, Found, SeekFails, Ends, Done
  <2> QED  BY <1>0, <1>1, <2>1 DEF ReadingStep, ReadingPlaces, BlockShape
<1>3. CASE Find \/ Pass
  <2>1. \/ fcb' = fcb /\ order' = order /\ place' \in {place, "program"}
        \/ /\ \E a : fcb' = [fcb EXCEPT !.fcs = a]
           /\ order' = "read" /\ place' \in {"record", "next map"}
    <3>1. CASE Find
      BY <3>1 DEF Find, ReadFrom
    <3>2. CASE Pass
      <4>1. CASE ETRIES' = PerSector
        <5>1. ETRIES' # 2 * PerSector
          BY <4>1, MapSizes
        <5>2. fcb' = [fcb EXCEPT !.fcs = fsb.link]
          BY <3>2, <4>1, <5>1 DEF Pass, ReadFrom
        <5>3. order' = "read" /\ place' = "next map"
          BY <3>2, <4>1, <5>1 DEF Pass, ReadFrom
        <5> QED  BY <5>2, <5>3, Zenon
      <4>2. CASE ETRIES' # PerSector
        BY <3>2, <4>2 DEF Pass, Ends, Done
      <4> QED  BY <4>1, <4>2
    <3> QED  BY <1>3, <3>1, <3>2
  <2>2. BlockShape' /\ fcb'.fas = fcb.fas /\ fcb'.fsa = fcb.fsa /\ fcb'.fea = fcb.fea
    BY <1>0, <2>1 DEF BlockShape
  <2>3. place \in ReadingPlaces
    BY <1>0, <1>1 DEF ProgramInv, ReadingPlaces
  <2> QED  BY <1>1, <2>1, <2>2, <2>3 DEF ReadingStep, ReadingPlaces
<1> QED  BY <1>2, <1>3

\* The program begins with an empty file and available sectors that are all different.
LEMMA MapInitially ==
  ASSUME Init
  PROVE  MapInv
<1>1. avail \in Layouts
  BY DEF Init
<1>2. Fresh(avail, {})
  <2>1. avail \in Seq(Addr) /\ IsInjective(avail)
    BY <1>1, LayoutAssumption DEF Addr
  <2>2. \A i, j \in DOMAIN avail : avail[i] = avail[j] => i = j
    BY <2>1, Zenon DEF IsInjective
  <2>3. DOMAIN avail = 1 .. Len(avail)
    BY <2>1
  <2> QED  BY <2>1, <2>2, <2>3, Zenon DEF Fresh
<1>3. /\ fcb = [fas |-> 2, fmp |-> 1, fsa |-> Nil, fea |-> Nil, fcs |-> Nil, frn |-> 0,
                flr |-> Nil, sbc |-> 0, fnk |-> Nil, off |-> 1]
      /\ pc = "idle" /\ VRFYFG = 255 /\ op = "none" /\ place = "program" /\ order = "none"
      /\ written = 0
  BY DEF Init, RetryInit
<1>4. BlockShape /\ fcb.fas = 2 /\ fcb.fsa = Nil /\ fcb.fmp = 1 /\ fcb.frn = 0
  BY <1>3 DEF BlockShape
<1>5. TransferInv /\ ProgramInv
  BY <1>3, <1>4 DEF TransferInv, ProgramInv, Reads, Writes
<1>6. Blank
  <2>1. disk = <<>> /\ DOMAIN disk = {}
    BY DEF Init
  <2>2. Unnumbered({})
    BY <2>1 DEF Unnumbered, OnDisk, Clear
  <2> QED  BY <1>2, <1>3, <1>4, <2>2 DEF Blank
<1> QED  BY <1>4, <1>5, <1>6 DEF MapInv, Begun

\* MapInv depends on the variables alone.
LEMMA MapStutters ==
  ASSUME MapInv, UNCHANGED vars
  PROVE  MapInv'
<1>1. /\ disk' = disk /\ avail' = avail /\ fcb' = fcb /\ fsb' = fsb /\ op' = op
      /\ place' = place /\ rest' = rest /\ written' = written /\ order' = order
      /\ pc' = pc /\ status' = status /\ kind' = kind /\ VRFYFG' = VRFYFG
  BY DEF vars, file, retryVars
<1>2. BlockShape' /\ TransferInv' /\ ProgramInv'
  BY <1>1 DEF MapInv, BlockShape, TransferInv, Waits, ProgramInv
<1>3. (Ready' => Ready) /\ (Unharmed' => Unharmed)
  BY <1>1 DEF Unharmed, Ready, Broken
<1>4. Begun => Begun'
  BY <1>1, <1>3, QuietBegun
<1>5. (\E p, T, c : Finished(p, T, c)) => (\E p, T, c : Finished(p, T, c))'
  BY <1>1, ClosedStays
<1> QED  BY <1>1, <1>2, <1>3, <1>4, <1>5 DEF MapInv

\* Every step keeps MapInv.
LEMMA StepKeepsMap ==
  ASSUME Reliable, IInv, ScanInv, MapInv, [Next]_vars
  PROVE  MapInv'
<1>1. CASE UNCHANGED vars
  BY <1>1, MapStutters
<1>2. CASE Issue \/ Machine
  BY <1>2, MachineKeepsMap
<1>3. CASE Deliver
  BY <1>3, DeliverKeepsMap
<1>4. CASE Program
  BY <1>4, WriteFirstKeepsMap, WriteNextKeepsMap, CloseKeepsMap, OpenReads, CallReads,
    ReadingKeepsMap DEF Program
<1>5. CASE Continue
  <2>1. CASE Abandon \/ Linked \/ Assigned \/ PutEntry \/ NextEntry \/ CloseMap \/ Closed
    BY <2>1, AbandonKeepsMap, LinkedKeepsMap, AssignedKeepsMap, PutEntryKeepsMap,
      NextEntryKeepsMap, CloseMapKeepsMap, ClosedKeepsMap
  <2>2. CASE Opened \/ SkipMap \/ OpenFails \/ MapRead \/ Find \/ Pass \/ PastEnd \/ Found
               \/ SeekFails
    BY <2>2, OpenReads, SeekReads, ReadingKeepsMap
  <2> QED  BY <1>5, <2>1, <2>2 DEF Continue
<1> QED  BY <1>1, <1>2, <1>3, <1>4, <1>5 DEF Next, FmsStep

\* MapInv holds in every behaviour.
LEMMA MapInductive ==
  ASSUME Reliable
  PROVE  Spec => []MapInv
<1>1. Init => MapInv
  BY MapInitially
<1>2. (IInv /\ ScanInv) /\ MapInv /\ [Next]_vars => MapInv'
  BY StepKeepsMap
<1> QED  BY <1>1, <1>2, RandomInductive, PTL DEF Spec

\* The map of a closed file, read entry by entry, is its chain.
LEMMA FinishedIs ==
  ASSUME NEW p, NEW T, NEW c, Finished(p, T, c)
  PROVE  Mapped = T
<1>1. /\ T \in Seq(Addr) /\ OnDisk(fcb.fsa).link = p
      /\ OnDisk(fcb.fsa) \in Sheet /\ OnDisk(p) \in Sheet
      /\ Ledger(OnDisk(fcb.fsa).map, OnDisk(p).map, T, c, MapSize) /\ c[MapSize] = Len(T)
  BY DEF Finished
<1>2. PICK m1 \in Entries : m1 = OnDisk(fcb.fsa).map
  BY <1>1 DEF Sheet
<1>3. PICK m2 \in Entries : m2 = OnDisk(p).map
  BY <1>1 DEF Sheet
<1> QED  BY <1>1, <1>2, <1>3, MappedIs

\* WTNEXT, UPDFSM and CLOSE: the map of a closed random file names exactly the
\* sectors of its chain, in their order and with their record numbers, for every
\* size of track, sector of the map and count byte and for every order in which
\* the sectors were available, as long as the driver finds what it stores badly.
THEOREM MapNamesChain ==
  ASSUME Reliable
  PROVE  Spec => []MapIsChain
<1>1. MapInv => MapIsChain
  <2> SUFFICES ASSUME MapInv, fcb.fas \in {0, 1}
               PROVE  LET at == Mapped
                      IN /\ Len(at) = written
                         /\ OnDisk(OnDisk(fcb.fsa).link).link = at[1]
                         /\ at[written] = fcb.fea
                         /\ \A k \in 1..written :
                              /\ OnDisk(at[k]).lrn = k
                              /\ OnDisk(at[k]).link = IF k = written THEN Nil ELSE at[k + 1]
    BY DEF MapIsChain
  <2>1. PICK p, T, c : Finished(p, T, c)
    BY DEF MapInv
  <2>2. Mapped = T
    BY <2>1, FinishedIs
  <2> QED  BY <2>1, <2>2 DEF Finished
<1> QED  BY <1>1, MapInductive, PTL

-----------------------------------------------------------------------------
(* POSIT, BKREC and NEXTS on the closed file.                               *)

\* A transfer that nothing has disturbed leaves no soft error in ETRIES.
CleanInv ==
  /\ pc \in {"select", "transfer", "verify", "failed", "done"} /\ seen \subseteq {"ok"}
       => ETRIES = 0
  /\ pc = "failed" => status \in seen /\ status # "ok"

\* A transfer keeps CleanInv, and so does what POSIT does between transfers.
LEMMA CleanStep == CleanInv /\ [RetryNext]_retryVars => CleanInv'
<1> SUFFICES ASSUME CleanInv, [RetryNext]_retryVars
             PROVE  CleanInv'
  OBVIOUS
<1>1. CASE UNCHANGED retryVars
  BY <1>1 DEF retryVars, CleanInv
<1>2. CASE Borrow \/ Return
  BY <1>2 DEF Borrow, Return, CleanInv
<1>3. CASE \E k \in Kinds : Start(k)
  BY <1>3 DEF Start, ClearTries, CleanInv
<1>4. CASE Select
  BY <1>4 DEF Select, CleanInv
<1>5. CASE Transfer
  <2>1. PICK st : /\ status' = st /\ seen' = seen \cup {st} /\ pc = "transfer" /\ ETRIES' = ETRIES
                  /\ pc' = IF st # "ok" THEN "failed"
                     ELSE IF kind = "write" /\ VRFYFG # 0 THEN "verify" ELSE "done"
    BY <1>5 DEF Transfer
  <2>2. seen' \subseteq {"ok"} => seen \subseteq {"ok"}
    BY <2>1
  <2>3. pc' = "failed" => st # "ok"
    BY <2>1
  <2> QED  BY <2>1, <2>2, <2>3 DEF CleanInv
<1>6. CASE Verify
  BY <1>6 DEF Verify, CleanInv
<1>7. CASE RetryTransfer \/ RetryRestore \/ GiveUp
  <2>1. pc = "failed" /\ seen' = seen /\ pc' # "failed"
    BY <1>7 DEF RetryTransfer, RetryRestore, GiveUp
  <2>2. ~ (seen \subseteq {"ok"})
    BY <2>1 DEF CleanInv
  <2> QED  BY <2>1, <2>2 DEF CleanInv
<1> QED  BY <1>1, <1>2, <1>3, <1>4, <1>5, <1>6, <1>7 DEF RetryNext, RetryStep

\* The history of the last call has these fields.
SeekShape ==
  seek = [asked |-> seek.asked, result |-> seek.result, positioned |-> seek.positioned,
          retried |-> seek.retried, calls |-> seek.calls]

\* Which call waits for what.
Seeks == op \in {"posit", "back"}
CallInv ==
  /\ SeekShape
  /\ fcb.fas # 1 => ~Seeks /\ op # "next" /\ ~seek.positioned
  /\ op = "open" => ~seek.positioned
  /\ place \in {"maximum", "skip"} => op = "open"
  /\ place = "next" => op = "next"
  /\ place \in {"map", "next map", "scan", "record"} => Seeks

\* The transfers leave the call alone.
LEMMA CallMachine ==
  ASSUME CallInv, Issue \/ Machine \/ Deliver \/ UNCHANGED vars
  PROVE  CallInv'
<1>0. SeekShape
  BY DEF CallInv
<1>1. /\ fcb' = fcb /\ op' = op /\ place' = place /\ seek'.positioned = seek.positioned
      /\ SeekShape'
  <2>1. CASE Issue
    BY <1>0, <2>1 DEF Issue, SeekShape
  <2>2. CASE Machine
    BY <1>0, <2>2 DEF Machine, file, SeekShape
  <2>3. CASE Deliver
    BY <1>0, <2>3 DEF Deliver, SeekShape
  <2>4. CASE UNCHANGED vars
    BY <1>0, <2>4 DEF vars, file, SeekShape
  <2> QED  BY <2>1, <2>2, <2>3, <2>4
<1> QED  BY <1>1 DEF CallInv, Seeks

\* The calls that write the file.
LEMMA CallWriting ==
  ASSUME CallInv, MapInv,
         \/ WriteFirst \/ WriteNext \/ Close \/ Abandon \/ Linked \/ Assigned \/ PutEntry
         \/ NextEntry \/ CloseMap \/ Closed
  PROVE  CallInv' /\ fcb.fas = 2 /\ fcb'.fas # 1
<1>0. BlockShape /\ ProgramInv /\ SeekShape
  BY DEF CallInv, MapInv
<1>1. fcb.fas = 2
  <2>1. CASE WriteFirst \/ WriteNext \/ Close
    BY <2>1 DEF WriteFirst, WriteNext, Close, Call
  <2>2. CASE Abandon
    BY <1>0, <2>2 DEF Abandon, ProgramInv
  <2>3. CASE Linked \/ Assigned \/ PutEntry \/ NextEntry \/ CloseMap \/ Closed
    BY <1>0, <2>3 DEF Linked, Assigned, PutEntry, NextEntry, CloseMap, Closed, Behind, ProgramInv
  <2> QED  BY <2>1, <2>2, <2>3
<1>9. fcb.fas # 1
  BY <1>1
<1>2. ~Seeks /\ op # "next" /\ ~seek.positioned
  BY <1>9 DEF CallInv
<1>3. seek' = seek
  BY DEF WriteFirst, WriteNext, Close, Abandon, Linked, Assigned, PutEntry, NextEntry, CloseMap, Closed
<1>4. op' \in {op, "write", "close"}
  BY DEF WriteFirst, WriteNext, Close, Call, Abandon, Linked, Assigned, PutEntry, NextEntry,
    CloseMap, Closed
<1>5. place' \in {"program", "abandoned", "assigned", "linked", "entry", "entry put", "last"}
  <2>1. CASE WriteFirst \/ WriteNext \/ Close \/ Abandon \/ Linked
    BY <2>1 DEF WriteFirst, WriteNext, Close, Abandon, Linked, Assign, Link
  <2>2. CASE Assigned \/ PutEntry \/ NextEntry \/ CloseMap \/ Closed
    BY <2>2 DEF Assigned, PutEntry, NextEntry, CloseMap, Closed, Done
  <2> QED  BY <2>1, <2>2
<1>6. fcb'.fas # 1
  <2>1. CASE WriteNext \/ Close \/ Abandon \/ PutEntry
    <3>1. fcb' = fcb
      BY <2>1 DEF WriteNext, Close, Abandon, PutEntry
    <3> QED  BY <1>9, <3>1
  <2>2. CASE CloseMap \/ Closed
    <3>1. fcb' = [fcb EXCEPT !.fcs = fcb.fnk] \/ fcb' = [fcb EXCEPT !.fas = 0]
      BY <2>2 DEF CloseMap, Closed, ReadFrom
    <3>2. fcb'.fas = fcb.fas \/ fcb'.fas = 0
      BY <1>0, <3>1 DEF BlockShape
    <3> QED  BY <1>9, <3>2
  <2>3. CASE WriteFirst \/ Linked
    <3>1. PICK f : /\ f = fcb \/ f = [fcb EXCEPT !.fmp = 0]
                   /\ Assign(f)
      BY <2>3 DEF WriteFirst, Linked
    <3>2. PICK m : f = [fas |-> 2, fmp |-> m, fsa |-> fcb.fsa, fea |-> fcb.fea, fcs |-> fcb.fcs,
               frn |-> fcb.frn, flr |-> fcb.flr, sbc |-> fcb.sbc, fnk |-> fcb.fnk, off |-> fcb.off]
      BY <1>0, <1>1, <3>1 DEF BlockShape
    <3>5. f.fas = 2
      BY <3>2
    <3>3. CASE avail = <<>>
      <4>1. fcb' = f
        BY <3>1, <3>3 DEF Assign
      <4> QED  BY <3>5, <4>1
    <3>4. CASE avail # <<>>
      <4>1. PICK e : e = [f EXCEPT !.fea = Head(avail),
                                   !.fsa = IF @ = Nil THEN Head(avail) ELSE @]
        OBVIOUS
      <4>2. PICK a, z : e = [fas |-> 2, fmp |-> m, fsa |-> z, fea |-> a, fcs |-> fcb.fcs,
                             frn |-> fcb.frn, flr |-> fcb.flr, sbc |-> fcb.sbc, fnk |-> fcb.fnk,
                             off |-> fcb.off]
        <5>1. PICK a, z : e = [f EXCEPT !.fea = a, !.fsa = z]
          BY <4>1
        <5>2. e = [fas |-> 2, fmp |-> m, fsa |-> z, fea |-> a, fcs |-> fcb.fcs,
                   frn |-> fcb.frn, flr |-> fcb.flr, sbc |-> fcb.sbc, fnk |-> fcb.fnk,
                   off |-> fcb.off]
          BY <3>2, <5>1
        <5> QED  BY <5>2, Zenon
      <4>3. \/ fcb' = [e EXCEPT !.fcs = e.fea] \/ fcb' = [Longer(e) EXCEPT !.fcs = e.fea]
            \/ fcb' = [Longer(e) EXCEPT !.fcs = Longer(e).fea] \/ fcb' = [e EXCEPT !.fcs = e.fnk]
        BY <3>1, <3>4, <4>1 DEF Assign
      <4>4. PICK l : l = Longer(e)
        OBVIOUS
      <4>5. l.fas = 2 /\ "fas" \in DOMAIN l
        BY <4>2, <4>4 DEF Longer
      <4> QED  BY <4>2, <4>3, <4>4, <4>5
    <3> QED  BY <3>3, <3>4
  <2>4. CASE Assigned
    <3>1. PICK b : b = [fcb EXCEPT !.frn = @ + 1]
      OBVIOUS
    <3>2. b = [fas |-> 2, fmp |-> fcb.fmp, fsa |-> fcb.fsa, fea |-> fcb.fea, fcs |-> fcb.fcs,
               frn |-> fcb.frn + 1, flr |-> fcb.flr, sbc |-> fcb.sbc, fnk |-> fcb.fnk,
               off |-> fcb.off]
      BY <1>0, <1>1, <3>1 DEF BlockShape
    <3>3. \/ fcb' = [b EXCEPT !.frn = 0] \/ fcb' = b
          \/ fcb' = [NewEntry(b) EXCEPT !.fmp = 2, !.fnk = b.fsa, !.off = 1]
      BY <2>4, <3>1 DEF Assigned
    <3>4. PICK e : e = NewEntry(b)
      OBVIOUS
    <3>5. e = [fas |-> 2, fmp |-> fcb.fmp, fsa |-> fcb.fsa, fea |-> fcb.fea, fcs |-> fcb.fcs,
               frn |-> fcb.frn + 1, flr |-> fcb.fea, sbc |-> 1, fnk |-> fcb.fnk, off |-> fcb.off]
      BY <3>2, <3>4 DEF NewEntry
    <3>6. \/ fcb' = [b EXCEPT !.frn = 0] \/ fcb' = b
          \/ fcb' = [e EXCEPT !.fmp = 2, !.fnk = b.fsa, !.off = 1]
      BY <3>3, <3>4
    <3>7. CASE fcb' = [b EXCEPT !.frn = 0] \/ fcb' = b
      BY <3>2, <3>7
    <3>8. CASE fcb' = [e EXCEPT !.fmp = 2, !.fnk = b.fsa, !.off = 1]
      BY <3>5, <3>8
    <3> QED  BY <3>6, <3>7, <3>8
  <2>5. CASE NextEntry
    <3>1. PICK e : e = IF fcb.off = PerSector THEN [fcb EXCEPT !.fnk = fsb.link, !.off = 1]
                       ELSE [fcb EXCEPT !.off = @ + 1]
      OBVIOUS
    <3>2. e.fas = 2 /\ e = [fas |-> 2, fmp |-> fcb.fmp, fsa |-> fcb.fsa, fea |-> fcb.fea,
                            fcs |-> fcb.fcs, frn |-> fcb.frn, flr |-> fcb.flr, sbc |-> fcb.sbc,
                            fnk |-> e.fnk, off |-> e.off]
      BY <1>0, <1>1, <3>1 DEF BlockShape
    <3>3. \/ fcb' = fcb \/ fcb' = [NewEntry(e) EXCEPT !.fcs = NewEntry(e).fea]
      BY <2>5, <3>1 DEF NextEntry
    <3>4. fcb'.fas = 2
      BY <1>1, <3>2, <3>3 DEF NewEntry
    <3> QED  BY <3>4
  <2> QED  BY <2>1, <2>2, <2>3, <2>4, <2>5
<1>7. SeekShape'
  BY <1>0, <1>3 DEF SeekShape
<1> QED  BY <1>1, <1>2, <1>3, <1>4, <1>5, <1>6, <1>7 DEF CallInv, Seeks

\* Opening the file for reading.
LEMMA CallOpening ==
  ASSUME CallInv, MapInv, Open \/ Opened \/ SkipMap \/ OpenFails
  PROVE  /\ CallInv' /\ op' = "open" /\ ~seek'.positioned /\ place' # "next"
         /\ fcb.fas = 1 \/ Open \/ Opened \/ fcb'.fas # 1
<1>0. BlockShape /\ SeekShape
  BY DEF CallInv, MapInv
<1>1. op' = "open" /\ ~seek.positioned
  <2>1. CASE Open
    <3>1. fcb.fas = 0
      BY <2>1 DEF Open, Call
    <3>2. fcb.fas # 1
      BY <3>1
    <3> QED  BY <2>1, <3>2 DEF Open, Call, CallInv
  <2>2. CASE Opened \/ SkipMap
    BY <2>2 DEF Opened, SkipMap, Behind, CallInv
  <2>3. CASE OpenFails
    BY <2>3 DEF OpenFails, CallInv
  <2> QED  BY <2>1, <2>2, <2>3
<1>2. SeekShape' /\ seek'.positioned = seek.positioned
  <2>1. seek' = seek \/ seek' = [seek EXCEPT !.result = "error"]
    BY DEF Open, Opened, SkipMap, OpenFails
  <2> QED  BY <1>0, <2>1 DEF SeekShape
<1>3. place' \in {"program", "maximum", "skip"}
  BY DEF Open, Opened, SkipMap, OpenFails, ReadNext, Done
<1>4. SkipMap \/ OpenFails => fcb'.fas = fcb.fas
  <2>1. CASE SkipMap
    <3>1. fcb' = fcb \/ \E n, a : fcb' = [fcb EXCEPT !.frn = n, !.fcs = a]
      <4>1. fcb' = fcb
              \/ fcb' = [fcb EXCEPT !.frn = @ + 1, !.fcs = IF fsb.link = Nil THEN @ ELSE fsb.link]
        BY <2>1 DEF SkipMap, ReadNext
      <4> QED  BY <4>1
    <3> QED  BY <1>0, <3>1 DEF BlockShape
  <2>2. CASE OpenFails
    BY <2>2 DEF OpenFails
  <2> QED  BY <2>1, <2>2
<1> QED  BY <1>1, <1>2, <1>3, <1>4 DEF CallInv, Seeks

\* A call on the file that is open.
LEMMA CallReading ==
  ASSUME CallInv, MapInv, Nexts \/ BKREC \/ \E n \in 0..(MaxRecords + 1) : POSIT(n)
  PROVE  CallInv' /\ fcb.fas = 1
<1>0. BlockShape /\ SeekShape
  BY DEF CallInv, MapInv
<1>1. CASE Nexts
  <2>1. /\ fcb.fas = 1 /\ op' = "next" /\ place' \in {"program", "next"}
        /\ \E n, a : fcb' = [fcb EXCEPT !.frn = n, !.fcs = a]
    <3>1. fcb' = [fcb EXCEPT !.frn = @ + 1, !.fcs = IF fsb.link = Nil THEN @ ELSE fsb.link]
      BY <1>1 DEF Nexts, ReadNext
    <3>2. fcb.fas = 1 /\ op' = "next" /\ place' \in {"program", "next"}
      BY <1>1 DEF Nexts, ReadNext, Call, Done
    <3> QED  BY <3>1, <3>2
  <2>2. fcb'.fas = 1
    BY <1>0, <2>1 DEF BlockShape
  <2>3. \E r, n, k : seek' = [seek EXCEPT !.asked = n, !.retried = FALSE, !.calls = k, !.result = r]
    <3>1. seek' = [seek EXCEPT !.asked = fcb.frn + 1, !.retried = FALSE, !.calls = @ + 1,
                          !.result = IF fsb.link = Nil THEN "eof" ELSE "none"]
      BY <1>1 DEF Nexts
    <3> QED  BY <3>1
  <2>4. SeekShape'
    BY <1>0, <2>3 DEF SeekShape
  <2> QED  BY <2>1, <2>2, <2>4 DEF CallInv, Seeks
<1>2. ASSUME NEW n, Position(n), Call("back", 1) \/ Call("posit", 1)
      PROVE  CallInv' /\ fcb.fas = 1
  <2>1. /\ fcb.fas = 1 /\ op' \in {"back", "posit"} /\ place' \in {"record", "map"}
        /\ fcb' = [fcb EXCEPT !.frn = n, !.fcs = fcb.fsa]
    BY <1>2 DEF Position, Call
  <2>2. fcb'.fas = 1
    BY <1>0, <2>1 DEF BlockShape
  <2>3. \E k : seek' = [seek EXCEPT !.asked = n, !.result = "none", !.retried = FALSE, !.calls = k]
    BY <1>2 DEF Position, Asks
  <2>4. SeekShape'
    BY <1>0, <2>3 DEF SeekShape
  <2> QED  BY <2>1, <2>2, <2>4 DEF CallInv, Seeks
<1>3. CASE BKREC /\ fcb.frn = 0
  <2>1. /\ fcb.fas = 1 /\ op' = "back" /\ place' = "program" /\ fcb' = fcb
        /\ seek' = [seek EXCEPT !.asked = 0, !.result = "range", !.positioned = FALSE,
                                    !.calls = @ + 1]
    BY <1>3 DEF BKREC, Call, Done
  <2>4. SeekShape'
    BY <1>0, <2>1 DEF SeekShape
  <2> QED  BY <2>1, <2>4 DEF CallInv, Seeks
<1>4. CASE BKREC /\ fcb.frn # 0
  BY <1>2, <1>4 DEF BKREC
<1>5. CASE \E n \in 0..(MaxRecords + 1) : POSIT(n)
  BY <1>2, <1>5 DEF POSIT
<1> QED  BY <1>1, <1>3, <1>4, <1>5

\* The steps of a call on the file that is open.
LEMMA CallSeeking ==
  ASSUME CallInv, MapInv, MapRead \/ Find \/ Pass \/ PastEnd \/ Found \/ SeekFails
  PROVE  CallInv' /\ fcb.fas = 1 /\ op' = op
<1>0. BlockShape /\ SeekShape
  BY DEF CallInv, MapInv
<1>1. (Seeks \/ op = "next") /\ op' = op
  <2>1. CASE MapRead \/ Find \/ Pass \/ PastEnd
    BY <2>1 DEF MapRead, Find, Pass, PastEnd, Scanning, Behind, CallInv
  <2>2. CASE Found
    BY <2>2 DEF Found, Behind, CallInv
  <2>3. CASE SeekFails
    BY <2>3 DEF SeekFails, CallInv, Seeks
  <2> QED  BY <2>1, <2>2, <2>3
<1>2. fcb.fas = 1
  BY <1>1 DEF CallInv
<1>3. fcb'.fas = 1
  <2>1. fcb' = fcb \/ \E a : fcb' = [fcb EXCEPT !.fcs = a]
    BY DEF MapRead, Find, Pass, PastEnd, Found, SeekFails, ReadFrom, Ends, Done
  <2> QED  BY <1>0, <1>2, <2>1 DEF BlockShape
<1>4. SeekShape'
  <2>1. seek' = seek \/ (\E r, t : seek' = [seek EXCEPT !.result = r, !.positioned = t])
                     \/ (\E r : seek' = [seek EXCEPT !.result = r])
    BY DEF MapRead, Find, Pass, PastEnd, Found, SeekFails, Ends
  <2> QED  BY <1>0, <2>1 DEF SeekShape
<1>5. place' \in {"map", "next map", "scan", "record"} => Seeks
  <2>1. CASE MapRead \/ Find \/ Pass \/ PastEnd
    BY <2>1 DEF MapRead, Find, Pass, PastEnd, Scanning, Behind, CallInv
  <2>2. CASE Found \/ SeekFails
    BY <2>2 DEF Found, SeekFails, Ends, Done
  <2> QED  BY <2>1, <2>2
<1>6. place' \notin {"maximum", "skip", "next"}
  BY DEF MapRead, Find, Pass, PastEnd, Found, SeekFails, Scanning, Behind, ReadFrom, Ends, Done
<1>7. op # "open"
  BY <1>1 DEF Seeks
<1> QED  BY <1>2, <1>3, <1>4, <1>5, <1>6, <1>7, <1>1 DEF CallInv, Seeks

\* POSIT6 finds every sector that an entry names.
LEMMA LocateNamed ==
  ASSUME NEW T \in Seq(Addr), NEW a \in Nat, NEW e, Names(e, T, a),
         NEW n \in Nat, n = e.count, a + n <= Len(T), NEW j \in 0 .. (n - 1)
  PROVE  Locate(e.at, j) = T[a + 1 + j]
<1>1. Len(T) \in Nat /\ \A i \in 1 .. Len(T) : T[i] \in Addr
  OBVIOUS
<1>2. n # 0 /\ a + 1 \in 1 .. Len(T) /\ e.at = T[a + 1]
  BY <1>1 DEF Names
<1>3. PICK t \in Nat, s \in 1 .. FMX : e.at = <<t, s>>
  <2>1. e.at \in Nat \X (1 .. FMX)
    BY <1>1, <1>2, Zenon DEF Addr
  <2> QED  BY <2>1
<1> DEFINE Bad == {i \in 0 .. (n - 1) : Locate(<<t, s>>, i) # T[a + 1 + i]}
<1>4. ASSUME Bad # {}
      PROVE  FALSE
  <2>0. Bad \subseteq Nat
    OBVIOUS
  <2>1. PICK k \in Bad : \A i \in Bad : k <= i
    BY <1>4, <2>0, LeastNat, Zenon
  <2>2. k \in 0 .. (n - 1) /\ Locate(<<t, s>>, k) # T[a + 1 + k]
    BY <2>1
  <2>3. CASE k = 0
    <3>1. Locate(<<t, s>>, 0) = <<t, s>>
      BY <1>3, LocateWalks
    <3>2. a + 1 + k = a + 1
      BY <2>3
    <3> QED  BY <1>2, <1>3, <2>2, <2>3, <3>1, <3>2
  <2>4. CASE k # 0
    <3>1. PICK i \in Nat : k = i + 1
      <4>1. k - 1 \in Nat /\ k = (k - 1) + 1
        BY <2>2, <2>4
      <4> QED  BY <4>1
    <3>2. i \in 0 .. (n - 1) /\ ~ (k <= i) /\ k \in 1 .. (n - 1)
          /\ a + 1 + k = a + k + 1 /\ a + 1 + i = a + k
      BY <2>2, <3>1
    <3>3. Locate(<<t, s>>, i) = T[a + k]
      BY <2>1, <3>2
    <3>4. T[a + k + 1] = Following(T[a + k])
      BY <3>2 DEF Names
    <3>5. Locate(<<t, s>>, i + 1) = Following(Locate(<<t, s>>, i))
      BY <1>3, <3>1, LocateWalks
    <3>6. Locate(<<t, s>>, k) = Following(T[a + k])
      BY <3>1, <3>3, <3>5
    <3> QED  BY <2>2, <3>2, <3>4, <3>6
  <2> QED  BY <2>3, <2>4
<1>5. Locate(<<t, s>>, j) = T[a + 1 + j]
  BY <1>4
<1> QED  BY <1>3, <1>5

\* POSIT looks for a record of the file, and no sector of the map took a second try.
Wanted == Seeks /\ seek.asked \in 1 .. written /\ ~seek.retried

\* It is behind x entries of the map, which name c[x] records, too few.
Scans(p, c, x) ==
  /\ x \in 0 .. (MapSize - 1)
  /\ fsb = OnDisk(IF x < PerSector THEN fcb.fsa ELSE p)
  /\ entry = IF x < PerSector THEN x + 1 ELSE x + 1 - PerSector
  /\ ETRIES = entry - 1
  /\ total = c[x] /\ total < fcb.frn
InMap(p, c) == \E x : Scans(p, c, x)

Looking(p, T, c) ==
  /\ place = "map" =>
       /\ fcb.fcs = fcb.fsa
       /\ Ready => ETRIES = 0 /\ fsb = OnDisk(fcb.fsa)
  /\ place = "next map" =>
       /\ fcb.fcs = p /\ total = c[PerSector] /\ total < fcb.frn
       /\ Ready => ETRIES = 0 /\ fsb = OnDisk(p)
  /\ place = "scan" => InMap(p, c)
  /\ place = "record" => fcb.fcs = T[fcb.frn]

\* Once a record is found NEXTS goes on from it.
Landed(T) ==
  /\ place = "program" =>
       /\ fsb = OnDisk(fcb.fcs) /\ fcb.frn = seek.asked
       /\ \/ seek.result = "ok" /\ seek.asked \in 1 .. Len(T) /\ fcb.fcs = T[seek.asked]
          \/ seek.result = "eof" /\ seek.asked \in Nat /\ seek.asked > Len(T) /\ fsb.link = Nil
  /\ place = "next" =>
       fcb.frn = seek.asked /\ seek.asked \in 1 .. Len(T) /\ fcb.fcs = T[seek.asked]

Aimed(p, T, c) ==
  /\ Seeks /\ place # "program" => fcb.frn = seek.asked
  /\ place = "program" /\ Wanted => seek.result \in {"ok", "error"}
  /\ place \in {"record", "next"} /\ Ready => fsb = OnDisk(fcb.fcs)
  /\ Wanted => Looking(p, T, c)
  /\ seek.positioned => Landed(T)

PositInv == fcb.fas = 1 => \A p, T, c : Finished(p, T, c) => Aimed(p, T, c)

\* Ordering a transfer and what the transfer machine does disturb nothing.
LEMMA MachineAims ==
  ASSUME NEW p, NEW T, NEW c, Aimed(p, T, c), ScanInv, MapInv, Issue \/ Machine
  PROVE  Aimed(p, T, c)'
<1>1. UNCHANGED <<disk, avail, fcb, fsb, op, place, rest, entry, total, written, seek>> /\ ~Ready'
  <2>1. CASE Issue
    BY <2>1 DEF Issue, Start, Ready
  <2>2. CASE Machine
    BY <2>2 DEF Machine, Select, Transfer, Verify, RetryTransfer, RetryRestore, GiveUp, file, Ready
  <2> QED  BY <2>1, <2>2
<1>2. place # "program" /\ place # "scan"
  BY DEF MapInv, TransferInv, ScanInv, Issue, Machine, Select, Transfer, Verify, RetryTransfer,
    RetryRestore, GiveUp
<1>3. \A a : OnDisk(a)' = OnDisk(a)
  BY <1>1 DEF OnDisk
<1>4. Wanted' => Wanted
  BY <1>1 DEF Wanted, Seeks
<1>5. Looking(p, T, c) => Looking(p, T, c)'
  BY <1>1, <1>2, <1>3 DEF Looking
<1>6. Landed(T) => Landed(T)'
  BY <1>1, <1>2, <1>3 DEF Landed
<1>7. Seeks' /\ place' # "program" => fcb'.frn = seek'.asked
  BY <1>1 DEF Aimed, Seeks
<1> QED  BY <1>1, <1>2, <1>4, <1>5, <1>6, <1>7 DEF Aimed

\* Aimed depends on the variables alone.
LEMMA StutterAims ==
  ASSUME NEW p, NEW T, NEW c, Aimed(p, T, c), UNCHANGED vars
  PROVE  Aimed(p, T, c)'
<1>1. /\ disk' = disk /\ fcb' = fcb /\ fsb' = fsb /\ op' = op /\ place' = place
      /\ entry' = entry /\ total' = total /\ written' = written /\ seek' = seek
      /\ order' = order /\ pc' = pc /\ status' = status /\ ETRIES' = ETRIES
  BY DEF vars, file, retryVars
<1>2. Wanted' => Wanted
  BY <1>1 DEF Wanted, Seeks
<1>3. \A a : OnDisk(a)' = OnDisk(a)
  BY <1>1 DEF OnDisk
<1>4. \A x : Scans(p, c, x) => Scans(p, c, x)'
  BY <1>1, <1>3 DEF Scans
<1>5. InMap(p, c) => InMap(p, c)'
  BY <1>4 DEF InMap
<1>6. Ready' => Ready
  BY <1>1 DEF Ready
<1>7. Looking(p, T, c) => Looking(p, T, c)'
  BY <1>1, <1>3, <1>5, <1>6 DEF Looking
<1>8. Landed(T) => Landed(T)'
  BY <1>1, <1>3 DEF Landed
<1>9. Seeks' /\ place' # "program" => fcb'.frn = seek'.asked
  BY <1>1 DEF Aimed, Seeks
<1>10. place' = "program" /\ Wanted' => seek'.result \in {"ok", "error"}
  BY <1>1, <1>2 DEF Aimed
<1>11. place' \in {"record", "next"} /\ Ready' => fsb' = OnDisk(fcb.fcs)'
  BY <1>1, <1>3, <1>6 DEF Aimed
<1> QED  BY <1>1, <1>2, <1>7, <1>8, <1>9, <1>10, <1>11 DEF Aimed

\* A transfer returns with the sector that was asked for.
LEMMA DeliverAims ==
  ASSUME NEW p, NEW T, NEW c, Aimed(p, T, c), ScanInv, MapInv, CleanInv, CallInv,
         fcb.fas = 1, Deliver
  PROVE  Aimed(p, T, c)' /\ disk' = disk
<1>1. /\ UNCHANGED <<avail, fcb, op, place, order, rest, entry, total, written>>
      /\ pc \in {"done", "error"} /\ pc' = "idle" /\ status' = status /\ ETRIES' = ETRIES
      /\ seek' = [seek EXCEPT !.retried = @ \/ (place \in {"map", "next map"} /\ seen # {"ok"})]
  BY DEF Deliver, Return
<1>2. kind = "read" /\ place # "program" /\ place # "scan"
  <2>1. fcb.fas # 2
    OBVIOUS
  <2>2. pc # "idle"
    BY <1>1
  <2> QED  BY <2>1, <2>2 DEF MapInv, TransferInv, Waits, ScanInv
<1>3. disk' = disk /\ (pc = "done" => fsb' = OnDisk(fcb.fcs))
  BY <1>2 DEF Deliver
<1>4. pc = "error" => status # "ok"
  BY DEF ScanInv
<1>5. Ready' => fsb' = OnDisk(fcb.fcs) /\ pc = "done"
  BY <1>1, <1>3, <1>4 DEF Ready
<1>6. /\ seek'.asked = seek.asked /\ seek'.result = seek.result
      /\ seek'.positioned = seek.positioned
      /\ seek'.retried = (seek.retried \/ (place \in {"map", "next map"} /\ seen # {"ok"}))
  BY <1>1 DEF CallInv, SeekShape
<1>7. \A a : OnDisk(a)' = OnDisk(a)
  BY <1>3 DEF OnDisk
<1>8. Wanted' => Wanted /\ (place \in {"map", "next map"} => seen = {"ok"})
  BY <1>1, <1>6 DEF Wanted, Seeks
<1>9. seen = {"ok"} /\ pc = "done" => ETRIES = 0
  BY DEF CleanInv
<1>10. ASSUME Wanted'
       PROVE  Looking(p, T, c)'
  <2>1. Looking(p, T, c) /\ (place \in {"map", "next map"} => seen = {"ok"})
    BY <1>8, <1>10 DEF Aimed
  <2>2. place' = "map" =>
          /\ fcb'.fcs = fcb'.fsa
          /\ Ready' => ETRIES' = 0 /\ fsb' = OnDisk(fcb.fsa)'
    BY <1>1, <1>5, <1>7, <1>9, <2>1 DEF Looking
  <2>3. place' = "next map" =>
          /\ fcb'.fcs = p /\ total' = c[PerSector] /\ total' < fcb'.frn
          /\ Ready' => ETRIES' = 0 /\ fsb' = OnDisk(p)'
    BY <1>1, <1>5, <1>7, <1>9, <2>1 DEF Looking
  <2> QED  BY <1>1, <1>2, <2>1, <2>2, <2>3 DEF Looking
<1>11. Landed(T) => Landed(T)'
  BY <1>1, <1>2, <1>6 DEF Landed
<1>12. Seeks' /\ place' # "program" => fcb'.frn = seek'.asked
  BY <1>1, <1>2, <1>6 DEF Aimed, Seeks
<1>13. place' \in {"record", "next"} /\ Ready' => fsb' = OnDisk(fcb.fcs)'
  BY <1>1, <1>5, <1>7 DEF Aimed
<1> QED  BY <1>1, <1>2, <1>3, <1>6, <1>10, <1>11, <1>12, <1>13 DEF Aimed

\* The file is being opened: nothing is looked for yet.
LEMMA OpeningAims ==
  ASSUME NEW p, NEW T, NEW c, op' = "open", ~seek'.positioned, place' \notin {"record", "next"}
  PROVE  Aimed(p, T, c)'
  BY DEF Aimed, Wanted, Seeks

\* RDNEXT reads the sector that the last one links to.
LEMMA NextsAims ==
  ASSUME NEW p, NEW T, NEW c, Finished(p, T, c), Aimed(p, T, c), CallInv, MapInv, Nexts
  PROVE  Aimed(p, T, c)'
<1>0. BlockShape /\ SeekShape
  BY DEF MapInv, CallInv
<1>1. /\ place = "program" /\ op' = "next" /\ disk' = disk /\ fsb' = fsb
      /\ seek.result # "error"
      /\ fcb' = [fcb EXCEPT !.frn = @ + 1, !.fcs = IF fsb.link = Nil THEN @ ELSE fsb.link]
      /\ IF fsb.link = Nil THEN place' = "program" ELSE order' = "read" /\ place' = "next"
      /\ seek' = [seek EXCEPT !.asked = fcb.frn + 1, !.retried = FALSE, !.calls = @ + 1,
                          !.result = IF fsb.link = Nil THEN "eof" ELSE "none"]
  BY DEF Nexts, Call, ReadNext, Done
<1>2. /\ fcb'.frn = fcb.frn + 1 /\ fcb'.fcs = IF fsb.link = Nil THEN fcb.fcs ELSE fsb.link
  BY <1>0, <1>1 DEF BlockShape
<1>3. /\ seek'.asked = fcb.frn + 1 /\ seek'.positioned = seek.positioned
      /\ seek'.result = IF fsb.link = Nil THEN "eof" ELSE "none"
  BY <1>0, <1>1 DEF SeekShape
<1>4. ~Seeks' /\ ~Wanted'
  BY <1>1 DEF Seeks, Wanted
<1>5. ~ (place' = "next" /\ Ready') /\ place' # "record"
  BY <1>1 DEF Ready
<1>6. ASSUME seek.positioned
      PROVE  Landed(T)'
  <2>1. /\ fsb = OnDisk(fcb.fcs) /\ fcb.frn = seek.asked
        /\ \/ seek.result = "ok" /\ seek.asked \in 1 .. Len(T) /\ fcb.fcs = T[seek.asked]
           \/ seek.result = "eof" /\ seek.asked \in Nat /\ seek.asked > Len(T) /\ fsb.link = Nil
    BY <1>1, <1>6 DEF Aimed, Landed
  <2>2. /\ Len(T) \in Nat /\ \A k \in 1 .. Len(T) : T[k] \in Addr
        /\ \A k \in 1 .. Len(T) : OnDisk(T[k]).link = IF k = Len(T) THEN Nil ELSE T[k + 1]
    <3>1. T \in Seq(Addr)
      BY DEF Finished
    <3>2. Len(T) \in Nat /\ \A k \in 1 .. Len(T) : T[k] \in Addr
      BY <3>1
    <3> QED  BY <3>2 DEF Finished
  <2>3. \A a : OnDisk(a)' = OnDisk(a)
    BY <1>1 DEF OnDisk
  <2>4. CASE seek.result = "eof"
    <3>1. seek.asked \in Nat /\ seek.asked > Len(T) /\ fsb.link = Nil
      BY <2>1, <2>4
    <3>2. seek.asked + 1 \in Nat /\ seek.asked + 1 > Len(T)
      BY <2>2, <3>1
    <3> QED  BY <1>1, <1>2, <1>3, <2>1, <2>3, <3>1, <3>2 DEF Landed
  <2>5. CASE seek.result = "ok"
    <3>1. PICK n \in 1 .. Len(T) : n = seek.asked /\ fcb.fcs = T[n] /\ fcb.frn = n
      BY <2>1, <2>5
    <3>2. fsb.link = IF n = Len(T) THEN Nil ELSE T[n + 1]
      BY <2>1, <2>2, <3>1
    <3>3. CASE n = Len(T)
      <4>1. n + 1 \in Nat /\ n + 1 > Len(T)
        BY <2>2, <3>3
      <4> QED  BY <1>1, <1>2, <1>3, <2>1, <2>3, <3>1, <3>2, <3>3, <4>1 DEF Landed
    <3>4. CASE n # Len(T)
      <4>1. n + 1 \in 1 .. Len(T)
        BY <2>2, <3>4
      <4>2. fsb.link = T[n + 1] /\ fsb.link # Nil
        BY <2>2, <3>2, <3>4, <4>1, NilNoAddress
      <4> QED  BY <1>1, <1>2, <1>3, <3>1, <4>1, <4>2 DEF Landed
    <3> QED  BY <3>3, <3>4
  <2> QED  BY <2>1, <2>4, <2>5
<1> QED  BY <1>3, <1>4, <1>5, <1>6 DEF Aimed

\* POSIT1 begins at the first sector of the map.
LEMMA PositionAims ==
  ASSUME NEW p, NEW T, NEW c, NEW n, CallInv, MapInv, Position(n)
  PROVE  Aimed(p, T, c)'
<1>0. BlockShape /\ SeekShape
  BY DEF MapInv, CallInv
<1>1. /\ fcb' = [fcb EXCEPT !.frn = n, !.fcs = fcb.fsa] /\ order' = "read"
      /\ place' = IF n = 0 THEN "record" ELSE "map"
      /\ \E k : seek' = [seek EXCEPT !.asked = n, !.result = "none", !.retried = FALSE, !.calls = k]
  BY DEF Position, Asks
<1>2. fcb'.frn = n /\ fcb'.fcs = fcb'.fsa
  BY <1>0, <1>1 DEF BlockShape
<1>3. seek'.asked = n
  BY <1>0, <1>1 DEF SeekShape
<1>4. ~Ready'
  BY <1>1 DEF Ready
<1>5. Wanted' => place' = "map"
  BY <1>1, <1>3 DEF Wanted
<1>6. Wanted' => Looking(p, T, c)'
  BY <1>2, <1>4, <1>5 DEF Looking
<1>7. Landed(T)'
  BY <1>1 DEF Landed
<1> QED  BY <1>1, <1>2, <1>3, <1>4, <1>5, <1>6, <1>7 DEF Aimed

\* POSIT and BKREC begin their search.
LEMMA CallAims ==
  ASSUME NEW p, NEW T, NEW c, CallInv, MapInv,
         BKREC \/ \E n \in 0..(MaxRecords + 1) : POSIT(n)
  PROVE  Aimed(p, T, c)'
<1>1. CASE BKREC /\ fcb.frn = 0
  <2>1. /\ place' = "program"
        /\ seek' = [seek EXCEPT !.asked = 0, !.result = "range", !.positioned = FALSE,
                                    !.calls = @ + 1]
    BY <1>1 DEF BKREC, Done
  <2>2. seek'.asked = 0 /\ ~seek'.positioned
    BY <2>1 DEF CallInv, SeekShape
  <2>3. ~Wanted'
    BY <2>2 DEF Wanted
  <2> QED  BY <2>1, <2>2, <2>3 DEF Aimed
<1>2. CASE BKREC /\ fcb.frn # 0
  BY <1>2, PositionAims DEF BKREC
<1>3. CASE \E n \in 0..(MaxRecords + 1) : POSIT(n)
  BY <1>3, PositionAims DEF POSIT
<1> QED  BY <1>1, <1>2, <1>3

\* The entry that POSIT looks at.
LEMMA ScanEntry ==
  ASSUME NEW p, NEW T, NEW c, NEW x, Finished(p, T, c), Scans(p, c, x)
  PROVE  /\ x \in Nat /\ x < MapSize /\ Len(T) \in Nat /\ Len(T) = written
         /\ c[x] \in Nat /\ c[x + 1] \in Nat /\ c[x + 1] <= Len(T)
         /\ fsb.map[entry].count \in Nat
         /\ c[x + 1] = c[x] + fsb.map[entry].count
         /\ Names(fsb.map[entry], T, c[x])
         /\ fsb.map[entry].count = 0 => c[x] = Len(T)
         /\ x < PerSector => fsb.link = p
<1>1. x \in Nat /\ x < MapSize /\ x + 1 \in 1 .. MapSize /\ x \in 0 .. MapSize /\ x + 1 \in 0 .. MapSize
      /\ (x + 1) - 1 = x
  <2>1. x \in 0 .. (MapSize - 1)
    BY DEF Scans
  <2> QED  BY <2>1, MapSizes
<1>2. T \in Seq(Addr) /\ Len(T) \in Nat /\ Len(T) = written
  <2>1. T \in Seq(Addr) /\ Len(T) = written
    BY DEF Finished
  <2> QED  BY <2>1
<1>3. PICK m1, m2 : m1 = OnDisk(fcb.fsa).map /\ m2 = OnDisk(p).map
  OBVIOUS
<1>4. PICK e : e = fsb.map[entry]
  OBVIOUS
<1>5. e = EntryOf(m1, m2, x + 1)
  <2>1. CASE x < PerSector
    <3>1. fsb = OnDisk(fcb.fsa) /\ entry = x + 1 /\ x + 1 <= PerSector
      BY <1>1, <2>1, MapSizes DEF Scans
    <3> QED  BY <1>3, <1>4, <3>1 DEF EntryOf
  <2>2. CASE ~ (x < PerSector)
    <3>2. fsb = OnDisk(p) /\ entry = x + 1 - PerSector
      BY <2>2 DEF Scans
    <3>3. ~ (x + 1 <= PerSector)
      BY <1>1, <2>2, MapSizes
    <3>6. PICK y \in Nat : y = x + 1 /\ ~ (y <= PerSector)
      <4>1. x + 1 \in Nat
        BY <1>1
      <4> QED  BY <3>3, <4>1
    <3>7. EntryOf(m1, m2, y) = m2[y - PerSector]
      BY <3>6, MapSizes DEF EntryOf
    <3>8. y - PerSector = x + 1 - PerSector
      BY <1>1, <3>6, MapSizes
    <3>4. EntryOf(m1, m2, x + 1) = m2[x + 1 - PerSector]
      BY <3>6, <3>7, <3>8
    <3>5. e = m2[x + 1 - PerSector]
      BY <1>3, <1>4, <3>2
    <3> QED  BY <3>4, <3>5
  <2> QED  BY <2>1, <2>2
<1>6. Ledger(m1, m2, T, c, MapSize)
      /\ \A i \in 1 .. MapSize : EntryOf(m1, m2, i).count = 0 => c[i - 1] = Len(T)
  BY <1>3 DEF Finished
<1>7. c[x] \in 0 .. Len(T) /\ c[x + 1] \in 0 .. Len(T)
  BY <1>1, <1>6 DEF Ledger
<1>8. c[x + 1] = c[x] + e.count /\ Names(e, T, c[x])
  BY <1>1, <1>5, <1>6 DEF Ledger
<1>9. e.count \in Nat
  BY <1>8 DEF Names
<1>10. e.count = 0 => c[x] = Len(T)
  BY <1>1, <1>5, <1>6
<1>11. x < PerSector => fsb.link = p
  BY DEF Scans, Finished
<1> QED  BY <1>1, <1>2, <1>4, <1>7, <1>8, <1>9, <1>10, <1>11

\* A step of a call that is looking for a record.
LEMMA StepWants ==
  ASSUME UNCHANGED <<op, written>>, seek'.asked = seek.asked, seek'.retried = seek.retried
  PROVE  Wanted' <=> Wanted
  BY DEF Wanted, Seeks

\* GETFSM has read a sector of the map.
LEMMA MapReadAims ==
  ASSUME NEW p, NEW T, NEW c, Finished(p, T, c), Aimed(p, T, c), CallInv, MapRead
  PROVE  Aimed(p, T, c)'
<1>1. /\ place \in {"map", "next map"} /\ Ready /\ place' = "scan" /\ entry' = 1
      /\ place = "map" => total' = 0
      /\ place = "next map" => total' = total
      /\ ETRIES' = ETRIES
      /\ UNCHANGED <<disk, fcb, fsb, op, written, seek>>
  BY DEF MapRead, Behind, Ready, retryVars
<1>2. Seeks /\ fcb.frn = seek.asked
  BY <1>1 DEF CallInv, Aimed
<1>3. \A a : OnDisk(a)' = OnDisk(a)
  BY <1>1 DEF OnDisk
<1>4. Wanted' <=> Wanted
  BY <1>1, StepWants
<1>5. ASSUME Wanted
      PROVE  \E x : Scans(p, c, x)'
  <2>1. fcb.frn > 0
    BY <1>2, <1>5 DEF Wanted
  <2>2. c[0] = 0
    BY DEF Finished, Ledger
  <2>3. Looking(p, T, c)
    BY <1>5 DEF Aimed
  <2>4. CASE place = "map"
    <3>1. ETRIES = 0 /\ fsb = OnDisk(fcb.fsa)
      BY <1>1, <2>3, <2>4 DEF Looking
    <3>4. 0 \in 0 .. (MapSize - 1) /\ 0 < PerSector
      BY MapSizes
    <3>5. entry' = 1 /\ ETRIES' = 0
      BY <1>1, <3>1
    <3>2. entry' = 0 + 1 /\ ETRIES' = entry' - 1
      BY <3>5
    <3>3. Scans(p, c, 0)'
      BY <1>1, <1>3, <2>1, <2>2, <2>4, <3>1, <3>2, <3>4 DEF Scans
    <3> QED  BY <3>3
  <2>5. CASE place = "next map"
    <3>1. ETRIES = 0 /\ fsb = OnDisk(p) /\ total = c[PerSector] /\ total < fcb.frn
      BY <1>1, <2>3, <2>5 DEF Looking
    <3>4. /\ PerSector \in 0 .. (MapSize - 1) /\ ~ (PerSector < PerSector)
          /\ PerSector + 1 - PerSector = 1
      BY MapSizes
    <3>5. entry' = 1 /\ ETRIES' = 0
      BY <1>1, <3>1
    <3>2. entry' = PerSector + 1 - PerSector /\ ETRIES' = entry' - 1
      BY <3>4, <3>5
    <3>3. Scans(p, c, PerSector)'
      BY <1>1, <1>3, <2>5, <3>1, <3>2, <3>4 DEF Scans
    <3> QED  BY <3>3
  <2> QED  BY <1>1, <2>4, <2>5
<1>6. Wanted' => Looking(p, T, c)'
  BY <1>1, <1>4, <1>5 DEF Looking, InMap
<1>7. Landed(T)'
  BY <1>1 DEF Landed
<1>8. fcb'.frn = seek'.asked
  BY <1>1, <1>2
<1> QED  BY <1>1, <1>6, <1>7, <1>8 DEF Aimed

\* POSIT6: the entry names the record, and its sector is read.
LEMMA FindAims ==
  ASSUME NEW p, NEW T, NEW c, Finished(p, T, c), Aimed(p, T, c), CallInv, MapInv, Find
  PROVE  Aimed(p, T, c)'
<1>0. BlockShape
  BY DEF MapInv
<1>1. /\ place = "scan" /\ place' = "record" /\ order' = "read"
      /\ fsb.map[entry].count # 0 /\ Counted >= fcb.frn
      /\ fcb' = [fcb EXCEPT !.fcs = Locate(fsb.map[entry].at, fcb.frn - total - 1)]
      /\ UNCHANGED <<disk, fsb, op, written, seek>>
  BY DEF Find, Scanning, Behind, ReadFrom
<1>2. Seeks /\ fcb.frn = seek.asked
  BY <1>1 DEF CallInv, Aimed
<1>3. /\ fcb'.frn = fcb.frn
      /\ fcb'.fcs = Locate(fsb.map[entry].at, fcb.frn - total - 1)
  BY <1>0, <1>1 DEF BlockShape
<1>4. Wanted' <=> Wanted
  BY <1>1, StepWants
<1>5. ASSUME Wanted
      PROVE  fcb'.fcs = T[fcb'.frn]
  <2>1. PICK x : Scans(p, c, x)
    BY <1>1, <1>5 DEF Aimed, Looking, InMap
  <2>2. PICK e, a, n : e = fsb.map[entry] /\ a = c[x] /\ n = e.count
    OBVIOUS
  <2>3. /\ a \in Nat /\ n \in Nat /\ Len(T) \in Nat /\ c[x + 1] <= Len(T) /\ c[x + 1] = a + n
        /\ Names(e, T, a)
    BY <2>1, <2>2, ScanEntry
  <2>4. PICK f \in Nat : f = fcb.frn
    BY <1>2, <1>5, <2>3 DEF Wanted, Finished
  <2>5. total = a /\ a < f /\ f <= a + n
    BY <1>1, <2>1, <2>2, <2>4 DEF Scans, Counted
  <2>6. f - a - 1 \in 0 .. (n - 1) /\ a + 1 + (f - a - 1) = f /\ a + n <= Len(T)
    BY <2>3, <2>4, <2>5
  <2>7. T \in Seq(Addr)
    BY DEF Finished
  <2>8. PICK j \in 0 .. (n - 1) : j = f - a - 1
    BY <2>6
  <2>11. a \in Nat /\ n \in Nat /\ n = e.count /\ Names(e, T, a) /\ a + n <= Len(T)
    BY <2>2, <2>3, <2>6
  <2>9. Locate(e.at, j) = T[a + 1 + j]
    BY <2>7, <2>8, <2>11, LocateNamed, Zenon
  <2>10. Locate(e.at, f - a - 1) = T[f]
    BY <2>6, <2>8, <2>9
  <2> QED  BY <1>3, <2>2, <2>4, <2>5, <2>10
<1>6. Wanted' => Looking(p, T, c)'
  BY <1>1, <1>4, <1>5 DEF Looking
<1>7. Landed(T)'
  BY <1>1 DEF Landed
<1>8. ~Ready'
  BY <1>1 DEF Ready
<1> QED  BY <1>1, <1>2, <1>3, <1>6, <1>7, <1>8 DEF Aimed

\* POSIT4: the entry is passed.
LEMMA PassAims ==
  ASSUME NEW p, NEW T, NEW c, Finished(p, T, c), Aimed(p, T, c), CallInv, MapInv, ScanInv, IInv,
         Pass
  PROVE  Aimed(p, T, c)'
<1>0. BlockShape
  BY DEF MapInv
<1>1. /\ place = "scan" /\ fsb.map[entry].count # 0 /\ Counted < fcb.frn
      /\ ETRIES' = Bump(ETRIES)
      /\ UNCHANGED <<disk, fsb, op, written>>
  BY DEF Pass, Scanning, Behind
<1>2. Seeks /\ fcb.frn = seek.asked
  BY <1>1 DEF CallInv, Aimed
<1>3. ETRIES \in Nat /\ ETRIES < PerSector /\ ETRIES' = ETRIES + 1 /\ ETRIES' # 2 * PerSector
  <2>1. ETRIES \in Nat /\ PerSector \in Nat /\ PerSector < 256 /\ PerSector > 0
    BY Widths DEF IInv
  <2>2. ETRIES < PerSector
    BY <1>1 DEF ScanInv
  <2>3. Bump(ETRIES) = ETRIES + 1
    BY <2>1, <2>2, BumpIsNext
  <2> QED  BY <1>1, <2>1, <2>2, <2>3
<1>4. CASE ETRIES' = PerSector
  <2>1. /\ fcb' = [fcb EXCEPT !.fcs = fsb.link] /\ order' = "read" /\ place' = "next map"
        /\ total' = Counted /\ seek' = seek
    BY <1>3, <1>4 DEF Pass, ReadFrom
  <2>2. fcb'.frn = fcb.frn /\ fcb'.fcs = fsb.link
    BY <1>0, <2>1 DEF BlockShape
  <2>3. ~Ready' /\ (Wanted' <=> Wanted)
    BY <1>1, <2>1, StepWants DEF Ready
  <2>4. ASSUME Wanted
        PROVE  fcb'.fcs = p /\ total' = c[PerSector] /\ total' < fcb'.frn
    <3>1. PICK x : Scans(p, c, x)
      BY <1>1, <2>4 DEF Aimed, Looking, InMap
    <3>2. /\ x \in Nat /\ x < MapSize /\ c[x] \in Nat /\ Len(T) = written /\ Len(T) \in Nat
          /\ c[x + 1] = c[x] + fsb.map[entry].count /\ (x < PerSector => fsb.link = p)
      BY <3>1, ScanEntry
    <3>3. entry = PerSector
      <4>1. ETRIES = entry - 1 /\ entry \in Nat
        BY <1>1, <3>1 DEF Scans, ScanInv
      <4>2. PerSector \in Nat
        BY MapSizes
      <4> QED  BY <1>3, <1>4, <4>1, <4>2
    <3>4. c[x + 1] < fcb.frn
      BY <1>1, <3>1, <3>2 DEF Scans, Counted
    <3>5. x < PerSector
      <4>1. SUFFICES ASSUME ~ (x < PerSector)
                     PROVE  FALSE
        OBVIOUS
      <4>2. entry = x + 1 - PerSector
        BY <3>1, <4>1 DEF Scans
      <4>3. x + 1 = MapSize
        BY <3>2, <3>3, <4>2, MapSizes
      <4>4. c[x + 1] = Len(T)
        BY <4>3 DEF Finished
      <4>5. fcb.frn \in 1 .. Len(T)
        BY <1>2, <2>4, <3>2 DEF Wanted
      <4> QED  BY <3>2, <3>4, <4>4, <4>5
    <3>6. x + 1 = PerSector
      <4>1. entry = x + 1
        BY <3>1, <3>5 DEF Scans
      <4> QED  BY <3>3, <4>1
    <3>7. total' = c[x + 1]
      BY <2>1, <3>1, <3>2 DEF Counted, Scans
    <3> QED  BY <2>2, <3>2, <3>4, <3>5, <3>6, <3>7
  <2>5. Wanted' => Looking(p, T, c)'
    BY <2>1, <2>3, <2>4 DEF Looking
  <2>6. Landed(T)'
    BY <2>1 DEF Landed
  <2> QED  BY <1>2, <2>1, <2>2, <2>5, <2>6 DEF Aimed
<1>5. CASE ETRIES' # PerSector
  <2>1. entry' = entry + 1 /\ total' = Counted /\ UNCHANGED <<fcb, place, order, seek>>
    BY <1>3, <1>5 DEF Pass
  <2>2. Wanted' <=> Wanted
    BY <1>1, <2>1, StepWants
  <2>3. ASSUME Wanted
        PROVE  \E x : Scans(p, c, x)'
    <3>1. PICK x : Scans(p, c, x)
      BY <1>1, <2>3 DEF Aimed, Looking, InMap
    <3>2. /\ x \in Nat /\ x < MapSize /\ c[x] \in Nat
          /\ c[x + 1] = c[x] + fsb.map[entry].count
      BY <3>1, ScanEntry
    <3>3. ETRIES = entry - 1 /\ entry \in Nat
      BY <1>1, <3>1 DEF Scans, ScanInv
    <3>4. ETRIES' = entry' - 1 /\ entry # PerSector
      BY <1>3, <1>5, <2>1, <3>3, MapSizes
    <3>5. PICK y : y = x + 1
      OBVIOUS
    <3>6. y \in 0 .. (MapSize - 1) /\ (y < PerSector <=> x < PerSector)
          /\ entry' = IF y < PerSector THEN y + 1 ELSE y + 1 - PerSector
      <4>1. CASE x < PerSector
        <5>1. entry = x + 1
          BY <3>1, <4>1 DEF Scans
        <5>2. y < PerSector /\ entry' = y + 1 /\ y \in 0 .. (MapSize - 1)
          BY <2>1, <3>2, <3>4, <3>5, <4>1, <5>1, MapSizes
        <5> QED  BY <4>1, <5>2
      <4>2. CASE ~ (x < PerSector)
        <5>1. entry = x + 1 - PerSector
          BY <3>1, <4>2 DEF Scans
        <5>2. ~ (y < PerSector) /\ y \in 0 .. (MapSize - 1)
          BY <3>2, <3>4, <3>5, <4>2, <5>1, MapSizes
        <5>3. entry' = y + 1 - PerSector
          BY <2>1, <3>2, <3>5, <5>1, MapSizes
        <5> QED  BY <4>2, <5>2, <5>3
      <4> QED  BY <4>1, <4>2
    <3>7. total' = c[y] /\ total' < fcb'.frn
      BY <1>1, <2>1, <3>1, <3>2, <3>5 DEF Scans, Counted
    <3>8. fsb' = OnDisk(IF y < PerSector THEN fcb.fsa ELSE p)'
      <4>1. fsb' = OnDisk(IF x < PerSector THEN fcb.fsa ELSE p)
        BY <1>1, <3>1 DEF Scans
      <4> QED  BY <1>1, <2>1, <3>6, <4>1 DEF OnDisk
    <3>9. Scans(p, c, y)'
      BY <3>4, <3>6, <3>7, <3>8 DEF Scans
    <3> QED  BY <3>9
  <2>4. Wanted' => Looking(p, T, c)'
    BY <1>1, <2>1, <2>2, <2>3 DEF Looking, InMap
  <2>5. Landed(T)'
    BY <1>1, <2>1 DEF Landed
  <2> QED  BY <1>1, <1>2, <2>1, <2>4, <2>5 DEF Aimed
<1> QED  BY <1>4, <1>5

\* POSIT8: no entry without records comes before that of a record of the file.
LEMMA PastEndAims ==
  ASSUME NEW p, NEW T, NEW c, Finished(p, T, c), Aimed(p, T, c), CallInv, PastEnd
  PROVE  Aimed(p, T, c)'
<1>1. /\ place = "scan" /\ place' = "program" /\ fsb.map[entry].count = 0
      /\ seek' = [seek EXCEPT !.result = "range", !.positioned = ("range" = "ok" /\ fcb.frn # 0)]
      /\ UNCHANGED <<disk, fcb, fsb, op, written>>
  BY DEF PastEnd, Scanning, Behind, Ends, Done
<1>2. Seeks /\ fcb.frn = seek.asked
  BY <1>1 DEF CallInv, Aimed
<1>3. seek'.asked = seek.asked /\ seek'.retried = seek.retried /\ ~seek'.positioned
  BY <1>1 DEF CallInv, SeekShape
<1>4. Wanted' <=> Wanted
  BY <1>1, <1>3, StepWants
<1>5. ~Wanted
  <2> SUFFICES ASSUME Wanted
               PROVE  FALSE
    OBVIOUS
  <2>1. PICK x : Scans(p, c, x)
    BY <1>1 DEF Aimed, Looking, InMap
  <2>2. c[x] = Len(T) /\ Len(T) = written /\ Len(T) \in Nat
    BY <1>1, <2>1, ScanEntry
  <2>3. fcb.frn \in 1 .. Len(T)
    BY <1>2, <2>2 DEF Wanted
  <2>4. c[x] < fcb.frn
    BY <2>1 DEF Scans
  <2> QED  BY <2>2, <2>3, <2>4
<1> QED  BY <1>1, <1>3, <1>4, <1>5 DEF Aimed

\* The sector is there: it is the record's own.
LEMMA FoundAims ==
  ASSUME NEW p, NEW T, NEW c, Finished(p, T, c), Aimed(p, T, c), CallInv, Found
  PROVE  Aimed(p, T, c)'
<1>0. SeekShape
  BY DEF CallInv
<1>1. /\ place \in {"record", "next"} /\ Ready /\ place' = "program"
      /\ UNCHANGED <<disk, fcb, fsb, op, written>>
  BY DEF Found, Behind, Ready, Ends, Done
<1>2. fsb = OnDisk(fcb.fcs)
  BY <1>1 DEF Aimed
<1>3. \A a : OnDisk(a)' = OnDisk(a)
  BY <1>1 DEF OnDisk
<1>4. \A k \in 1 .. Len(T) : OnDisk(T[k]).lrn = k
  BY DEF Finished
<1>5. CASE place = "record"
  <2>1. PICK r : /\ r = IF fsb.lrn = fcb.frn THEN "ok" ELSE "match"
                 /\ seek' = [seek EXCEPT !.result = r, !.positioned = (r = "ok" /\ fcb.frn # 0)]
    BY <1>5 DEF Found, Behind, Ends
  <2>2. Seeks /\ fcb.frn = seek.asked
    BY <1>5 DEF CallInv, Aimed
  <2>3. /\ seek'.asked = seek.asked /\ seek'.retried = seek.retried /\ seek'.result = r
        /\ seek'.positioned = (r = "ok" /\ fcb.frn # 0)
    BY <1>0, <2>1 DEF SeekShape
  <2>4. Wanted' <=> Wanted
    BY <1>1, <2>3, StepWants
  <2>5. Wanted => r = "ok"
    <3> SUFFICES ASSUME Wanted
                 PROVE  r = "ok"
      OBVIOUS
    <3>1. fcb.fcs = T[fcb.frn]
      BY <1>5 DEF Aimed, Looking
    <3>2. fcb.frn \in 1 .. Len(T)
      BY <2>2 DEF Wanted, Finished
    <3> QED  BY <1>2, <1>4, <2>1, <3>1, <3>2
  <2>6. seek'.positioned => Landed(T)'
    <3> SUFFICES ASSUME r = "ok", fcb.frn # 0
                 PROVE  Landed(T)'
      BY <2>3
    <3>1. fsb.lrn = fcb.frn
      BY <2>1
    <3>2. fcb.fcs \in Records(T)
      BY <1>2, <3>1 DEF Finished, Unnumbered
    <3>3. PICK k \in 1 .. Len(T) : fcb.fcs = T[k]
      BY <3>2 DEF Records
    <3>4. fcb.frn = k
      BY <1>2, <1>4, <3>1, <3>3
    <3> QED  BY <1>1, <1>2, <1>3, <2>2, <2>3, <3>3, <3>4 DEF Landed
  <2>7. Wanted' => Looking(p, T, c)'
    BY <1>1 DEF Looking
  <2> QED  BY <1>1, <2>3, <2>4, <2>5, <2>6, <2>7 DEF Aimed
<1>6. CASE place = "next"
  <2>1. seek' = [seek EXCEPT !.result = "ok"] /\ op = "next"
    BY <1>6 DEF Found, Behind, CallInv
  <2>2. seek'.asked = seek.asked /\ seek'.positioned = seek.positioned /\ seek'.result = "ok"
    BY <1>0, <2>1 DEF SeekShape
  <2>3. ~Seeks' /\ ~Wanted'
    BY <1>1, <2>1 DEF Seeks, Wanted
  <2>4. seek'.positioned => Landed(T)'
    BY <1>1, <1>2, <1>3, <1>6, <2>2 DEF Aimed, Landed
  <2> QED  BY <1>1, <2>3, <2>4 DEF Aimed
<1> QED  BY <1>1, <1>5, <1>6

\* A transfer of the search failed: the program gets the error, or is lost.
LEMMA SeekFailsAims ==
  ASSUME NEW p, NEW T, NEW c, Aimed(p, T, c), CallInv, SeekFails
  PROVE  Aimed(p, T, c)'
<1>1. /\ place # "program" /\ UNCHANGED <<disk, fcb, fsb, op, written>> /\ ~Ready'
  BY DEF SeekFails, Ready, Ends, Done, retryVars
<1>2. CASE place = "next map"
  <2>1. place' = "lost" /\ seek' = seek
    BY <1>2 DEF SeekFails
  <2> QED  BY <1>1, <2>1 DEF Aimed, Seeks, Looking, Landed
<1>3. CASE place # "next map"
  <2>1. place' = "program" /\ seek' = [seek EXCEPT !.result = "error",
                                              !.positioned = ("error" = "ok" /\ fcb.frn # 0)]
    BY <1>3 DEF SeekFails, Ends, Done
  <2>2. seek'.result = "error" /\ ~seek'.positioned
    BY <2>1 DEF CallInv, SeekShape
  <2> QED  BY <2>1, <2>2 DEF Aimed, Looking
<1> QED  BY <1>2, <1>3

-----------------------------------------------------------------------------
SearchInv == MapInv /\ CleanInv /\ CallInv /\ PositInv

\* In the beginning nothing is looked for.
LEMMA SearchInitially == Init => SearchInv
<1> SUFFICES ASSUME Init
             PROVE  SearchInv
  OBVIOUS
<1>1. CleanInv
  BY DEF Init, RetryInit, CleanInv
<1>2. /\ fcb = [fas |-> 2, fmp |-> 1, fsa |-> Nil, fea |-> Nil, fcs |-> Nil, frn |-> 0,
                flr |-> Nil, sbc |-> 0, fnk |-> Nil, off |-> 1]
      /\ op = "none" /\ place = "program"
      /\ seek = [asked |-> 0, result |-> "none", positioned |-> FALSE,
                 retried |-> FALSE, calls |-> 0]
  BY DEF Init
<1>3. fcb.fas = 2 /\ ~seek.positioned /\ SeekShape
  BY <1>2 DEF SeekShape
<1>4. CallInv
  BY <1>2, <1>3 DEF CallInv, Seeks
<1>5. PositInv
  BY <1>3 DEF PositInv
<1> QED  BY <1>1, <1>4, <1>5, MapInitially DEF SearchInv

\* What a step does to the search, when the file was open before.
LEMMA SearchStep ==
  ASSUME IInv, ScanInv, SearchInv, [Next]_vars
  PROVE  CallInv' /\ PositInv'
<1>0. MapInv /\ CleanInv /\ CallInv /\ PositInv
  BY DEF SearchInv
<1>1. ASSUME fcb.fas = 1, disk' = disk, written' = written, fcb'.fsa = fcb.fsa, fcb'.fea = fcb.fea,
             \A p, T, c : Finished(p, T, c) /\ Aimed(p, T, c) => Aimed(p, T, c)'
      PROVE  PositInv'
  <2>1. \A p, T, c : Finished(p, T, c)' => Finished(p, T, c)
    BY <1>1, ClosedStays
  <2>2. \A p, T, c : Finished(p, T, c) => Aimed(p, T, c)
    BY <1>0, <1>1 DEF PositInv
  <2> QED  BY <1>1, <2>1, <2>2 DEF PositInv
<1>2. CASE Issue \/ Machine \/ UNCHANGED vars
  <2>1. /\ disk' = disk /\ written' = written /\ fcb' = fcb
    BY <1>2 DEF Issue, Machine, vars, file
  <2>2. CallInv'
    BY <1>0, <1>2, CallMachine
  <2>3. \A p, T, c : Aimed(p, T, c) => Aimed(p, T, c)'
    BY <1>0, <1>2, MachineAims, StutterAims
  <2>4. fcb'.fas = 1 => fcb.fas = 1
    BY <2>1
  <2> QED  BY <1>1, <2>1, <2>2, <2>3, <2>4 DEF PositInv
<1>3. CASE Deliver
  <2>1. fcb' = fcb /\ written' = written
    BY <1>3 DEF Deliver
  <2>2. CallInv'
    BY <1>0, <1>3, CallMachine
  <2>3. ASSUME fcb.fas = 1
        PROVE  PositInv'
    <3>1. \A p, T, c : Aimed(p, T, c) => Aimed(p, T, c)' /\ disk' = disk
      BY <1>0, <1>3, <2>3, DeliverAims
    <3>2. \E p, T, c : Finished(p, T, c) /\ Aimed(p, T, c)
      <4>1. fcb.fas # 2
        BY <2>3
      <4> QED  BY <1>0, <2>3, <4>1 DEF MapInv, PositInv
    <3>3. disk' = disk
      BY <3>1, <3>2
    <3> QED  BY <1>1, <2>1, <2>3, <3>1, <3>3
  <2>4. fcb'.fas = 1 => fcb.fas = 1
    BY <2>1
  <2> QED  BY <2>2, <2>3, <2>4 DEF PositInv
<1>4. CASE \/ WriteFirst \/ WriteNext \/ Close \/ Abandon \/ Linked \/ Assigned \/ PutEntry
           \/ NextEntry \/ CloseMap \/ Closed
  BY <1>0, <1>4, CallWriting DEF PositInv
<1>5. CASE Open \/ Opened \/ SkipMap \/ OpenFails
  <2>1. CallInv' /\ op' = "open" /\ ~seek'.positioned /\ place' # "next"
    BY <1>0, <1>5, CallOpening
  <2>2. place' # "record"
    BY <2>1 DEF CallInv, Seeks
  <2>3. \A p, T, c : Aimed(p, T, c)'
    BY <2>1, <2>2, OpeningAims
  <2> QED  BY <2>1, <2>3 DEF PositInv
<1>6. CASE Nexts \/ BKREC \/ \E n \in 0..(MaxRecords + 1) : POSIT(n)
  <2>1. CallInv' /\ fcb.fas = 1
    BY <1>0, <1>6, CallReading
  <2>2. disk' = disk /\ written' = written /\ fcb'.fsa = fcb.fsa /\ fcb'.fea = fcb.fea
    BY <1>0, <1>6, CallReads DEF ReadingStep
  <2>3. \A p, T, c : Finished(p, T, c) /\ Aimed(p, T, c) => Aimed(p, T, c)'
    BY <1>0, <1>6, NextsAims, CallAims
  <2> QED  BY <1>1, <2>1, <2>2, <2>3
<1>7. CASE MapRead \/ Find \/ Pass \/ PastEnd \/ Found \/ SeekFails
  <2>1. CallInv' /\ fcb.fas = 1
    BY <1>0, <1>7, CallSeeking
  <2>2. disk' = disk /\ written' = written /\ fcb'.fsa = fcb.fsa /\ fcb'.fea = fcb.fea
    BY <1>0, <1>7, SeekReads DEF ReadingStep
  <2>3. \A p, T, c : Finished(p, T, c) /\ Aimed(p, T, c) => Aimed(p, T, c)'
    BY <1>0, <1>7, MapReadAims, FindAims, PassAims, PastEndAims, FoundAims, SeekFailsAims
  <2> QED  BY <1>1, <2>1, <2>2, <2>3
<1> QED  BY <1>2, <1>3, <1>4, <1>5, <1>6, <1>7 DEF Next, FmsStep, Program, Continue

\* SearchInv holds in every behaviour.
LEMMA SearchInductive ==
  ASSUME Reliable
  PROVE  Spec => []SearchInv
<1>1. (IInv /\ ScanInv) /\ SearchInv /\ [Next]_vars => SearchInv'
  <2> SUFFICES ASSUME IInv, ScanInv, SearchInv, [Next]_vars
               PROVE  SearchInv'
    OBVIOUS
  <2>1. MapInv'
    BY StepKeepsMap DEF SearchInv
  <2>2. CleanInv'
    BY StepOfRetry, CleanStep DEF SearchInv, IInv
  <2> QED  BY <2>1, <2>2, SearchStep DEF SearchInv
<1> QED  BY <1>1, SearchInitially, RandomInductive, PTL DEF Spec

\* POSIT and BKREC find every record of a closed file at its own sector, and
\* NEXTS goes on from there to the last one, whatever the drive reports, as long
\* as no sector of the map took a second try and the driver is Reliable.
THEOREM PositFindsRecord ==
  ASSUME Reliable
  PROVE  Spec => []PositFinds
<1>1. SearchInv => PositFinds
  <2> SUFFICES ASSUME SearchInv, place = "program", fcb.fas = 1
               PROVE  /\ Wanted => seek.result \in {"ok", "error"}
                      /\ seek.positioned /\ seek.result = "ok"
                           => fsb.lrn = seek.asked /\ fcb.fcs = Mapped[seek.asked]
                      /\ seek.positioned /\ seek.result = "eof" => seek.asked > written
    BY DEF PositFinds, Wanted, Seeks
  <2>0. fcb.fas # 2
    OBVIOUS
  <2>1. PICK p, T, c : Finished(p, T, c)
    BY <2>0 DEF SearchInv, MapInv
  <2>2. Aimed(p, T, c) /\ Mapped = T
    BY <2>1, FinishedIs DEF SearchInv, PositInv
  <2>3. Len(T) = written /\ \A k \in 1 .. Len(T) : OnDisk(T[k]).lrn = k
    BY <2>1 DEF Finished
  <2>4. seek.positioned => Landed(T)
    BY <2>2 DEF Aimed
  <2> QED  BY <2>2, <2>3, <2>4 DEF Aimed, Landed
<1> QED  BY <1>1, SearchInductive, PTL
=============================================================================
