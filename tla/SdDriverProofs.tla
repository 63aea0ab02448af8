--------------------------- MODULE SdDriverProofs ---------------------------
(***************************************************************************)
(* The SD driver of the FPGA machine, with its controller and the card, is *)
(* the disk FMS relies on: Spec implies the safety of SectorDisk, for      *)
(* every size of a sector, all sectors of the documented geometry, any     *)
(* number of calls, and a reset at any moment.                             *)
(*                                                                         *)
(* First the byte arithmetic of LDSDADRS: what it comes to, and that no    *)
(* two sectors share a half of a block, so that a write replaces one       *)
(* sector only.  Then the inductive invariant Inv: the handshake of the    *)
(* driver and the controller (request bits, acknowledgement, busy, the two *)
(* pairs of byte flags and the counter), which says that the byte counts   *)
(* of the two agree; what the bytes on the line and in the buffers are     *)
(* then; and that no sector of the card is torn.  Its preservation is      *)
(* proved part by part, with one step per action, and last that every step *)
(* is one of SectorDisk.                                                   *)
(***************************************************************************)
EXTENDS SdDriver, TLAPS

\* The blocks of the card set apart for a drive.
DriveBlocks == 2048

\* The sum LDSDADRS is for, with the sector counted in halves of blocks.
Sum(d, t, h) == DriveBlocks * d + 18 * t + h

Drive == 0 .. 3
Track == 0 .. 79
Sector == 1 .. 36
AnySector == 1 .. 255
HalfSector == 0 .. 127
Product == 0 .. 5000

\* The bytes before the track is added: no carry leaves the lowest one.
LEMMA ScratchBytes ==
  ASSUME NEW d \in Drive, NEW s \in AnySector
  PROVE  Scratch(DriveTable[d], s) = <<0, 8 * d, (s - 1) \div 2>>
<1>1. SECPOSOf(s) = s - 1
  BY SMT DEF SECPOSOf, AnySector
<1>2. DriveTable[d] = <<0, 8 * d, 0>>
  BY DEF DriveTable, Drive
<1>3. (s - 1) \div 2 \in HalfSector
  BY SMT DEF AnySector, HalfSector
<1> DEFINE h == (s - 1) \div 2
<1>4. /\ h \div 256 = 0 /\ h % 256 = h
      /\ (8 * d) \div 256 = 0 /\ (8 * d) % 256 = 8 * d
  <2>1. h \in HalfSector
    BY <1>3
  <2> HIDE DEF h
  <2> QED
    BY <2>1, SMT DEF Drive, HalfSector
<1>5. Scratch(DriveTable[d], s) =
        LET b0 == h + 0
            b1 == 8 * d + (b0 \div 256)
            b2 == 0 + (b1 \div 256)
        IN  <<b2 % 256, b1 % 256, b0 % 256>>
  BY <1>1, <1>2 DEF Scratch
<1>6. h + 0 = h /\ 8 * d + 0 = 8 * d /\ h \in Int
  BY <1>3, SMT DEF Drive, HalfSector
<1> HIDE DEF h
<1>7. Scratch(DriveTable[d], s) = <<0 % 256, (8 * d) % 256, h % 256>>
  BY <1>4, <1>5, <1>6, SMT
<1>8. QED
  BY <1>4, <1>7, SMT DEF h

\* What LDSDADRS makes of the product p of the track and the half sector h.
Assembled(p, h, d) ==
  LET b0 == (p % 256) + h
      b1 == (p \div 256) + 8 * d + (b0 \div 256)
      b2 == 0 + (b1 \div 256)
  IN  (b2 % 256) * 65536 + (b1 % 256) * 256 + (b0 % 256)

\* A number put together from its bytes again.
LEMMA TwoBytes ==
  ASSUME NEW p \in Product, NEW h \in HalfSector, NEW d \in Drive
  PROVE  Assembled(p, h, d) = DriveBlocks * d + p + h
<1> DEFINE q == p \div 256
           r == p % 256
           b0 == r + h
           c == b0 \div 256
           b1 == q + 8 * d + c
<1>1. p = 256 * q + r /\ q \in 0 .. 19 /\ r \in 0 .. 255
  BY SMT DEF Product
<1> HIDE DEF q, r
<1>2. b0 = 256 * c + (b0 % 256) /\ c \in {0, 1} /\ b0 % 256 \in 0 .. 255
  BY <1>1, SMT DEF HalfSector
<1> HIDE DEF c
<1>3. b1 \in 0 .. 255
  BY <1>1, <1>2, SMT DEF Drive, HalfSector, DriveBlocks
<1>4. 256 * b1 + (b0 % 256) = DriveBlocks * d + p + h
  BY <1>1, <1>2, SMT DEF Drive, HalfSector, DriveBlocks
<1> HIDE DEF b1, b0
<1>5. b1 \div 256 = 0 /\ b1 % 256 = b1
  BY <1>3, SMT
<1>6. ((0 + (b1 \div 256)) % 256) * 65536 + (b1 % 256) * 256 + (b0 % 256)
        = DriveBlocks * d + p + h
  BY <1>2, <1>3, <1>4, <1>5, SMT
<1>7. QED
  BY <1>6 DEF Assembled, b1, b0, c, q, r

\* LDSDADRS (CONSOLE_FPGA.ASM:387-417): the carries the 6809 ripples through
\* three bytes make one sum, for every drive, track and sector but 0.
THEOREM AddressIsSum ==
  \A d \in Drive, t \in Byte256, s \in AnySector :
    LDSDADRS(DriveTable[d], t, s) = Sum(d, t, (s - 1) \div 2)
<1> SUFFICES ASSUME NEW d \in Drive, NEW t \in Byte256, NEW s \in AnySector
             PROVE  LDSDADRS(DriveTable[d], t, s)
                      = Sum(d, t, (s - 1) \div 2)
  OBVIOUS
<1>1. PICK p \in Product : p = 18 * t
  BY SMT DEF Byte256, Product
<1>2. PICK h \in HalfSector : h = (s - 1) \div 2
  BY SMT DEF AnySector, HalfSector
<1>3. Scratch(DriveTable[d], s) = <<0, 8 * d, h>>
  BY <1>2, ScratchBytes
<1>4. LDSDADRS(DriveTable[d], t, s) = Assembled(p, h, d)
  BY <1>1, <1>3 DEF LDSDADRS, Assembled
<1>5. Assembled(p, h, d) = DriveBlocks * d + p + h
  BY TwoBytes
<1>6. QED
  BY <1>1, <1>2, <1>4, <1>5 DEF Sum, DriveBlocks

\* No two sectors of the four drives share a half of a block: what SDWRITE
\* replaces belongs to one sector only.
THEOREM SectorsApart ==
  \A d, e \in Drive, t, u \in Track, s, r \in Sector :
    /\ LDSDADRS(DriveTable[d], t, s) = LDSDADRS(DriveTable[e], u, r)
    /\ SECPOSOf(s) % 2 = SECPOSOf(r) % 2
    => d = e /\ t = u /\ s = r
<1> SUFFICES ASSUME NEW d \in Drive, NEW e \in Drive,
                    NEW t \in Track, NEW u \in Track,
                    NEW s \in Sector, NEW r \in Sector,
                    LDSDADRS(DriveTable[d], t, s)
                      = LDSDADRS(DriveTable[e], u, r),
                    SECPOSOf(s) % 2 = SECPOSOf(r) % 2
             PROVE  d = e /\ t = u /\ s = r
  OBVIOUS
<1>1. PICK h \in 0 .. 17 : h = (s - 1) \div 2
  BY SMT DEF Sector
<1>2. PICK k \in 0 .. 17 : k = (r - 1) \div 2
  BY SMT DEF Sector
<1>3. Sum(d, t, h) = Sum(e, u, k)
  <2>1. t \in Byte256 /\ u \in Byte256 /\ s \in AnySector /\ r \in AnySector
    BY SMT DEF Track, Sector, Byte256, AnySector
  <2>2. LDSDADRS(DriveTable[d], t, s) = Sum(d, t, h)
    BY <1>1, <2>1, AddressIsSum
  <2>3. LDSDADRS(DriveTable[e], u, r) = Sum(e, u, k)
    BY <1>2, <2>1, AddressIsSum
  <2> QED
    BY <2>2, <2>3
<1>4. (s - 1) % 2 = (r - 1) % 2
  BY SMT DEF SECPOSOf, Sector
<1>5. s - 1 = 2 * h + ((s - 1) % 2) /\ r - 1 = 2 * k + ((r - 1) % 2)
  BY <1>1, <1>2, SMT DEF Sector
<1>6. d = e
  BY <1>3, SMT DEF Drive, Track, Sum, DriveBlocks
<1>7. t = u /\ h = k
  BY <1>3, <1>6, SMT DEF Drive, Track, Sum, DriveBlocks
<1>8. s = r
  BY <1>4, <1>5, <1>7, SMT DEF Sector
<1>9. QED
  BY <1>6, <1>7, <1>8

\* The first drive ends where the boot area begins (block 5A0 hexadecimal),
\* and the other drives begin behind it.
THEOREM BootAreaFree ==
  \A d \in Drive, t \in Track, s \in Sector :
    LDSDADRS(DriveTable[d], t, s) \notin 1440 .. 1487
<1> SUFFICES ASSUME NEW d \in Drive, NEW t \in Track, NEW s \in Sector
             PROVE  LDSDADRS(DriveTable[d], t, s) \notin 1440 .. 1487
  OBVIOUS
<1>1. t \in Byte256 /\ s \in AnySector
  BY SMT DEF Track, Sector, Byte256, AnySector
<1>2. LDSDADRS(DriveTable[d], t, s) = Sum(d, t, (s - 1) \div 2)
  BY <1>1, AddressIsSum
<1>3. (s - 1) \div 2 \in 0 .. 17
  BY SMT DEF Sector
<1>4. QED
  BY <1>2, <1>3, SMT DEF Drive, Track, Sum, DriveBlocks

(***************************************************************************)
(* The inductive invariant.  Where the driver and the controller can be    *)
(* together, what the byte flags and the counter say of each other, and    *)
(* what is in the buffers, on the line and on the card then.               *)
(***************************************************************************)
Setup == {"rst", "init", "cardsel"}
Commands == {"read_block_cmd", "write_block_cmd"}

\* Where the driver is before it has commanded anything and after it has finished:
\* the controller may still be at work for the call before.
Between == {"idle", "select", "load", "wait", "error", "done"}
AfterRead == Between \cup {"update", "waitw"}

Pcs == AfterRead \cup {"readcmd", "byte", "take", "writecmd", "space", "store"}
States == Setup \cup Commands \cup
  {"stby", "send_cmd", "read_block_wait", "receive_byte", "read_block_data",
   "write_block_init", "write_block_data", "receive_byte_wait", "write_block_wait"}

Bit == {0, 1}
Index == 0 .. BlockSize - 1
Block == [Index -> Byte]

Types ==
  /\ pc \in Pcs /\ state \in States
  /\ byte_counter \in 0 .. BlockSize + 3 /\ count \in 0 .. BlockSize
  /\ block_read \in Bit /\ block_write \in Bit /\ block_start_ack \in Bit
  /\ block_busy \in Bit /\ init_busy \in Bit
  /\ sd_read_flag \in Bit /\ host_read_flag \in Bit
  /\ sd_write_flag \in Bit /\ host_write_flag \in Bit

Bytes ==
  /\ dout \in Byte /\ din_latched \in Byte
  /\ card \in [Blocks -> Block] /\ buffer \in Block
  /\ user \in [0 .. Half - 1 -> Byte]
  /\ line \in Seq(Byte)

\* What the address registers hold for a sector.
AddressOf(s) == IF HighCapacity THEN BlockOf(s) ELSE BlockOf(s) * 512

Asked(s, v) == [sector |-> s, value |-> v]

\* The call and what the driver has made of it.
Calling ==
  /\ pc = "idle" => call = None
  /\ pc # "idle" => call \in Requests
  /\ pc # "idle" /\ call.op = "write" => user = Contents(call.value)
  /\ pc = "error" => call.sector \notin Existing
  /\ pc \notin {"idle", "select", "error"} =>
       call.sector \in Existing /\ base = DriveTable[call.sector[1]]
  /\ pc \notin {"idle", "select", "error", "load"} =>
       SECPOS = SECPOSOf(call.sector[3]) /\ address = AddressOf(call.sector)
  /\ pc \in {"update", "waitw", "writecmd", "space", "store"} => call.op = "write"

\* No call runs while the card is initialised.
Powered ==
  /\ pc # "idle" => state \notin Setup /\ init_busy = 0
  /\ state \notin Setup => sdhc = HighCapacity

\* A request bit is set only while the driver waits for its command to be taken up.
\* An acknowledgement that a reset has left behind holds the bits down: then the
\* driver is at its first poll for a byte, and stays there.
Requested ==
  /\ state \notin {"rst", "init"} /\ ~(state = "stby" /\ pc \in {"byte", "space"})
       => block_read = 0 /\ block_write = 0
  /\ state = "stby" /\ pc = "byte" => block_write = 0
  /\ state = "stby" /\ pc = "space" => block_write = 1 /\ block_read = 0
  /\ block_start_ack = 1 =>
       /\ state \in Setup \cup Commands \cup {"stby"}
       /\ pc \in Between \cup {"readcmd", "byte", "space"}
       /\ state = "stby" => pc # "space" /\ block_read = 0

ReadEven == sd_read_flag = host_read_flag
WriteEven == sd_write_flag = host_write_flag

\* The states a byte or a command returns to, and when the controller is busy.
Returns ==
  /\ state = "send_cmd" => return_state \in {"read_block_wait", "write_block_init"}
  /\ state = "receive_byte" => return_state \in {"read_block_data", "stby"}
  /\ state = "receive_byte_wait" => return_state = "write_block_wait"
  /\ state \in Commands => block_busy = 0
  /\ state \notin Setup \cup Commands \cup {"stby"} => block_busy = 1

InRead ==
  \/ state \in {"read_block_cmd", "read_block_wait", "receive_byte", "read_block_data"}
  \/ state = "send_cmd" /\ return_state = "read_block_wait"

InWrite ==
  \/ state \in {"write_block_cmd", "write_block_init", "write_block_data"}
  \/ state = "send_cmd" /\ return_state = "write_block_init"

\* The controller in standby: the driver waits for nothing but its command.
Standing ==
  state = "stby" =>
    /\ pc \notin {"take", "store"}
    /\ pc \in {"byte", "space"} => count = 0 /\ block_busy = 0
    /\ pc \in {"byte", "readcmd"} => ReadEven
    /\ pc = "space" => WriteEven
    /\ pc \in {"readcmd", "writecmd"} => ReadEven /\ WriteEven

\* A block on its way to the driver.  The bytes the controller has still to deliver and
\* those the driver has taken make up the block; the CRC bytes find the driver past it.
Reading ==
  /\ pc \in {"readcmd", "writecmd"} => state = "stby" /\ block_busy = 0
  /\ pc = "byte" => InRead \/ state = "stby"
  /\ pc = "take" => state = "read_block_data" /\ byte_counter >= 2 /\ ~ReadEven
  /\ state \in {"read_block_cmd", "send_cmd", "read_block_wait"} /\ InRead
       => pc = "byte" /\ count = 0 /\ ReadEven
  /\ state = "receive_byte" /\ return_state = "read_block_data" =>
       /\ byte_counter \in 0 .. BlockSize + 1
       /\ byte_counter >= 2 => pc = "byte" /\ count = BlockSize + 1 - byte_counter /\ ReadEven
       /\ byte_counter < 2 => pc \in AfterRead
  /\ state = "receive_byte" /\ return_state = "stby" => pc \in AfterRead
  /\ state = "read_block_data" =>
       /\ byte_counter \in 0 .. BlockSize + 1
       /\ byte_counter >= 2 /\ ~ReadEven =>
            pc \in {"byte", "take"} /\ count = BlockSize + 1 - byte_counter
       /\ byte_counter >= 3 /\ ReadEven => pc = "byte" /\ count = BlockSize + 2 - byte_counter
       /\ byte_counter = 2 /\ ReadEven => pc \in AfterRead
       /\ byte_counter < 2 => pc \in AfterRead

\* Bytes of the block that the controller has sent to the card.
Sent == IF state = "write_block_data"
        THEN IF byte_counter = BlockSize + 3 THEN 0
             ELSE IF byte_counter < 2 THEN BlockSize ELSE BlockSize + 2 - byte_counter
        ELSE 0

\* A block on its way to the card: the driver is level with the controller or one byte
\* ahead, and has finished when the controller sends the CRC bytes.
Writing ==
  /\ pc \in {"space", "store"} => InWrite \/ state = "stby"
  /\ pc = "store" => InWrite /\ state # "write_block_cmd"
  /\ pc \in {"space", "store"} => count < BlockSize
  /\ state = "write_block_cmd" => pc = "space" /\ count = 0 /\ WriteEven
  /\ InWrite /\ pc \notin {"space", "store"} => count = BlockSize /\ state = "write_block_data"
  /\ InWrite => pc \in Between \cup {"space", "store"}
  /\ InWrite => /\ WriteEven => count = Sent
                /\ ~WriteEven => count = Sent + 1 /\ pc # "store"
  /\ state \in {"receive_byte_wait", "write_block_wait"} => pc \in Between

Handshake == Powered /\ Requested /\ Returns /\ Standing /\ Reading /\ Writing

\* A write is pending from its command to the last byte on the card.
Pending ==
  /\ asked # None <=> \/ state = "stby" /\ pc = "space"
                      \/ InWrite /\ ~(state = "write_block_data" /\ byte_counter = 0)
  /\ asked # None => /\ asked.sector \in Existing /\ asked.value \in Values
                     /\ asked = Asked(asked.sector, asked.value)
  /\ pc = "space" /\ state \in {"stby", "write_block_cmd"} =>
       asked = Asked(call.sector, call.value)

\* The command took the address of the sector it is for: the registers may meanwhile
\* hold another call's.
Placed ==
  /\ InRead /\ state # "read_block_cmd" /\ pc \in {"byte", "take"} =>
       cmd_address = AddressOf(call.sector)
  /\ InWrite /\ state # "write_block_cmd" /\ asked # None =>
       cmd_address = AddressOf(asked.sector)

\* The block of a sector on the card.
Home(s) == card[BlockOf(s)]

\* The card still sends the block from its k-th byte on.
FromCard(k) == \A i \in Index : i >= k => line[i - k + 1] = Home(call.sector)[i]

\* What comes from the card is the called sector's block, byte after byte.
Streaming ==
  /\ state = "read_block_wait" => Len(line) = BlockSize + 3 /\ FromCard(0)
  /\ state = "receive_byte" /\ return_state = "read_block_data" =>
       /\ Len(line) = byte_counter + 2
       /\ byte_counter >= 2 => FromCard(BlockSize + 1 - byte_counter)
  /\ state = "receive_byte" /\ return_state = "stby" => Len(line) = 1
  /\ state = "read_block_data" =>
       /\ Len(line) = byte_counter + 1
       /\ byte_counter >= 3 => FromCard(BlockSize + 2 - byte_counter)
       /\ byte_counter >= 2 /\ ~ReadEven => dout = Home(call.sector)[count]

\* What has arrived at the card is the beginning of the buffer.
Arriving ==
  /\ state = "write_block_init" => Len(line) = 0
  /\ state = "write_block_data" /\ byte_counter > 0 =>
       /\ Len(line) = Sent
       /\ \A i \in Index : i < Sent => line[i + 1] = buffer[i]
  /\ InWrite /\ ~WriteEven => din_latched = buffer[Sent]

\* A block with the sector s of it replaced.
Upper(s) == SECPOSOf(s[3]) % 2 = 1
Over(h, s, v) ==
  [i \in Index |-> IF (i >= Half) <=> Upper(s) THEN <<v, i % Half>> ELSE h[i]]
Replaced(s, v) == Over(Home(s), s, v)

\* What the driver has gathered in its buffer and the caller's.
Gathered ==
  /\ pc \in {"byte", "take"} /\ call.op = "write" =>
       \A i \in Index : i < count => buffer[i] = Home(call.sector)[i]
  /\ pc \in {"byte", "take"} /\ call.op = "read" =>
       \A i \in Index : i < count /\ Mine(i) => user[i % Half] = Home(call.sector)[i]
  /\ pc = "update" => buffer = Home(call.sector)
  /\ pc \in {"waitw", "writecmd"} => buffer = Replaced(call.sector, call.value)
  /\ asked # None => buffer = Replaced(asked.sector, asked.value)
  /\ pc = "done" /\ call.op = "read" =>
       asked = None /\ user = HalfOf(Home(call.sector), LowerOf(call.sector))

\* No sector of the card is torn.
Whole == \A s \in Existing : \E v \in Values : HalfOf(Home(s), LowerOf(s)) = Contents(v)

Inv == /\ Types /\ Bytes /\ Calling /\ Handshake /\ Pending /\ Placed
       /\ Streaming /\ Arriving /\ Gathered /\ Whole

-----------------------------------------------------------------------------
\* A block is two sectors.
LEMMA Sizes ==
  /\ Half \in Nat /\ Half > 0 /\ BlockSize = 2 * Half /\ BlockSize \in Nat /\ BlockSize >= 2
  BY HalfAssumption

\* The remainders of the places in a block of two sectors.
LEMMA Modulo ==
  ASSUME NEW n \in Nat \ {0}, NEW k \in 0 .. n - 1
  PROVE  k % n = k /\ (n + k) % n = k
  OBVIOUS

\* What the address registers can hold.
LEMMA Powers == 2^23 = 8388608 /\ 2^24 = 16777216
  OBVIOUS


\* A sector that exists lies on one of four drives, and its block on the card.
LEMMA OnDisk ==
  ASSUME Documented, NEW s \in Existing
  PROVE  /\ s[1] \in Drive /\ s[2] \in Track /\ s[3] \in Sector
         /\ s = <<s[1], s[2], s[3]>>
         /\ BlockOf(s) \in Blocks
         /\ s \in Sectors
<1>1. s \in Sectors /\ ~NODRV(s[1])
  BY DEF Existing
<1>2. PICK d \in 0 .. 127, t \in Byte256, n \in Byte256 : s = <<d, t, n>>
  <2>1. s \in (0 .. 127) \X Byte256 \X Byte256
    BY <1>1, SectorsAssumption
  <2>2. /\ s[1] \in 0 .. 127 /\ s[2] \in Byte256 /\ s[3] \in Byte256
        /\ s = <<s[1], s[2], s[3]>>
    BY <2>1
  <2> QED  BY <2>2
<1>3. ~(Signed(d) > 3)
  BY <1>1, <1>2 DEF NODRV
<1>4. d \in Drive
  BY <1>3 DEF Signed, Drive
<1> QED
  BY <1>1, <1>2, <1>4 DEF Documented, Track, Sector

\* The four drives take less than 8192 blocks.
LEMMA BlockRange ==
  ASSUME Documented, NEW s \in Existing
  PROVE  BlockOf(s) \in 0 .. 8191
<1>1. s[1] \in Drive /\ s[2] \in Track /\ s[3] \in Sector
  BY OnDisk
<1>2. s[2] \in Byte256 /\ s[3] \in AnySector
  BY <1>1 DEF Track, Sector, Byte256, AnySector
<1>3. BlockOf(s) = Sum(s[1], s[2], (s[3] - 1) \div 2)
  BY <1>1, <1>2, AddressIsSum DEF BlockOf
<1>4. PICK d \in Drive : d = s[1]
  BY <1>1
<1>5. PICK t \in Track : t = s[2]
  BY <1>1
<1>6. PICK n \in Sector : n = s[3]
  BY <1>1
<1>7. PICK h \in 0 .. 17 : h = (n - 1) \div 2
  BY SMT DEF Sector
<1>8. Sum(d, t, h) \in 0 .. 8191
  BY SMT DEF Sum, Drive, Track, DriveBlocks
<1>9. BlockOf(s) = Sum(d, t, h)
  BY <1>3, <1>4, <1>5, <1>6, <1>7, Zenon
<1> QED
  BY <1>8, <1>9

\* The address registers hold the whole of a sector's address: no bit is cut off.
LEMMA Loaded ==
  ASSUME Documented, NEW s \in Existing
  PROVE  (IF HighCapacity THEN BlockOf(s) % 2^24 ELSE (BlockOf(s) % 2^23) * 512) = AddressOf(s)
<1>1. PICK b \in 0 .. 8191 : b = BlockOf(s)
  BY BlockRange
<1>2. b % 16777216 = b /\ b % 8388608 = b
  OBVIOUS
<1> QED
  BY <1>1, <1>2, Powers DEF AddressOf

\* The card takes the address for the sector's block.
LEMMA AddressTaken ==
  ASSUME Documented, NEW s \in Existing, cmd_address = AddressOf(s)
  PROVE  Addressed = BlockOf(s)
<1>1. PICK b \in 0 .. 8191 : b = BlockOf(s)
  BY BlockRange
<1>2. (b * 512) \div 512 = b
  OBVIOUS
<1> QED
  BY <1>1, <1>2 DEF AddressOf, Addressed

\* Two sectors in one half of a block are one.
LEMMA HalvesApart ==
  ASSUME Documented, NEW s \in Existing, NEW r \in Existing,
         BlockOf(s) = BlockOf(r), Upper(s) <=> Upper(r)
  PROVE  s = r
<1>1. /\ s[1] \in Drive /\ s[2] \in Track /\ s[3] \in Sector /\ s = <<s[1], s[2], s[3]>>
      /\ r[1] \in Drive /\ r[2] \in Track /\ r[3] \in Sector /\ r = <<r[1], r[2], r[3]>>
  BY OnDisk
<1>2. PICK m \in Sector, n \in Sector : m = s[3] /\ n = r[3]
  BY <1>1
<1>3. SECPOSOf(m) % 2 \in {0, 1} /\ SECPOSOf(n) % 2 \in {0, 1}
  BY SMT DEF SECPOSOf, Sector
<1>4. SECPOSOf(s[3]) % 2 = SECPOSOf(r[3]) % 2
  BY <1>2, <1>3 DEF Upper
<1> QED
  BY <1>1, <1>4, SectorsApart DEF BlockOf

\* Where a sector begins in its block.
LEMMA Lower ==
  ASSUME Documented, NEW s \in Existing
  PROVE  LowerOf(s) = (IF Upper(s) THEN Half ELSE 0)
<1>1. PICK n \in Sector : n = s[3]
  BY OnDisk
<1>2. SECPOSOf(n) % 2 \in {0, 1}
  BY SMT DEF SECPOSOf, Sector
<1>3. PICK u \in {0, 1} : u = SECPOSOf(n) % 2
  BY <1>2
<1>4. LowerOf(s) = Half * u /\ (Upper(s) <=> u = 1)
  BY <1>1, <1>3 DEF LowerOf, Upper
<1> QED
  BY <1>4, Sizes

\* The place of a byte of the sector in its block, and the other way round.
LEMMA Places ==
  ASSUME Documented, NEW s \in Existing
  PROVE  /\ \A k \in 0 .. Half - 1 :
              /\ LowerOf(s) + k \in Index /\ (LowerOf(s) + k) % Half = k
              /\ LowerOf(s) + k >= Half <=> Upper(s)
         /\ \A i \in Index : /\ i % Half \in 0 .. Half - 1
                             /\ (i >= Half <=> Upper(s)) => i = LowerOf(s) + (i % Half)
<1>1. Half \in Nat \ {0} /\ BlockSize = 2 * Half
  BY Sizes
<1>2. LowerOf(s) = (IF Upper(s) THEN Half ELSE 0)
  BY Lower
<1>3. ASSUME NEW k \in 0 .. Half - 1
      PROVE  /\ LowerOf(s) + k \in Index /\ (LowerOf(s) + k) % Half = k
             /\ LowerOf(s) + k >= Half <=> Upper(s)
  <2>1. k % Half = k /\ (Half + k) % Half = k
    BY <1>1, Modulo
  <2> QED
    BY <1>1, <1>2, <2>1 DEF Index
<1>4. ASSUME NEW i \in Index
      PROVE  /\ i % Half \in 0 .. Half - 1
             /\ (i >= Half <=> Upper(s)) => i = LowerOf(s) + (i % Half)
  <2>1. CASE i < Half
    <3>1. i \in 0 .. Half - 1
      BY <1>1, <2>1 DEF Index
    <3>2. i % Half = i
      BY <1>1, <3>1, Modulo
    <3> QED
      BY <1>1, <1>2, <3>1, <3>2
  <2>2. CASE i >= Half
    <3>1. PICK k \in 0 .. Half - 1 : i = Half + k
      <4>1. i - Half \in 0 .. Half - 1 /\ i = Half + (i - Half)
        BY <1>1, <2>2 DEF Index
      <4> QED  BY <4>1
    <3>2. i % Half = k
      BY <1>1, <3>1, Modulo
    <3>3. i = LowerOf(s) + k \/ ~Upper(s)
      BY <1>2, <3>1
    <3> QED
      BY <2>2, <3>2, <3>3
  <2> QED
    BY <1>1, <2>1, <2>2 DEF Index
<1> QED
  BY <1>3, <1>4

\* Replacing one sector of a block leaves the other as it was.
LEMMA OverHolds ==
  ASSUME Documented, NEW s \in Existing, NEW v \in Values, NEW h \in Block
  PROVE  /\ Over(h, s, v) \in Block
         /\ HalfOf(Over(h, s, v), LowerOf(s)) = Contents(v)
         /\ \A r \in Existing : BlockOf(r) = BlockOf(s) /\ r # s =>
              HalfOf(Over(h, s, v), LowerOf(r)) = HalfOf(h, LowerOf(r))
<1>1. Over(h, s, v) \in Block
  <2>1. \A i \in Index : <<v, i % Half>> \in Byte
    BY Places, HalfAssumption
  <2> QED
    BY <2>1 DEF Over, Block
<1>2. HalfOf(Over(h, s, v), LowerOf(s)) = Contents(v)
  <2>1. \A k \in 0 .. Half - 1 : Over(h, s, v)[LowerOf(s) + k] = <<v, k>>
    BY Places DEF Over
  <2> QED
    BY <2>1 DEF HalfOf, Contents
<1>3. ASSUME NEW r \in Existing, BlockOf(r) = BlockOf(s), r # s
      PROVE  HalfOf(Over(h, s, v), LowerOf(r)) = HalfOf(h, LowerOf(r))
  <2>1. ~(Upper(s) <=> Upper(r))
    BY <1>3, HalvesApart
  <2>2. \A k \in 0 .. Half - 1 : Over(h, s, v)[LowerOf(r) + k] = h[LowerOf(r) + k]
    BY <2>1, Places DEF Over
  <2> QED
    BY <2>2 DEF HalfOf
<1> QED
  BY <1>1, <1>2, <1>3

-----------------------------------------------------------------------------
\* The exact values of the status register that the driver polls for.
LEMMA StatusMeans ==
  ASSUME Types
  PROVE  /\ status = 128 => WriteEven /\ ReadEven /\ block_busy = 0 /\ init_busy = 0
         /\ status = 160 => WriteEven /\ ReadEven /\ block_busy = 1
         /\ status = 224 => WriteEven /\ ~ReadEven /\ block_busy = 1
  BY SMT DEF Types, status, WriteEven, ReadEven, Bit

\* Taking a byte brings the driver one byte on, and level with the controller.
LEMMA TakeAdvances ==
  ASSUME Types, Handshake, Take
  PROVE  /\ pc = "take" /\ state = "read_block_data" /\ byte_counter >= 2 /\ ~ReadEven
         /\ count = BlockSize + 1 - byte_counter /\ count \in Index /\ count' = count + 1
         /\ pc' = IF count + 1 < BlockSize THEN "byte"
                  ELSE IF call.op = "read" THEN "done" ELSE "update"
         /\ ReadEven'
         /\ state' = state /\ byte_counter' = byte_counter
<1> USE Sizes DEF Types, Handshake, Reading, Index
<1>1. /\ pc = "take" /\ state = "read_block_data" /\ byte_counter >= 2 /\ ~ReadEven
      /\ count = BlockSize + 1 - byte_counter /\ count' = count + 1
      /\ state' = state /\ byte_counter' = byte_counter
  BY SMT DEF Take, HostTake
<1>2. count \in Index /\ count + 1 \in 1 .. BlockSize
  BY <1>1, SMT
<1>3. ReadEven'
  BY <1>1, SMT DEF Take, HostTake, ReadEven, Other, Bit
<1>4. pc' = IF count + 1 < BlockSize THEN "byte"
            ELSE IF call.op = "read" THEN "done" ELSE "update"
  <2> DEFINE n == count + 1
  <2>1. n < BlockSize \/ (n = BlockSize /\ ~(n < BlockSize))
    BY <1>2
  <2>2. pc' = CASE n < BlockSize -> "byte"
              [] n = BlockSize /\ call.op = "read" -> "done"
              [] OTHER -> "update"
    BY <1>1 DEF Take
  <2> HIDE DEF n
  <2>3. CASE n < BlockSize
    <3>1. n # BlockSize
      BY <1>2, <2>3 DEF n
    <3> QED  BY <2>2, <2>3, <3>1 DEF n
  <2>4. CASE n = BlockSize /\ ~(n < BlockSize)
    BY <2>2, <2>4 DEF n
  <2> QED  BY <2>1, <2>3, <2>4
<1> QED
  BY <1>1, <1>2, <1>3, <1>4

\* The driver and the controller go through the handshake together.
LEMMA StepHandshake ==
  ASSUME Documented, Types, Calling, Handshake, [Next]_vars
  PROVE  Handshake'
<1> USE Sizes, StatusMeans
<1> USE DEF Types, Bit, Pcs, States, AfterRead, Between, Setup, Commands, WriteEven, ReadEven,
      Handshake, Powered, Requested, Returns, Standing, Reading, Writing, InRead, InWrite,
      Sent
<1> USE DEF Other, sdVars, driverVars, flags, requestBits, data, place, bounds
<1>1. ASSUME NEW request \in Requests, Start(request)  PROVE Handshake'
  BY <1>1, SMT DEF Start, Settled, Documented
<1>2. ASSUME Select  PROVE Handshake'
  BY <1>2, SMT DEF Select
<1>3. ASSUME LoadAddress  PROVE Handshake'
  BY <1>3, SMT DEF LoadAddress, HostAddress
<1>4. ASSUME Wait  PROVE Handshake'
  BY <1>4, SMT DEF Wait, Poll
<1>5. ASSUME ReadCommand  PROVE Handshake'
  BY <1>5, SMT DEF ReadCommand, HostCommand
<1>6. ASSUME ByteReady  PROVE Handshake'
  BY <1>6, SMT DEF ByteReady, Poll
<1>7. ASSUME Take  PROVE Handshake'
  <2>1. Reading'
    BY <1>7, TakeAdvances, SMT
  <2>2. (Powered /\ Requested /\ Returns /\ Standing /\ Writing)'
    BY <1>7, TakeAdvances, SMT DEF Take, HostTake
  <2> QED
    BY <2>1, <2>2
<1>8. ASSUME Update  PROVE Handshake'
  BY <1>8, SMT DEF Update
<1>9. ASSUME WaitWrite  PROVE Handshake'
  BY <1>9, SMT DEF WaitWrite, Poll
<1>10. ASSUME WriteCommand  PROVE Handshake'
  BY <1>10, SMT DEF WriteCommand, HostCommand
<1>11. ASSUME Space  PROVE Handshake'
  BY <1>11, SMT DEF Space, Poll
<1>12. ASSUME Store  PROVE Handshake'
  BY <1>12, SMT DEF Store, HostStore
<1>13. ASSUME Return  PROVE Handshake'
  BY <1>13, SMT DEF Return
<1>14. ASSUME Rst, Clock  PROVE Handshake'
  BY <1>14, SMT DEF Rst, Clock
<1>15. ASSUME InitCard, Clock  PROVE Handshake'
  BY <1>15, SMT DEF InitCard, Clock
<1>16. ASSUME CardSel, Clock  PROVE Handshake'
  BY <1>16, SMT DEF CardSel, Clock
<1>17. ASSUME StbyWaits, Clock  PROVE Handshake'
  BY <1>17, SMT DEF StbyWaits, Standby, Clock
<1>18. ASSUME StbyRead, Clock  PROVE Handshake'
  BY <1>18, SMT DEF StbyRead, StbyAccepts, Standby, Clock
<1>19. ASSUME StbyWrite, Clock  PROVE Handshake'
  BY <1>19, SMT DEF StbyWrite, StbyAccepts, Standby, Clock
<1>20. ASSUME ReadBlockCmd, Clock  PROVE Handshake'
  BY <1>20, SMT DEF ReadBlockCmd, Command, Clock
<1>21. ASSUME WriteBlockCmd, Clock  PROVE Handshake'
  BY <1>21, SMT DEF WriteBlockCmd, Command, Clock
<1>22. ASSUME SendCmd, Clock  PROVE Handshake'
  BY <1>22, SMT DEF SendCmd, Clock
<1>23. ASSUME ReadBlockWait, Clock  PROVE Handshake'
  BY <1>23, SMT DEF ReadBlockWait, Clock
<1>24. ASSUME ReceiveByte, Clock  PROVE Handshake'
  BY <1>24, SMT DEF ReceiveByte, Clock
<1>25. ASSUME ReadBlockData, Clock  PROVE Handshake'
  BY <1>25, SMT DEF ReadBlockData, Clock
<1>26. ASSUME WriteBlockInit, Clock  PROVE Handshake'
  BY <1>26, SMT DEF WriteBlockInit, write_data_size, Clock
<1>27. ASSUME WriteStart, Clock  PROVE Handshake'
  BY <1>27, SMT DEF WriteStart, write_data_size, Clock
<1>28. ASSUME WriteByte, Clock  PROVE Handshake'
  BY <1>28, SMT DEF WriteByte, write_data_size, Clock
<1>29. ASSUME WriteCrc, Clock  PROVE Handshake'
  BY <1>29, SMT DEF WriteCrc, Clock
<1>30. ASSUME WriteEnd, Clock  PROVE Handshake'
  BY <1>30, SMT DEF WriteEnd, Clock
<1>31. ASSUME WriteResponse, Clock  PROVE Handshake'
  BY <1>31, SMT DEF WriteResponse, Clock
<1>32. ASSUME Reset  PROVE Handshake'
  BY <1>32, SMT DEF Reset, ControllerReset
<1>33. ASSUME UNCHANGED vars  PROVE Handshake'
  BY <1>33, SMT DEF vars
<1> QED
  BY <1>1, <1>2, <1>3, <1>4, <1>5, <1>6, <1>7, <1>8, <1>9, <1>10, <1>11, <1>12, <1>13, <1>14,
     <1>15, <1>16, <1>17, <1>18, <1>19, <1>20, <1>21, <1>22, <1>23, <1>24, <1>25, <1>26,
     <1>27, <1>28, <1>29, <1>30, <1>31, <1>32, <1>33 DEF Next, Driver, Clock, Controller

-----------------------------------------------------------------------------
\* None is no request, no write asked for, no value and no answer.
LEMMA RequestShape ==
  /\ \A q \in Requests : /\ q # None /\ q.op \in {"read", "write"} /\ q.sector \in Sectors
                         /\ q.op = "write" => q.value \in Values
  /\ \A s \in Sectors, v \in Values : Asked(s, v) # None
  /\ None \notin Values /\ None # "ok" /\ None # "refused"
<1>1. ASSUME NEW q \in Requests
      PROVE  /\ q \in [op : {"read", "write"}, sector : Sectors, value : Values \cup {None}]
             /\ q.op = "write" => q.value \in Values
  BY DEF Requests
<1>2. \A s \in Sectors, v \in Values : Asked(s, v) \in [sector : Sectors, value : Values]
  BY DEF Asked
<1> QED
  BY <1>1, <1>2, NoneAssumption

\* The call, its address and its half of the block stay as they were set.
LEMMA StepCalling ==
  ASSUME Documented, Types, Calling, Handshake, [Next]_vars
  PROVE  Calling'
<1> USE DEF Types, Pcs, AfterRead, Between, Calling, AddressOf
<1> USE DEF sdVars, driverVars, flags, requestBits, data, place, bounds
<1>1. ASSUME NEW request \in Requests, Start(request)  PROVE Calling'
  BY <1>1 DEF Start
<1>2. ASSUME Select  PROVE Calling'
  BY <1>2, RequestShape DEF Select, Existing
<1>3. ASSUME LoadAddress  PROVE Calling'
  <2>1. call.sector \in Existing /\ base = DriveTable[call.sector[1]] /\ sdhc = HighCapacity
    BY <1>3 DEF LoadAddress, Handshake, Powered, Setup
  <2>2. LDSDADRS(base, call.sector[2], call.sector[3]) = BlockOf(call.sector)
    BY <2>1 DEF BlockOf
  <2>3. address' = AddressOf(call.sector) /\ SECPOS' = SECPOSOf(call.sector[3])
    BY <1>3, <2>1, <2>2, Loaded DEF LoadAddress, HostAddress
  <2> QED
    BY <1>3, <2>1, <2>3 DEF LoadAddress
<1>4. ASSUME Wait  PROVE Calling'
  BY <1>4 DEF Wait, Poll
<1>5. ASSUME ReadCommand  PROVE Calling'
  BY <1>5 DEF ReadCommand, HostCommand
<1>6. ASSUME ByteReady  PROVE Calling'
  BY <1>6 DEF ByteReady, Poll
<1>7. ASSUME Take  PROVE Calling'
  BY <1>7, TakeAdvances, RequestShape DEF Take, HostTake, Keep, KeepAll
<1>8. ASSUME Update  PROVE Calling'
  BY <1>8 DEF Update
<1>9. ASSUME WaitWrite  PROVE Calling'
  BY <1>9 DEF WaitWrite, Poll
<1>10. ASSUME WriteCommand  PROVE Calling'
  BY <1>10 DEF WriteCommand, HostCommand
<1>11. ASSUME Space  PROVE Calling'
  BY <1>11 DEF Space, Poll
<1>12. ASSUME Store  PROVE Calling'
  BY <1>12 DEF Store, HostStore
<1>13. ASSUME Return  PROVE Calling'
  BY <1>13 DEF Return
<1>14. ASSUME Rst, Clock  PROVE Calling'
  BY <1>14 DEF Rst, Clock
<1>15. ASSUME InitCard, Clock  PROVE Calling'
  BY <1>15 DEF InitCard, Clock
<1>16. ASSUME CardSel, Clock  PROVE Calling'
  BY <1>16 DEF CardSel, Clock
<1>17. ASSUME StbyWaits, Clock  PROVE Calling'
  BY <1>17 DEF StbyWaits, Standby, Clock
<1>18. ASSUME StbyRead, Clock  PROVE Calling'
  BY <1>18 DEF StbyRead, StbyAccepts, Standby, Clock
<1>19. ASSUME StbyWrite, Clock  PROVE Calling'
  BY <1>19 DEF StbyWrite, StbyAccepts, Standby, Clock
<1>20. ASSUME ReadBlockCmd, Clock  PROVE Calling'
  BY <1>20 DEF ReadBlockCmd, Command, Clock
<1>21. ASSUME WriteBlockCmd, Clock  PROVE Calling'
  BY <1>21 DEF WriteBlockCmd, Command, Clock
<1>22. ASSUME SendCmd, Clock  PROVE Calling'
  BY <1>22 DEF SendCmd, Clock
<1>23. ASSUME ReadBlockWait, Clock  PROVE Calling'
  BY <1>23 DEF ReadBlockWait, Clock
<1>24. ASSUME ReceiveByte, Clock  PROVE Calling'
  BY <1>24 DEF ReceiveByte, Clock
<1>25. ASSUME ReadBlockData, Clock  PROVE Calling'
  BY <1>25 DEF ReadBlockData, Clock
<1>26. ASSUME WriteBlockInit, Clock  PROVE Calling'
  BY <1>26 DEF WriteBlockInit, write_data_size, Clock
<1>27. ASSUME WriteStart, Clock  PROVE Calling'
  BY <1>27 DEF WriteStart, write_data_size, Clock
<1>28. ASSUME WriteByte, Clock  PROVE Calling'
  BY <1>28 DEF WriteByte, write_data_size, Clock
<1>29. ASSUME WriteCrc, Clock  PROVE Calling'
  BY <1>29 DEF WriteCrc, Clock
<1>30. ASSUME WriteEnd, Clock  PROVE Calling'
  BY <1>30 DEF WriteEnd, Clock
<1>31. ASSUME WriteResponse, Clock  PROVE Calling'
  BY <1>31 DEF WriteResponse, Clock
<1>32. ASSUME Reset  PROVE Calling'
  BY <1>32 DEF Reset, ControllerReset
<1>33. ASSUME UNCHANGED vars  PROVE Calling'
  BY <1>33 DEF vars
<1> QED
  BY <1>1, <1>2, <1>3, <1>4, <1>5, <1>6, <1>7, <1>8, <1>9, <1>10, <1>11, <1>12, <1>13, <1>14,
     <1>15, <1>16, <1>17, <1>18, <1>19, <1>20, <1>21, <1>22, <1>23, <1>24, <1>25, <1>26,
     <1>27, <1>28, <1>29, <1>30, <1>31, <1>32, <1>33 DEF Next, Driver, Clock, Controller

-----------------------------------------------------------------------------
\* A write is pending from its command to its last byte.
LEMMA StepPending ==
  ASSUME Documented, Types, Calling, Handshake, Pending, [Next]_vars
  PROVE  Pending'
<1> USE Sizes
<1> USE DEF Types, Bit, Pcs, States, AfterRead, Between, Setup, Commands, Handshake, Powered,
      Requested, Returns, Standing, Reading, Writing, InRead, InWrite, Sent, Pending, Standing
<1> USE DEF sdVars, driverVars, flags, requestBits, data, place, bounds
<1>1. ASSUME NEW request \in Requests, Start(request)  PROVE Pending'
  BY <1>1 DEF Start
<1>2. ASSUME Select  PROVE Pending'
  BY <1>2 DEF Select
<1>3. ASSUME LoadAddress  PROVE Pending'
  BY <1>3 DEF LoadAddress, HostAddress
<1>4. ASSUME Wait  PROVE Pending'
  BY <1>4 DEF Wait, Poll
<1>5. ASSUME ReadCommand  PROVE Pending'
  BY <1>5 DEF ReadCommand, HostCommand
<1>6. ASSUME ByteReady  PROVE Pending'
  BY <1>6 DEF ByteReady, Poll
<1>7. ASSUME Take  PROVE Pending'
  BY <1>7, TakeAdvances DEF Take, HostTake, Keep, KeepAll
<1>8. ASSUME Update  PROVE Pending'
  BY <1>8 DEF Update
<1>9. ASSUME WaitWrite  PROVE Pending'
  BY <1>9 DEF WaitWrite, Poll
<1>10. ASSUME WriteCommand  PROVE Pending'
  <2>1. /\ pc = "writecmd" /\ pc' = "space" /\ call' = call /\ state' = state
        /\ asked' = Asked(call.sector, call.value)
    BY <1>10 DEF WriteCommand, HostCommand, Asked
  <2>2. call.sector \in Existing /\ call.value \in Values /\ call.sector \in Sectors
    BY <2>1, RequestShape DEF Calling, Existing
  <2>3. asked'.sector = call.sector /\ asked'.value = call.value
    BY <2>1 DEF Asked
  <2>4. asked' # None
    BY <2>1, <2>2, RequestShape
  <2>5. state = "stby"
    BY <2>1
  <2> QED
    BY <2>1, <2>2, <2>3, <2>4, <2>5
<1>11. ASSUME Space  PROVE Pending'
  BY <1>11, StatusMeans, SMT DEF Space, Poll
<1>12. ASSUME Store  PROVE Pending'
  BY <1>12 DEF Store, HostStore
<1>13. ASSUME Return  PROVE Pending'
  BY <1>13 DEF Return
<1>14. ASSUME Rst, Clock  PROVE Pending'
  BY <1>14 DEF Rst, Clock
<1>15. ASSUME InitCard, Clock  PROVE Pending'
  BY <1>15 DEF InitCard, Clock
<1>16. ASSUME CardSel, Clock  PROVE Pending'
  BY <1>16 DEF CardSel, Clock
<1>17. ASSUME StbyWaits, Clock  PROVE Pending'
  BY <1>17 DEF StbyWaits, Standby, Clock
<1>18. ASSUME StbyRead, Clock  PROVE Pending'
  BY <1>18 DEF StbyRead, StbyAccepts, Standby, Clock
<1>19. ASSUME StbyWrite, Clock  PROVE Pending'
  BY <1>19 DEF StbyWrite, StbyAccepts, Standby, Clock
<1>20. ASSUME ReadBlockCmd, Clock  PROVE Pending'
  BY <1>20 DEF ReadBlockCmd, Command, Clock
<1>21. ASSUME WriteBlockCmd, Clock  PROVE Pending'
  BY <1>21 DEF WriteBlockCmd, Command, Clock
<1>22. ASSUME SendCmd, Clock  PROVE Pending'
  BY <1>22 DEF SendCmd, Clock
<1>23. ASSUME ReadBlockWait, Clock  PROVE Pending'
  BY <1>23 DEF ReadBlockWait, Clock
<1>24. ASSUME ReceiveByte, Clock  PROVE Pending'
  BY <1>24 DEF ReceiveByte, Clock
<1>25. ASSUME ReadBlockData, Clock  PROVE Pending'
  BY <1>25 DEF ReadBlockData, Clock
<1>26. ASSUME WriteBlockInit, Clock  PROVE Pending'
  BY <1>26 DEF WriteBlockInit, write_data_size, Clock
<1>27. ASSUME WriteStart, Clock  PROVE Pending'
  BY <1>27 DEF WriteStart, write_data_size, Clock
<1>28. ASSUME WriteByte, Clock  PROVE Pending'
  BY <1>28 DEF WriteByte, write_data_size, Clock
<1>29. ASSUME WriteCrc, Clock  PROVE Pending'
  BY <1>29 DEF WriteCrc, Clock
<1>30. ASSUME WriteEnd, Clock  PROVE Pending'
  BY <1>30 DEF WriteEnd, Clock
<1>31. ASSUME WriteResponse, Clock  PROVE Pending'
  BY <1>31 DEF WriteResponse, Clock
<1>32. ASSUME Reset  PROVE Pending'
  BY <1>32 DEF Reset, ControllerReset
<1>33. ASSUME UNCHANGED vars  PROVE Pending'
  BY <1>33 DEF vars
<1> QED
  BY <1>1, <1>2, <1>3, <1>4, <1>5, <1>6, <1>7, <1>8, <1>9, <1>10, <1>11, <1>12, <1>13, <1>14,
     <1>15, <1>16, <1>17, <1>18, <1>19, <1>20, <1>21, <1>22, <1>23, <1>24, <1>25, <1>26,
     <1>27, <1>28, <1>29, <1>30, <1>31, <1>32, <1>33 DEF Next, Driver, Clock, Controller

\* The controller keeps the address of the command it works on.
LEMMA StepPlaced ==
  ASSUME Documented, Types, Calling, Handshake, Pending, Placed, [Next]_vars
  PROVE  Placed'
<1> USE Sizes
<1> USE DEF Types, Bit, Pcs, States, AfterRead, Between, Setup, Commands, Handshake, Powered,
      Requested, Returns, Standing, Reading, Writing, InRead, InWrite, Sent, Pending, Placed,
      Calling, AddressOf
<1> USE DEF sdVars, driverVars, flags, requestBits, data, place, bounds
<1>1. ASSUME NEW request \in Requests, Start(request)  PROVE Placed'
  BY <1>1 DEF Start
<1>2. ASSUME Select  PROVE Placed'
  BY <1>2 DEF Select
<1>3. ASSUME LoadAddress  PROVE Placed'
  BY <1>3 DEF LoadAddress, HostAddress
<1>4. ASSUME Wait  PROVE Placed'
  BY <1>4 DEF Wait, Poll
<1>5. ASSUME ReadCommand  PROVE Placed'
  BY <1>5 DEF ReadCommand, HostCommand
<1>6. ASSUME ByteReady  PROVE Placed'
  BY <1>6 DEF ByteReady, Poll
<1>7. ASSUME Take  PROVE Placed'
  BY <1>7, TakeAdvances DEF Take, HostTake, Keep, KeepAll
<1>8. ASSUME Update  PROVE Placed'
  BY <1>8 DEF Update
<1>9. ASSUME WaitWrite  PROVE Placed'
  BY <1>9 DEF WaitWrite, Poll
<1>10. ASSUME WriteCommand  PROVE Placed'
  BY <1>10 DEF WriteCommand, HostCommand
<1>11. ASSUME Space  PROVE Placed'
  BY <1>11 DEF Space, Poll
<1>12. ASSUME Store  PROVE Placed'
  BY <1>12 DEF Store, HostStore
<1>13. ASSUME Return  PROVE Placed'
  BY <1>13 DEF Return
<1>14. ASSUME Rst, Clock  PROVE Placed'
  BY <1>14 DEF Rst, Clock
<1>15. ASSUME InitCard, Clock  PROVE Placed'
  BY <1>15 DEF InitCard, Clock
<1>16. ASSUME CardSel, Clock  PROVE Placed'
  BY <1>16 DEF CardSel, Clock
<1>17. ASSUME StbyWaits, Clock  PROVE Placed'
  BY <1>17 DEF StbyWaits, Standby, Clock
<1>18. ASSUME StbyRead, Clock  PROVE Placed'
  BY <1>18 DEF StbyRead, StbyAccepts, Standby, Clock
<1>19. ASSUME StbyWrite, Clock  PROVE Placed'
  BY <1>19 DEF StbyWrite, StbyAccepts, Standby, Clock
<1>20. ASSUME ReadBlockCmd, Clock  PROVE Placed'
  BY <1>20 DEF ReadBlockCmd, Command, Clock
<1>21. ASSUME WriteBlockCmd, Clock  PROVE Placed'
  BY <1>21 DEF WriteBlockCmd, Command, Clock, Asked
<1>22. ASSUME SendCmd, Clock  PROVE Placed'
  BY <1>22 DEF SendCmd, Clock
<1>23. ASSUME ReadBlockWait, Clock  PROVE Placed'
  BY <1>23 DEF ReadBlockWait, Clock
<1>24. ASSUME ReceiveByte, Clock  PROVE Placed'
  BY <1>24 DEF ReceiveByte, Clock
<1>25. ASSUME ReadBlockData, Clock  PROVE Placed'
  BY <1>25 DEF ReadBlockData, Clock
<1>26. ASSUME WriteBlockInit, Clock  PROVE Placed'
  BY <1>26 DEF WriteBlockInit, write_data_size, Clock
<1>27. ASSUME WriteStart, Clock  PROVE Placed'
  BY <1>27 DEF WriteStart, write_data_size, Clock
<1>28. ASSUME WriteByte, Clock  PROVE Placed'
  BY <1>28 DEF WriteByte, write_data_size, Clock
<1>29. ASSUME WriteCrc, Clock  PROVE Placed'
  BY <1>29 DEF WriteCrc, Clock
<1>30. ASSUME WriteEnd, Clock  PROVE Placed'
  BY <1>30 DEF WriteEnd, Clock
<1>31. ASSUME WriteResponse, Clock  PROVE Placed'
  BY <1>31 DEF WriteResponse, Clock
<1>32. ASSUME Reset  PROVE Placed'
  BY <1>32 DEF Reset, ControllerReset
<1>33. ASSUME UNCHANGED vars  PROVE Placed'
  BY <1>33 DEF vars
<1> QED
  BY <1>1, <1>2, <1>3, <1>4, <1>5, <1>6, <1>7, <1>8, <1>9, <1>10, <1>11, <1>12, <1>13, <1>14,
     <1>15, <1>16, <1>17, <1>18, <1>19, <1>20, <1>21, <1>22, <1>23, <1>24, <1>25, <1>26,
     <1>27, <1>28, <1>29, <1>30, <1>31, <1>32, <1>33 DEF Next, Driver, Clock, Controller

-----------------------------------------------------------------------------
\* A sequence without its first byte.
LEMMA TailShape ==
  ASSUME NEW l \in Seq(Byte), Len(l) > 0
  PROVE  /\ Head(l) = l[1] /\ l[1] \in Byte
         /\ Tail(l) \in Seq(Byte) /\ Len(Tail(l)) = Len(l) - 1
         /\ \A i \in 1 .. Len(l) - 1 : Tail(l)[i] = l[i + 1]
  OBVIOUS

\* What a card without errors streams is the block of the sector.
LEMMA StreamShape ==
  ASSUME Documented, Bytes, NEW s \in Existing, cmd_address = AddressOf(s), NEW l \in Streams
  PROVE  /\ l \in Seq(Byte) /\ Len(l) = BlockSize + 3
         /\ \A i \in Index : l[i + 1] = Home(s)[i]
<1> DEFINE sent(bytes) == [i \in 1 .. BlockSize + 3 |->
                            IF i <= BlockSize THEN bytes[i - 1] ELSE Filler]
<1>1. Addressed = BlockOf(s) /\ BlockOf(s) \in Blocks
  BY AddressTaken, OnDisk
<1>2. l = sent(Home(s))
  BY <1>1 DEF Documented, Streams, Home
<1>3. Home(s) \in Block
  BY <1>1 DEF Bytes, Home
<1>4. \A i \in 1 .. BlockSize + 3 : l[i] \in Byte
  <2> SUFFICES ASSUME NEW i \in 1 .. BlockSize + 3  PROVE l[i] \in Byte
    OBVIOUS
  <2>1. CASE i <= BlockSize
    <3>1. i - 1 \in Index
      BY <2>1, Sizes DEF Index
    <3> QED  BY <1>2, <1>3, <2>1, <3>1 DEF Block
  <2>2. CASE ~(i <= BlockSize)
    BY <1>2, <2>2, CardAssumption
  <2> QED  BY <2>1, <2>2
<1>5. l \in [1 .. BlockSize + 3 -> Byte] /\ BlockSize + 3 \in Nat
  BY <1>2, <1>4, Sizes
<1>6. l \in Seq(Byte) /\ Len(l) = BlockSize + 3
  BY <1>5
<1>7. ASSUME NEW i \in Index  PROVE l[i + 1] = Home(s)[i]
  <2>1. i + 1 \in 1 .. BlockSize + 3 /\ i + 1 <= BlockSize /\ (i + 1) - 1 = i
    BY Sizes DEF Index
  <2> QED  BY <1>2, <2>1
<1> QED
  BY <1>6, <1>7

\* The block on the card once the last byte has arrived: the sector asked for is
\* replaced, its neighbour is what was read.
LEMMA Committed ==
  ASSUME Documented, Types, Bytes, Handshake, Pending, Placed, Arriving, Gathered,
         state = "write_block_data", byte_counter = 1
  PROVE  /\ asked # None /\ asked.sector \in Existing /\ asked.value \in Values
         /\ BlockOf(asked.sector) \in Blocks
         /\ Home(asked.sector) \in Block
         /\ Stored = [card EXCEPT ![BlockOf(asked.sector)]
                        = Over(Home(asked.sector), asked.sector, asked.value)]
<1>1. InWrite /\ Sent = BlockSize
  BY Sizes DEF InWrite, Sent
<1>2. asked # None /\ asked.sector \in Existing /\ asked.value \in Values
  BY <1>1 DEF Pending
<1>3. cmd_address = AddressOf(asked.sector)
  BY <1>1, <1>2 DEF Placed
<1>4. Addressed = BlockOf(asked.sector) /\ BlockOf(asked.sector) \in Blocks
  BY <1>2, <1>3, AddressTaken, OnDisk
<1>5. Home(asked.sector) \in Block
  BY <1>4 DEF Bytes, Home
<1>6. buffer = Over(Home(asked.sector), asked.sector, asked.value)
  BY <1>2 DEF Gathered, Replaced
<1>7. \A i \in Index : line[i + 1] = buffer[i]
  BY <1>1, Sizes DEF Arriving, Index
<1>8. [i \in 0 .. BlockSize - 1 |-> line[i + 1]] = buffer
  BY <1>7 DEF Index, Bytes, Block
<1>9. Stored = [card EXCEPT ![BlockOf(asked.sector)] = buffer]
  BY <1>4, <1>8 DEF Stored
<1> QED
  BY <1>2, <1>4, <1>5, <1>6, <1>9

\* What the card holds changes with the commitment of a write only.
CardWritten == /\ state = "write_block_data" /\ byte_counter = 1
               /\ card' = Stored /\ asked' = None

\* The card changes when the last byte of a write has arrived, and then only.
LEMMA CardChange ==
  ASSUME Documented, [Next]_vars
  PROVE  card' = card \/ CardWritten
<1> USE Sizes
<1> USE DEF sdVars, driverVars, flags, requestBits, data, place, bounds
<1>1. ASSUME NEW request \in Requests, Start(request)  PROVE card' = card
  BY <1>1 DEF Start
<1>2. ASSUME Select  PROVE card' = card
  BY <1>2 DEF Select
<1>3. ASSUME LoadAddress  PROVE card' = card
  BY <1>3 DEF LoadAddress, HostAddress
<1>4. ASSUME Wait  PROVE card' = card
  BY <1>4 DEF Wait, Poll
<1>5. ASSUME ReadCommand  PROVE card' = card
  BY <1>5 DEF ReadCommand, HostCommand
<1>6. ASSUME ByteReady  PROVE card' = card
  BY <1>6 DEF ByteReady, Poll
<1>7. ASSUME Take  PROVE card' = card
  BY <1>7 DEF Take, HostTake, Keep, KeepAll
<1>8. ASSUME Update  PROVE card' = card
  BY <1>8 DEF Update
<1>9. ASSUME WaitWrite  PROVE card' = card
  BY <1>9 DEF WaitWrite, Poll
<1>10. ASSUME WriteCommand  PROVE card' = card
  BY <1>10 DEF WriteCommand, HostCommand
<1>11. ASSUME Space  PROVE card' = card
  BY <1>11 DEF Space, Poll
<1>12. ASSUME Store  PROVE card' = card
  BY <1>12 DEF Store, HostStore
<1>13. ASSUME Return  PROVE card' = card
  BY <1>13 DEF Return
<1>14. ASSUME Rst, Clock  PROVE card' = card
  BY <1>14 DEF Rst, Clock, write_data_size
<1>15. ASSUME InitCard, Clock  PROVE card' = card
  BY <1>15 DEF InitCard, Clock, write_data_size
<1>16. ASSUME CardSel, Clock  PROVE card' = card
  BY <1>16 DEF CardSel, Clock, write_data_size
<1>17. ASSUME StbyWaits, Clock  PROVE card' = card
  BY <1>17 DEF StbyWaits, Standby, Clock, write_data_size
<1>18. ASSUME StbyRead, Clock  PROVE card' = card
  BY <1>18 DEF StbyRead, StbyAccepts, Standby, Clock, write_data_size
<1>19. ASSUME StbyWrite, Clock  PROVE card' = card
  BY <1>19 DEF StbyWrite, StbyAccepts, Standby, Clock, write_data_size
<1>20. ASSUME ReadBlockCmd, Clock  PROVE card' = card
  BY <1>20 DEF ReadBlockCmd, Command, Clock, write_data_size
<1>21. ASSUME WriteBlockCmd, Clock  PROVE card' = card
  BY <1>21 DEF WriteBlockCmd, Command, Clock, write_data_size
<1>22. ASSUME SendCmd, Clock  PROVE card' = card
  BY <1>22 DEF SendCmd, Clock, write_data_size
<1>23. ASSUME ReadBlockWait, Clock  PROVE card' = card
  BY <1>23 DEF ReadBlockWait, Clock, write_data_size
<1>24. ASSUME ReceiveByte, Clock  PROVE card' = card
  BY <1>24 DEF ReceiveByte, Clock, write_data_size
<1>25. ASSUME ReadBlockData, Clock  PROVE card' = card
  BY <1>25 DEF ReadBlockData, Clock, write_data_size
<1>26. ASSUME WriteBlockInit, Clock  PROVE card' = card
  BY <1>26 DEF WriteBlockInit, write_data_size, Clock
<1>27. ASSUME WriteStart, Clock  PROVE card' = card
  BY <1>27 DEF WriteStart, write_data_size, Clock
<1>28. ASSUME WriteByte, Clock  PROVE card' = card
  BY <1>28 DEF WriteByte, write_data_size, Clock
<1>29. ASSUME WriteEnd, Clock  PROVE card' = card
  BY <1>29 DEF WriteEnd, Clock, write_data_size
<1>30. ASSUME WriteResponse, Clock  PROVE card' = card
  BY <1>30 DEF WriteResponse, Clock, write_data_size
<1>31. ASSUME WriteCrc, Clock  PROVE card' = card \/ CardWritten
  BY <1>31 DEF WriteCrc, Clock, CardWritten, Documented
<1>32. ASSUME Reset  PROVE card' = card
  BY <1>32 DEF Reset, ControllerReset
<1>33. ASSUME UNCHANGED vars  PROVE card' = card
  BY <1>33 DEF vars
<1> QED
  BY <1>1, <1>2, <1>3, <1>4, <1>5, <1>6, <1>7, <1>8, <1>9, <1>10, <1>11, <1>12, <1>13, <1>14,
     <1>15, <1>16, <1>17, <1>18, <1>19, <1>20, <1>21, <1>22, <1>23, <1>24, <1>25, <1>26,
     <1>27, <1>28, <1>29, <1>30, <1>31, <1>32, <1>33 DEF Next, Driver, Clock, Controller

-----------------------------------------------------------------------------
\* Every step preserves the ranges of counters, bits and flags.
LEMMA StepTypes ==
  ASSUME Documented, Types, Handshake, [Next]_vars
  PROVE  Types'
<1> USE Sizes
<1> USE DEF Types, Bit, Pcs, States, AfterRead, Between, Setup, Commands, Handshake, Returns,
      Reading, Writing, sdVars, driverVars, flags, requestBits, data, place, bounds, Other
<1>1. ASSUME NEW request \in Requests, Start(request)  PROVE Types'
  BY <1>1 DEF Start
<1>2. ASSUME Select  PROVE Types'
  BY <1>2 DEF Select
<1>3. ASSUME LoadAddress  PROVE Types'
  BY <1>3 DEF LoadAddress, HostAddress
<1>4. ASSUME Wait  PROVE Types'
  BY <1>4 DEF Wait, Poll
<1>5. ASSUME ReadCommand  PROVE Types'
  BY <1>5 DEF ReadCommand, HostCommand
<1>6. ASSUME ByteReady  PROVE Types'
  BY <1>6 DEF ByteReady, Poll
<1>7. ASSUME Take  PROVE Types'
  BY <1>7, TakeAdvances DEF Take, HostTake, Keep, KeepAll, Index
<1>8. ASSUME Update  PROVE Types'
  BY <1>8 DEF Update
<1>9. ASSUME WaitWrite  PROVE Types'
  BY <1>9 DEF WaitWrite, Poll
<1>10. ASSUME WriteCommand  PROVE Types'
  BY <1>10 DEF WriteCommand, HostCommand
<1>11. ASSUME Space  PROVE Types'
  BY <1>11 DEF Space, Poll
<1>12. ASSUME Store  PROVE Types'
  BY <1>12 DEF Store, HostStore
<1>13. ASSUME Return  PROVE Types'
  BY <1>13 DEF Return
<1>14. ASSUME Rst, Clock  PROVE Types'
  BY <1>14 DEF Rst, Clock
<1>15. ASSUME InitCard, Clock  PROVE Types'
  BY <1>15 DEF InitCard, Clock
<1>16. ASSUME CardSel, Clock  PROVE Types'
  BY <1>16 DEF CardSel, Clock
<1>17. ASSUME StbyWaits, Clock  PROVE Types'
  BY <1>17 DEF StbyWaits, Standby, Clock
<1>18. ASSUME StbyRead, Clock  PROVE Types'
  BY <1>18 DEF StbyRead, StbyAccepts, Standby, Clock
<1>19. ASSUME StbyWrite, Clock  PROVE Types'
  BY <1>19 DEF StbyWrite, StbyAccepts, Standby, Clock
<1>20. ASSUME ReadBlockCmd, Clock  PROVE Types'
  BY <1>20 DEF ReadBlockCmd, Command, Clock
<1>21. ASSUME WriteBlockCmd, Clock  PROVE Types'
  BY <1>21 DEF WriteBlockCmd, Command, Clock
<1>22. ASSUME SendCmd, Clock  PROVE Types'
  BY <1>22 DEF SendCmd, Clock
<1>23. ASSUME ReadBlockWait, Clock  PROVE Types'
  BY <1>23 DEF ReadBlockWait, Clock
<1>24. ASSUME ReceiveByte, Clock  PROVE Types'
  BY <1>24 DEF ReceiveByte, Clock
<1>25. ASSUME ReadBlockData, Clock  PROVE Types'
  BY <1>25 DEF ReadBlockData, Clock
<1>26. ASSUME WriteBlockInit, Clock  PROVE Types'
  BY <1>26 DEF WriteBlockInit, write_data_size, Clock
<1>27. ASSUME WriteStart, Clock  PROVE Types'
  BY <1>27 DEF WriteStart, write_data_size, Clock
<1>28. ASSUME WriteByte, Clock  PROVE Types'
  BY <1>28 DEF WriteByte, write_data_size, Clock
<1>29. ASSUME WriteCrc, Clock  PROVE Types'
  BY <1>29 DEF WriteCrc, Clock
<1>30. ASSUME WriteEnd, Clock  PROVE Types'
  BY <1>30 DEF WriteEnd, Clock
<1>31. ASSUME WriteResponse, Clock  PROVE Types'
  BY <1>31 DEF WriteResponse, Clock
<1>32. ASSUME Reset  PROVE Types'
  BY <1>32 DEF Reset, ControllerReset
<1>33. ASSUME UNCHANGED vars  PROVE Types'
  BY <1>33 DEF vars
<1> QED
  BY <1>1, <1>2, <1>3, <1>4, <1>5, <1>6, <1>7, <1>8, <1>9, <1>10, <1>11, <1>12, <1>13, <1>14,
     <1>15, <1>16, <1>17, <1>18, <1>19, <1>20, <1>21, <1>22, <1>23, <1>24, <1>25, <1>26,
     <1>27, <1>28, <1>29, <1>30, <1>31, <1>32, <1>33 DEF Next, Driver, Clock, Controller

\* Buffers, line and card hold bytes.
LEMMA StepBytes ==
  ASSUME Documented, Inv, [Next]_vars
  PROVE  Bytes'
<1> USE Sizes
<1> USE DEF Inv, Bytes, sdVars, driverVars, flags, requestBits, data, place, bounds
<1>1. ASSUME NEW request \in Requests, Start(request)  PROVE Bytes'
  <2>1. \A v \in Values : Contents(v) \in [0 .. Half - 1 -> Byte]
    BY HalfAssumption DEF Contents
  <2>2. Empty \in [0 .. Half - 1 -> Byte]
    BY CardAssumption DEF Empty
  <2>3. user' \in [0 .. Half - 1 -> Byte]
    BY <1>1, <2>1, <2>2, RequestShape DEF Start
  <2> QED
    BY <1>1, <2>3 DEF Start
<1>2. ASSUME Select  PROVE Bytes'
  BY <1>2 DEF Select
<1>3. ASSUME LoadAddress  PROVE Bytes'
  BY <1>3 DEF LoadAddress, HostAddress
<1>4. ASSUME Wait  PROVE Bytes'
  BY <1>4 DEF Wait, Poll
<1>5. ASSUME ReadCommand  PROVE Bytes'
  BY <1>5 DEF ReadCommand, HostCommand
<1>6. ASSUME ByteReady  PROVE Bytes'
  BY <1>6 DEF ByteReady, Poll
<1>7. ASSUME Take  PROVE Bytes'
  <2>1. count \in Index /\ count % Half \in 0 .. Half - 1
    <3>1. count \in Index
      BY <1>7, TakeAdvances
    <3> QED  BY <3>1 DEF Index
  <2>2. buffer' \in Block
    BY <1>7, <2>1 DEF Take, Keep, KeepAll, Block, Index
  <2>3. user' \in [0 .. Half - 1 -> Byte]
    BY <1>7, <2>1 DEF Take, Keep, KeepAll
  <2> QED
    BY <1>7, <2>2, <2>3 DEF Take, HostTake
<1>8. ASSUME Update  PROVE Bytes'
  <2>1. \A i \in Index : i % Half \in 0 .. Half - 1
    BY DEF Index
  <2>2. \A i \in Index : user[i % Half] \in Byte /\ buffer[i] \in Byte
    BY <2>1 DEF Block
  <2>3. buffer' \in Block
    BY <1>8, <2>2 DEF Update, Block, Index
  <2> QED
    BY <1>8, <2>3 DEF Update
<1>9. ASSUME WaitWrite  PROVE Bytes'
  BY <1>9 DEF WaitWrite, Poll
<1>10. ASSUME WriteCommand  PROVE Bytes'
  BY <1>10 DEF WriteCommand, HostCommand
<1>11. ASSUME Space  PROVE Bytes'
  BY <1>11 DEF Space, Poll
<1>12. ASSUME Store  PROVE Bytes'
  <2>1. count \in Index
    BY <1>12 DEF Store, Types, Handshake, Writing, Index
  <2> QED
    BY <1>12, <2>1 DEF Store, HostStore, Block
<1>13. ASSUME Return  PROVE Bytes'
  <2>1. Empty \in [0 .. Half - 1 -> Byte]
    BY CardAssumption DEF Empty
  <2> QED
    BY <1>13, <2>1 DEF Return
<1>14. ASSUME Rst, Clock  PROVE Bytes'
  BY <1>14 DEF Rst, Clock
<1>15. ASSUME InitCard, Clock  PROVE Bytes'
  BY <1>15 DEF InitCard, Clock
<1>16. ASSUME CardSel, Clock  PROVE Bytes'
  BY <1>16 DEF CardSel, Clock
<1>17. ASSUME StbyWaits, Clock  PROVE Bytes'
  BY <1>17, CardAssumption DEF StbyWaits, Standby, Clock
<1>18. ASSUME StbyRead, Clock  PROVE Bytes'
  BY <1>18, CardAssumption DEF StbyRead, StbyAccepts, Standby, Clock
<1>19. ASSUME StbyWrite, Clock  PROVE Bytes'
  BY <1>19, CardAssumption DEF StbyWrite, StbyAccepts, Standby, Clock
<1>20. ASSUME ReadBlockCmd, Clock  PROVE Bytes'
  BY <1>20 DEF ReadBlockCmd, Command, Clock
<1>21. ASSUME WriteBlockCmd, Clock  PROVE Bytes'
  BY <1>21 DEF WriteBlockCmd, Command, Clock
<1>22. ASSUME SendCmd, Clock  PROVE Bytes'
  <2>1. CASE return_state = "read_block_wait"
    <3>1. InRead /\ state = "send_cmd" /\ line' \in Streams
      BY <1>22, <2>1 DEF SendCmd, InRead
    <3>2. pc = "byte" /\ call.sector \in Existing /\ cmd_address = AddressOf(call.sector)
      BY <3>1 DEF Handshake, Reading, Calling, Placed
    <3>3. line' \in Seq(Byte)
      BY <3>1, <3>2, StreamShape
    <3> QED
      BY <1>22, <3>3 DEF SendCmd, Clock
  <2>2. CASE return_state # "read_block_wait"
    BY <1>22, <2>2 DEF SendCmd, Clock
  <2> QED
    BY <2>1, <2>2
<1>23. ASSUME ReadBlockWait, Clock  PROVE Bytes'
  BY <1>23 DEF ReadBlockWait, Clock
<1>24. ASSUME ReceiveByte, Clock  PROVE Bytes'
  <2>1. Len(line) > 0
    <3>1. state = "receive_byte" /\ return_state \in {"read_block_data", "stby"}
      BY <1>24 DEF ReceiveByte, Handshake, Returns
    <3>2. byte_counter \in Nat /\ (Len(line) = byte_counter + 2 \/ Len(line) = 1)
      BY <3>1, Sizes DEF Streaming, Types
    <3>3. PICK n \in Nat : n = byte_counter
      BY <3>2
    <3>4. Len(line) \in {n + 2, 1} /\ n + 2 > 0
      BY <3>2, <3>3
    <3> HIDE DEF Inv
    <3> QED  BY <3>4
  <2>2. Head(line) \in Byte /\ Tail(line) \in Seq(Byte)
    BY <2>1, TailShape
  <2> QED
    BY <1>24, <2>2 DEF ReceiveByte, Clock
<1>25. ASSUME ReadBlockData, Clock  PROVE Bytes'
  BY <1>25 DEF ReadBlockData, Clock
<1>26. ASSUME WriteBlockInit, Clock  PROVE Bytes'
  BY <1>26 DEF WriteBlockInit, write_data_size, Clock
<1>27. ASSUME WriteStart, Clock  PROVE Bytes'
  BY <1>27 DEF WriteStart, write_data_size, Clock
<1>28. ASSUME WriteByte, Clock  PROVE Bytes'
  <2>1. Append(line, din_latched) \in Seq(Byte)
    OBVIOUS
  <2> QED
    BY <1>28, <2>1 DEF WriteByte, Clock
<1>29. ASSUME WriteCrc, Clock  PROVE Bytes'
  <2>1. card' \in [Blocks -> Block]
    <3>1. CASE card' = card
      BY <3>1
    <3>2. CASE CardWritten
      <4>1. Over(Home(asked.sector), asked.sector, asked.value) \in Block
        BY <3>2, Committed, OverHolds DEF CardWritten
      <4> QED
        BY <3>2, <4>1, Committed DEF CardWritten
    <3> QED
      BY <1>29, <3>1, <3>2 DEF WriteCrc, Clock, CardWritten, Documented
  <2> QED
    BY <1>29, <2>1 DEF WriteCrc, Clock
<1>30. ASSUME WriteEnd, Clock  PROVE Bytes'
  BY <1>30 DEF WriteEnd, Clock
<1>31. ASSUME WriteResponse, Clock  PROVE Bytes'
  BY <1>31 DEF WriteResponse, Clock
<1>32. ASSUME Reset  PROVE Bytes'
  <2>1. Empty \in [0 .. Half - 1 -> Byte]
    BY CardAssumption DEF Empty
  <2>2. line' \in Seq(Byte)
    BY <1>32 DEF Reset, ControllerReset
  <2> QED
    BY <1>32, <2>1, <2>2 DEF Reset, ControllerReset
<1>33. ASSUME UNCHANGED vars  PROVE Bytes'
  BY <1>33 DEF vars
<1> QED
  BY <1>1, <1>2, <1>3, <1>4, <1>5, <1>6, <1>7, <1>8, <1>9, <1>10, <1>11, <1>12, <1>13, <1>14,
     <1>15, <1>16, <1>17, <1>18, <1>19, <1>20, <1>21, <1>22, <1>23, <1>24, <1>25, <1>26,
     <1>27, <1>28, <1>29, <1>30, <1>31, <1>32, <1>33 DEF Next, Driver, Clock, Controller

-----------------------------------------------------------------------------
\* Every byte of the block reaches the driver once, in its order.
LEMMA StepStreaming ==
  ASSUME Documented, Inv, [Next]_vars
  PROVE  Streaming'
<1> USE Sizes
<1> USE DEF Inv, Types, Bit, Pcs, States, AfterRead, Between, Setup, Commands, Handshake,
      Returns, Reading, Writing, Powered, Standing, Streaming, FromCard, Home, ReadEven,
      WriteEven, InRead, InWrite, Index, Pending
<1> USE DEF sdVars, driverVars, flags, requestBits, data, place, bounds, Other
<1>1. ASSUME NEW request \in Requests, Start(request)  PROVE Streaming'
  BY <1>1 DEF Start
<1>2. ASSUME Select  PROVE Streaming'
  BY <1>2 DEF Select
<1>3. ASSUME LoadAddress  PROVE Streaming'
  BY <1>3 DEF LoadAddress, HostAddress
<1>4. ASSUME Wait  PROVE Streaming'
  BY <1>4 DEF Wait, Poll
<1>5. ASSUME ReadCommand  PROVE Streaming'
  BY <1>5 DEF ReadCommand, HostCommand
<1>6. ASSUME ByteReady  PROVE Streaming'
  BY <1>6, StatusMeans DEF ByteReady, Poll
<1>7. ASSUME Take  PROVE Streaming'
  BY <1>7, TakeAdvances DEF Take, HostTake, Keep, KeepAll
<1>8. ASSUME Update  PROVE Streaming'
  BY <1>8 DEF Update
<1>9. ASSUME WaitWrite  PROVE Streaming'
  BY <1>9 DEF WaitWrite, Poll
<1>10. ASSUME WriteCommand  PROVE Streaming'
  BY <1>10 DEF WriteCommand, HostCommand
<1>11. ASSUME Space  PROVE Streaming'
  BY <1>11 DEF Space, Poll
<1>12. ASSUME Store  PROVE Streaming'
  BY <1>12 DEF Store, HostStore
<1>13. ASSUME Return  PROVE Streaming'
  BY <1>13 DEF Return
<1>14. ASSUME Rst, Clock  PROVE Streaming'
  BY <1>14 DEF Rst, Clock
<1>15. ASSUME InitCard, Clock  PROVE Streaming'
  BY <1>15 DEF InitCard, Clock
<1>16. ASSUME CardSel, Clock  PROVE Streaming'
  BY <1>16 DEF CardSel, Clock
<1>17. ASSUME StbyWaits, Clock  PROVE Streaming'
  BY <1>17 DEF StbyWaits, Standby, Clock
<1>18. ASSUME StbyRead, Clock  PROVE Streaming'
  BY <1>18 DEF StbyRead, StbyAccepts, Standby, Clock
<1>19. ASSUME StbyWrite, Clock  PROVE Streaming'
  BY <1>19 DEF StbyWrite, StbyAccepts, Standby, Clock
<1>20. ASSUME ReadBlockCmd, Clock  PROVE Streaming'
  BY <1>20 DEF ReadBlockCmd, Command, Clock
<1>21. ASSUME WriteBlockCmd, Clock  PROVE Streaming'
  BY <1>21 DEF WriteBlockCmd, Command, Clock
<1>22. ASSUME SendCmd, Clock  PROVE Streaming'
  <2>1. CASE return_state = "read_block_wait"
    <3>1. InRead /\ state = "send_cmd" /\ line' \in Streams /\ call' = call /\ card' = card
          /\ state' = "read_block_wait"
      BY <1>22, <2>1 DEF SendCmd, Clock
    <3>2. call.sector \in Existing /\ cmd_address = AddressOf(call.sector)
      BY <3>1 DEF Calling, Placed
    <3>3. Len(line') = BlockSize + 3 /\ \A i \in Index : line'[i + 1] = Home(call.sector)[i]
      BY <3>1, <3>2, StreamShape
    <3>4. FromCard(0)'
      BY <3>1, <3>3
    <3> QED
      BY <3>1, <3>3, <3>4
  <2>2. CASE return_state # "read_block_wait"
    BY <1>22, <2>2 DEF SendCmd, Clock
  <2> QED
    BY <2>1, <2>2
<1>23. ASSUME ReadBlockWait, Clock  PROVE Streaming'
  BY <1>23 DEF ReadBlockWait, Clock
<1>24. ASSUME ReceiveByte, Clock  PROVE Streaming'
  <2>1. CASE return_state = "read_block_data"
    <3>1. /\ state = "receive_byte" /\ state' = "read_block_data" /\ line' = Tail(line)
          /\ UNCHANGED <<call, card, pc, count, byte_counter>>
      BY <1>24, <2>1 DEF ReceiveByte, Clock
    <3>2. byte_counter \in 0 .. BlockSize + 1 /\ Len(line) = byte_counter + 2
      BY <2>1, <3>1
    <3>3. Len(line) > 0 /\ line \in Seq(Byte)
      BY <3>2 DEF Bytes
    <3>4. /\ Len(line') = byte_counter + 1
          /\ \A i \in 1 .. byte_counter + 1 : line'[i] = line[i + 1]
      <4>1. /\ Len(Tail(line)) = Len(line) - 1
            /\ \A i \in 1 .. Len(line) - 1 : Tail(line)[i] = line[i + 1]
        BY <3>3, TailShape
      <4>2. Len(line) - 1 = byte_counter + 1
        BY <3>2
      <4> QED
        BY <3>1, <4>1, <4>2
    <3>5. CASE byte_counter >= 2
      <4>0. PICK k \in 0 .. BlockSize - 1 : k = BlockSize + 1 - byte_counter
        BY <3>2, <3>5
      <4>1. k \in 0 .. BlockSize - 1 /\ count = k /\ byte_counter = BlockSize + 1 - k
        BY <2>1, <3>1, <3>2, <3>5, <4>0
      <4>2. \A i \in Index : i >= k => line[i - k + 1] = Home(call.sector)[i]
        BY <2>1, <3>1, <3>5, <4>0
      <4>3. dout' = Home(call.sector)[k]
        <5>1. dout' = line[1]
          BY <1>24, <2>1, <3>3, <3>5, TailShape DEF ReceiveByte
        <5>2. k \in Index /\ k - k + 1 = 1 /\ k >= k
          BY <4>1
        <5> QED
          BY <4>2, <5>1, <5>2
      <4>4. FromCard(k + 1)'
        <5> SUFFICES ASSUME NEW i \in Index, i >= k + 1
                     PROVE  line'[i - (k + 1) + 1] = Home(call.sector)[i]
          BY <3>1
        <5>1. i - (k + 1) + 1 = i - k /\ i - k \in 1 .. byte_counter + 1 /\ i >= k
          BY <4>1
        <5> QED
          BY <3>4, <4>2, <5>1
      <4>5. BlockSize + 2 - byte_counter' = k + 1
        BY <3>1, <4>1
      <4> QED
        BY <3>1, <3>4, <4>1, <4>3, <4>4, <4>5
    <3>6. CASE byte_counter < 2
      BY <3>1, <3>4, <3>6
    <3> QED
      BY <3>2, <3>5, <3>6
  <2>2. CASE return_state = "stby"
    BY <1>24, <2>2 DEF ReceiveByte, Clock
  <2> QED
    BY <1>24, <2>1, <2>2 DEF ReceiveByte
<1>25. ASSUME ReadBlockData, Clock  PROVE Streaming'
  BY <1>25 DEF ReadBlockData, Clock
<1>26. ASSUME WriteBlockInit, Clock  PROVE Streaming'
  BY <1>26 DEF WriteBlockInit, write_data_size, Clock
<1>27. ASSUME WriteStart, Clock  PROVE Streaming'
  BY <1>27 DEF WriteStart, write_data_size, Clock
<1>28. ASSUME WriteByte, Clock  PROVE Streaming'
  BY <1>28 DEF WriteByte, write_data_size, Clock
<1>29. ASSUME WriteCrc, Clock  PROVE Streaming'
  BY <1>29 DEF WriteCrc, Clock
<1>30. ASSUME WriteEnd, Clock  PROVE Streaming'
  BY <1>30 DEF WriteEnd, Clock
<1>31. ASSUME WriteResponse, Clock  PROVE Streaming'
  BY <1>31 DEF WriteResponse, Clock
<1>32. ASSUME Reset  PROVE Streaming'
  BY <1>32 DEF Reset, ControllerReset
<1>33. ASSUME UNCHANGED vars  PROVE Streaming'
  BY <1>33 DEF vars
<1> QED
  BY <1>1, <1>2, <1>3, <1>4, <1>5, <1>6, <1>7, <1>8, <1>9, <1>10, <1>11, <1>12, <1>13, <1>14,
     <1>15, <1>16, <1>17, <1>18, <1>19, <1>20, <1>21, <1>22, <1>23, <1>24, <1>25, <1>26,
     <1>27, <1>28, <1>29, <1>30, <1>31, <1>32, <1>33 DEF Next, Driver, Clock, Controller

\* Every byte of the buffer reaches the card once, in its order.
LEMMA StepArriving ==
  ASSUME Documented, Inv, [Next]_vars
  PROVE  Arriving'
<1> USE Sizes
<1> USE DEF Inv, Types, Bit, Pcs, States, AfterRead, Between, Setup, Commands, Handshake,
      Returns, Reading, Writing, Powered, Standing, Arriving, ReadEven, WriteEven, InRead,
      InWrite, Index, Sent
<1> USE DEF sdVars, driverVars, flags, requestBits, data, place, bounds, Other
<1>1. ASSUME NEW request \in Requests, Start(request)  PROVE Arriving'
  BY <1>1 DEF Start
<1>2. ASSUME Select  PROVE Arriving'
  BY <1>2 DEF Select
<1>3. ASSUME LoadAddress  PROVE Arriving'
  BY <1>3 DEF LoadAddress, HostAddress
<1>4. ASSUME Wait  PROVE Arriving'
  BY <1>4 DEF Wait, Poll
<1>5. ASSUME ReadCommand  PROVE Arriving'
  BY <1>5 DEF ReadCommand, HostCommand
<1>6. ASSUME ByteReady  PROVE Arriving'
  BY <1>6, StatusMeans DEF ByteReady, Poll
<1>7. ASSUME Take  PROVE Arriving'
  BY <1>7, TakeAdvances DEF Take, HostTake, Keep, KeepAll
<1>8. ASSUME Update  PROVE Arriving'
  BY <1>8 DEF Update
<1>9. ASSUME WaitWrite  PROVE Arriving'
  BY <1>9 DEF WaitWrite, Poll
<1>10. ASSUME WriteCommand  PROVE Arriving'
  BY <1>10 DEF WriteCommand, HostCommand
<1>11. ASSUME Space  PROVE Arriving'
  BY <1>11 DEF Space, Poll
<1>12. ASSUME Store  PROVE Arriving'
  BY <1>12 DEF Store, HostStore
<1>13. ASSUME Return  PROVE Arriving'
  BY <1>13 DEF Return
<1>14. ASSUME Rst, Clock  PROVE Arriving'
  BY <1>14 DEF Rst, Clock
<1>15. ASSUME InitCard, Clock  PROVE Arriving'
  BY <1>15 DEF InitCard, Clock
<1>16. ASSUME CardSel, Clock  PROVE Arriving'
  BY <1>16 DEF CardSel, Clock
<1>17. ASSUME StbyWaits, Clock  PROVE Arriving'
  BY <1>17 DEF StbyWaits, Standby, Clock
<1>18. ASSUME StbyRead, Clock  PROVE Arriving'
  BY <1>18 DEF StbyRead, StbyAccepts, Standby, Clock
<1>19. ASSUME StbyWrite, Clock  PROVE Arriving'
  BY <1>19 DEF StbyWrite, StbyAccepts, Standby, Clock
<1>20. ASSUME ReadBlockCmd, Clock  PROVE Arriving'
  BY <1>20 DEF ReadBlockCmd, Command, Clock
<1>21. ASSUME WriteBlockCmd, Clock  PROVE Arriving'
  BY <1>21 DEF WriteBlockCmd, Command, Clock
<1>22. ASSUME SendCmd, Clock  PROVE Arriving'
  BY <1>22 DEF SendCmd, Clock
<1>23. ASSUME ReadBlockWait, Clock  PROVE Arriving'
  BY <1>23 DEF ReadBlockWait, Clock
<1>24. ASSUME ReceiveByte, Clock  PROVE Arriving'
  BY <1>24 DEF ReceiveByte, Clock
<1>25. ASSUME ReadBlockData, Clock  PROVE Arriving'
  BY <1>25 DEF ReadBlockData, Clock
<1>26. ASSUME WriteBlockInit, Clock  PROVE Arriving'
  BY <1>26 DEF WriteBlockInit, write_data_size, Clock
<1>27. ASSUME WriteStart, Clock  PROVE Arriving'
  BY <1>27 DEF WriteStart, write_data_size, Clock
<1>28. ASSUME WriteByte, Clock  PROVE Arriving'
  BY <1>28 DEF WriteByte, write_data_size, Clock
<1>29. ASSUME WriteCrc, Clock  PROVE Arriving'
  BY <1>29 DEF WriteCrc, Clock
<1>30. ASSUME WriteEnd, Clock  PROVE Arriving'
  BY <1>30 DEF WriteEnd, Clock
<1>31. ASSUME WriteResponse, Clock  PROVE Arriving'
  BY <1>31 DEF WriteResponse, Clock
<1>32. ASSUME Reset  PROVE Arriving'
  BY <1>32 DEF Reset, ControllerReset
<1>33. ASSUME UNCHANGED vars  PROVE Arriving'
  BY <1>33 DEF vars
<1> QED
  BY <1>1, <1>2, <1>3, <1>4, <1>5, <1>6, <1>7, <1>8, <1>9, <1>10, <1>11, <1>12, <1>13, <1>14,
     <1>15, <1>16, <1>17, <1>18, <1>19, <1>20, <1>21, <1>22, <1>23, <1>24, <1>25, <1>26,
     <1>27, <1>28, <1>29, <1>30, <1>31, <1>32, <1>33 DEF Next, Driver, Clock, Controller

-----------------------------------------------------------------------------
\* A write that is complete changes its sector and no other.
LEMMA CommitHalves ==
  ASSUME Documented, Types, Bytes, Handshake, Pending, Placed, Arriving, Gathered,
         state = "write_block_data", byte_counter = 1, card' = Stored, NEW s \in Existing
  PROVE  HalfOf(Home(s)', LowerOf(s)) = IF s = asked.sector THEN Contents(asked.value)
                                        ELSE HalfOf(Home(s), LowerOf(s))
<1>1. PICK r \in Existing : r = asked.sector
  BY Committed
<1>2. PICK v \in Values : v = asked.value
  BY Committed
<1>3. PICK h \in Block : h = Home(r)
  BY <1>1, Committed
<1>4. card' = [card EXCEPT ![BlockOf(r)] = Over(h, r, v)] /\ BlockOf(r) \in Blocks
  BY <1>1, <1>2, <1>3, Committed
<1>5. BlockOf(s) \in Blocks
  BY OnDisk
<1>6. CASE s = r
  <2>1. card'[BlockOf(s)] = Over(h, r, v)
    BY <1>4, <1>6 DEF Bytes
  <2> QED
    BY <1>1, <1>2, <1>6, <2>1, OverHolds DEF Home
<1>7. CASE s # r /\ BlockOf(s) = BlockOf(r)
  <2>1. card'[BlockOf(s)] = Over(h, r, v)
    BY <1>4, <1>7 DEF Bytes
  <2>2. Home(s) = h
    BY <1>3, <1>7 DEF Home
  <2> QED
    BY <1>1, <1>7, <2>1, <2>2, OverHolds DEF Home
<1>8. CASE s # r /\ BlockOf(s) # BlockOf(r)
  <2>1. card'[BlockOf(s)] = card[BlockOf(s)]
    BY <1>4, <1>5, <1>8 DEF Bytes
  <2> QED
    BY <1>1, <1>8, <2>1 DEF Home
<1> QED
  BY <1>6, <1>7, <1>8

\* No step tears a sector.
LEMMA StepWhole ==
  ASSUME Documented, Inv, [Next]_vars
  PROVE  Whole'
<1> USE DEF Inv
<1>1. CASE card' = card
  BY <1>1 DEF Whole, Home
<1>2. CASE CardWritten
  <2> SUFFICES ASSUME NEW s \in Existing
               PROVE  \E v \in Values : HalfOf(Home(s)', LowerOf(s)) = Contents(v)
    BY DEF Whole
  <2>1. HalfOf(Home(s)', LowerOf(s)) = IF s = asked.sector THEN Contents(asked.value)
                                        ELSE HalfOf(Home(s), LowerOf(s))
    BY <1>2, CommitHalves DEF CardWritten
  <2>2. asked.value \in Values
    BY <1>2, Committed DEF CardWritten
  <2> QED
    BY <2>1, <2>2 DEF Whole
<1> QED
  BY <1>1, <1>2, CardChange

\* The half of the block that Mine takes is the called sector's.
LEMMA MineIs ==
  ASSUME Documented, Calling, Handshake, pc \in {"byte", "take", "update"}
  PROVE  /\ call \in Requests /\ call.sector \in Existing
         /\ \A i \in Index : Mine(i) <=> (i >= Half <=> Upper(call.sector))
<1>1. SECPOS = SECPOSOf(call.sector[3]) /\ call \in Requests /\ call.sector \in Existing
  BY DEF Calling
<1> QED
  BY <1>1 DEF Mine, InUpper, Upper

\* A byte taken goes to its place; the last one completes the block or the sector.
LEMMA TakeGathers ==
  ASSUME Documented, Inv, Take
  PROVE  Gathered'
<1> USE DEF Inv
<1>1. /\ pc = "take" /\ state = "read_block_data" /\ count \in Index /\ count' = count + 1
      /\ byte_counter >= 2 /\ ~ReadEven
      /\ pc' = IF count + 1 < BlockSize THEN "byte"
               ELSE IF call.op = "read" THEN "done" ELSE "update"
  BY TakeAdvances
<1>2. UNCHANGED <<call, asked, card, SECPOS>>
  BY DEF Take, HostTake
<1>3. asked = None
  BY <1>1 DEF Pending, InWrite
<1>4. dout = Home(call.sector)[count]
  BY <1>1 DEF Streaming
<1>5. PICK s \in Existing : s = call.sector
  BY <1>1, MineIs
<1>6. /\ call.op \in {"read", "write"}
      /\ \A i \in Index : Mine(i) <=> (i >= Half <=> Upper(s))
  BY <1>1, <1>5, MineIs, RequestShape
<1>7. Home(s) \in Block /\ Home(call.sector)' = Home(s)
  BY <1>2, <1>5, OnDisk DEF Home, Bytes
<1>8. PICK c \in Index : c = count
  BY <1>1
<1>9. \A i \in Index : i < c + 1 => i < c \/ i = c
  BY Sizes DEF Index
<1>10. CASE call.op = "write"
  <2>1. buffer' = [buffer EXCEPT ![c] = Home(s)[c]]
    BY <1>4, <1>5, <1>8, <1>10 DEF Take, KeepAll
  <2>2. \A i \in Index : i < c + 1 => buffer'[i] = Home(s)[i]
    <3>1. \A i \in Index : i < c => buffer[i] = Home(s)[i]
      BY <1>1, <1>5, <1>8, <1>10 DEF Gathered
    <3> QED
      BY <1>9, <2>1, <3>1 DEF Bytes, Block
  <2>3. CASE c + 1 < BlockSize
    BY <1>1, <1>2, <1>3, <1>5, <1>7, <1>8, <1>10, <2>2, <2>3 DEF Gathered
  <2>4. CASE ~(c + 1 < BlockSize)
    <3>1. buffer' = Home(s)
      <4>1. \A i \in Index : i < c + 1
        BY <2>4, Sizes DEF Index
      <4>2. buffer' \in Block
        BY <1>7, <2>1 DEF Bytes, Block
      <4> QED
        BY <1>7, <2>2, <4>1, <4>2 DEF Block
    <3>2. pc' = "update"
      BY <1>1, <1>8, <1>10, <2>4
    <3> QED
      BY <1>2, <1>3, <1>5, <1>7, <3>1, <3>2 DEF Gathered
  <2> QED
    BY <2>3, <2>4
<1>11. CASE call.op = "read"
  <2>1. \A i \in Index : i < c /\ Mine(i) => user[i % Half] = Home(s)[i]
    BY <1>1, <1>5, <1>8, <1>11 DEF Gathered
  <2>2. \A i \in Index : i % Half \in 0 .. Half - 1
    BY <1>5, Places
  <2>3. \A i \in Index : i < c + 1 /\ Mine(i) => user'[i % Half] = Home(s)[i]
    <3>1. CASE Mine(c)
      <4>1. user' = [user EXCEPT ![c % Half] = Home(s)[c]]
        BY <1>4, <1>5, <1>8, <1>11, <3>1 DEF Take, Keep
      <4>2. \A i \in Index : i < c /\ Mine(i) => i % Half # c % Half
        <5>1. \A i \in Index : Mine(i) => i = LowerOf(s) + (i % Half)
          BY <1>5, <1>6, Places
        <5> QED
          BY <3>1, <5>1 DEF Index
      <4> QED
        BY <1>9, <2>1, <2>2, <4>1, <4>2 DEF Bytes
    <3>2. CASE ~Mine(c)
      <4>1. user' = user
        BY <1>8, <1>11, <3>2 DEF Take, Keep
      <4> QED
        BY <1>9, <2>1, <3>2, <4>1
    <3> QED
      BY <3>1, <3>2
  <2>4. \A i \in Index : Mine(i)' <=> Mine(i)
    BY <1>2 DEF Mine, InUpper
  <2>5. CASE c + 1 < BlockSize
    <3>1. \A i \in Index : i < c + 1 /\ Mine(i)' => user'[i % Half] = Home(s)[i]
      BY <2>3, <2>4
    <3> QED
      BY <1>1, <1>2, <1>3, <1>5, <1>7, <1>8, <1>11, <2>5, <3>1 DEF Gathered
  <2>6. CASE ~(c + 1 < BlockSize)
    <3>1. \A k \in 0 .. Half - 1 : user'[k] = Home(s)[LowerOf(s) + k]
      <4>1. \A i \in Index : i < c + 1
        BY <2>6, Sizes DEF Index
      <4>2. \A k \in 0 .. Half - 1 :
              /\ LowerOf(s) + k \in Index /\ (LowerOf(s) + k) % Half = k
              /\ Mine(LowerOf(s) + k)
        BY <1>5, <1>6, Places
      <4> QED
        BY <2>3, <4>1, <4>2
    <3>2. user' \in [0 .. Half - 1 -> Byte]
      BY <1>2, <1>11, <2>2, <1>1 DEF Take, Keep, Bytes
    <3>3. user' = HalfOf(Home(s), LowerOf(s))
      BY <3>1, <3>2 DEF HalfOf
    <3>4. pc' = "done"
      BY <1>1, <1>8, <1>11, <2>6
    <3> QED
      BY <1>2, <1>3, <1>5, <1>7, <1>11, <3>3, <3>4 DEF Gathered
  <2> QED
    BY <2>5, <2>6
<1> QED
  BY <1>6, <1>10, <1>11

\* SDWRITE replaces the caller's half of the block it has read.
LEMMA UpdateGathers ==
  ASSUME Documented, Inv, Update
  PROVE  Gathered'
<1> USE DEF Inv
<1>1. /\ pc = "update" /\ pc' = "waitw" /\ UNCHANGED <<call, asked, card>>
      /\ buffer' = [i \in Index |-> IF Mine(i) THEN user[i % Half] ELSE buffer[i]]
  BY DEF Update, sdVars, Index
<1>2. PICK s \in Existing : s = call.sector
  BY <1>1, MineIs
<1>3. call.op = "write" /\ user = Contents(call.value) /\ buffer = Home(s)
  BY <1>1, <1>2 DEF Calling, Gathered
<1>4. asked = None
  BY <1>1 DEF Pending, Handshake, Writing, Between
<1>5. \A i \in Index : Mine(i) <=> (i >= Half <=> Upper(s))
  BY <1>1, <1>2, MineIs
<1>6. \A i \in Index : user[i % Half] = <<call.value, i % Half>>
  BY <1>2, <1>3, Places DEF Contents
<1>7. buffer' = Over(Home(s), s, call.value)
  BY <1>1, <1>3, <1>5, <1>6 DEF Over
<1>8. Home(call.sector)' = Home(s) /\ call'.value = call.value
  BY <1>1, <1>2 DEF Home
<1> QED
  BY <1>1, <1>2, <1>4, <1>7, <1>8 DEF Gathered, Replaced

\* Every step preserves what the driver has gathered.
LEMMA StepGathered ==
  ASSUME Documented, Inv, [Next]_vars
  PROVE  Gathered'
<1> USE Sizes
<1> USE DEF Inv, Types, Pcs, AfterRead, Between, Setup, Calling, Pending, InWrite, Gathered,
      Home, Replaced, Mine, InUpper, Index
<1> USE DEF sdVars, driverVars, flags, requestBits, data, place, bounds
<1>1. ASSUME NEW request \in Requests, Start(request)  PROVE Gathered'
  BY <1>1 DEF Start
<1>2. ASSUME Select  PROVE Gathered'
  BY <1>2 DEF Select
<1>3. ASSUME LoadAddress  PROVE Gathered'
  BY <1>3 DEF LoadAddress, HostAddress
<1>4. ASSUME Wait  PROVE Gathered'
  BY <1>4 DEF Wait, Poll
<1>5. ASSUME ReadCommand  PROVE Gathered'
  BY <1>5 DEF ReadCommand, HostCommand
<1>6. ASSUME ByteReady  PROVE Gathered'
  BY <1>6 DEF ByteReady, Poll
<1>7. ASSUME Take  PROVE Gathered'
  BY <1>7, TakeGathers
<1>8. ASSUME Update  PROVE Gathered'
  BY <1>8, UpdateGathers
<1>9. ASSUME WaitWrite  PROVE Gathered'
  BY <1>9 DEF WaitWrite, Poll
<1>10. ASSUME WriteCommand  PROVE Gathered'
  BY <1>10 DEF WriteCommand, HostCommand, Asked
<1>11. ASSUME Space  PROVE Gathered'
  BY <1>11 DEF Space, Poll
<1>12. ASSUME Store  PROVE Gathered'
  BY <1>12 DEF Store, HostStore
<1>13. ASSUME Return  PROVE Gathered'
  BY <1>13 DEF Return
<1>14. ASSUME Rst, Clock  PROVE Gathered'
  BY <1>14 DEF Rst, Clock
<1>15. ASSUME InitCard, Clock  PROVE Gathered'
  BY <1>15 DEF InitCard, Clock
<1>16. ASSUME CardSel, Clock  PROVE Gathered'
  BY <1>16 DEF CardSel, Clock
<1>17. ASSUME StbyWaits, Clock  PROVE Gathered'
  BY <1>17 DEF StbyWaits, Standby, Clock
<1>18. ASSUME StbyRead, Clock  PROVE Gathered'
  BY <1>18 DEF StbyRead, StbyAccepts, Standby, Clock
<1>19. ASSUME StbyWrite, Clock  PROVE Gathered'
  BY <1>19 DEF StbyWrite, StbyAccepts, Standby, Clock
<1>20. ASSUME ReadBlockCmd, Clock  PROVE Gathered'
  BY <1>20 DEF ReadBlockCmd, Command, Clock
<1>21. ASSUME WriteBlockCmd, Clock  PROVE Gathered'
  BY <1>21 DEF WriteBlockCmd, Command, Clock
<1>22. ASSUME SendCmd, Clock  PROVE Gathered'
  BY <1>22 DEF SendCmd, Clock
<1>23. ASSUME ReadBlockWait, Clock  PROVE Gathered'
  BY <1>23 DEF ReadBlockWait, Clock
<1>24. ASSUME ReceiveByte, Clock  PROVE Gathered'
  BY <1>24 DEF ReceiveByte, Clock
<1>25. ASSUME ReadBlockData, Clock  PROVE Gathered'
  BY <1>25 DEF ReadBlockData, Clock
<1>26. ASSUME WriteBlockInit, Clock  PROVE Gathered'
  BY <1>26 DEF WriteBlockInit, write_data_size, Clock
<1>27. ASSUME WriteStart, Clock  PROVE Gathered'
  BY <1>27 DEF WriteStart, write_data_size, Clock
<1>28. ASSUME WriteByte, Clock  PROVE Gathered'
  BY <1>28 DEF WriteByte, write_data_size, Clock
<1>29. ASSUME WriteCrc, Clock  PROVE Gathered'
  BY <1>29 DEF WriteCrc, Clock, Handshake, Reading, Writing, Documented
<1>30. ASSUME WriteEnd, Clock  PROVE Gathered'
  BY <1>30 DEF WriteEnd, Clock
<1>31. ASSUME WriteResponse, Clock  PROVE Gathered'
  BY <1>31 DEF WriteResponse, Clock
<1>32. ASSUME Reset  PROVE Gathered'
  BY <1>32 DEF Reset, ControllerReset
<1>33. ASSUME UNCHANGED vars  PROVE Gathered'
  BY <1>33 DEF vars
<1> QED
  BY <1>1, <1>2, <1>3, <1>4, <1>5, <1>6, <1>7, <1>8, <1>9, <1>10, <1>11, <1>12, <1>13, <1>14,
     <1>15, <1>16, <1>17, <1>18, <1>19, <1>20, <1>21, <1>22, <1>23, <1>24, <1>25, <1>26,
     <1>27, <1>28, <1>29, <1>30, <1>31, <1>32, <1>33 DEF Next, Driver, Clock, Controller

-----------------------------------------------------------------------------
\* At first every sector holds the same value, and nothing is under way.
LEMMA InitInv ==
  ASSUME Documented, Init
  PROVE  Inv
<1> USE Sizes
<1>1. PICK v \in Values : card = [b \in Blocks |-> [i \in Index |-> <<v, i % Half>>]]
  BY DEF Init, Index
<1>2. \A i \in Index : i % Half \in 0 .. Half - 1
  BY DEF Index
<1>3. Bytes
  <2>1. \A i \in Index : <<v, i % Half>> \in Byte
    BY <1>2, HalfAssumption
  <2>2. card \in [Blocks -> Block]
    BY <1>1, <2>1 DEF Block
  <2>3. buffer \in Block /\ user \in [0 .. Half - 1 -> Byte]
    BY CardAssumption DEF Init, Block, Index, Empty
  <2>4. dout \in Byte /\ din_latched \in Byte /\ line \in Seq(Byte)
    BY CardAssumption DEF Init
  <2> QED
    BY <2>2, <2>3, <2>4 DEF Bytes
<1>4. Whole
  <2> SUFFICES ASSUME NEW s \in Existing
               PROVE  HalfOf(Home(s), LowerOf(s)) = Contents(v)
    BY DEF Whole
  <2>1. \A k \in 0 .. Half - 1 : Home(s)[LowerOf(s) + k] = <<v, k>>
    BY <1>1, OnDisk, Places DEF Home
  <2> QED
    BY <2>1 DEF HalfOf, Contents
<1>5. Types
  BY DEF Init, Types, Bit, Pcs, States, AfterRead, Between, Setup
<1>6. Calling /\ Handshake
  BY DEF Init, Calling, Handshake, Powered, Requested, Returns, Standing, Reading, Writing,
     InRead,
         InWrite, Setup, Commands, Between
<1>7. Pending /\ Placed /\ Streaming /\ Arriving /\ Gathered
  BY DEF Init, Pending, Placed, Streaming, Arriving, Gathered, InRead, InWrite
<1> QED
  BY <1>3, <1>4, <1>5, <1>6, <1>7 DEF Inv

\* The invariant is inductive.
LEMMA StepInv ==
  ASSUME Documented, Inv, [Next]_vars
  PROVE  Inv'
<1>1. Types /\ Calling /\ Handshake /\ Pending /\ Placed
  BY DEF Inv
<1>2. Types' /\ Calling' /\ Handshake' /\ Pending' /\ Placed'
  BY <1>1, StepTypes, StepCalling, StepHandshake, StepPending, StepPlaced
<1>3. Bytes' /\ Streaming' /\ Arriving' /\ Gathered' /\ Whole'
  BY StepBytes, StepStreaming, StepArriving, StepGathered, StepWhole
<1> QED
  BY <1>2, <1>3 DEF Inv

-----------------------------------------------------------------------------
\* Different values have different bytes.
LEMMA ValueIs ==
  ASSUME NEW v \in Values
  PROVE  ValueOf(Contents(v)) = v
<1>1. \A w \in Values : Contents(w) = Contents(v) => w = v
  <2> SUFFICES ASSUME NEW w \in Values, Contents(w) = Contents(v)  PROVE w = v
    OBVIOUS
  <2>1. 0 \in 0 .. Half - 1
    BY Sizes
  <2>2. Contents(w)[0] = <<w, 0>> /\ Contents(v)[0] = <<v, 0>>
    BY <2>1 DEF Contents
  <2> QED
    BY <2>2
<1> QED
  BY <1>1 DEF ValueOf

\* The value of a sector on the card.
LEMMA HoldsValue ==
  ASSUME NEW s \in Existing
  PROVE  Holds(s) = ValueOf(HalfOf(Home(s), LowerOf(s)))
  BY DEF Holds, Home

\* What a call c has come to when the driver is at p and the caller's buffer is u.
ResultAt(p, c, u) ==
  IF p = "error" THEN "refused"
  ELSE IF p = "done" /\ c.op = "read" THEN ValueOf(u)
  ELSE IF p \in {"space", "store", "done"} THEN "ok" ELSE None

\* The answer of a call is that of the place the driver is at.
LEMMA ResultIs ==
  Result = ResultAt(pc, call, user) /\ Result' = ResultAt(pc', call', user')
<1>1. Result = ResultAt(pc, call, user)
  <2>1. CASE pc = "error"
    BY <2>1 DEF Result, ResultAt
  <2>2. CASE pc = "done" /\ call.op = "read"
    BY <2>2 DEF Result, ResultAt
  <2>3. CASE pc # "error" /\ ~(pc = "done" /\ call.op = "read")
    <3>1. CASE pc \in {"space", "store"} \/ (pc = "done" /\ call.op # "read")
      BY <2>3, <3>1 DEF Result, ResultAt
    <3>2. CASE ~(pc \in {"space", "store"} \/ (pc = "done" /\ call.op # "read"))
      BY <2>3, <3>2 DEF Result, ResultAt
    <3> QED  BY <3>1, <3>2
  <2> QED  BY <2>1, <2>2, <2>3
<1>2. Result' = ResultAt(pc', call', user')
  <2>1. CASE pc' = "error"
    BY <2>1 DEF Result, ResultAt
  <2>2. CASE pc' = "done" /\ call'.op = "read"
    BY <2>2 DEF Result, ResultAt
  <2>3. CASE pc' # "error" /\ ~(pc' = "done" /\ call'.op = "read")
    <3>1. CASE pc' \in {"space", "store"} \/ (pc' = "done" /\ call'.op # "read")
      BY <2>3, <3>1 DEF Result, ResultAt
    <3>2. CASE ~(pc' \in {"space", "store"} \/ (pc' = "done" /\ call'.op # "read"))
      BY <2>3, <3>2 DEF Result, ResultAt
    <3> QED  BY <3>1, <3>2
  <2> QED  BY <2>1, <2>2, <2>3
<1> QED
  BY <1>1, <1>2

DiskStep == [Disk!Call \/ Disk!Read \/ Disk!Write \/ Disk!Refuse \/ Disk!Return
              \/ Disk!Commit \/ Disk!Reset]_(Disk!diskVars)

\* The abstract disk is a function of the card.
LEMMA SameDisk ==
  ASSUME card' = card
  PROVE  [s \in Existing |-> Holds(s)]' = [s \in Existing |-> Holds(s)]
  BY DEF Holds

\* A step that changes none of these is not seen in the abstract disk.
LEMMA QuietStep ==
  ASSUME card' = card, asked' = asked, call' = call, Result' = Result
  PROVE  DiskStep
  BY SameDisk DEF DiskStep, Disk!diskVars

\* Start is Call.
LEMMA StartCalls ==
  ASSUME Documented, Inv, NEW request \in Requests, Start(request)
  PROVE  DiskStep
<1>1. /\ call = None /\ call' = request /\ UNCHANGED <<card, asked>>
      /\ pc = "idle" /\ pc' = "select"
  BY DEF Start, Inv, Calling, sdVars
<1>2. Result = None /\ Result' = None
  BY <1>1, ResultIs DEF ResultAt
<1>3. request \in Disk!Requests
  BY DEF Requests, Disk!Requests
<1>4. Disk!Call
  BY <1>1, <1>2, <1>3, SameDisk DEF Disk!Call
<1> QED
  BY <1>4 DEF DiskStep

-----------------------------------------------------------------------------
\* Select refuses a drive that is not there.
LEMMA SelectRefuses ==
  ASSUME Documented, Inv, Select
  PROVE  DiskStep
<1>1. pc = "select" /\ call \in Requests /\ UNCHANGED <<card, asked, call>>
  BY DEF Select, Inv, Calling, sdVars
<1>2. call # None /\ call.sector \in Sectors /\ Result = None
  BY <1>1, RequestShape, ResultIs DEF ResultAt
<1>3. CASE NODRV(call.sector[1])
  <2>1. call.sector \notin Existing /\ Result' = "refused"
    BY <1>3, ResultIs DEF Select, Existing, ResultAt
  <2>2. Disk!Refuse
    BY <1>1, <1>2, <2>1, SameDisk DEF Disk!Refuse
  <2> QED
    BY <2>2 DEF DiskStep
<1>4. CASE ~NODRV(call.sector[1])
  <2>1. Result' = None
    BY <1>4, ResultIs DEF Select, ResultAt
  <2> QED
    BY <1>1, <1>2, <2>1, QuietStep
<1> QED
  BY <1>3, <1>4

\* The last byte of a read is Read: it answers what the disk holds.
LEMMA TakeReads ==
  ASSUME Documented, Inv, Take
  PROVE  DiskStep
<1> USE DEF Inv
<1>1. /\ pc = "take" /\ state = "read_block_data" /\ UNCHANGED <<card, asked, call>>
      /\ pc' = IF count + 1 < BlockSize THEN "byte"
               ELSE IF call.op = "read" THEN "done" ELSE "update"
  BY TakeAdvances DEF Take, HostTake
<1>2. Result = None
  BY <1>1, ResultIs DEF ResultAt
<1>3. CASE pc' # "done"
  <2>1. Result' = None
    BY <1>1, <1>3, ResultIs DEF ResultAt
  <2> QED
    BY <1>1, <1>2, <2>1, QuietStep
<1>4. CASE pc' = "done"
  <2>1. call.op = "read" /\ call # None
    BY <1>1, <1>4, RequestShape DEF Calling
  <2>2. PICK s \in Existing : s = call.sector
    BY <1>1, MineIs
  <2>3. asked = None
    BY <1>1 DEF Pending, InWrite
  <2>4. user' = HalfOf(Home(s), LowerOf(s))
    <3>1. user' = HalfOf(Home(call.sector), LowerOf(call.sector))'
      BY <1>1, <1>4, <2>1, TakeGathers DEF Gathered
    <3> QED
      BY <1>1, <2>2, <3>1 DEF Home
  <2>5. Result' = Holds(s)
    BY <1>1, <1>4, <2>1, <2>4, ResultIs, HoldsValue DEF ResultAt
  <2>6. [r \in Existing |-> Holds(r)][call.sector] = Holds(s)
    BY <2>2
  <2>7. Disk!Read
    BY <1>1, <1>2, <2>1, <2>2, <2>3, <2>5, <2>6, SameDisk DEF Disk!Read
  <2> QED
    BY <2>7 DEF DiskStep
<1> QED
  BY <1>3, <1>4

\* The write command is Write.
LEMMA CommandWrites ==
  ASSUME Documented, Inv, WriteCommand
  PROVE  DiskStep
<1> USE DEF Inv
<1>1. /\ pc = "writecmd" /\ pc' = "space" /\ UNCHANGED <<card, call>>
      /\ asked' = Asked(call.sector, call.value)
  BY DEF WriteCommand, HostCommand, Asked
<1>2. /\ call \in Requests /\ call # None /\ call.op = "write" /\ call.sector \in Existing
  BY <1>1, RequestShape DEF Calling
<1>3. asked = None
  BY <1>1 DEF Pending, Handshake, Reading, InWrite
<1>4. Result = None /\ Result' = "ok"
  BY <1>1, ResultIs DEF ResultAt
<1>5. Disk!Write
  BY <1>1, <1>2, <1>3, <1>4, SameDisk DEF Disk!Write, Asked
<1> QED
  BY <1>5 DEF DiskStep

\* Return is Return: there is an answer.
LEMMA ReturnReturns ==
  ASSUME Documented, Inv, Return
  PROVE  DiskStep
<1> USE DEF Inv
<1>1. /\ pc \in {"done", "error"} /\ pc' = "idle" /\ call' = None
      /\ UNCHANGED <<card, asked>> /\ call \in Requests
  BY DEF Return, sdVars, Calling
<1>2. Result # None
  <2>1. CASE pc = "error"
    BY <2>1, ResultIs, RequestShape DEF ResultAt
  <2>2. CASE pc = "done" /\ call.op = "read"
    <3>1. user = HalfOf(Home(call.sector), LowerOf(call.sector)) /\ call.sector \in Existing
      BY <2>2 DEF Gathered, Calling
    <3>2. PICK v \in Values : user = Contents(v)
      BY <3>1 DEF Whole
    <3>3. Result = v
      BY <2>2, <3>2, ResultIs, ValueIs DEF ResultAt
    <3> QED
      BY <3>3, RequestShape
  <2>3. CASE pc = "done" /\ call.op # "read"
    BY <2>3, ResultIs, RequestShape DEF ResultAt
  <2> QED
    BY <1>1, <2>1, <2>2, <2>3
<1>3. Result' = None
  BY <1>1, ResultIs DEF ResultAt
<1>4. Disk!Return
  BY <1>1, <1>2, <1>3, SameDisk DEF Disk!Return
<1> QED
  BY <1>4 DEF DiskStep

\* The controller's clock commits a write when its last byte has arrived, and is
\* otherwise not seen.
LEMMA ClockCommits ==
  ASSUME Documented, Inv, Clock
  PROVE  DiskStep
<1> USE DEF Inv
<1>1. UNCHANGED <<pc, call, user>>
  BY DEF Clock
<1>2. Result' = Result
  BY <1>1, ResultIs
<1>3. (card' = card /\ asked' = asked) \/ CardWritten
  <2>1. CASE ~(state = "write_block_data" /\ byte_counter = 1)
    <3>1. asked' = asked
      BY <2>1 DEF Clock
    <3>2. card' = card
      BY <2>1, CardChange DEF CardWritten, Next
    <3> QED  BY <3>1, <3>2
  <2>2. CASE state = "write_block_data" /\ byte_counter = 1
    <3>1. WriteCrc
      BY <2>2, Sizes
         DEF Clock, Controller, Rst, InitCard, CardSel, Standby, StbyWaits, StbyAccepts, StbyRead,
             StbyWrite, Command, ReadBlockCmd, WriteBlockCmd, SendCmd, ReadBlockWait, ReceiveByte,
             ReadBlockData, WriteBlockInit, WriteStart, WriteByte, WriteEnd, WriteResponse,
             write_data_size
    <3> QED
      BY <2>2, <3>1 DEF WriteCrc, Clock, CardWritten, Documented
  <2> QED
    BY <2>1, <2>2
<1>4. CASE card' = card /\ asked' = asked
  BY <1>1, <1>2, <1>4, QuietStep
<1>5. CASE CardWritten
  <2>1. PICK r \in Existing, v \in Values : r = asked.sector /\ v = asked.value
    BY <1>5, Committed DEF CardWritten
  <2>2. asked # None
    BY <1>5, Committed DEF CardWritten
  <2>3. \A s \in Existing : Holds(s)' = IF s = r THEN v ELSE Holds(s)
    <3> SUFFICES ASSUME NEW s \in Existing
                 PROVE  Holds(s)' = IF s = r THEN v ELSE Holds(s)
      OBVIOUS
    <3>1. HalfOf(Home(s)', LowerOf(s)) = IF s = r THEN Contents(v)
                                         ELSE HalfOf(Home(s), LowerOf(s))
      BY <1>5, <2>1, CommitHalves DEF CardWritten
    <3>2. Holds(s)' = ValueOf(HalfOf(Home(s)', LowerOf(s)))
      BY DEF Holds, Home
    <3> QED
      BY <3>1, <3>2, ValueIs, HoldsValue
  <2>4. [s \in Existing |-> Holds(s)]'
          = [[s \in Existing |-> Holds(s)] EXCEPT ![asked.sector] = asked.value]
    BY <2>1, <2>3
  <2>5. Disk!Commit
    BY <1>1, <1>2, <1>5, <2>2, <2>4 DEF Disk!Commit, CardWritten
  <2> QED
    BY <2>5 DEF DiskStep
<1> QED
  BY <1>3, <1>4, <1>5

\* Reset is Reset: a write that is pending is lost.
LEMMA ResetResets ==
  ASSUME Reset
  PROVE  DiskStep
<1>1. pc' = "idle" /\ call' = None /\ asked' = None /\ card' = card
  BY DEF Reset, ControllerReset, data
<1>2. Result' = None
  BY <1>1, ResultIs DEF ResultAt
<1>3. Disk!Reset
  BY <1>1, <1>2, SameDisk DEF Disk!Reset
<1> QED
  BY <1>3 DEF DiskStep

\* Every step is a step of the sector disk, or is not seen there.
LEMMA StepDisk ==
  ASSUME Documented, Inv, [Next]_vars
  PROVE  DiskStep
<1>1. ASSUME Select  PROVE DiskStep
  BY <1>1, SelectRefuses
<1>2. ASSUME LoadAddress  PROVE DiskStep
  <2>1. UNCHANGED <<card, asked, call>>
    BY <1>2 DEF LoadAddress, HostAddress, sdVars, data, place
  <2>2. Result' = Result
    BY <1>2, <2>1, ResultIs DEF ResultAt, LoadAddress, HostAddress
  <2> QED
    BY <2>1, <2>2, QuietStep
<1>3. ASSUME Wait  PROVE DiskStep
  <2>1. UNCHANGED <<card, asked, call>>
    BY <1>3 DEF Wait, Poll, sdVars, data, place
  <2>2. Result' = Result
    BY <1>3, <2>1, ResultIs DEF ResultAt, Wait, Poll
  <2> QED
    BY <2>1, <2>2, QuietStep
<1>4. ASSUME ReadCommand  PROVE DiskStep
  <2>1. UNCHANGED <<card, asked, call>>
    BY <1>4 DEF ReadCommand, HostCommand, sdVars, data, place
  <2>2. Result' = Result
    BY <1>4, <2>1, ResultIs DEF ResultAt, ReadCommand, HostCommand
  <2> QED
    BY <2>1, <2>2, QuietStep
<1>5. ASSUME ByteReady  PROVE DiskStep
  <2>1. UNCHANGED <<card, asked, call>>
    BY <1>5 DEF ByteReady, Poll, sdVars, data, place
  <2>2. Result' = Result
    BY <1>5, <2>1, ResultIs DEF ResultAt, ByteReady, Poll
  <2> QED
    BY <2>1, <2>2, QuietStep
<1>6. ASSUME Take  PROVE DiskStep
  BY <1>6, TakeReads
<1>7. ASSUME Update  PROVE DiskStep
  <2>1. UNCHANGED <<card, asked, call>>
    BY <1>7 DEF Update, sdVars, data, place
  <2>2. Result' = Result
    BY <1>7, <2>1, ResultIs DEF ResultAt, Update
  <2> QED
    BY <2>1, <2>2, QuietStep
<1>8. ASSUME WaitWrite  PROVE DiskStep
  <2>1. UNCHANGED <<card, asked, call>>
    BY <1>8 DEF WaitWrite, Poll, sdVars, data, place
  <2>2. Result' = Result
    BY <1>8, <2>1, ResultIs DEF ResultAt, WaitWrite, Poll
  <2> QED
    BY <2>1, <2>2, QuietStep
<1>9. ASSUME WriteCommand  PROVE DiskStep
  BY <1>9, CommandWrites
<1>10. ASSUME Space  PROVE DiskStep
  <2>1. UNCHANGED <<card, asked, call>>
    BY <1>10 DEF Space, Poll, sdVars, data, place
  <2>2. Result' = Result
    BY <1>10, <2>1, ResultIs DEF ResultAt, Space, Poll
  <2> QED
    BY <2>1, <2>2, QuietStep
<1>11. ASSUME Store  PROVE DiskStep
  <2>1. UNCHANGED <<card, asked, call>> /\ pc = "store" /\ pc' \in {"space", "done"}
    BY <1>11 DEF Store, HostStore, place
  <2>2. call.op = "write"
    BY <2>1 DEF Inv, Calling
  <2>3. Result = "ok" /\ Result' = "ok"
    BY <2>1, <2>2, ResultIs DEF ResultAt
  <2> QED
    BY <2>1, <2>3, QuietStep
<1>12. ASSUME Return  PROVE DiskStep
  BY <1>12, ReturnReturns
<1>13. ASSUME NEW request \in Requests, Start(request)  PROVE DiskStep
  BY <1>13, StartCalls
<1>14. CASE Clock
  BY <1>14, ClockCommits
<1>15. CASE Reset
  BY <1>15, ResetResets
<1>16. CASE UNCHANGED vars
  <2>1. UNCHANGED <<card, asked, call, pc, user>>
    BY <1>16 DEF vars, sdVars, driverVars
  <2>2. Result' = Result
    BY <2>1, ResultIs
  <2> QED
    BY <2>1, <2>2, QuietStep
<1> QED
  BY <1>1, <1>2, <1>3, <1>4, <1>5, <1>6, <1>7, <1>8, <1>9, <1>10, <1>11, <1>12, <1>13, <1>14,
     <1>15, <1>16 DEF Next, Driver

\* At first the abstract disk has a value in every sector.
LEMMA InitDisk ==
  ASSUME Documented, Init
  PROVE  Disk!Init
<1>1. Inv
  BY InitInv
<1>2. asked = None /\ call = None /\ pc = "idle"
  BY DEF Init
<1>3. Result = None
  BY <1>2, ResultIs DEF ResultAt
<1>4. [s \in Existing |-> Holds(s)] \in [Existing -> Values]
  <2> SUFFICES ASSUME NEW s \in Existing  PROVE Holds(s) \in Values
    OBVIOUS
  <2>1. PICK v \in Values : HalfOf(Home(s), LowerOf(s)) = Contents(v)
    BY <1>1 DEF Inv, Whole
  <2> QED
    BY <2>1, HoldsValue, ValueIs
<1> QED
  BY <1>2, <1>3, <1>4 DEF Disk!Init

\* The driver, the controller and the card together implement the disk FMS relies on
\* (DiskSpec of sd; S_READ, S_WRITE and S_DRIVE of CONSOLE_FPGA.ASM, sd_controller.vhd): a
\* call reads or writes one whole sector, sees every write before it, changes no other
\* sector, and what a reset leaves is whole, at whatever point it comes and whatever of
\* the handshake it leaves behind.
THEOREM SdIsSectorDisk ==
  ASSUME Documented
  PROVE  Spec => DiskSpec
<1>1. Init => Inv /\ Disk!Init
  BY InitInv, InitDisk
<1>2. Inv /\ [Next]_vars => Inv' /\ DiskStep
  BY StepInv, StepDisk
<1> QED
  BY <1>1, <1>2, PTL DEF Spec, DiskSpec, Disk!DiskSpec, DiskStep
=============================================================================
