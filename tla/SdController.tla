---------------------------- MODULE SdController ----------------------------
(***************************************************************************)
(* The SD card controller of the FPGA machine (sd_controller.vhd) with the *)
(* card behind it.  One action is one state of the controller's process;   *)
(* the states that shift single bits are one step for a command or a byte. *)
(* The host sees the controller through its registers only: the operators  *)
(* that begin with Host are the bus cycles of the processor.               *)
(*                                                                         *)
(* The card is external: it answers every command, streams the block, and  *)
(* takes a block as a whole when its last byte has arrived.  CardErrors    *)
(* says what may go wrong on it.                                           *)
(***************************************************************************)
EXTENDS Integers, Sequences

CONSTANTS
  BlockSize,     \* bytes of a block: 512
  Blocks,        \* the block numbers that exist on the card
  Byte,          \* what a byte may be
  Filler,        \* a byte that is not data: a CRC byte, the idle line
  HighCapacity,  \* TRUE for an SDHC card, which is addressed by block
  CardErrors     \* subset of {"read", "write"}: an error token, a rejected block

ASSUME BlockAssumption == BlockSize \in Nat \ {0}
ASSUME CardAssumption == /\ Blocks \subseteq Nat
                         /\ Filler \in Byte
                         /\ HighCapacity \in BOOLEAN

VARIABLES
  state, return_state, byte_counter,
  address, cmd_address,     \* the register; its copy in cmd_out
  sdhc,
  block_read, block_write, block_start_ack, block_busy, init_busy,
  sd_read_flag, host_read_flag, dout,
  sd_write_flag, host_write_flag, din_latched,
  card,          \* the contents of the card
  line           \* the bytes the card still sends, or has received

flags == <<sd_read_flag, host_read_flag, sd_write_flag, host_write_flag>>
requestBits == <<block_read, block_write, block_start_ack>>
data == <<dout, din_latched>>
place == <<address, cmd_address, sdhc>>
sdVars == <<state, return_state, byte_counter, place, requestBits, block_busy,
            init_busy, flags, data, card, line>>

Other(flag) == 1 - flag

\* Write commands send a start byte and two CRC bytes around the block.
write_data_size == BlockSize + 3

\* What the host reads at regAddr "001".
status == (IF host_write_flag = sd_write_flag THEN 128 ELSE 0)
          + (IF host_read_flag # sd_read_flag THEN 64 ELSE 0)
          + 32 * block_busy + 16 * init_busy

(***************************************************************************)
(* Bus cycles of the host                                                  *)
(***************************************************************************)
\* The three address registers, written one after the other; an SDSC card
\* takes a byte address, whose upper register has seven bits.
HostAddress(lba) ==
  /\ address' = IF sdhc THEN lba % 2^24 ELSE (lba % 2^23) * 512
  /\ UNCHANGED <<state, return_state, byte_counter, cmd_address, sdhc,
                 requestBits, block_busy, init_busy, flags, data, card, line>>

\* A command is kept unless the controller is initialising or acknowledging.
HostCommand(isWrite) ==
  /\ IF init_busy = 1 \/ block_start_ack = 1
     THEN UNCHANGED <<block_read, block_write>>
     ELSE /\ block_read' = IF isWrite THEN block_read ELSE 1
          /\ block_write' = IF isWrite THEN 1 ELSE block_write
  /\ UNCHANGED <<state, return_state, byte_counter, place, block_start_ack,
                 block_busy, init_busy, flags, data, card, line>>

\* The data register: a byte is accepted when the last one was sent.
HostStore(byte) ==
  /\ IF sd_write_flag = host_write_flag
     THEN /\ din_latched' = byte
          /\ host_write_flag' = Other(host_write_flag)
     ELSE UNCHANGED <<din_latched, host_write_flag>>
  /\ UNCHANGED <<state, return_state, byte_counter, place, requestBits,
                 block_busy, init_busy, sd_read_flag, host_read_flag,
                 sd_write_flag, dout, card, line>>

HostTake ==
  /\ host_read_flag' = IF sd_read_flag # host_read_flag
                       THEN Other(host_read_flag) ELSE host_read_flag
  /\ UNCHANGED <<state, return_state, byte_counter, place, requestBits,
                 block_busy, init_busy, sd_read_flag, sd_write_flag,
                 host_write_flag, data, card, line>>

(***************************************************************************)
(* The controller                                                          *)
(***************************************************************************)
\* n_reset: only the state is reset, and the card is deselected.
ControllerReset ==
  /\ state' = "rst"
  /\ line' = <<>>
  /\ UNCHANGED <<return_state, byte_counter, place, requestBits, block_busy,
                 init_busy, flags, data, card>>

Rst ==
  /\ state = "rst"
  /\ sd_read_flag' = host_read_flag
  /\ sd_write_flag' = host_write_flag
  /\ byte_counter' = 0
  /\ state' = "init"
  /\ UNCHANGED <<return_state, place, requestBits, block_busy, init_busy,
                 host_read_flag, host_write_flag, data, card, line>>

\* GO_IDLE_STATE to READ_OCR, repeated until the card has powered up;
\* init_busy holds both request bits down.
InitCard ==
  /\ state = "init"
  /\ init_busy' = 1
  /\ block_read' = 0
  /\ block_write' = 0
  /\ state' = "cardsel"
  /\ UNCHANGED <<return_state, byte_counter, place, block_start_ack,
                 block_busy, flags, data, card, line>>

CardSel ==
  /\ state = "cardsel"
  /\ sdhc' = HighCapacity
  /\ state' = "stby"
  /\ UNCHANGED <<return_state, byte_counter, address, cmd_address, requestBits,
                 block_busy, init_busy, flags, data, card, line>>

\* Every clock in standby; an acknowledged request holds both bits down.
Standby ==
  /\ state = "stby"
  /\ sd_read_flag' = host_read_flag
  /\ sd_write_flag' = host_write_flag
  /\ byte_counter' = 0
  /\ block_busy' = 0
  /\ init_busy' = 0
  /\ dout' = Filler
  /\ UNCHANGED <<return_state, place, host_read_flag, host_write_flag,
                 din_latched, card, line>>

StbyWaits ==
  /\ Standby
  /\ block_read = 0
  /\ block_write = 0
  /\ UNCHANGED <<state, requestBits>>

StbyAccepts(bit, next) ==
  /\ Standby
  /\ bit = 1
  /\ state' = next
  /\ block_start_ack' = 1
  /\ block_read' = 0
  /\ block_write' = 0

StbyRead == StbyAccepts(block_read, "read_block_cmd")
StbyWrite == /\ block_read = 0
             /\ StbyAccepts(block_write, "write_block_cmd")

\* The command takes a copy of the address register along.
Command(from, answered) ==
  /\ state = from
  /\ block_busy' = 1
  /\ block_start_ack' = 0
  /\ cmd_address' = address
  /\ return_state' = answered
  /\ state' = "send_cmd"
  /\ UNCHANGED <<byte_counter, address, sdhc, block_read, block_write,
                 init_busy, flags, data, card, line>>

ReadBlockCmd == Command("read_block_cmd", "read_block_wait")
WriteBlockCmd == Command("write_block_cmd", "write_block_init")

\* The block the card takes the address for.
Addressed == IF HighCapacity THEN cmd_address ELSE cmd_address \div 512

\* The block as a sequence, or nothing but ones after an error token; two CRC
\* bytes and an idle byte follow.
Streams ==
  LET sent(bytes) == [i \in 1 .. BlockSize + 3 |->
                        IF i <= BlockSize THEN bytes[i - 1] ELSE Filler]
      ones == [i \in 0 .. BlockSize - 1 |-> Filler]
  IN  {sent(IF Addressed \in Blocks THEN card[Addressed] ELSE ones)}
      \cup (IF "read" \in CardErrors THEN {sent(ones)} ELSE {})

\* The command goes out and the card answers; its answer is not looked at.
SendCmd ==
  /\ state = "send_cmd"
  /\ state' = return_state
  /\ IF return_state = "read_block_wait"
     THEN line' \in Streams
     ELSE line' = <<>>
  /\ UNCHANGED <<return_state, byte_counter, place, requestBits, block_busy,
                 init_busy, flags, data, card>>

\* Mutant: the block is counted without the first CRC byte.
ReadBlockWaitShort ==
  /\ state = "read_block_wait"
  /\ byte_counter' = BlockSize
  /\ return_state' = "read_block_data"
  /\ state' = "receive_byte"
  /\ UNCHANGED <<place, requestBits, block_busy, init_busy, flags, data, card,
                 line>>

\* The block and the first CRC byte are counted.
ReadBlockWait ==
  /\ state = "read_block_wait"
  /\ byte_counter' = BlockSize + 1
  /\ return_state' = "read_block_data"
  /\ state' = "receive_byte"
  /\ UNCHANGED <<place, requestBits, block_busy, init_busy, flags, data, card,
                 line>>

ReceiveByte ==
  /\ state = "receive_byte"
  /\ state' = return_state
  /\ line' = Tail(line)
  /\ IF return_state = "read_block_data" /\ byte_counter > 0
     THEN /\ sd_read_flag' = Other(sd_read_flag)
          /\ dout' = Head(line)
     ELSE UNCHANGED <<sd_read_flag, dout>>
  /\ UNCHANGED <<return_state, byte_counter, place, requestBits, block_busy,
                 init_busy, host_read_flag, sd_write_flag, host_write_flag,
                 din_latched, card>>

\* Data bytes wait for the host; the two CRC bytes do not.
ReadBlockData ==
  /\ state = "read_block_data"
  /\ byte_counter > 1 => sd_read_flag = host_read_flag
  /\ byte_counter' = IF byte_counter = 0 THEN 0 ELSE byte_counter - 1
  /\ return_state' = IF byte_counter = 0 THEN "stby" ELSE "read_block_data"
  /\ state' = "receive_byte"
  /\ UNCHANGED <<place, requestBits, block_busy, init_busy, flags, data, card,
                 line>>

WriteBlockInit ==
  /\ state = "write_block_init"
  /\ byte_counter' = write_data_size
  /\ state' = "write_block_data"
  /\ UNCHANGED <<return_state, place, requestBits, block_busy, init_busy, flags,
                 data, card, line>>

\* The start byte.
WriteStart ==
  /\ state = "write_block_data"
  /\ byte_counter = write_data_size
  /\ byte_counter' = byte_counter - 1
  /\ UNCHANGED <<state, return_state, place, requestBits, block_busy, init_busy,
                 flags, data, card, line>>

\* A data byte is sent as soon as the host has stored one.
WriteByte ==
  /\ state = "write_block_data"
  /\ byte_counter \in 3 .. write_data_size - 1
  /\ host_write_flag # sd_write_flag
  /\ sd_write_flag' = Other(sd_write_flag)
  /\ line' = Append(line, din_latched)
  /\ byte_counter' = byte_counter - 1
  /\ UNCHANGED <<state, return_state, place, requestBits, block_busy, init_busy,
                 sd_read_flag, host_read_flag, host_write_flag, data, card>>

\* The block as it is on the card once the last CRC byte has arrived.
Stored ==
  IF Addressed \in Blocks
  THEN [card EXCEPT ![Addressed] = [i \in 0 .. BlockSize - 1 |-> line[i + 1]]]
  ELSE card

WriteCrc ==
  /\ state = "write_block_data"
  /\ byte_counter \in {1, 2}
  /\ byte_counter' = byte_counter - 1
  /\ IF byte_counter = 2
     THEN UNCHANGED card
     ELSE card' \in {Stored}
                    \cup (IF "write" \in CardErrors THEN {card} ELSE {})
  /\ UNCHANGED <<state, return_state, place, requestBits, block_busy, init_busy,
                 flags, data, line>>

WriteEnd ==
  /\ state = "write_block_data"
  /\ byte_counter = 0
  /\ return_state' = "write_block_wait"
  /\ state' = "receive_byte_wait"
  /\ UNCHANGED <<byte_counter, place, requestBits, block_busy, init_busy, flags,
                 data, card, line>>

\* The data response, which is not looked at, and the end of busy.
WriteResponse ==
  /\ state \in {"receive_byte_wait", "write_block_wait"}
  /\ state' = IF state = "receive_byte_wait" THEN return_state ELSE "stby"
  /\ line' = <<>>
  /\ UNCHANGED <<return_state, byte_counter, place, requestBits, block_busy,
                 init_busy, flags, data, card>>

Controller ==
  \/ Rst \/ InitCard \/ CardSel
  \/ StbyWaits \/ StbyRead \/ StbyWrite
  \/ ReadBlockCmd \/ WriteBlockCmd \/ SendCmd
  \/ ReadBlockWait \/ ReceiveByte \/ ReadBlockData
  \/ WriteBlockInit \/ WriteStart \/ WriteByte \/ WriteCrc \/ WriteEnd
  \/ WriteResponse
=============================================================================
