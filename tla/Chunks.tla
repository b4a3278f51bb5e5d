------------------------------- MODULE Chunks -------------------------------
(***************************************************************************)
(* write_read_multi of platform.c in the two builds without the kernel     *)
(* module: over I2C_RDWR messages, or over spidev.  A transfer is cut in   *)
(* chunks, of which each message carries one behind (or, in an I2C read,   *)
(* after) the two bytes of its register.  Unlike in the kernel's chunks    *)
(* (Transfer) the length of a chunk depends on the direction, the SPI loop *)
(* goes on by the length of a full chunk, and the I2C loop runs once even  *)
(* for no bytes.                                                           *)
(***************************************************************************)
EXTENDS Integers

CONSTANTS
  ChunkSize,  \* VL53L8CX_COMMS_CHUNK_SIZE: 1024, i2c_buffer has as many bytes
  Spidev,     \* the longest message of spidev: 4096
  Registers   \* the number of registers: 2^15

ASSUME ChunksAssumption ==
  /\ ChunkSize \in Nat /\ ChunkSize > 2 /\ Spidev \in Nat /\ Spidev > 2
  /\ Registers \in Nat \ {0}

\* A transfer stays inside the registers; SPI has bit 15 for the direction.
Transfers ==
  {t \in [bus : {"i2c", "spi"}, write : BOOLEAN, reg : 0 .. Registers - 1, count : 0 .. Registers] :
     t.reg + t.count <= Registers}

VARIABLES
  regs,      \* the sensor's registers
  memory,    \* the caller's bytes
  old,       \* what the transfer overwrites, before it does  (history)
  transfer,  \* the arguments of the call
  position,  \* bytes transferred
  outcome    \* "rest", "loop", and what is returned: "ok" or "error"

cvars == <<regs, memory, old, transfer, position, outcome>>

Bytes == 0 .. Registers - 1
NoTransfer == [bus |-> "i2c", write |-> FALSE, reg |-> 0, count |-> 0]

\* Every byte differs from all others.
CInit == /\ regs = [r \in Bytes |-> Registers + r] /\ memory = [b \in Bytes |-> b]
         /\ old = memory /\ transfer = NoTransfer /\ position = 0 /\ outcome = "rest"

\* The for of SPI tests before the first turn, the do of I2C does not.
CallChunks ==
  /\ outcome = "rest"
  /\ \E t \in Transfers :
       /\ transfer' = t
       /\ old' = IF t.write THEN regs ELSE memory
       /\ outcome' = IF t.bus = "spi" /\ t.count = 0 THEN "ok" ELSE "loop"
  /\ position' = 0
  /\ UNCHANGED <<regs, memory>>

\* A mutant: an I2C write as long as a read.
FullChunkAlike(t) == IF t.bus = "spi" THEN Spidev - 2 ELSE ChunkSize

\* The bytes of a full chunk.
FullChunk(t) ==
  CASE t.bus = "spi" -> Spidev - 2
    [] t.bus = "i2c" /\ t.write -> ChunkSize - 2
    [] t.bus = "i2c" /\ ~t.write -> ChunkSize

\* data_size
DataSize(t, p) == IF t.count - p > FullChunk(t) THEN FullChunk(t) ELSE t.count - p

\* The bytes of the largest message or buffer, and those that the chunk needs.
Room(t) == IF t.bus = "spi" THEN Spidev ELSE ChunkSize
Need(t, p) == IF t.bus = "i2c" /\ ~t.write THEN DataSize(t, p) ELSE DataSize(t, p) + 2

\* A mutant: the register of the chunk is that of the transfer.
IndexStays(t, p) == t.reg

\* The register of the chunk.
Index(t, p) == t.reg + p

\* The first n bytes of the chunk cross the bus.
Message(n) ==
  LET at == Index(transfer, position)
  IN IF transfer.write
     THEN /\ regs' = [r \in Bytes |-> IF r \in at .. at + n - 1
                                      THEN memory[position + r - at] ELSE regs[r]]
          /\ UNCHANGED memory
     ELSE /\ memory' = [b \in Bytes |-> IF b \in position .. position + n - 1
                                        THEN regs[at + b - position] ELSE memory[b]]
          /\ UNCHANGED regs

MoveChunk ==
  LET n == DataSize(transfer, position)
  IN /\ outcome = "loop"
     /\ Message(n)
     /\ position' = position + (IF transfer.bus = "spi" THEN FullChunk(transfer) ELSE n)
     /\ outcome' = IF position' < transfer.count THEN "loop" ELSE "ok"
     /\ UNCHANGED <<old, transfer>>

\* VL53L8CX_COMMS_ERROR, with some of the bytes across; what SPI reads is copied
\* to the caller only if the message was sent.
FailChunk == /\ outcome = "loop" /\ outcome' = "error"
             /\ \E n \in 0 .. DataSize(transfer, position) :
                  /\ transfer.bus = "spi" /\ ~transfer.write => n = 0
                  /\ Message(n)
             /\ UNCHANGED <<old, transfer, position>>

ChunksReturn ==
  /\ outcome \in {"ok", "error"}
  /\ regs' = [r \in Bytes |-> Registers + r] /\ memory' = [b \in Bytes |-> b]
  /\ old' = memory' /\ transfer' = NoTransfer /\ position' = 0 /\ outcome' = "rest"

CNext == CallChunks \/ MoveChunk \/ FailChunk \/ ChunksReturn

CSpec == CInit /\ [][CNext]_cvars

\* The byte b of the transfer is across, or still as it was.
Across(b) == IF transfer.write THEN regs[transfer.reg + b] = memory[b]
             ELSE memory[b] = regs[transfer.reg + b]
Untouched(b) == IF transfer.write THEN regs[transfer.reg + b] = old[transfer.reg + b]
                ELSE memory[b] = old[b]

Outside ==
  LET t == transfer
  IN IF t.write THEN \A r \in Bytes \ (t.reg .. t.reg + t.count - 1) : regs[r] = old[r]
     ELSE \A b \in Bytes \ (0 .. t.count - 1) : memory[b] = old[b]

\* A transfer returns 0 when all of it is done, and an error when its chunks are
\* up to the one that failed, and none is after; it never touches a byte
\* outside it, and no message is longer than the buffer it is made in, or than
\* spidev takes.
ChunksWhole ==
  outcome # "rest" =>
    /\ \A b \in 0 .. transfer.count - 1 :
         /\ outcome = "ok" \/ b < position => Across(b)
         /\ \/ outcome = "ok" \/ b < position \/ Untouched(b)
            \/ outcome = "error" /\ b < position + DataSize(transfer, position)
    /\ Outside
    /\ outcome # "ok" => Need(transfer, position) <= Room(transfer)
=============================================================================
