------------------------------ MODULE Transfer ------------------------------
(***************************************************************************)
(* ioctl(ST_TOF_IOCTL_TRANSFER) of kernel/stmvl53l8cx.c, as called by      *)
(* VL53L8CX_write_read_multi of platform.c: a request is cut in chunks,    *)
(* and each chunk passes through drvdata->reg_buf, the bounce buffer of    *)
(* the device, in several steps that take no lock.  Clients that drive     *)
(* different devices interleave freely.                                    *)
(*                                                                         *)
(* A chunk (1024 bytes, the last one possibly shorter) is one value, and a *)
(* register index counts chunks.                                           *)
(***************************************************************************)
EXTENDS Naturals

CONSTANTS
  Clients,     \* the threads that call the ioctl
  Devices,     \* the sensors, one drvdata each
  Regs,        \* register indexes, in chunks
  Values,      \* contents of a chunk
  MaxChunks,   \* the longest request, in chunks
  Requests,    \* what the clients ask for
  Serialised   \* do the callers of one device take turns, as in the examples?

\* VL53L8CX_COMMS_ERROR (-2), as write_read_multi's uint8_t status shows it.
COMMS_ERROR == 254

\* struct comms_struct, the device it is sent to and the memory bufptr points
\* to.  A request stays inside the register space.
AnyRequest ==
  {r \in [device : Devices, write : BOOLEAN, reg : Regs, n : 0 .. MaxChunks,
          data : [0 .. MaxChunks - 1 -> Values]] :
     \A i \in 0 .. MaxChunks - 1 : i < r.n => r.reg + i \in Regs}

ASSUME TransferAssumption ==
  /\ Regs \subseteq Nat
  /\ MaxChunks \in Nat
  /\ Serialised \in BOOLEAN
  /\ Requests \subseteq AnyRequest

\* A client outside the ioctl has no request, and nobody looks at its buffer.
NoRequest == [write |-> FALSE, n |-> 0, data |-> <<>>]

VARIABLES
  dev,      \* the registers of each device
  reg_buf,  \* drvdata->reg_buf: bytes 0-1, and the data from byte 2 on
  pc,       \* where each client is in the ioctl
  req,      \* its request
  mem,      \* its buffer
  off,      \* chunks done (offset / VL53L8CX_COMMS_CHUNK_SIZE)
  status,   \* what write_read_multi returns to it
  lost      \* did the bus fail on a chunk it wrote?  (History variable.)

vars == <<dev, reg_buf, pc, req, mem, off, status, lost>>

TypeOK ==
  /\ dev \in [Devices -> [Regs -> Values]]
  /\ reg_buf \in [Devices -> [reg : Regs, data : Values]]
  /\ pc \in [Clients -> {"user", "header", "fill", "bus", "copy", "exit"}]
  /\ req \in [Clients -> Requests \cup {NoRequest}]
  /\ mem \in [Clients -> [0 .. MaxChunks - 1 -> Values] \cup {NoRequest.data}]
  /\ \A c \in Clients : pc[c] # "user" => /\ req[c] \in Requests
                                         /\ mem[c] \in [0 .. MaxChunks - 1 -> Values]
  /\ off \in [Clients -> 0 .. MaxChunks]
  /\ status \in [Clients -> {0, COMMS_ERROR}]
  /\ lost \in [Clients -> BOOLEAN]

\* kzalloc'ed buffer, arbitrary registers, nobody in the ioctl.
Init ==
  /\ dev \in [Devices -> [Regs -> Values]]
  /\ reg_buf \in [Devices -> [reg : Regs, data : Values]]
  /\ pc = [c \in Clients |-> "user"]
  /\ req = [c \in Clients |-> NoRequest]
  /\ mem = [c \in Clients |-> NoRequest.data]
  /\ off = [c \in Clients |-> 0]
  /\ status = [c \in Clients |-> 0]
  /\ lost = [c \in Clients |-> FALSE]

Goto(c, l) == pc' = [pc EXCEPT ![c] = l]

\* The device whose file the client has called, and whether anybody has.
Dev(c) == req[c].device

Free(d) == \A c \in Clients : pc[c] # "user" => Dev(c) # d

\* The bounce buffer of the client's device.
Buf(c) == reg_buf[Dev(c)]

\* A mutant: the offset is forgotten.
RegOfStart(c) == req[c].reg

\* The register the chunk in progress is for: reg_index + offset.
RegOf(c) == req[c].reg + off[c]

\* The ioctl is entered; a request of no bytes touches neither bus nor buffer.
Begin(c) ==
  /\ pc[c] = "user"
  /\ \E r \in Requests :
       /\ Serialised => Free(r.device)
       /\ req' = [req EXCEPT ![c] = r]
       /\ mem' = [mem EXCEPT ![c] = r.data]
       /\ Goto(c, IF r.n = 0 THEN "exit" ELSE "header")
  /\ UNCHANGED <<dev, reg_buf, off, status, lost>>

\* A mutant: the address of the first chunk in front of every chunk.
HeaderOnce(c) ==
  /\ pc[c] = "header"
  /\ reg_buf' = [reg_buf EXCEPT ![Dev(c)].reg = req[c].reg]
  /\ Goto(c, IF req[c].write THEN "fill" ELSE "bus")
  /\ UNCHANGED <<dev, req, mem, off, status, lost>>

\* reg_buf[0], reg_buf[1] get the register index.
Header(c) ==
  /\ pc[c] = "header"
  /\ reg_buf' = [reg_buf EXCEPT ![Dev(c)].reg = RegOf(c)]
  /\ Goto(c, IF req[c].write THEN "fill" ELSE "bus")
  /\ UNCHANGED <<dev, req, mem, off, status, lost>>

\* The loop of stmvl53l8cx_read_write: next chunk, or out.
NextChunk(c) ==
  /\ off' = [off EXCEPT ![c] = @ + 1]
  /\ Goto(c, IF off[c] + 1 < req[c].n THEN "header" ELSE "exit")

\* A mutant: the error is lost on its way out of the loop.
AbortSilently(c) ==
  /\ Goto(c, "exit")
  /\ UNCHANGED <<dev, reg_buf, req, mem, off, status, lost>>

\* An error leaves the loop; the caller sees -EFAULT, hence COMMS_ERROR.
Abort(c) ==
  /\ status' = [status EXCEPT ![c] = COMMS_ERROR]
  /\ Goto(c, "exit")
  /\ UNCHANGED <<dev, reg_buf, req, mem, off, lost>>

\* A mutant: the caller's pointer does not move on.
FillFirst(c) ==
  /\ pc[c] = "fill"
  /\ reg_buf' = [reg_buf EXCEPT ![Dev(c)].data = mem[c][0]]
  /\ Goto(c, "bus")
  /\ UNCHANGED <<dev, req, mem, off, status, lost>>

\* copy_from_user into reg_buf + 2, of a write.
Fill(c) ==
  /\ pc[c] = "fill"
  /\ reg_buf' = [reg_buf EXCEPT ![Dev(c)].data = mem[c][off[c]]]
  /\ Goto(c, "bus")
  /\ UNCHANGED <<dev, req, mem, off, status, lost>>

\* i2c_transfer or spi_sync of a write, with what reg_buf holds by now.
BusWrite(c) ==
  /\ pc[c] = "bus" /\ req[c].write
  /\ dev' = [dev EXCEPT ![Dev(c)][Buf(c).reg] = Buf(c).data]
  /\ NextChunk(c)
  /\ UNCHANGED <<reg_buf, req, mem, status, lost>>

\* The bus refuses the write.  stmvl53l8cx_write_regs computes ret, then
\* returns 0: the loop goes on as if the chunk were written.
BusWriteFails(c) ==
  /\ pc[c] = "bus" /\ req[c].write
  /\ lost' = [lost EXCEPT ![c] = TRUE]
  /\ NextChunk(c)
  /\ UNCHANGED <<dev, reg_buf, req, mem, status>>

\* The transfer of a read fills reg_buf + 2 from the register in reg_buf[0-1].
BusRead(c) ==
  /\ pc[c] = "bus" /\ ~req[c].write
  /\ reg_buf' = [reg_buf EXCEPT ![Dev(c)].data = dev[Dev(c)][Buf(c).reg]]
  /\ Goto(c, "copy")
  /\ UNCHANGED <<dev, req, mem, off, status, lost>>

\* copy_to_user from reg_buf + 2.
Copy(c) ==
  /\ pc[c] = "copy"
  /\ mem' = [mem EXCEPT ![c][off[c]] = Buf(c).data]
  /\ NextChunk(c)
  /\ UNCHANGED <<dev, reg_buf, req, status, lost>>

\* The bus fails on a read, or the caller's memory cannot be accessed.
Fault(c) ==
  /\ \/ pc[c] = "bus" /\ ~req[c].write
     \/ pc[c] \in {"fill", "copy"}
  /\ Abort(c)

\* Back to user space: the ioctl's locals are gone.
Exit(c) ==
  /\ pc[c] = "exit"
  /\ Goto(c, "user")
  /\ req' = [req EXCEPT ![c] = NoRequest]
  /\ mem' = [mem EXCEPT ![c] = NoRequest.data]
  /\ off' = [off EXCEPT ![c] = 0]
  /\ status' = [status EXCEPT ![c] = 0]
  /\ lost' = [lost EXCEPT ![c] = FALSE]
  /\ UNCHANGED <<dev, reg_buf>>

Step(c) == \/ Header(c) \/ Fill(c) \/ BusWrite(c) \/ BusWriteFails(c)
           \/ BusRead(c) \/ Copy(c) \/ Fault(c) \/ Exit(c)

Next == \E c \in Clients : Begin(c) \/ Step(c)

SafeSpec == Init /\ [][Next]_vars

\* A thread in the kernel runs to the end of its ioctl.
Spec == SafeSpec /\ \A c \in Clients : WF_vars(Step(c))

-----------------------------------------------------------------------------
(* Properties.                                                             *)

\* A read that returns 0 has delivered, for every chunk asked for, what the
\* register of that chunk holds: header, bus transfer, copy and the offsets of
\* the three agree.
ReadDelivers ==
  \A c \in Clients :
    pc[c] = "exit" /\ ~req[c].write /\ status[c] = 0
      => \A i \in 0 .. MaxChunks - 1 : i < req[c].n => mem[c][i] = dev[Dev(c)][req[c].reg + i]

\* A write whose transfers the bus accepted has put every chunk of the
\* caller's memory in its own register.
WriteArrives ==
  \A c \in Clients :
    pc[c] = "exit" /\ req[c].write /\ status[c] = 0 /\ ~lost[c]
      => \A i \in 0 .. MaxChunks - 1 : i < req[c].n => dev[Dev(c)][req[c].reg + i] = mem[c][i]

\* "return status : 0 if OK" (platform.h, of WrMulti): 0 means written.  The
\* code does not keep it, because the bus error of a write is dropped.
ZeroMeansWritten ==
  \A c \in Clients :
    pc[c] = "exit" /\ req[c].write /\ status[c] = 0
      => \A i \in 0 .. MaxChunks - 1 : i < req[c].n => dev[Dev(c)][req[c].reg + i] = mem[c][i]

\* The callers that take turns see chunks that go straight between their
\* memory and the device: the bounce buffer, and the other clients' use of it,
\* are invisible; and every request ends.
Abs == INSTANCE ChunkAccess WITH
  done <- off,
  st <- [c \in Clients |-> IF pc[c] = "user" THEN "out"
                           ELSE IF pc[c] = "exit" /\ status[c] # 0 THEN "failed"
                           ELSE "busy"]

ImplementsChunkAccess == Abs!Spec

\* The inductive invariant of the proofs, for callers that take turns.
Exclusive ==
  \A c, d \in Clients :
    pc[c] # "user" /\ pc[d] # "user" /\ Dev(c) = Dev(d) => c = d

Progress(c) ==
  /\ pc[c] = "user" => off[c] = 0 /\ status[c] = 0
  /\ pc[c] \in {"header", "fill", "bus", "copy"} => off[c] < req[c].n
  /\ pc[c] = "exit" /\ status[c] = 0 => off[c] = req[c].n
  /\ pc[c] \notin {"user", "exit"} => status[c] = 0

Buffered(c) ==
  /\ pc[c] \in {"fill", "bus", "copy"} => Buf(c).reg = RegOf(c)
  /\ pc[c] = "bus" /\ req[c].write => Buf(c).data = mem[c][off[c]]
  /\ pc[c] = "copy" => Buf(c).data = dev[Dev(c)][RegOf(c)]
  /\ pc[c] = "fill" => req[c].write
  /\ pc[c] = "copy" => ~req[c].write

Moved(c) ==
  \A i \in 0 .. MaxChunks - 1 :
    pc[c] # "user" /\ i < off[c]
      => (req[c].write => lost[c] \/ dev[Dev(c)][req[c].reg + i] = mem[c][i])
         /\ (~req[c].write => mem[c][i] = dev[Dev(c)][req[c].reg + i])

IInv ==
  /\ TypeOK
  /\ Exclusive
  /\ \A c \in Clients : Progress(c) /\ Buffered(c) /\ Moved(c)
=============================================================================
