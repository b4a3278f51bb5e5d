--------------------------- MODULE Transfer_proofs ---------------------------
(***************************************************************************)
(* Proofs about Transfer, for any clients, devices, requests and values,   *)
(* when the callers of one device take turns (Serialised).  The argument:  *)
(* Exclusive gives each device's reg_buf to one client at a time, so what  *)
(* the client left in it (Buffered) is still there at its next step, and   *)
(* the chunks moved so far stay equal on both sides (Moved).               *)
(***************************************************************************)
EXTENDS Transfer, TLAPS

\* A request in progress stays inside the register space and its buffer.
LEMMA InRange ==
  ASSUME TypeOK, NEW c \in Clients, pc[c] # "user"
  PROVE  /\ Dev(c) \in Devices
         /\ req[c].n \in 0 .. MaxChunks
         /\ req[c].reg \in Nat
         /\ req[c].write \in BOOLEAN
         /\ off[c] \in Nat
         /\ MaxChunks \in Nat
         /\ off[c] < req[c].n => RegOf(c) \in Regs /\ off[c] \in 0 .. MaxChunks - 1
<1>1. req[c] \in AnyRequest
  BY TransferAssumption DEF TypeOK
<1>2. /\ req[c].device \in Devices /\ req[c].n \in 0 .. MaxChunks
      /\ req[c].reg \in Regs /\ req[c].write \in BOOLEAN
      /\ \A i \in 0 .. MaxChunks - 1 : i < req[c].n => req[c].reg + i \in Regs
  BY <1>1 DEF AnyRequest
<1>3. MaxChunks \in Nat /\ req[c].reg \in Nat /\ off[c] \in Nat
  <2>1. MaxChunks \in Nat /\ Regs \subseteq Nat
    BY TransferAssumption
  <2>2. off[c] \in 0 .. MaxChunks
    BY DEF TypeOK
  <2>3. req[c].reg \in Nat
    BY <1>2, <2>1
  <2>4. off[c] \in Nat
    BY <2>1, <2>2
  <2> QED
    BY <2>1, <2>3, <2>4
<1>4. off[c] < req[c].n => off[c] \in 0 .. MaxChunks - 1
  BY <1>2, <1>3
<1>5. off[c] < req[c].n => req[c].reg + off[c] \in Regs
  BY <1>2, <1>4
<1> QED
  BY <1>2, <1>3, <1>4, <1>5 DEF Dev, RegOf

\* Nobody is in the ioctl at first.
LEMMA InitIInv == Init => IInv
<1> SUFFICES ASSUME Init PROVE IInv
  OBVIOUS
<1>1. TypeOK
  BY TransferAssumption DEF Init, TypeOK
<1>2. Exclusive /\ \A c \in Clients : Progress(c) /\ Buffered(c) /\ Moved(c)
  BY DEF Init, Exclusive, Progress, Buffered, Moved
<1> QED
  BY <1>1, <1>2 DEF IInv

-----------------------------------------------------------------------------
(* Types.                                                                  *)

\* Every step keeps every variable in its type.
LEMMA TypeStep ==
  ASSUME IInv, NEW c \in Clients, Begin(c) \/ Step(c)
  PROVE  TypeOK'
<1> USE TransferAssumption DEF IInv, TypeOK, Goto
<1>1. CASE Begin(c)
  BY <1>1 DEF Begin, AnyRequest
<1>2. CASE Header(c)
  BY <1>2, InRange DEF Header, Progress
<1>3. CASE Fill(c)
  BY <1>3, InRange DEF Fill, Progress
<1>4. CASE BusWrite(c)
  <2>1. off'[c] \in 0 .. MaxChunks
    BY <1>4, InRange DEF BusWrite, NextChunk, Progress
  <2>2. Dev(c) \in Devices /\ Buf(c).reg \in Regs /\ Buf(c).data \in Values
    BY <1>4, InRange DEF BusWrite, Buf
  <2>3. dev' \in [Devices -> [Regs -> Values]]
    BY <1>4, <2>2 DEF BusWrite
  <2> QED
    BY <1>4, <2>1, <2>3 DEF BusWrite, NextChunk
<1>5. CASE BusWriteFails(c)
  <2>1. off'[c] \in 0 .. MaxChunks
    BY <1>5, InRange DEF BusWriteFails, NextChunk, Progress
  <2> QED
    BY <1>5, <2>1 DEF BusWriteFails, NextChunk
<1>6. CASE BusRead(c)
  <2>1. Dev(c) \in Devices /\ Buf(c).reg \in Regs
    <3>1. Dev(c) \in Devices
      BY <1>6, InRange DEF BusRead
    <3>2. reg_buf[Dev(c)] \in [reg : Regs, data : Values]
      BY <3>1
    <3> QED
      BY <3>1, <3>2 DEF Buf
  <2>2. dev[Dev(c)][Buf(c).reg] \in Values
    <3>1. dev[Dev(c)] \in [Regs -> Values]
      BY <2>1
    <3> QED
      BY <2>1, <3>1
  <2>3. reg_buf' \in [Devices -> [reg : Regs, data : Values]]
    BY <1>6, <2>1, <2>2 DEF BusRead
  <2> QED
    BY <1>6, <2>3 DEF BusRead
<1>7. CASE Copy(c)
  <2>1. off'[c] \in 0 .. MaxChunks
    BY <1>7, InRange DEF Copy, NextChunk, Progress
  <2>2. Buf(c).data \in Values /\ off[c] \in 0 .. MaxChunks - 1
    BY <1>7, InRange DEF Copy, Buf, Progress
  <2>3. mem'[c] \in [0 .. MaxChunks - 1 -> Values]
    BY <1>7, <2>2 DEF Copy
  <2>4. mem' \in [Clients -> [0 .. MaxChunks - 1 -> Values] \cup {NoRequest.data}]
    BY <1>7, <2>3 DEF Copy
  <2> QED
    BY <1>7, <2>1, <2>3, <2>4 DEF Copy, NextChunk
<1>8. CASE Fault(c)
  BY <1>8 DEF Fault, Abort
<1>9. CASE Exit(c)
  BY <1>9 DEF Exit
<1> QED
  BY <1>1, <1>2, <1>3, <1>4, <1>5, <1>6, <1>7, <1>8, <1>9 DEF Step

-----------------------------------------------------------------------------
(* The clients that do not move.                                           *)

\* A step of one client leaves the others where they are.
LEMMA Frame ==
  ASSUME IInv, NEW c \in Clients, Begin(c) \/ Step(c),
         NEW d \in Clients, d # c
  PROVE  /\ pc'[d] = pc[d] /\ req'[d] = req[d] /\ mem'[d] = mem[d]
         /\ off'[d] = off[d] /\ status'[d] = status[d] /\ lost'[d] = lost[d]
  BY DEF IInv, TypeOK, Step, Begin, Header, Fill, BusWrite, BusWriteFails,
         BusRead, Copy, Fault, Abort, Exit, NextChunk, Goto

\* It also leaves the device and the buffer of a client that is in the ioctl:
\* they belong to that client.
LEMMA DeviceFrame ==
  ASSUME IInv, NEW c \in Clients, Begin(c) \/ Step(c),
         NEW d \in Clients, d # c, pc[d] # "user"
  PROVE  /\ dev'[Dev(d)] = dev[Dev(d)]
         /\ reg_buf'[Dev(d)] = reg_buf[Dev(d)]
<1>1. CASE Begin(c)
  BY <1>1 DEF Begin
<1>2. CASE Step(c)
  <2>1. pc[c] # "user"
    BY <1>2 DEF Step, Header, Fill, BusWrite, BusWriteFails, BusRead, Copy,
                Fault, Exit
  <2>2. Dev(c) # Dev(d)
    BY <2>1 DEF IInv, Exclusive
  <2>3. CASE Header(c)
    BY <2>2, <2>3 DEF Header, IInv, TypeOK
  <2>4. CASE Fill(c)
    BY <2>2, <2>4 DEF Fill, IInv, TypeOK
  <2>5. CASE BusWrite(c)
    BY <2>2, <2>5 DEF BusWrite, IInv, TypeOK
  <2>6. CASE BusRead(c)
    BY <2>2, <2>6 DEF BusRead, IInv, TypeOK
  <2>7. CASE BusWriteFails(c) \/ Copy(c) \/ Fault(c) \/ Exit(c)
    BY <2>7 DEF BusWriteFails, Copy, Fault, Abort, Exit
  <2> QED
    BY <1>2, <2>3, <2>4, <2>5, <2>6, <2>7 DEF Step
<1> QED
  BY <1>1, <1>2

\* So what is known of them still holds.
LEMMA OthersStep ==
  ASSUME IInv, NEW c \in Clients, Begin(c) \/ Step(c),
         NEW d \in Clients, d # c
  PROVE  Progress(d)' /\ Buffered(d)' /\ Moved(d)'
<1>1. CASE pc[d] = "user"
  BY <1>1, Frame DEF IInv, Progress, Buffered, Moved
<1>2. CASE pc[d] # "user"
  <2>1. Dev(d)' = Dev(d) /\ RegOf(d)' = RegOf(d)
    BY Frame DEF Dev, RegOf
  <2>2. Buf(d)' = Buf(d) /\ dev'[Dev(d)'] = dev[Dev(d)]
    BY <1>2, <2>1, DeviceFrame DEF Buf
  <2>3. Progress(d)'
    BY Frame DEF IInv, Progress
  <2>4. Buffered(d)'
    BY <2>1, <2>2, Frame DEF IInv, Buffered
  <2>5. Moved(d)'
    BY <2>1, <2>2, Frame DEF IInv, Moved
  <2> QED
    BY <2>3, <2>4, <2>5
<1> QED
  BY <1>1, <1>2

\* Callers that take turns stay one per device.
LEMMA ExclusiveStep ==
  ASSUME IInv, Serialised, NEW c \in Clients, Begin(c) \/ Step(c)
  PROVE  Exclusive'
<1>1. CASE Begin(c)
  <2>1. PICK r \in Requests : Free(r.device) /\ req' = [req EXCEPT ![c] = r]
    BY <1>1 DEF Begin
  <2>2. \A d \in Clients : d # c /\ pc'[d] # "user" => Dev(d)' # Dev(c)'
    BY <1>1, <2>1, Frame DEF IInv, TypeOK, Free, Dev
  <2>3. \A d, e \in Clients : d # c /\ e # c /\ pc'[d] # "user" /\ pc'[e] # "user"
                               /\ Dev(d)' = Dev(e)' => d = e
    BY <1>1, Frame DEF IInv, Exclusive, Dev
  <2> QED
    BY <2>2, <2>3 DEF Exclusive
<1>2. CASE Step(c)
  <2>1. pc[c] # "user"
    BY <1>2 DEF Step, Header, Fill, BusWrite, BusWriteFails, BusRead, Copy,
                Fault, Exit
  <2>2. pc'[c] = "user" \/ req'[c] = req[c]
    BY <1>2 DEF IInv, TypeOK, Step, Header, Fill, BusWrite, BusWriteFails,
                BusRead, Copy, Fault, Abort, Exit, NextChunk, Goto
  <2>3. \A d \in Clients : pc'[d] # "user" => pc[d] # "user" /\ Dev(d)' = Dev(d)
    BY <1>2, <2>1, <2>2, Frame DEF Dev
  <2> QED
    BY <2>3 DEF IInv, Exclusive
<1> QED
  BY <1>1, <1>2

-----------------------------------------------------------------------------
(* The client that moves.                                                  *)

\* The end of a chunk: one more is done, and the loop stops at the last.
LEMMA NextChunkFacts ==
  ASSUME IInv, NEW c \in Clients, pc[c] \in {"bus", "copy"}, NextChunk(c)
  PROVE  /\ off'[c] = off[c] + 1
         /\ off[c] \in Nat /\ off[c] < req[c].n /\ req[c].n \in Nat
         /\ \/ pc'[c] = "header" /\ off[c] + 1 < req[c].n
            \/ pc'[c] = "exit" /\ off[c] + 1 = req[c].n
<1>1. off[c] \in Nat /\ req[c].n \in Nat /\ off[c] < req[c].n
  <2>1. off[c] \in Nat /\ req[c].n \in 0 .. MaxChunks /\ MaxChunks \in Nat
    BY InRange DEF IInv
  <2> QED
    BY <2>1 DEF IInv, Progress
<1>2. off'[c] = off[c] + 1
  BY DEF IInv, TypeOK, NextChunk
<1>3. pc'[c] = IF off[c] + 1 < req[c].n THEN "header" ELSE "exit"
  BY DEF IInv, TypeOK, NextChunk, Goto
<1>4. off[c] + 1 < req[c].n \/ off[c] + 1 = req[c].n
  BY <1>1
<1>5. CASE off[c] + 1 < req[c].n
  BY <1>1, <1>2, <1>3, <1>5
<1>6. CASE off[c] + 1 = req[c].n
  <2>1. ~(off[c] + 1 < req[c].n)
    BY <1>1, <1>6
  <2> QED
    BY <1>1, <1>2, <1>3, <1>6, <2>1
<1> QED
  BY <1>4, <1>5, <1>6

\* A step never moves the read or write direction, the range or the memory of
\* the request in progress, except for the chunk a read copies out.
LEMMA OwnStep ==
  ASSUME IInv, TypeOK', NEW c \in Clients, Begin(c) \/ Step(c)
  PROVE  Progress(c)' /\ Buffered(c)' /\ Moved(c)'
<1> USE TransferAssumption DEF IInv, TypeOK, Goto, Dev, RegOf, Buf
<1>1. CASE Begin(c)
  <2>1. /\ pc'[c] \in {"header", "exit"}
        /\ pc'[c] = "header" => req'[c].n # 0
        /\ pc'[c] = "exit" => req'[c].n = 0
        /\ off'[c] = 0 /\ status'[c] = 0
    BY <1>1 DEF Begin, Progress
  <2>2. req'[c].n \in Nat
    BY <1>1, <2>1 DEF Begin, AnyRequest
  <2> QED
    BY <2>1, <2>2 DEF Progress, Buffered, Moved
<1>2. CASE Header(c)
  <2>1. Progress(c)'
    BY <1>2 DEF Header, Progress
  <2>2. Buffered(c)'
    BY <1>2, InRange DEF Header, Buffered
  <2>3. Moved(c)'
    BY <1>2 DEF Header, Moved
  <2> QED
    BY <2>1, <2>2, <2>3
<1>3. CASE Fill(c)
  <2>1. Progress(c)'
    BY <1>3 DEF Fill, Progress
  <2>2. Buffered(c)'
    BY <1>3, InRange DEF Fill, Buffered
  <2>3. Moved(c)'
    BY <1>3 DEF Fill, Moved
  <2> QED
    BY <2>1, <2>2, <2>3
<1>4. CASE BusWrite(c)
  <2>1. Progress(c)'
    BY <1>4, NextChunkFacts DEF BusWrite, Progress
  <2>2. Buffered(c)'
    BY <1>4 DEF BusWrite, NextChunk, Buffered
  <2>3. Moved(c)'
    <3>1. off'[c] = off[c] + 1 /\ off[c] \in Nat /\ pc'[c] # "user"
      BY <1>4, NextChunkFacts DEF BusWrite
    <3>2. /\ Dev(c) \in Devices /\ RegOf(c) \in Regs /\ req[c].reg \in Nat
      BY <1>4, InRange DEF BusWrite, Progress
    <3>3. dev' = [dev EXCEPT ![Dev(c)][RegOf(c)] = mem[c][off[c]]]
      BY <1>4 DEF BusWrite, Buffered
    <3>4. dev'[Dev(c)] = [dev[Dev(c)] EXCEPT ![RegOf(c)] = mem[c][off[c]]]
      BY <3>2, <3>3
    <3>5. dev[Dev(c)] \in [Regs -> Values]
      BY <3>2
    <3>6. ASSUME NEW i \in 0 .. MaxChunks - 1, i < off[c] + 1
          PROVE  lost[c] \/ dev'[Dev(c)][req[c].reg + i] = mem[c][i]
      <4>1. CASE i = off[c]
        BY <4>1, <3>2, <3>4, <3>5 DEF RegOf
      <4>2. CASE i # off[c]
        <5>1. i < off[c] /\ i \in Nat
          BY <4>2, <3>1, <3>6
        <5>2. lost[c] \/ dev[Dev(c)][req[c].reg + i] = mem[c][i]
          BY <1>4, <5>1 DEF BusWrite, Moved
        <5>3. req[c].reg + i # RegOf(c)
          BY <3>1, <3>2, <5>1 DEF RegOf
        <5>4. dev'[Dev(c)][req[c].reg + i] = dev[Dev(c)][req[c].reg + i]
          BY <3>4, <3>5, <5>3
        <5> QED
          BY <5>2, <5>4
      <4> QED
        BY <4>1, <4>2
    <3> QED
      BY <1>4, <3>1, <3>6 DEF BusWrite, Moved
  <2> QED
    BY <2>1, <2>2, <2>3
<1>5. CASE BusWriteFails(c)
  <2>1. Progress(c)'
    BY <1>5, NextChunkFacts DEF BusWriteFails, Progress
  <2>2. Buffered(c)'
    BY <1>5 DEF BusWriteFails, NextChunk, Buffered
  <2>3. Moved(c)'
    BY <1>5, InRange DEF BusWriteFails, NextChunk, Moved
  <2> QED
    BY <2>1, <2>2, <2>3
<1>6. CASE BusRead(c)
  <2>1. Progress(c)'
    BY <1>6 DEF BusRead, Progress
  <2>2. Buffered(c)'
    BY <1>6, InRange DEF BusRead, Buffered
  <2>3. Moved(c)'
    BY <1>6 DEF BusRead, Moved
  <2> QED
    BY <2>1, <2>2, <2>3
<1>7. CASE Copy(c)
  <2>1. Progress(c)'
    BY <1>7, NextChunkFacts DEF Copy, Progress
  <2>2. Buffered(c)'
    BY <1>7 DEF Copy, NextChunk, Buffered
  <2>3. Moved(c)'
    <3>1. off'[c] = off[c] + 1 /\ off[c] \in Nat /\ pc'[c] # "user"
      BY <1>7, NextChunkFacts DEF Copy
    <3>2. ~req[c].write /\ Buf(c).data = dev[Dev(c)][RegOf(c)]
      BY <1>7 DEF Copy, Buffered
    <3>3. mem'[c] = [mem[c] EXCEPT ![off[c]] = Buf(c).data]
      BY <1>7 DEF Copy
    <3>4. mem[c] \in [0 .. MaxChunks - 1 -> Values]
      BY <1>7 DEF Copy
    <3>5. ASSUME NEW i \in 0 .. MaxChunks - 1, i < off[c] + 1
          PROVE  mem'[c][i] = dev[Dev(c)][req[c].reg + i]
      <4>1. CASE i = off[c]
        BY <4>1, <3>2, <3>3, <3>4 DEF RegOf
      <4>2. CASE i # off[c]
        <5>1. i < off[c]
          BY <4>2, <3>1, <3>5
        <5>2. mem[c][i] = dev[Dev(c)][req[c].reg + i]
          BY <1>7, <5>1, <3>2 DEF Copy, Moved
        <5> QED
          BY <3>3, <3>4, <4>2, <5>2
      <4> QED
        BY <4>1, <4>2
    <3> QED
      BY <1>7, <3>1, <3>2, <3>5 DEF Copy, Moved
  <2> QED
    BY <2>1, <2>2, <2>3
<1>8. CASE Fault(c)
  BY <1>8 DEF Fault, Abort, Progress, Buffered, Moved, COMMS_ERROR
<1>9. CASE Exit(c)
  BY <1>9 DEF Exit, Progress, Buffered, Moved
<1> QED
  BY <1>1, <1>2, <1>3, <1>4, <1>5, <1>6, <1>7, <1>8, <1>9 DEF Step

-----------------------------------------------------------------------------
(* The invariant and what follows from it.                                 *)

\* IInv is inductive for callers that take turns.
LEMMA NextIInv == Serialised /\ IInv /\ [Next]_vars => IInv'
<1> SUFFICES ASSUME Serialised, IInv, [Next]_vars PROVE IInv'
  OBVIOUS
<1>1. CASE UNCHANGED vars
  BY <1>1 DEF vars, IInv, TypeOK, Exclusive, Progress, Buffered, Moved, Dev, Buf,
              RegOf
<1>2. ASSUME NEW c \in Clients, Begin(c) \/ Step(c) PROVE IInv'
  <2>1. TypeOK'
    BY <1>2, TypeStep
  <2>2. Exclusive'
    BY <1>2, ExclusiveStep
  <2>3. \A d \in Clients : Progress(d)' /\ Buffered(d)' /\ Moved(d)'
    BY <1>2, <2>1, OwnStep, OthersStep
  <2> QED
    BY <2>1, <2>2, <2>3 DEF IInv
<1> QED
  BY <1>1, <1>2 DEF Next

\* Every reachable state of the transfers satisfies the invariant.
THEOREM TransferInvariant ==
  ASSUME Serialised PROVE SafeSpec => []IInv
<1>1. IInv /\ [Next]_vars => IInv'
  BY NextIInv
<1> QED
  BY <1>1, InitIInv, PTL DEF SafeSpec

\* A read that returns 0 delivered the device's chunks: no other client's use of
\* a bounce buffer, and no offset, can come between.
THEOREM ReadsDeliver ==
  ASSUME Serialised PROVE SafeSpec => []ReadDelivers
<1>1. IInv => ReadDelivers
  <2> SUFFICES ASSUME IInv, NEW c \in Clients,
                      pc[c] = "exit", ~req[c].write, status[c] = 0,
                      NEW i \in 0 .. MaxChunks - 1, i < req[c].n
               PROVE  mem[c][i] = dev[Dev(c)][req[c].reg + i]
    BY DEF ReadDelivers
  <2> QED
    BY DEF IInv, Progress, Moved
<1> QED
  BY <1>1, TransferInvariant, PTL

\* A write whose transfers the bus accepted arrived, every chunk in its place.
THEOREM WritesArrive ==
  ASSUME Serialised PROVE SafeSpec => []WriteArrives
<1>1. IInv => WriteArrives
  <2> SUFFICES ASSUME IInv, NEW c \in Clients,
                      pc[c] = "exit", req[c].write, status[c] = 0, ~lost[c],
                      NEW i \in 0 .. MaxChunks - 1, i < req[c].n
               PROVE  dev[Dev(c)][req[c].reg + i] = mem[c][i]
    BY DEF WriteArrives
  <2> QED
    BY DEF IInv, Progress, Moved
<1> QED
  BY <1>1, TransferInvariant, PTL

-----------------------------------------------------------------------------
(* The refinement.                                                         *)

\* How far the caller sees its request: st of ChunkAccess.
St(c) == IF pc[c] = "user" THEN "out"
         ELSE IF pc[c] = "exit" /\ status[c] # 0 THEN "failed"
         ELSE "busy"

\* A step of one client moves the abstract state of that client alone.
LEMMA StMove ==
  ASSUME IInv, NEW c \in Clients, Begin(c) \/ Step(c), NEW s, St(c)' = s
  PROVE  [d \in Clients |-> St(d)]' = [[d \in Clients |-> St(d)] EXCEPT ![c] = s]
<1>1. \A d \in Clients \ {c} : St(d)' = St(d)
  BY Frame DEF St
<1> QED
  BY <1>1

\* And a step that leaves it leaves all of them.
LEMMA StKept ==
  ASSUME IInv, NEW c \in Clients, Begin(c) \/ Step(c), St(c)' = St(c)
  PROVE  [d \in Clients |-> St(d)]' = [d \in Clients |-> St(d)]
<1>1. \A d \in Clients \ {c} : St(d)' = St(d)
  BY Frame DEF St
<1> QED
  BY <1>1

\* The registers hold anything and nobody is in the ioctl.
LEMMA AbsInit == Init => Abs!Init
  BY DEF Init, Abs!Init

\* One step of one client is one step of the abstract access, or invisible: the chunk
\* moves when the bus writes it or when it is copied to the caller.
LEMMA AbsStep ==
  ASSUME IInv, TypeOK', NEW c \in Clients, Begin(c) \/ Step(c)
  PROVE  Abs!Next \/ UNCHANGED Abs!vars
<1> USE DEF IInv, TypeOK, Goto
<1> DEFINE Sts == [d \in Clients |-> St(d)]
<1>0. /\ pc'[c] \in {"user", "header", "fill", "bus", "copy", "exit"}
      /\ status[c] \in {0, COMMS_ERROR} /\ Sts[c] = St(c) /\ Progress(c) /\ Buffered(c)
  OBVIOUS
<1>1. CASE Begin(c)
  <2>1. PICK r \in Requests :
          /\ Serialised => Free(r.device)
          /\ req' = [req EXCEPT ![c] = r]
          /\ mem' = [mem EXCEPT ![c] = r.data]
          /\ Goto(c, IF r.n = 0 THEN "exit" ELSE "header")
    BY <1>1 DEF Begin
  <2>2. St(c) = "out" /\ St(c)' = "busy"
    BY <1>0, <1>1, <2>1 DEF Begin, St, Progress
  <2>3. Sts' = [Sts EXCEPT ![c] = "busy"]
    BY <1>1, <2>2, StMove
  <2>4. \A d : Free(d) => \A e \in Clients : Sts[e] # "out" => Dev(e) # d
    BY DEF Free, St
  <2>5. Abs!Begin(c)
    BY <1>0, <1>1, <2>1, <2>2, <2>3, <2>4 DEF Begin, Abs!Begin, Abs!Free, Abs!Dev, Dev, St
  <2> QED
    BY <2>5 DEF Abs!Next
<1>2. CASE BusWrite(c)
  <2>1. /\ pc[c] = "bus" /\ req[c].write /\ NextChunk(c) /\ off[c] < req[c].n
        /\ UNCHANGED <<req, mem, status>>
    BY <1>0, <1>2 DEF BusWrite, Progress
  <2>2. St(c) = "busy" /\ St(c)' = "busy"
    BY <1>0, <2>1, NextChunkFacts DEF St, Progress
  <2>3. Sts' = Sts
    BY <1>2, <2>2, StKept DEF Step
  <2>4. dev' = [dev EXCEPT ![Dev(c)][req[c].reg + off[c]] = mem[c][off[c]]]
    BY <1>0, <1>2, <2>1 DEF BusWrite, Buffered, RegOf
  <2>5. Abs!WriteChunk(c)
    BY <1>0, <2>1, <2>2, <2>3, <2>4
       DEF NextChunk, Abs!WriteChunk, Abs!More, Abs!Dev, Dev, St
  <2> QED
    BY <2>5 DEF Abs!Next
<1>3. CASE BusWriteFails(c)
  <2>1. /\ pc[c] = "bus" /\ req[c].write /\ NextChunk(c) /\ off[c] < req[c].n
        /\ UNCHANGED <<dev, req, mem, status>>
    BY <1>0, <1>3 DEF BusWriteFails, Progress
  <2>2. St(c) = "busy" /\ St(c)' = "busy"
    BY <1>0, <2>1, NextChunkFacts DEF St, Progress
  <2>3. Sts' = Sts
    BY <1>3, <2>2, StKept DEF Step
  <2>4. Abs!LoseChunk(c)
    BY <1>0, <2>1, <2>2, <2>3 DEF NextChunk, Abs!LoseChunk, Abs!More, St
  <2> QED
    BY <2>4 DEF Abs!Next
<1>4. CASE Copy(c)
  <2>1. /\ pc[c] = "copy" /\ ~req[c].write /\ NextChunk(c) /\ off[c] < req[c].n
        /\ UNCHANGED <<dev, req, status>>
    BY <1>0, <1>4 DEF Copy, Progress, Buffered
  <2>2. St(c) = "busy" /\ St(c)' = "busy"
    BY <1>0, <2>1, NextChunkFacts DEF St, Progress
  <2>3. Sts' = Sts
    BY <1>4, <2>2, StKept DEF Step
  <2>4. mem' = [mem EXCEPT ![c][off[c]] = dev[Dev(c)][req[c].reg + off[c]]]
    BY <1>0, <1>4, <2>1 DEF Copy, Buffered, RegOf
  <2>5. Abs!ReadChunk(c)
    BY <1>0, <2>1, <2>2, <2>3, <2>4
       DEF NextChunk, Abs!ReadChunk, Abs!More, Abs!Dev, Dev, St
  <2> QED
    BY <2>5 DEF Abs!Next
<1>5. CASE Fault(c)
  <2>1. /\ pc[c] \in {"bus", "fill", "copy"} /\ off[c] < req[c].n
        /\ pc'[c] = "exit" /\ status'[c] = COMMS_ERROR
        /\ UNCHANGED <<dev, req, mem, off>>
    BY <1>0, <1>5 DEF Fault, Abort, Progress
  <2>2. St(c) = "busy" /\ St(c)' = "failed"
    BY <2>1 DEF St, COMMS_ERROR
  <2>3. Sts' = [Sts EXCEPT ![c] = "failed"]
    BY <1>5, <2>2, StMove DEF Step
  <2>4. Abs!Fail(c)
    BY <1>0, <2>1, <2>2, <2>3 DEF Abs!Fail, Abs!More, St
  <2> QED
    BY <2>4 DEF Abs!Next
<1>6. CASE Exit(c)
  <2>1. pc[c] = "exit" /\ pc'[c] = "user"
    BY <1>6 DEF Exit
  <2>2. /\ St(c) \in {"busy", "failed"} /\ St(c)' = "out"
        /\ St(c) = "failed" \/ off[c] = req[c].n
    BY <1>0, <2>1 DEF St, Progress
  <2>3. Sts' = [Sts EXCEPT ![c] = "out"]
    BY <1>6, <2>2, StMove DEF Step
  <2>4. Abs!Return(c)
    BY <1>0, <1>6, <2>2, <2>3 DEF Exit, Abs!Return, St
  <2> QED
    BY <2>4 DEF Abs!Next
<1>7. CASE Header(c) \/ Fill(c) \/ BusRead(c)
  <2>1. /\ pc[c] \in {"header", "fill", "bus"} /\ pc'[c] \in {"fill", "bus", "copy"}
        /\ UNCHANGED <<dev, req, mem, off, status>>
    BY <1>7 DEF Header, Fill, BusRead
  <2>2. St(c) = "busy" /\ St(c)' = "busy"
    BY <2>1 DEF St
  <2>3. Sts' = Sts
    BY <1>7, <2>2, StKept DEF Step
  <2> QED
    BY <2>1, <2>3 DEF Abs!vars, St
<1> QED
  BY <1>1, <1>2, <1>3, <1>4, <1>5, <1>6, <1>7 DEF Step

\* For callers that take turns the ioctl, with its bounce buffer and its loop, implements
\* the access in whole chunks (the safety part of ImplementsChunkAccess).
THEOREM TransferImplementsAccess ==
  ASSUME Serialised PROVE SafeSpec => Abs!SafeSpec
<1>1. IInv /\ IInv' /\ [Next]_vars => [Abs!Next]_(Abs!vars)
  <2> SUFFICES ASSUME IInv, IInv', [Next]_vars
               PROVE  Abs!Next \/ UNCHANGED Abs!vars
    OBVIOUS
  <2>1. CASE UNCHANGED vars
    BY <2>1 DEF vars, Abs!vars
  <2>2. CASE Next
    BY <2>2, AbsStep DEF Next, IInv
  <2> QED
    BY <2>1, <2>2
<1> QED
  BY <1>1, AbsInit, TransferInvariant, PTL DEF SafeSpec, Abs!SafeSpec
=============================================================================
