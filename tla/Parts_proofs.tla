---------------------------- MODULE Parts_proofs ----------------------------
(***************************************************************************)
(* Proofs about the parts of the system that work by themselves:           *)
(*   - Chunks, for any number of registers and any length of a chunk and a *)
(*     message: a transfer that returns 0 is complete, and one that fails  *)
(*     has left the bytes after its last chunk alone;                      *)
(*   - Address, for any number of sensors and addresses: however the calls *)
(*     of some sensors fail, the others keep their addresses to            *)
(*     themselves;                                                         *)
(*   - Lifecycle, for any devices on the two buses, each with its          *)
(*     interrupt: nothing is used before it is there or after it is gone;  *)
(*   - Thresholds, for any limits that a 32-bit integer holds scaled: the  *)
(*     two switches undo each other, and the application gets the          *)
(*     thresholds it set, whatever its calls returned in between;          *)
(*   - Motion, for any distances: the sensor has the map of the last       *)
(*     resolution, which gives every aggregate its zones;                  *)
(*   - ZoneGrid, for any contents of a grid that do not overflow: the grid *)
(*     that is reduced in place is the one of the averages;                *)
(*   - Results, for any outputs that are compiled in and any number of     *)
(*     packets: the buffer holds what is read, and each output is found    *)
(*     in it, copied whole and converted once.                             *)
(***************************************************************************)
EXTENDS Chunks, Address, Lifecycle, Thresholds, Motion, ZoneGrid, Results, TLAPS

-----------------------------------------------------------------------------
(* Chunks.                                                                 *)

\* The types of the variables; a byte may have any value.
CTypeOK ==
  /\ transfer \in Transfers /\ position \in Nat
  /\ outcome \in {"rest", "loop", "ok", "error"}
  /\ regs = [r \in Bytes |-> regs[r]] /\ memory = [b \in Bytes |-> memory[b]]

\* The bytes before p are across, those from q on are as they were, and so is all that
\* is outside the transfer.
Moved(p, q) ==
  /\ \A b \in 0 .. transfer.count - 1 : /\ b < p => Across(b)
                                        /\ b >= q => Untouched(b)
  /\ Outside

\* The inductive invariant: position says which bytes are across, until the step of
\* SPI that goes past the end.
CInv ==
  /\ CTypeOK
  /\ outcome = "loop" => position <= transfer.count /\ Moved(position, position)
  /\ outcome = "error" =>
       /\ position <= transfer.count
       /\ Moved(position, position + DataSize(transfer, position))
  /\ outcome = "ok" => Moved(transfer.count, transfer.count)

\* A transfer's fields.
LEMMA Fields ==
  ASSUME NEW t \in Transfers
  PROVE  /\ t.bus \in {"i2c", "spi"} /\ t.write \in BOOLEAN
         /\ t.reg \in Nat /\ t.count \in Nat /\ t.reg + t.count <= Registers
  BY ChunksAssumption DEF Transfers

\* A chunk is not empty unless the transfer is at its end, goes not past that end, and
\* fits.
LEMMA ChunkFits ==
  ASSUME NEW t \in Transfers, NEW p \in Nat, p <= t.count
  PROVE  /\ FullChunk(t) \in Nat /\ FullChunk(t) > 0
         /\ DataSize(t, p) \in Nat /\ DataSize(t, p) <= FullChunk(t)
         /\ p + DataSize(t, p) <= t.count
         /\ p + DataSize(t, p) = t.count \/ DataSize(t, p) = FullChunk(t)
         /\ Need(t, p) <= Room(t)
  BY Fields, ChunksAssumption DEF FullChunk, DataSize, Need, Room

\* A message of n bytes moves the bytes from position to position + n, and no others.
LEMMA MessageMoves ==
  ASSUME CTypeOK, position <= transfer.count, Moved(position, position),
         NEW n \in Nat, position + n <= transfer.count,
         Message(n), UNCHANGED <<old, transfer>>
  PROVE  /\ regs' = [r \in Bytes |-> regs'[r]] /\ memory' = [b \in Bytes |-> memory'[b]]
         /\ \A b \in 0 .. transfer.count - 1 : /\ b < position + n => Across(b)'
                                               /\ b >= position + n => Untouched(b)'
         /\ Outside'
<1> DEFINE c == transfer.count
           g == transfer.reg
<1>0. /\ g \in Nat /\ c \in Nat /\ g + c <= Registers /\ Registers \in Nat
      /\ transfer' = transfer /\ old' = old
      /\ position \in Nat /\ c' = c /\ g' = g /\ position + n <= c
      /\ \A b \in 0 .. c - 1 : /\ b < position => Across(b)
                               /\ b >= position => Untouched(b)
      /\ Outside
  BY Fields, ChunksAssumption DEF CTypeOK, Moved
<1> HIDE DEF c, g
<1>1. CASE transfer.write
  <2>1. /\ memory' = memory
        /\ regs' = [r \in Bytes |-> IF r \in g + position .. g + position + n - 1
                                    THEN memory[position + r - (g + position)] ELSE regs[r]]
    BY <1>1 DEF Message, Index, g
  <2>2. regs' = [r \in Bytes |-> regs'[r]] /\ memory = [b \in Bytes |-> memory[b]]
    BY <2>1 DEF CTypeOK
  <2>3. ASSUME NEW b \in 0 .. c - 1
        PROVE  (b < position + n => Across(b)') /\ (b >= position + n => Untouched(b)')
    <3>1. /\ g + b \in Bytes /\ b \in Int
          /\ g + b \in g + position .. g + position + n - 1
               <=> b >= position /\ b < position + n
          /\ position + (g + b) - (g + position) = b
      BY <1>0 DEF Bytes
    <3>2. regs'[g + b] = IF b >= position /\ b < position + n THEN memory[b] ELSE regs[g + b]
      BY <2>1, <3>1
    <3> QED
      BY <1>0, <1>1, <2>1, <3>1, <3>2 DEF Across, Untouched, g
  <2>4. Outside'
    <3>1. ASSUME NEW r \in Bytes \ (g .. g + c - 1)
          PROVE  regs'[r] = old[r]
      <4>1. r \notin g + position .. g + position + n - 1
        BY <1>0 DEF Bytes
      <4> QED
        BY <1>0, <1>1, <2>1, <4>1 DEF Outside, g, c
    <3> QED
      BY <1>0, <1>1, <3>1 DEF Outside, g, c
  <2> QED
    BY <2>1, <2>2, <2>3, <2>4 DEF c
<1>2. CASE ~transfer.write
  <2>1. /\ regs' = regs
        /\ memory' = [b \in Bytes |-> IF b \in position .. position + n - 1
                                      THEN regs[g + position + b - position] ELSE memory[b]]
    BY <1>2 DEF Message, Index, g
  <2>2. memory' = [b \in Bytes |-> memory'[b]] /\ regs = [r \in Bytes |-> regs[r]]
    BY <2>1 DEF CTypeOK
  <2>3. ASSUME NEW b \in 0 .. c - 1
        PROVE  (b < position + n => Across(b)') /\ (b >= position + n => Untouched(b)')
    <3>1. /\ b \in Bytes /\ b \in Int
          /\ b \in position .. position + n - 1 <=> b >= position /\ b < position + n
          /\ g + position + b - position = g + b
      BY <1>0 DEF Bytes
    <3>2. memory'[b] = IF b >= position /\ b < position + n THEN regs[g + b] ELSE memory[b]
      BY <2>1, <3>1
    <3> QED
      BY <1>0, <1>2, <2>1, <3>1, <3>2 DEF Across, Untouched, g
  <2>4. Outside'
    <3>1. ASSUME NEW b \in Bytes \ (0 .. c - 1)
          PROVE  memory'[b] = old[b]
      <4>1. b \notin position .. position + n - 1
        BY <1>0 DEF Bytes
      <4> QED
        BY <1>0, <1>2, <2>1, <4>1 DEF Outside, c
    <3> QED
      BY <1>0, <1>2, <3>1 DEF Outside, c
  <2> QED
    BY <2>1, <2>2, <2>3, <2>4 DEF c
<1> QED
  BY <1>1, <1>2

\* Nothing has happened yet.
LEMMA InitCInv == CInit => CInv
<1> SUFFICES ASSUME CInit PROVE CInv
  OBVIOUS
<1>1. transfer \in Transfers
  BY ChunksAssumption DEF CInit, NoTransfer, Transfers
<1> QED
  BY <1>1 DEF CInit, CInv, CTypeOK

\* Every step keeps it.
LEMMA StepCInv == CInv /\ [CNext]_cvars => CInv'
<1> SUFFICES ASSUME CInv, [CNext]_cvars PROVE CInv'
  OBVIOUS
<1>1. CASE CallChunks
  <2>1. PICK t \in Transfers :
          /\ transfer' = t
          /\ old' = IF t.write THEN regs ELSE memory
          /\ outcome' = IF t.bus = "spi" /\ t.count = 0 THEN "ok" ELSE "loop"
    BY <1>1 DEF CallChunks
  <2>2. position' = 0 /\ regs' = regs /\ memory' = memory
    BY <1>1 DEF CallChunks
  <2>3. t.count \in Nat /\ CTypeOK'
    BY <2>1, <2>2, Fields DEF CInv, CTypeOK
  <2>4. Moved(0, 0)'
    BY <2>1, <2>2, <2>3 DEF Moved, Untouched, Outside
  <2> QED
    BY <2>1, <2>2, <2>3, <2>4 DEF CInv
<1>2. CASE MoveChunk
  <2> DEFINE n == DataSize(transfer, position)
  <2>1. outcome = "loop" /\ Message(n) /\ UNCHANGED <<old, transfer>>
    BY <1>2 DEF MoveChunk
  <2>2. /\ position' = position + (IF transfer.bus = "spi" THEN FullChunk(transfer) ELSE n)
        /\ outcome' = IF position' < transfer.count THEN "loop" ELSE "ok"
    BY <1>2 DEF MoveChunk
  <2>3. /\ position \in Nat /\ position <= transfer.count /\ Moved(position, position)
        /\ transfer \in Transfers /\ CTypeOK
    BY <2>1 DEF CInv, CTypeOK
  <2>4. /\ FullChunk(transfer) \in Nat
        /\ n \in Nat /\ n <= FullChunk(transfer) /\ position + n <= transfer.count
        /\ position + n = transfer.count \/ n = FullChunk(transfer)
    BY <2>3, ChunkFits
  <2>5. transfer.count \in Nat
    BY <2>3, Fields
  <2> HIDE DEF n
  <2>6. /\ regs' = [r \in Bytes |-> regs'[r]] /\ memory' = [b \in Bytes |-> memory'[b]]
        /\ \A b \in 0 .. transfer.count - 1 : /\ b < position + n => Across(b)'
                                              /\ b >= position + n => Untouched(b)'
        /\ Outside'
    BY <2>1, <2>3, <2>4, MessageMoves
  <2>7. CTypeOK'
    BY <2>1, <2>2, <2>3, <2>4, <2>6 DEF CTypeOK
  <2>8. CASE position' < transfer.count
    <3>1. position' = position + n
      BY <2>2, <2>3, <2>4, <2>5, <2>8
    <3> QED
      BY <2>1, <2>2, <2>3, <2>4, <2>5, <2>6, <2>7, <2>8, <3>1 DEF CInv, Moved
  <2>9. CASE ~(position' < transfer.count)
    <3>1. position + n = transfer.count
      BY <2>2, <2>3, <2>4, <2>5, <2>9
    <3> QED
      BY <2>1, <2>2, <2>5, <2>6, <2>7, <2>9, <3>1 DEF CInv, Moved
  <2> QED
    BY <2>8, <2>9
<1>3. CASE FailChunk
  <2> DEFINE m == DataSize(transfer, position)
  <2>1. /\ outcome = "loop" /\ outcome' = "error"
        /\ position' = position /\ UNCHANGED <<old, transfer>>
    BY <1>3 DEF FailChunk
  <2>2. PICK n \in 0 .. m : Message(n)
    BY <1>3 DEF FailChunk
  <2>3. /\ position \in Nat /\ position <= transfer.count /\ Moved(position, position)
        /\ transfer \in Transfers /\ CTypeOK
    BY <2>1 DEF CInv, CTypeOK
  <2>4. m \in Nat /\ position + m <= transfer.count /\ transfer.count \in Nat
    BY <2>3, ChunkFits, Fields
  <2>5. m' = m
    BY <2>1 DEF DataSize, FullChunk
  <2> HIDE DEF m
  <2>6. n \in Nat /\ n <= m /\ position + n <= transfer.count
    BY <2>2, <2>3, <2>4
  <2>7. /\ regs' = [r \in Bytes |-> regs'[r]] /\ memory' = [b \in Bytes |-> memory'[b]]
        /\ \A b \in 0 .. transfer.count - 1 : /\ b < position + n => Across(b)'
                                              /\ b >= position + n => Untouched(b)'
        /\ Outside'
    BY <2>1, <2>2, <2>3, <2>6, MessageMoves
  <2>8. CTypeOK'
    BY <2>1, <2>3, <2>7 DEF CTypeOK
  <2>9. /\ \A b \in 0 .. transfer.count - 1 : /\ b < position => Across(b)'
                                              /\ b >= position + m => Untouched(b)'
    BY <2>3, <2>4, <2>6, <2>7
  <2>10. Moved(position, position + m)'
    BY <2>1, <2>5, <2>7, <2>9 DEF Moved
  <2> QED
    BY <2>1, <2>3, <2>8, <2>10 DEF CInv, m
<1>4. CASE ChunksReturn
  <2>1. NoTransfer \in Transfers
    BY ChunksAssumption DEF NoTransfer, Transfers
  <2> QED
    BY <1>4, <2>1 DEF ChunksReturn, CInv, CTypeOK
<1>5. CASE UNCHANGED cvars
  BY <1>5 DEF cvars, CInv, CTypeOK, Moved, Across, Untouched, Outside, DataSize, FullChunk
<1> QED
  BY <1>1, <1>2, <1>3, <1>4, <1>5 DEF CNext

\* The invariant of the transfers, for any length of a chunk and a message.
THEOREM ChunksInvariant == CSpec => []CInv
  BY InitCInv, StepCInv, PTL DEF CSpec

\* A transfer of any length over I2C or SPI that returns 0 is done, one that fails has
\* touched nothing after the chunk that failed, and every message fits.
THEOREM TransfersAreWhole == CSpec => []ChunksWhole
<1>1. ASSUME CInv PROVE ChunksWhole
  <2>1. /\ transfer \in Transfers /\ transfer.count \in Nat /\ position \in Nat
        /\ outcome \in {"rest", "loop", "ok", "error"}
    BY <1>1, Fields DEF CInv, CTypeOK
  <2>2. CASE outcome = "loop"
    <3>1. Need(transfer, position) <= Room(transfer)
      BY <1>1, <2>1, <2>2, ChunkFits DEF CInv
    <3> QED
      BY <1>1, <2>1, <2>2, <3>1 DEF CInv, Moved, ChunksWhole
  <2>3. CASE outcome = "error"
    <3>1. /\ Need(transfer, position) <= Room(transfer)
          /\ DataSize(transfer, position) \in Nat
      BY <1>1, <2>1, <2>3, ChunkFits DEF CInv
    <3> QED
      BY <1>1, <2>1, <2>3, <3>1 DEF CInv, Moved, ChunksWhole
  <2>4. CASE outcome = "ok"
    BY <1>1, <2>1, <2>4 DEF CInv, Moved, ChunksWhole
  <2> QED
    BY <2>1, <2>2, <2>3, <2>4 DEF ChunksWhole
<1> QED
  BY <1>1, ChunksInvariant, PTL

-----------------------------------------------------------------------------
(* Address.                                                                *)

Calls == [n : 1 .. 3, of : Sensors, to : Addresses, alive : BOOLEAN]

\* The types of the variables.
ATypeOK ==
  /\ addressOf \in [Sensors -> Addresses] /\ platform \in [Sensors -> Addresses]
  /\ page \in [Sensors -> {0, 2}]
  /\ lpn \subseteq Sensors /\ unsure \subseteq Sensors
  /\ busy = Idle \/ busy \in Calls
  /\ refused \in BOOLEAN

\* A sensor whose calls all returned 0, and that is in none, has the host's address.
Agreed ==
  \A t \in Sensors \ unsure :
    busy.n = 0 \/ t # busy.of => addressOf[t] = platform[t] /\ page[t] = 2

\* No sensor on the bus hears what is meant for another.
Apart ==
  \A s, t \in lpn : s # t => platform[s] # platform[t] /\ addressOf[t] # platform[s]

\* The sensor of a call, after each of its transfers.
InCall ==
  busy.n # 0 =>
    /\ lpn \cap unsure = {} /\ busy.of \in lpn
    /\ \A t \in lpn \ {busy.of} : busy.to # platform[t]
    /\ busy.n \in {1, 2} => /\ addressOf[busy.of] = platform[busy.of]
                            /\ busy.alive => busy.to = platform[busy.of]
    /\ busy.n = 1 => ~refused
    /\ busy.n = 2 /\ ~refused => page[busy.of] = 0
    /\ busy.n = 3 => /\ platform[busy.of] = busy.to
                     /\ ~refused => addressOf[busy.of] = busy.to /\ page[busy.of] = 0

\* The inductive invariant: AnswersAlone is about the states between calls only.
AInv == ATypeOK /\ Agreed /\ Apart /\ InCall

\* A byte that is written reaches at most the sensor it is meant for.
LEMMA OnlyOne ==
  ASSUME AInv, busy.n # 0, NEW S \in SUBSET Sensors, Written(S)
  PROVE  /\ S \subseteq {busy.of}
         /\ refused' \in BOOLEAN
         /\ ~refused' => ~refused /\ S = {busy.of}
  BY DEF AInv, Apart, InCall, Written, Listening, ATypeOK

\* The host starts in a state of the invariant.
LEMMA InitAInv == AInit => AInv
<1> SUFFICES ASSUME AInit PROVE AInv
  OBVIOUS
<1>1. ATypeOK
  BY AddressAssumption DEF AInit, ATypeOK
<1>2. Agreed /\ Apart
  BY DEF AInit, Agreed, Apart
<1>3. busy.n = 0
  BY DEF AInit, Idle
<1>4. InCall
  BY <1>3 DEF InCall
<1> QED
  BY <1>1, <1>2, <1>4 DEF AInv

\* Every step keeps it.
LEMMA StepAInv == AInv /\ [ANext]_avars => AInv'
<1> SUFFICES ASSUME AInv, [ANext]_avars PROVE AInv'
  OBVIOUS
<1> USE DEF AInv, ATypeOK, Agreed, Apart, InCall, Idle, Calls
<1>0. busy = Idle \/ busy \in Calls
  OBVIOUS
<1>1. CASE Raise
  BY <1>1 DEF Raise
<1>2. CASE Lower
  BY <1>2 DEF Lower
<1>3. CASE Restart
  BY <1>3, AddressAssumption DEF Restart
<1>4. CASE CallAddress
  <2>1. PICK s \in lpn, a \in Addresses :
          /\ \A t \in Sensors \ {s} : a = platform[t] => a = Default /\ t \notin lpn
          /\ busy' = [n |-> 1, of |-> s, to |-> a, alive |-> a = platform[s]]
    BY <1>4 DEF CallAddress
  <2>2. /\ busy.n = 0 /\ lpn \cap unsure = {} /\ refused' = FALSE
        /\ UNCHANGED <<addressOf, page, lpn, platform, unsure>>
    BY <1>4 DEF CallAddress
  <2>3. (a = platform[s]) \in BOOLEAN
    OBVIOUS
  <2>4. /\ busy'.n = 1 /\ busy'.of = s /\ busy'.to = a
        /\ busy'.alive <=> a = platform[s]
    BY <2>1
  <2>5. busy' \in Calls
    BY <2>1, <2>3
  <2>6. ATypeOK'
    BY <2>2, <2>5
  <2>7. Agreed' /\ Apart'
    BY <2>2
  <2>8. InCall'
    BY <2>1, <2>2, <2>4
  <2> QED
    BY <2>6, <2>7, <2>8
<1>5. CASE FirstPage
  BY <1>5, OnlyOne DEF FirstPage, SetPage
<1>6. CASE SecondByte
  BY <1>6, OnlyOne DEF SecondByte, SetAddress
<1>7. CASE LastPage
  BY <1>7, OnlyOne DEF LastPage, SetPage, PageAfter
<1>8. CASE UNCHANGED avars
  BY <1>8 DEF avars
<1> QED
  BY <1>1, <1>2, <1>3, <1>4, <1>5, <1>6, <1>7, <1>8 DEF ANext

\* The invariant of the addresses, for any sensors and addresses.
THEOREM AddressInvariant == ASpec => []AInv
  BY InitAInv, StepAInv, PTL DEF ASpec

\* Between two calls every sensor on the bus whose calls returned 0 answers at the
\* host's address for it, and nobody else does.
THEOREM SensorsAnswerAlone == ASpec => []AnswersAlone
<1>1. AInv => AnswersAlone
  BY DEF AInv, ATypeOK, Agreed, Apart, AnswersAlone, Listening
<1> QED
  BY <1>1, AddressInvariant, PTL

-----------------------------------------------------------------------------
(* Lifecycle.                                                              *)

\* The types of the variables.
LTypeOK ==
  /\ loaded \in {"out", "i2c", "in", "broken", "spi_off", "i2c_off"}
  /\ drivers \subseteq {"i2c", "spi"}
  /\ stage \in [Devices -> {"none", "gpio", "queue", "irq", "detect", "node", "clientdata",
                            "bound", "release"}]
  /\ data \in [Devices -> BOOLEAN] /\ queue \in [Devices -> BOOLEAN]
  /\ irq \in [Devices -> BOOLEAN] /\ node \in [Devices -> BOOLEAN]
  /\ fd \in [Devices -> BOOLEAN] /\ waits \in [Devices -> BOOLEAN]
  /\ handler \in [Devices -> BOOLEAN]

\* How far the module has come.
Module ==
  /\ loaded = "out" => drivers = {} /\ \A d \in Devices : stage[d] = "none"
  /\ loaded \in {"i2c", "broken", "i2c_off"} => "spi" \notin drivers
  /\ loaded = "i2c_off" => \A d \in SpiDevices : stage[d] = "none"
  /\ loaded \in {"spi_off", "i2c_off"} => \A d \in Devices : ~fd[d]

\* What a device has at each stage of its probe.
Built(d) ==
  /\ stage[d] # "none" => data[d]
  /\ stage[d] \in {"irq", "detect", "node", "clientdata", "bound"} => queue[d]
  /\ stage[d] \in {"detect", "node", "clientdata", "bound"} => irq[d]
  /\ irq[d] => queue[d] /\ stage[d] \notin {"none", "gpio", "queue", "irq"}
  /\ node[d] => stage[d] \in {"clientdata", "bound"}

\* Who uses it.
InUse(d) ==
  /\ handler[d] => irq[d]
  /\ waits[d] => fd[d]
  /\ fd[d] => node[d]

\* The inductive invariant: what a user needs outlives it because the steps of the
\* probe and of the release come in this order, and the module counts its users.
LInv == LTypeOK /\ Module /\ \A d \in Devices : Built(d) /\ InUse(d)

\* The module starts in a state of the invariant.
LEMMA InitLInv == LInit => LInv
  BY DEF LInit, LInv, LTypeOK, Module, Built, InUse, None

\* The steps of module init and exit keep it.
LEMMA ModuleStep ==
  ASSUME LInv,
         AddI2c \/ RegisterSpi \/ RegisterSpiFails \/ Reboot \/ Unload \/ UnregisterSpi
           \/ DeleteI2c
  PROVE  LInv'
<1> USE DEF LInv, LTypeOK, Module, Built, InUse, parts, users
<1>1. CASE AddI2c
  BY <1>1 DEF AddI2c
<1>2. CASE RegisterSpi
  BY <1>2 DEF RegisterSpi
<1>3. CASE RegisterSpiFails
  BY <1>3 DEF RegisterSpiFails
<1>4. CASE Reboot
  BY <1>4 DEF Reboot, None
<1>5. CASE Unload
  BY <1>5 DEF Unload, Unused
<1>6. CASE UnregisterSpi
  BY <1>6 DEF UnregisterSpi
<1>7. CASE DeleteI2c
  BY <1>7 DEF DeleteI2c, Devices
<1> QED
  BY <1>1, <1>2, <1>3, <1>4, <1>5, <1>6, <1>7

\* The steps of a device, its handler and its programs keep it.
LEMMA DeviceStep ==
  ASSUME WithIrq = Devices, LInv, NEW d \in Devices, Device(d)
  PROVE  LInv'
<1> USE DEF LInv, LTypeOK, Module, Built, InUse, parts, users, Goes, Set
<1>1. CASE Alloc(d)
  BY <1>1 DEF Alloc, Driven, Devices
<1>2. CASE ParseGpio(d)
  BY <1>2 DEF ParseGpio
<1>3. CASE InitQueue(d)
  BY <1>3 DEF InitQueue
<1>4. CASE RequestIrq(d)
  BY <1>4 DEF RequestIrq
<1>5. CASE Detect(d)
  BY <1>5 DEF Detect
<1>6. CASE RegisterNode(d)
  BY <1>6 DEF RegisterNode
<1>7. CASE SetClientdata(d)
  BY <1>7 DEF SetClientdata
<1>8. CASE ProbeFails(d)
  BY <1>8 DEF ProbeFails
<1>9. CASE RemoveDevice(d)
  BY <1>9 DEF RemoveDevice
<1>10. CASE FreeIrq(d)
  BY <1>10 DEF FreeIrq
<1>11. CASE FreeData(d)
  BY <1>11 DEF FreeData
<1>12. CASE HandlerRuns(d)
  BY <1>12 DEF HandlerRuns
<1>13. CASE HandlerEnds(d)
  BY <1>13 DEF HandlerEnds
<1>14. CASE Open(d)
  BY <1>14 DEF Open
<1>15. CASE WaitIoctl(d)
  BY <1>15 DEF WaitIoctl
<1>16. CASE WaitEnds(d)
  BY <1>16 DEF WaitEnds
<1>17. CASE Close(d)
  BY <1>17 DEF Close
<1> QED
  BY <1>1, <1>2, <1>3, <1>4, <1>5, <1>6, <1>7, <1>8, <1>9, <1>10, <1>11, <1>12, <1>13,
     <1>14, <1>15, <1>16, <1>17 DEF Device

\* The invariant of the module's life, for any devices that all have an interrupt.
THEOREM LifeInvariant ==
  ASSUME WithIrq = Devices
  PROVE  LSpec => []LInv
<1>1. LInv /\ [LNext]_lvars => LInv'
  <2> SUFFICES ASSUME LInv, [LNext]_lvars PROVE LInv'
    OBVIOUS
  <2>1. CASE UNCHANGED lvars
    BY <2>1 DEF lvars, parts, users, LInv, LTypeOK, Module, Built, InUse
  <2>2. CASE LNext
    BY <2>2, ModuleStep, DeviceStep DEF LNext
  <2> QED
    BY <2>1, <2>2
<1> QED
  BY <1>1, InitLInv, PTL DEF LSpec

\* If every device has its interrupt, no handler, waiting program or open file ever
\* uses what is not there yet or is gone, and the module leaves nothing behind.
THEOREM NothingUsedIsGone ==
  ASSUME WithIrq = Devices
  PROVE  LSpec => []UsedIsThere
<1>1. LInv => UsedIsThere
  BY DEF LInv, LTypeOK, Module, Built, InUse, UsedIsThere
<1> QED
  BY <1>1, LifeInvariant, PTL

-----------------------------------------------------------------------------
(* Thresholds.                                                             *)

LimitEntries == [measurement : Measurements, limit : Int]

\* The multiplier of a measurement is positive, and the divisor is the same.
LEMMA SwitchesAgree ==
  ASSUME NEW m \in Measurements
  PROVE  Multiplier(m) \in Nat \ {0} /\ Divisor(m) = Multiplier(m)
  BY DEF Measurements, Multiplier, Divisor

\* A number that was multiplied is divided without rest.
LEMMA TimesOver ==
  ASSUME NEW n \in Nat, NEW k \in Nat \ {0}
  PROVE  (n * k) \div k = n
  BY Z3

\* A threshold that was scaled is the same when it is scaled back.
LEMMA RoundTrip ==
  ASSUME NEW e \in LimitEntries
  PROVE  Scaled(e) \in LimitEntries /\ Unscaled(Scaled(e)) = e
<1> DEFINE m == e.measurement
           k == Multiplier(m)
           v == e.limit
<1>1. /\ m \in Measurements /\ v \in Int
      /\ k \in Nat \ {0} /\ Divisor(m) = k
  BY SwitchesAgree DEF LimitEntries
<1> HIDE DEF k
<1>2. v * k \in Int
  BY <1>1
<1>3. Scaled(e) = [measurement |-> m, limit |-> v * k]
  BY DEF LimitEntries, Scaled, k
<1>4. Scaled(e) \in LimitEntries
  BY <1>1, <1>2, <1>3 DEF LimitEntries
<1>5. CASE v >= 0
  <2>1. v * k >= 0 /\ (v * k) \div k = v
    BY <1>1, <1>5, TimesOver
  <2> QED
    BY <1>1, <1>3, <1>4, <2>1 DEF LimitEntries, Unscaled
<1>6. CASE v < 0
  <2>1. ~(v * k >= 0) /\ -(v * k) = (-v) * k
    BY <1>1, <1>6
  <2>2. (-(v * k)) \div k = -v
    BY <1>1, <1>6, <2>1, TimesOver
  <2>3. -((-(v * k)) \div k) = v
    BY <1>1, <2>2
  <2> QED
    BY <1>1, <1>3, <1>4, <2>1, <2>3 DEF LimitEntries, Unscaled
<1> QED
  BY <1>1, <1>4, <1>5, <1>6

\* The inductive invariant: the sensor has one of the thresholds that were asked for,
\* scaled, and the application's array is in its own units if it may be set.
TInv ==
  /\ asked \subseteq LimitEntries
  /\ \E e \in asked : checkers = Scaled(e)
  /\ meant => array \in LimitEntries
  /\ answer = "get" => array \in asked

\* The sensor starts with thresholds of 0.
LEMMA InitTInv == TInit => TInv
<1> SUFFICES ASSUME TInit PROVE TInv
  OBVIOUS
<1>1. Unset \in LimitEntries /\ Unset = Scaled(Unset)
  BY DEF Unset, LimitEntries, Measurements, Scaled, Multiplier
<1> QED
  BY <1>1 DEF TInit, TInv

\* Every step keeps it.
LEMMA StepTInv == TInv /\ [TNext]_tvars => TInv'
<1> SUFFICES ASSUME TInv, [TNext]_tvars PROVE TInv'
  OBVIOUS
<1> USE DEF TInv
<1>1. CASE Fill
  BY <1>1, ThresholdsAssumption DEF Fill, LimitEntries
<1>2. CASE SetThresholds
  <2>1. array \in LimitEntries /\ array' = Scaled(array) /\ meant' = FALSE
    BY <1>2 DEF SetThresholds
  <2>2. answer' # "get" /\ asked' \subseteq LimitEntries
    BY <1>2, <2>1 DEF SetThresholds
  <2>3. \E e \in asked' : checkers' = Scaled(e)
    BY <1>2, <2>1 DEF SetThresholds
  <2> QED
    BY <2>1, <2>2, <2>3
<1>3. CASE GetThresholds
  <2>1. PICK e \in asked : checkers = Scaled(e)
    OBVIOUS
  <2>2. e \in LimitEntries /\ Unscaled(checkers) = e
    BY <2>1, RoundTrip
  <2> QED
    BY <1>3, <2>1, <2>2 DEF GetThresholds
<1>4. CASE UNCHANGED tvars
  BY <1>4 DEF tvars
<1> QED
  BY <1>1, <1>2, <1>3, <1>4 DEF TNext

\* For any limits and any calls that fail, a get that returns 0 tells thresholds that
\* were asked for, in the application's units.
THEOREM ThresholdsAreTold == TSpec => []ThresholdsTold
<1>1. TInv => ThresholdsTold
  BY DEF TInv, ThresholdsTold
<1> QED
  BY <1>1, InitTInv, StepTInv, PTL DEF TSpec

-----------------------------------------------------------------------------
(* The maps of the zones, for Motion and ZoneGrid.                         *)

\* The aggregate of a zone of 8x8.
LEMMA MapOf64 ==
  \A z \in AllZones : MapId(64)[z] = (z % 8) \div 2 + 4 * (z \div 16)
<1> TAKE z \in AllZones
<1>1. 64 = 64 /\ ~(64 = 16) BY SMT
<1> QED BY <1>1, Zenon DEF MapId

\* The aggregate of a zone of 4x4.
LEMMA MapOf16 ==
  \A z \in AllZones : MapId(16)[z] = IF z < 16 THEN z ELSE -1
<1> TAKE z \in AllZones
<1>1. ~(16 = 64) BY SMT
<1>2. CASE z < 16 BY <1>1, <1>2, Zenon DEF MapId
<1>3. CASE ~(z < 16) BY <1>1, <1>3, Zenon DEF MapId
<1> QED BY <1>2, <1>3

\* The four zones of a cell.
LEMMA FourZones ==
  ASSUME NEW c \in Cells
  PROVE /\ {z \in AllZones : MapId(64)[z] = c}
             = {Corner(c), Corner(c) + 1, Corner(c) + 8, Corner(c) + 9}
        /\ Corner(c) \in AllZones /\ Corner(c) + 9 \in AllZones /\ Corner(c) >= c
        /\ c > 0 => Corner(c) > c
<1> DEFINE o == Corner(c)
<1>1. /\ o \in AllZones /\ o + 1 \in AllZones /\ o + 8 \in AllZones /\ o + 9 \in AllZones
      /\ o >= c /\ (c > 0 => o > c)
  BY DEF Corner, Cells, AllZones
<1>2. ASSUME NEW z \in AllZones
      PROVE (z % 8) \div 2 + 4 * (z \div 16) = c <=> z \in {o, o + 1, o + 8, o + 9}
  BY <1>2 DEF Corner, Cells, AllZones
<1> QED BY <1>1, <1>2, MapOf64


-----------------------------------------------------------------------------
(* Motion.                                                                 *)

\* What the driver keeps of a configuration, once a resolution was set.
MapSet(c, r) == r \in Resolutions /\ c.map = MapId(r)

\* The application's struct, and the sensor's as long as no transfer failed, are those
\* of the wish.
MInv ==
  /\ config = [map |-> config.map, mm |-> config.mm]
  /\ trouble \in BOOLEAN
  /\ ~trouble => /\ detector = config /\ config.mm = wish.mm
                 /\ MapSet(config, wish.res)
                 /\ wish = [res |-> wish.res, mm |-> wish.mm]

\* It holds at first.
LEMMA InitMInv == MInit => MInv
  BY Zenon DEF MInit, MInv

\* Every call keeps it.
LEMMA StepMInv == MInv /\ [MNext]_mvars => MInv'
<1> SUFFICES ASSUME MInv, [MNext]_mvars PROVE MInv' OBVIOUS
<1> USE DEF MInv, MapSet
<1>1. CASE InitMotion
  <2>1. PICK r \in Resolutions \cup {0} :
         /\ config' = [map |-> IF r = 0 THEN NoMap ELSE NewMap(r), mm |-> ByDefault]
         /\ IF r = 0 THEN reply' = "error" /\ UNCHANGED detector ELSE SendConfig
         /\ wish' = IF reply' = "ok" THEN [res |-> r, mm |-> ByDefault] ELSE wish
         /\ trouble' = (reply' = "error")
    BY <1>1, Zenon DEF InitMotion
  <2>2. CASE reply' = "error" BY <2>1, <2>2
  <2>3. CASE reply' # "error"
    <3>1. r \in Resolutions /\ r # 0 /\ detector' = config' /\ reply' = "ok" /\ ~trouble'
      BY <2>1, <2>3 DEF SendConfig
    <3> QED BY <2>1, <3>1 DEF NewMap
  <2> QED BY <2>2, <2>3
<1>2. CASE SetMotionResolution
  BY <1>2 DEF SetMotionResolution, SendConfig, NewMap
<1>3. CASE SetDistance
  BY <1>3 DEF SetDistance, SendConfig
<1>4. CASE UNCHANGED mvars
  BY <1>4, Zenon DEF mvars
<1> QED BY <1>1, <1>2, <1>3, <1>4 DEF MNext

\* It implies the property, as the maps give every aggregate its zones.
LEMMA MInvIsAsSet == MInv => MotionAsSet
<1> SUFFICES ASSUME MInv, ~trouble
             PROVE /\ detector.mm = wish.mm
                   /\ \A a \in Cells :
                        {z \in AllZones : detector.map[z] = a} =
                          IF wish.res = 16 THEN {a} ELSE {Corner(a) + d : d \in {0, 1, 8, 9}}
                   /\ \A z \in AllZones : detector.map[z] \in Cells <=> z < wish.res
  BY DEF MotionAsSet
<1>1. /\ detector.mm = wish.mm /\ detector.map = MapId(wish.res) /\ wish.res \in {16, 64}
  BY DEF MInv, MapSet, Resolutions
<1>2. ASSUME NEW a \in Cells
      PROVE {z \in AllZones : detector.map[z] = a} =
              IF wish.res = 16 THEN {a} ELSE {Corner(a) + d : d \in {0, 1, 8, 9}}
  <2>1. CASE wish.res = 16
    BY <1>1, <2>1, MapOf16 DEF Cells, AllZones
  <2>2. CASE wish.res = 64
    <3>1. {Corner(a) + d : d \in {0, 1, 8, 9}}
            = {Corner(a), Corner(a) + 1, Corner(a) + 8, Corner(a) + 9}
      BY FourZones DEF AllZones
    <3>2. {z \in AllZones : detector.map[z] = a} = {z \in AllZones : MapId(64)[z] = a}
      BY <1>1, <2>2
    <3> QED BY <1>2, <2>2, <3>1, <3>2, FourZones
  <2> QED BY <1>1, <2>1, <2>2
<1>3. ASSUME NEW z \in AllZones PROVE detector.map[z] \in Cells <=> z < wish.res
  <2>1. CASE wish.res = 16
    BY <1>1, <2>1, MapOf16 DEF Cells, AllZones
  <2>2. CASE wish.res = 64
    BY <1>1, <2>2, MapOf64 DEF Cells, AllZones
  <2> QED BY <1>1, <2>1, <2>2
<1> QED BY <1>1, <1>2, <1>3

\* For any distances and any calls that are refused: unless a transfer failed since the
\* last init, the sensor has the distances and the zones of the last calls.
THEOREM MotionZones == MSpec => []MotionAsSet
  BY InitMInv, StepMInv, MInvIsAsSet, PTL DEF MSpec

-----------------------------------------------------------------------------
(* ZoneGrid.                                                               *)

\* The cell n, of the grid as the host keeps it.
Reduced(n) ==
  LET o == Corner(n) IN Quarter(whole[o] + whole[o + 1] + whole[o + 8] + whole[o + 9])

\* The types of the variables.
GTyped ==
  /\ step \in 0 .. 18 /\ res \in Resolutions /\ kind \in {"signal", "range"}
  /\ cells \in [AllZones -> Int] /\ whole \in [AllZones -> Int]

\* The signals of a grid are samples.
Small ==
  step < 18 /\ kind = "signal" =>
    \A z \in AllZones : whole[z] >= 0 /\ 4 * whole[z] < Word

\* The turn n of the loops replaces cell n, and reads none below.
Halfway ==
  step <= 16 =>
    res = 16 /\ \A z \in AllZones : cells[z] = IF z < step THEN Reduced(z) ELSE whole[z]

\* What is sent.
Finished ==
  step = 17 => IF res = 64 THEN cells = whole
              ELSE \A z \in AllZones : cells[z] = IF z \in Cells THEN Reduced(z) ELSE 0

\* The invariant.
GInv == GTyped /\ Small /\ Halfway /\ Finished

\* An average is an integer.
LEMMA QuarterType == \A s \in Int : Quarter(s) \in Int
  BY DEF Quarter

\* It holds when there is no grid.
LEMMA InitGInv == GInit => GInv
<1> SUFFICES ASSUME GInit PROVE GInv OBVIOUS
<1>1. /\ cells \in [AllZones -> Int] /\ whole = cells /\ kind = "signal" /\ res = 64 /\ step = 18
  BY DEF GInit, NoGrid
<1> QED BY <1>1 DEF GInv, GTyped, Small, Halfway, Finished, Resolutions

\* Every turn keeps it: the four zones of a cell are as they were.
LEMMA StepGInv == GInv /\ [GNext]_gvars => GInv'
<1> SUFFICES ASSUME GInv, [GNext]_gvars PROVE GInv' OBVIOUS
<1>1. CASE SendGrid
  <2>1. PICK k \in {"signal", "range"}, r \in Resolutions, b \in Samples, h \in Samples,
             at \in AllZones :
         /\ whole' = [z \in AllZones |-> IF z # at THEN b ELSE IF k = "range" THEN -h ELSE h]
         /\ kind' = k /\ res' = r
         /\ step' = IF r = 16 THEN 0 ELSE 17
    BY <1>1, Zenon DEF SendGrid
  <2>2. cells' = whole' /\ b \in Nat /\ h \in Nat /\ 4 * b < Word /\ 4 * h < Word
    BY <1>1, GridAssumption DEF SendGrid
  <2>3. GTyped' BY <2>1, <2>2 DEF GTyped, Resolutions
  <2>4. Small' BY <2>1, <2>2 DEF Small
  <2>5. Halfway' BY <2>1, <2>2 DEF Halfway, AllZones
  <2>6. Finished' BY <2>1, <2>2 DEF Finished, Resolutions
  <2> QED BY <2>3, <2>4, <2>5, <2>6 DEF GInv
<1>2. CASE ReduceCell
  <2> DEFINE o == Corner(step)
             v == Quarter(Sum(kind, cells[o], cells[o + 1], cells[o + 8], cells[o + 9]))
  <2>1. /\ step \in 0 .. 15 /\ step < 16 /\ step' = step + 1 /\ UNCHANGED <<whole, kind, res>>
        /\ cells' = [cells EXCEPT ![step] = v]
    BY <1>2 DEF ReduceCell, Cell, GInv, GTyped
  <2>2. step \in Cells /\ o \in AllZones /\ o + 9 \in AllZones /\ o >= step
    BY <2>1, FourZones DEF Cells
  <2>3. /\ o + 1 \in AllZones /\ o + 8 \in AllZones
    BY <2>2 DEF AllZones
  <2>4. /\ cells[o] = whole[o] /\ cells[o + 1] = whole[o + 1]
        /\ cells[o + 8] = whole[o + 8] /\ cells[o + 9] = whole[o + 9]
    BY <2>1, <2>2, <2>3 DEF GInv, Halfway, AllZones
  <2>5. /\ whole[o] \in Int /\ whole[o + 1] \in Int /\ whole[o + 8] \in Int
        /\ whole[o + 9] \in Int
    BY <2>2, <2>3 DEF GInv, GTyped
  <2>6. v = Reduced(step) /\ v \in Int
    <3>1. Sum(kind, whole[o], whole[o + 1], whole[o + 8], whole[o + 9])
            = whole[o] + whole[o + 1] + whole[o + 8] + whole[o + 9]
      <4>1. CASE kind = "signal"
        <5> HIDE DEF o
        <5>1. /\ whole[o] >= 0 /\ whole[o + 1] >= 0 /\ whole[o + 8] >= 0 /\ whole[o + 9] >= 0
              /\ 4 * whole[o] < Word /\ 4 * whole[o + 1] < Word
              /\ 4 * whole[o + 8] < Word /\ 4 * whole[o + 9] < Word
          BY <4>1, <2>1, <2>2, <2>3 DEF GInv, Small
        <5>2. \A s \in Int : 0 <= s /\ s < Word => s % Word = s
          BY GridAssumption
        <5> DEFINE s == whole[o] + whole[o + 1] + whole[o + 8] + whole[o + 9]
        <5>3. s \in Int /\ 0 <= s /\ s < Word BY <5>1, <2>5, GridAssumption
        <5>4. s % Word = s BY <5>2, <5>3
        <5> QED BY <4>1, <5>4 DEF Sum
      <4>2. CASE kind # "signal" BY <4>2 DEF Sum
      <4> QED BY <4>1, <4>2
    <3>2. v = Quarter(whole[o] + whole[o + 1] + whole[o + 8] + whole[o + 9])
      BY <3>1, <2>4
    <3> QED BY <3>2, <2>5, QuarterType DEF Reduced
  <2> HIDE DEF v, o
  <2>7. GTyped'
    <3>1. cells \in [AllZones -> Int] /\ whole' \in [AllZones -> Int]
      BY <2>1 DEF GInv, GTyped
    <3>2. cells' \in [AllZones -> Int] BY <2>1, <2>6, <3>1, Zenon
    <3>3. step' \in 0 .. 18 BY <2>1
    <3> QED BY <2>1, <3>1, <3>2, <3>3 DEF GInv, GTyped
  <2>8. Small' BY <2>1 DEF GInv, Small
  <2>9. Halfway'
    <3> SUFFICES ASSUME NEW z \in AllZones
                 PROVE cells'[z] = IF z < step + 1 THEN Reduced(z)' ELSE whole[z]
      BY <2>1 DEF GInv, Halfway
    <3>1. Reduced(z)' = Reduced(z) BY <2>1 DEF Reduced
    <3>2. cells[z] = IF z < step THEN Reduced(z) ELSE whole[z]
      BY <2>1 DEF GInv, Halfway
    <3> QED BY <2>1, <2>6, <3>1, <3>2 DEF GInv, GTyped, AllZones
  <2>10. Finished'
    <3> SUFFICES ASSUME step' = 17 PROVE FALSE BY DEF Finished
    <3> QED BY <2>1
  <2> QED BY <2>7, <2>8, <2>9, <2>10 DEF GInv
<1>3. CASE ClearRest
  <2>1. /\ step = 16 /\ step' = 17 /\ UNCHANGED <<whole, kind, res>>
        /\ cells' = [z \in AllZones |-> IF z \in Cells THEN cells[z] ELSE 0]
    BY <1>3 DEF ClearRest
  <2>2. GTyped' /\ Small' BY <2>1 DEF GInv, GTyped, Small
  <2>3. Halfway' BY <2>1 DEF Halfway
  <2>4. Finished'
    <3>1. res = 16 BY <2>1 DEF GInv, Halfway
    <3> SUFFICES ASSUME NEW z \in AllZones
                 PROVE cells'[z] = IF z \in Cells THEN Reduced(z)' ELSE 0
      BY <2>1, <3>1 DEF Finished
    <3>2. Reduced(z)' = Reduced(z) BY <2>1 DEF Reduced
    <3>3. z \in Cells => cells[z] = Reduced(z)
      BY <2>1 DEF GInv, Halfway, Cells
    <3> QED BY <2>1, <3>2, <3>3
  <2> QED BY <2>2, <2>3, <2>4 DEF GInv
<1>4. CASE GridSent
  <2>1. /\ cells' \in [AllZones -> Int] /\ whole' = cells' /\ kind' = "signal"
        /\ res' = 64 /\ step' = 18
    BY <1>4 DEF GridSent, NoGrid
  <2> QED BY <2>1 DEF GInv, GTyped, Small, Halfway, Finished, Resolutions
<1>5. CASE UNCHANGED gvars
  BY <1>5 DEF gvars, GInv, GTyped, Small, Halfway, Finished, Reduced
<1> QED BY <1>1, <1>2, <1>3, <1>4, <1>5 DEF GNext

\* It implies the property, as the motion indicator's map has the same four zones.
LEMMA GInvIsReduced == GInv => GridReduced
<1> SUFFICES ASSUME GInv, step = 17, res # 64
             PROVE \A c \in AllZones :
                     IF c \in Cells
                     THEN \E o \in AllZones :
                            /\ {z \in AllZones : MapId(64)[z] = c} = {o, o + 1, o + 8, o + 9}
                            /\ cells[c] = Quarter(whole[o] + whole[o + 1]
                                                   + whole[o + 8] + whole[o + 9])
                     ELSE cells[c] = 0
  BY DEF GridReduced, GInv, Finished
<1> TAKE c \in AllZones
<1>1. cells[c] = IF c \in Cells THEN Reduced(c) ELSE 0
  BY DEF GInv, Finished
<1>2. CASE c \in Cells
  <2>1. cells[c] = Reduced(c) BY <1>1, <1>2
  <2>2. Corner(c) \in AllZones BY <1>2, FourZones
  <2>3. {z \in AllZones : MapId(64)[z] = c}
          = {Corner(c), Corner(c) + 1, Corner(c) + 8, Corner(c) + 9}
    BY <1>2, FourZones
  <2> QED BY <1>2, <2>1, <2>2, <2>3, Zenon DEF Reduced
<1>3. CASE c \notin Cells BY <1>1, <1>3
<1> QED BY <1>2, <1>3

\* For any samples that do not overflow, the grid that is reduced in place for 4x4 has in
\* each cell the average over the zones that the map sends to it.
THEOREM GridsReduced == GSpec => []GridReduced
  BY InitGInv, StepGInv, GInvIsReduced, PTL DEF GSpec

-----------------------------------------------------------------------------
(* Results.                                                                *)

\* The list that start_ranging made, of a build that is possible, and its size.
Programmed ==
  /\ build.outputs \subseteq OutputNames /\ build.nt \in 1 .. 4 /\ zones \in Resolutions
  /\ list = [k \in Enabled(build.outputs, build.nt) |->
               Sized(Table(build.nt)[k], zones, build.nt)]
  /\ data_read_size = ReadSize(list)

\* The walk is at a block, or past them all.
AtBlock == \E k \in DOMAIN list \cup {13} : k > 1 /\ walk = 12 + Before(list, k)
InFooter == walk >= 12 + Before(list, 13)

\* What the walk has passed is copied and was not converted since; what is before it,
\* or not compiled in, is not copied.
Passed(k) ==
  /\ list[k].name \in Known =>
       copied[list[k].name] = IF list[k].name = "meta" THEN 1 ELSE Msize(list[k])
  /\ list[k].name \in build.outputs =>
       divided[list[k].name] = IF phase = "done" /\ list[k].name \in Converted THEN 1 ELSE 0

Walked ==
  /\ packet = [k \in DOMAIN list |-> 12 + Before(list, k)]
  /\ \A k \in DOMAIN list :
       IF packet[k] < walk THEN Passed(k)
       ELSE list[k].name \in Known => copied[list[k].name] = Nothing
  /\ \A o \in DOMAIN copied \ Known : copied[o] = Nothing

\* The inductive invariant.
RInv ==
  /\ phase \in {"rest", "started", "walk", "done"} /\ walk \in Int
  /\ copied \in [OutputNames \cup {"meta"} -> Int] /\ divided \in [OutputNames -> Int]
  /\ phase # "rest" => Programmed
  /\ phase \in {"walk", "done"} => Walked /\ (AtBlock \/ InFooter)
  /\ phase = "done" => InFooter

\* What a block of the list takes, behind its header.
SizeOf(o, r, nt) ==
  IF o = "motion" THEN 140 ELSE r * Width(o) * (IF o \in PerZone THEN 1 ELSE nt)

\* The outputs, in the order of the table.
OutputAt(k) ==
  <<"start", "meta", "common", "ambient", "spads", "targets", "signal", "sigma", "distance",
    "reflectance", "status", "motion">>[k]

\* Name and size of an entry as it is programmed.
LEMMA RowSizes ==
  ASSUME NEW nt \in 1 .. 4, NEW r \in Resolutions
  PROVE  /\ \A k \in Entries : /\ Sized(Table(nt)[k], r, nt).name = OutputAt(k)
                               /\ Table(nt)[k].name = OutputAt(k)
         /\ Msize(Sized(Table(nt)[1], r, nt)) = 0
         /\ Msize(Sized(Table(nt)[2], r, nt)) = 12
         /\ Msize(Sized(Table(nt)[3], r, nt)) = 4
         /\ \A k \in 4 .. 12 :
              Msize(Sized(Table(nt)[k], r, nt)) = SizeOf(OutputAt(k), r, nt)
<1>0. r \in Int /\ r * nt \in Int
  BY DEF Resolutions
<1>1. /\ Msize(Sized(Table(nt)[1], r, nt)) = 0 /\ Sized(Table(nt)[1], r, nt).name = "start"
      /\ Msize(Sized(Table(nt)[2], r, nt)) = 12 /\ Sized(Table(nt)[2], r, nt).name = "meta"
      /\ Msize(Sized(Table(nt)[3], r, nt)) = 4 /\ Sized(Table(nt)[3], r, nt).name = "common"
      /\ Msize(Sized(Table(nt)[12], r, nt)) = 140 /\ Sized(Table(nt)[12], r, nt).name = "motion"
  BY DEF Table, Block, Sized, Msize
<1>2. /\ Sized(Table(nt)[4], r, nt).name = "ambient"
      /\ Msize(Sized(Table(nt)[4], r, nt)) = 4 * r
  <2> DEFINE b == Sized(Table(nt)[4], r, nt)
  <2>1. b.name = "ambient" /\ b.type = 4 /\ b.size = r
    BY <1>0 DEF Table, Block, Sized
  <2> QED
    BY <1>0, <2>1 DEF Msize
<1>3. /\ Sized(Table(nt)[5], r, nt).name = "spads"
      /\ Msize(Sized(Table(nt)[5], r, nt)) = 4 * r
  <2> DEFINE b == Sized(Table(nt)[5], r, nt)
  <2>1. b.name = "spads" /\ b.type = 4 /\ b.size = r
    BY <1>0 DEF Table, Block, Sized
  <2> QED
    BY <1>0, <2>1 DEF Msize
<1>4. /\ Sized(Table(nt)[6], r, nt).name = "targets"
      /\ Msize(Sized(Table(nt)[6], r, nt)) = r
  <2> DEFINE b == Sized(Table(nt)[6], r, nt)
  <2>1. b.name = "targets" /\ b.type = 1 /\ b.size = r
    BY <1>0 DEF Table, Block, Sized
  <2> QED
    BY <1>0, <2>1 DEF Msize
<1>5. /\ Sized(Table(nt)[7], r, nt).name = "signal"
      /\ Msize(Sized(Table(nt)[7], r, nt)) = 4 * (r * nt)
  <2> DEFINE b == Sized(Table(nt)[7], r, nt)
  <2>1. b.name = "signal" /\ b.type = 4 /\ b.size = r * nt
    BY <1>0 DEF Table, Block, Sized
  <2> QED
    BY <1>0, <2>1 DEF Msize
<1>6. /\ Sized(Table(nt)[8], r, nt).name = "sigma"
      /\ Msize(Sized(Table(nt)[8], r, nt)) = 2 * (r * nt)
  <2> DEFINE b == Sized(Table(nt)[8], r, nt)
  <2>1. b.name = "sigma" /\ b.type = 2 /\ b.size = r * nt
    BY <1>0 DEF Table, Block, Sized
  <2> QED
    BY <1>0, <2>1 DEF Msize
<1>7. /\ Sized(Table(nt)[9], r, nt).name = "distance"
      /\ Msize(Sized(Table(nt)[9], r, nt)) = 2 * (r * nt)
  <2> DEFINE b == Sized(Table(nt)[9], r, nt)
  <2>1. b.name = "distance" /\ b.type = 2 /\ b.size = r * nt
    BY <1>0 DEF Table, Block, Sized
  <2> QED
    BY <1>0, <2>1 DEF Msize
<1>8. /\ Sized(Table(nt)[10], r, nt).name = "reflectance"
      /\ Msize(Sized(Table(nt)[10], r, nt)) = r * nt
  <2> DEFINE b == Sized(Table(nt)[10], r, nt)
  <2>1. b.name = "reflectance" /\ b.type = 1 /\ b.size = r * nt
    BY <1>0 DEF Table, Block, Sized
  <2> QED
    BY <1>0, <2>1 DEF Msize
<1>9. /\ Sized(Table(nt)[11], r, nt).name = "status"
      /\ Msize(Sized(Table(nt)[11], r, nt)) = r * nt
  <2> DEFINE b == Sized(Table(nt)[11], r, nt)
  <2>1. b.name = "status" /\ b.type = 1 /\ b.size = r * nt
    BY <1>0 DEF Table, Block, Sized
  <2> QED
    BY <1>0, <2>1 DEF Msize
<1>10. \A k \in Entries : Sized(Table(nt)[k], r, nt).name = OutputAt(k)
  BY <1>1, <1>2, <1>3, <1>4, <1>5, <1>6, <1>7, <1>8, <1>9 DEF OutputAt, Entries
<1>11. \A k \in Entries : Table(nt)[k].name = OutputAt(k)
  BY DEF Table, Block, OutputAt, Entries
<1>12. /\ SizeOf("ambient", r, nt) = 4 * r /\ SizeOf("spads", r, nt) = 4 * r
       /\ SizeOf("targets", r, nt) = r
       /\ SizeOf("signal", r, nt) = 4 * (r * nt) /\ SizeOf("sigma", r, nt) = 2 * (r * nt)
       /\ SizeOf("distance", r, nt) = 2 * (r * nt) /\ SizeOf("reflectance", r, nt) = r * nt
       /\ SizeOf("status", r, nt) = r * nt /\ SizeOf("motion", r, nt) = 140
  BY <1>0 DEF SizeOf, Width, PerZone
<1>13. \A k \in 4 .. 12 : Msize(Sized(Table(nt)[k], r, nt)) = SizeOf(OutputAt(k), r, nt)
  BY <1>1, <1>2, <1>3, <1>4, <1>5, <1>6, <1>7, <1>8, <1>9, <1>12 DEF OutputAt
<1> QED
  BY <1>1, <1>10, <1>11, <1>13

\* Sums grow with what they are sums of.
LEMMA TotalGrows ==
  ASSUME NEW f \in [Entries -> Nat], NEW g \in [Entries -> Nat],
         \A k \in Entries : f[k] <= g[k]
  PROVE  Total(f) \in Nat /\ Total(g) \in Nat /\ Total(f) <= Total(g)
<1>1. \A k \in Entries : f[k] \in Nat /\ g[k] \in Nat
  OBVIOUS
<1> QED
  BY <1>1 DEF Total, Entries

\* One value that is changed changes the sum by as much.
LEMMA TotalStep ==
  ASSUME NEW f \in [Entries -> Nat], NEW n \in Entries, NEW v \in Nat, f[n] = 0
  PROVE  Total([f EXCEPT ![n] = v]) = Total(f) + v
<1> DEFINE g == [f EXCEPT ![n] = v]
<1>1. \A k \in Entries : f[k] \in Nat /\ g[k] = IF k = n THEN v ELSE f[k]
  OBVIOUS
<1> HIDE DEF g
<1>2. n \in 1 .. 12
  BY DEF Entries
<1>3. Total(g) = Total(f) + v
  BY <1>1, <1>2 DEF Total, Entries
<1> QED
  BY <1>3 DEF g

\* A list of blocks: some entries of the table, each of a size.
IsList(l) == DOMAIN l \subseteq Entries /\ \A k \in DOMAIN l : Msize(l[k]) \in Nat

\* What is before an entry, and what is before the next.
LEMMA BeforeNext ==
  ASSUME NEW l, IsList(l), NEW n \in Entries
  PROVE  Before(l, n + 1) = Before(l, n) + (IF n \in DOMAIN l THEN Msize(l[n]) + 4 ELSE 0)
<1> DEFINE upto(m) == [k \in Entries |-> IF k \in DOMAIN l /\ k < m THEN Msize(l[k]) + 4 ELSE 0]
           v == IF n \in DOMAIN l THEN Msize(l[n]) + 4 ELSE 0
<1>1. upto(n) \in [Entries -> Nat] /\ v \in Nat /\ upto(n)[n] = 0
  BY DEF IsList, Entries
<1>2. upto(n + 1) = [upto(n) EXCEPT ![n] = v]
  <2>1. \A k \in Entries : k < n + 1 <=> k < n \/ k = n
    BY DEF Entries
  <2>2. \A k \in Entries : upto(n + 1)[k] = IF k = n THEN v ELSE upto(n)[k]
    BY <2>1
  <2> QED
    BY <2>2
<1>3. Total([upto(n) EXCEPT ![n] = v]) = Total(upto(n)) + v
  <2> HIDE DEF upto, v
  <2> QED
    BY <1>1, TotalStep
<1> QED
  BY <1>2, <1>3 DEF Before

\* A block that comes later is further on.
LEMMA BeforeGrows ==
  ASSUME NEW l, IsList(l), NEW m \in 1 .. 13, NEW n \in 1 .. 13, m <= n
  PROVE  Before(l, m) \in Nat /\ Before(l, n) \in Nat /\ Before(l, m) <= Before(l, n)
<1> DEFINE upto(i) == [k \in Entries |-> IF k \in DOMAIN l /\ k < i THEN Msize(l[k]) + 4 ELSE 0]
<1>1. upto(m) \in [Entries -> Nat] /\ upto(n) \in [Entries -> Nat]
  BY DEF IsList
<1>2. \A k \in Entries : upto(m)[k] <= upto(n)[k]
  BY DEF IsList, Entries
<1>3. Total(upto(m)) \in Nat /\ Total(upto(n)) \in Nat /\ Total(upto(m)) <= Total(upto(n))
  <2> HIDE DEF upto
  <2> QED
    BY <1>1, <1>2, TotalGrows
<1> QED
  BY <1>3 DEF Before

\* Blocks do not overlap: one ends before each that comes later, or before the footer.
LEMMA BlocksApart ==
  ASSUME NEW l, IsList(l), NEW k \in DOMAIN l, NEW n \in 1 .. 13, k < n
  PROVE  Before(l, k) + Msize(l[k]) + 4 <= Before(l, n)
<1>1. k \in Entries /\ k + 1 \in 1 .. 13 /\ k + 1 <= n /\ k \in 1 .. 13
  BY DEF IsList, Entries
<1>2. Before(l, k + 1) = Before(l, k) + (Msize(l[k]) + 4) /\ Msize(l[k]) \in Nat
  BY <1>1, BeforeNext DEF IsList
<1>3. Before(l, k + 1) <= Before(l, n) /\ Before(l, k) \in Nat
  BY <1>1, BeforeGrows
<1> QED
  BY <1>2, <1>3

\* Where no block is between two places, they are the same place.
LEMMA NoneBetween ==
  ASSUME NEW l, IsList(l), NEW n \in 1 .. 13, NEW k \in 1 .. 13,
         n <= k, \A m \in DOMAIN l : ~ (n <= m /\ m < k)
  PROVE  Before(l, k) = Before(l, n)
<1> DEFINE upto(i) == [m \in Entries |-> IF m \in DOMAIN l /\ m < i THEN Msize(l[m]) + 4 ELSE 0]
<1>1. \A m \in DOMAIN l : m < k <=> m < n
  BY DEF IsList, Entries
<1>2. upto(k) = upto(n)
  BY <1>1
<1> QED
  BY <1>2 DEF Before

\* The least of some of 13 numbers.
LEMMA Smallest ==
  ASSUME NEW S \in SUBSET (1 .. 13), NEW n \in S
  PROVE  \E k \in S : \A m \in S : k <= m
<1> SUFFICES ASSUME \A k \in S : \E m \in S : m < k
             PROVE  FALSE
  OBVIOUS
<1> QED
  OBVIOUS

\* From each place that an entry has or would have, the next block, or the footer, begins.
LEMMA NextBlock ==
  ASSUME NEW l, IsList(l), NEW n \in 1 .. 13
  PROVE  \E k \in DOMAIN l \cup {13} : k >= n /\ Before(l, k) = Before(l, n)
<1> DEFINE S == {k \in DOMAIN l \cup {13} : k >= n}
<1>1. S \in SUBSET (1 .. 13) /\ 13 \in S
  BY DEF IsList, Entries
<1>2. PICK k \in S : \A m \in S : k <= m
  <2> HIDE DEF S
  <2> QED
    BY <1>1, Smallest
<1>4. \A m \in DOMAIN l : ~ (n <= m /\ m < k)
  BY <1>1, <1>2 DEF IsList, Entries
<1>5. Before(l, k) = Before(l, n)
  BY <1>1, <1>4, NoneBetween
<1> QED
  BY <1>5

\* The greatest of some of 12 numbers.
LEMMA Greatest ==
  ASSUME NEW S \in SUBSET (1 .. 12), NEW n \in S
  PROVE  \E k \in S : \A m \in S : m <= k
<1> SUFFICES ASSUME \A k \in S : \E m \in S : k < m
             PROVE  FALSE
  OBVIOUS
<1> QED
  OBVIOUS

\* What an output takes fits its array in the struct.
LEMMA SizesFit ==
  ASSUME NEW o \in OutputNames, NEW nt \in 1 .. 4, NEW r \in Resolutions
  PROVE  /\ SizeOf(o, r, nt) \in Nat /\ FullSize(o, nt) \in Nat
         /\ SizeOf(o, r, nt) <= FullSize(o, nt) - 4
<1>1. CASE o = "motion"
  BY <1>1 DEF SizeOf, FullSize, PerZone
<1>2. CASE o \in PerZone
  <2>1. Width(o) \in {1, 4} /\ o # "motion"
    BY <1>2 DEF PerZone, Width
  <2>2. SizeOf(o, r, nt) = r * Width(o) * 1 /\ FullSize(o, nt) = 64 * Width(o) + 4
    BY <1>2, <2>1 DEF SizeOf, FullSize
  <2> QED
    BY <2>1, <2>2 DEF Resolutions
<1>3. CASE o \notin PerZone /\ o # "motion"
  <2>1. Width(o) \in {1, 2, 4}
    BY <1>3 DEF OutputNames, PerZone, Width
  <2>2. SizeOf(o, r, nt) = r * Width(o) * nt /\ FullSize(o, nt) = 64 * nt * Width(o) + 4
    BY <1>3 DEF SizeOf, FullSize
  <2>3. nt \in {1, 2, 3, 4} /\ r \in {16, 64}
    BY DEF Resolutions
  <2> QED
    BY <2>1, <2>2, <2>3
<1> QED
  BY <1>1, <1>2, <1>3

\* No two entries of the table have the same name, and each output has one.
LEMMA NamesDiffer ==
  /\ \A k, m \in Entries : OutputAt(k) = OutputAt(m) => k = m
  /\ \A k \in Entries : k > 3 => OutputAt(k) \in OutputNames
  /\ \A o \in OutputNames : \E k \in Entries : k > 3 /\ OutputAt(k) = o
  /\ OutputAt(1) = "start" /\ OutputAt(2) = "meta" /\ OutputAt(3) = "common"
<1>1. /\ OutputAt(1) = "start" /\ OutputAt(2) = "meta" /\ OutputAt(3) = "common"
      /\ OutputAt(4) = "ambient" /\ OutputAt(5) = "spads" /\ OutputAt(6) = "targets"
      /\ OutputAt(7) = "signal" /\ OutputAt(8) = "sigma" /\ OutputAt(9) = "distance"
      /\ OutputAt(10) = "reflectance" /\ OutputAt(11) = "status" /\ OutputAt(12) = "motion"
  BY DEF OutputAt
<1>2. \A k \in Entries : k \in 1 .. 12
  BY DEF Entries
<1>3. \A k, m \in Entries : OutputAt(k) = OutputAt(m) => k = m
  BY <1>1, <1>2
<1>4. \A k \in Entries : k > 3 => OutputAt(k) \in OutputNames
  BY <1>1, <1>2 DEF OutputNames
<1>5. \A o \in OutputNames : \E k \in Entries : k > 3 /\ OutputAt(k) = o
  BY <1>1 DEF OutputNames, Entries
<1> QED
  BY <1>1, <1>3, <1>4, <1>5

\* The list that is programmed: what its entries are called and how long they are.
LEMMA ListIs ==
  ASSUME Programmed
  PROVE  /\ IsList(list) /\ {1, 2, 3} \subseteq DOMAIN list
         /\ \A k \in Entries :
              k > 3 => (k \in DOMAIN list <=> OutputAt(k) \in build.outputs)
         /\ \A k \in DOMAIN list : list[k].name = OutputAt(k)
         /\ Msize(list[1]) = 0 /\ Msize(list[2]) = 12 /\ Msize(list[3]) = 4
         /\ \A k \in DOMAIN list :
              k > 3 => Msize(list[k]) = SizeOf(OutputAt(k), zones, build.nt)
<1> DEFINE row(k) == Sized(Table(build.nt)[k], zones, build.nt)
           In == Enabled(build.outputs, build.nt)
<1>1. build.nt \in 1 .. 4 /\ zones \in Resolutions /\ list = [k \in In |-> row(k)]
  BY DEF Programmed
<1>2. /\ \A k \in Entries : row(k).name = OutputAt(k) /\ Table(build.nt)[k].name = OutputAt(k)
      /\ Msize(row(1)) = 0 /\ Msize(row(2)) = 12 /\ Msize(row(3)) = 4
      /\ \A k \in 4 .. 12 : Msize(row(k)) = SizeOf(OutputAt(k), zones, build.nt)
  BY <1>1, RowSizes
<1>3. /\ In \subseteq Entries /\ {1, 2, 3} \subseteq In
      /\ \A k \in Entries : k > 3 => (k \in In <=> OutputAt(k) \in build.outputs)
  BY <1>2 DEF Enabled, Entries
<1> HIDE DEF In, row
<1>4. DOMAIN list = In /\ \A k \in In : list[k] = row(k)
  BY <1>1
<1>5. \A k \in In : k > 3 => Msize(list[k]) = SizeOf(OutputAt(k), zones, build.nt)
  BY <1>2, <1>3, <1>4 DEF Entries
<1>6. Msize(list[1]) = 0 /\ Msize(list[2]) = 12 /\ Msize(list[3]) = 4
  BY <1>2, <1>3, <1>4
<1>7. \A k \in In : Msize(list[k]) \in Nat
  <2> SUFFICES ASSUME NEW k \in In
               PROVE  Msize(list[k]) \in Nat
    OBVIOUS
  <2>1. CASE k <= 3
    BY <1>3, <1>6, <2>1 DEF Entries
  <2>2. CASE k > 3
    BY <1>1, <1>3, <1>5, <2>2, NamesDiffer, SizesFit
  <2> QED
    BY <1>3, <2>1, <2>2 DEF Entries
<1> QED
  BY <1>2, <1>3, <1>4, <1>5, <1>6, <1>7 DEF IsList

\* Where the first blocks are.
LEMMA FirstBlocks ==
  ASSUME Programmed
  PROVE  Before(list, 1) = 0 /\ Before(list, 2) = 4
<1>1. \A k \in Entries : (k \in DOMAIN list /\ k < 1) = FALSE
  BY DEF Entries
<1>2. Before(list, 1) = 0
  BY <1>1 DEF Before, Total, Entries
<1>3. Before(list, 1 + 1) = Before(list, 1) + (Msize(list[1]) + 4)
  BY ListIs, BeforeNext DEF Entries
<1> QED
  BY <1>2, <1>3, ListIs

\* The walk is at a block after each step over one.
LEMMA StepsToBlock ==
  ASSUME Programmed, NEW k \in DOMAIN list
  PROVE  \E m \in DOMAIN list \cup {13} :
           m > 1 /\ Before(list, m) = Before(list, k) + Msize(list[k]) + 4
<1>1. k \in Entries /\ k \in 1 .. 12 /\ k + 1 \in 1 .. 13 /\ k >= 1
  BY ListIs DEF IsList, Entries
<1>2. Before(list, k + 1) = Before(list, k) + (Msize(list[k]) + 4)
  BY <1>1, ListIs, BeforeNext
<1>3. PICK m \in DOMAIN list \cup {13} : m >= k + 1 /\ Before(list, m) = Before(list, k + 1)
  BY <1>1, ListIs, NextBlock
<1>4. m \in Int /\ Before(list, k) \in Int /\ Msize(list[k]) \in Int
  <2>1. k \in 1 .. 13 /\ m \in 1 .. 13
    BY <1>1, ListIs DEF IsList, Entries
  <2> QED
    BY <2>1, ListIs, BeforeGrows DEF IsList, Entries
<1>5. m > 1 /\ Before(list, m) = Before(list, k) + Msize(list[k]) + 4
  <2> HIDE DEF Programmed
  <2> QED
    BY <1>1, <1>2, <1>3, <1>4
<1> QED
  BY <1>5

LEMMA InitRInv == RInit => RInv
  BY DEF RInit, RInv, NothingCopied, Nothing

LEMMA StartStep ==
  ASSUME RInv, StartResults
  PROVE  RInv'
<1>1. Programmed'
  <2>1. PICK outs \in SUBSET OutputNames, nt \in Targets, r \in Resolutions :
          /\ build' = [outputs |-> outs, nt |-> nt]
          /\ zones' = r
          /\ list' = [k \in Enabled(outs, nt) |-> Sized(Table(nt)[k], r, nt)]
    BY DEF StartResults
  <2>2. nt \in 1 .. 4 /\ build'.outputs = outs /\ build'.nt = nt
    BY <2>1, ResultsAssumption
  <2>3. data_read_size' = ReadSize(list')
    BY DEF StartResults
  <2> QED
    BY <2>1, <2>2, <2>3 DEF Programmed
<1> QED
  BY <1>1 DEF RInv, StartResults

\* A new packet: the walk is at the second block.
LEMMA MeasuredStep ==
  ASSUME RInv, Measured
  PROVE  RInv'
<1>0. UNCHANGED setup /\ Programmed
  BY DEF RInv, Measured
<1>1. Programmed'
  BY <1>0 DEF Programmed, setup
<1>2. /\ packet' = [k \in DOMAIN list |-> 12 + Before(list, k)] /\ walk' = 16
      /\ copied' = NothingCopied /\ divided' = divided /\ phase' = "walk"
      /\ list' = list /\ build' = build
  BY DEF Measured, setup
<1>3. AtBlock'
  <2>1. 2 \in DOMAIN list /\ walk' = 12 + Before(list, 2)
    BY <1>0, <1>2, ListIs, FirstBlocks
  <2> QED
    BY <1>2, <2>1 DEF AtBlock
<1>4. \A k \in DOMAIN list : packet'[k] < 16 => k = 1
  <2> SUFFICES ASSUME NEW k \in DOMAIN list, k # 1
               PROVE  ~ (packet'[k] < 16)
    OBVIOUS
  <2>1. k \in 1 .. 13 /\ 2 <= k
    BY <1>0, ListIs DEF IsList, Entries
  <2>2. Before(list, 2) <= Before(list, k) /\ Before(list, k) \in Nat
    BY <1>0, <2>1, ListIs, BeforeGrows
  <2>3. packet'[k] = 12 + Before(list, k)
    BY <1>2
  <2> QED
    BY <1>0, <2>2, <2>3, FirstBlocks
<1>5. Walked'
  <2>1. Known' = Known
    BY <1>2 DEF Known
  <2>2. \A o \in OutputNames \cup {"meta"} : copied'[o] = Nothing
    BY <1>2 DEF NothingCopied
  <2>3. list[1].name = "start" /\ "start" \notin Known /\ "start" \notin build.outputs
    BY <1>0, ListIs, NamesDiffer DEF Known, Programmed, OutputNames
  <2>4. Passed(1)'
    BY <1>2, <2>1, <2>3 DEF Passed
  <2>5. Known \subseteq OutputNames \cup {"meta"}
    BY <1>0 DEF Known, Programmed
  <2>6. DOMAIN copied' = OutputNames \cup {"meta"}
    BY <1>2 DEF NothingCopied
  <2>7. \A k \in DOMAIN list : packet'[k] < walk' => Passed(k)'
    BY <1>2, <1>4, <2>4
  <2> QED
    BY <1>2, <2>1, <2>2, <2>5, <2>6, <2>7 DEF Walked
<1> QED
  BY <1>1, <1>2, <1>3, <1>5 DEF RInv, NothingCopied, Nothing

\* A block is copied: the ones before it stay passed, the later ones stay ahead.
LEMMA WalkBlockStep ==
  ASSUME RInv, WalkBlock
  PROVE  RInv'
<1>0. UNCHANGED setup /\ Programmed /\ Walked /\ phase = "walk" /\ IsList(list)
  BY ListIs DEF RInv, WalkBlock
<1>1. Programmed'
  BY <1>0 DEF Programmed, setup
<1>2. list' = list /\ build' = build /\ packet' = packet /\ phase' = "walk"
  BY <1>0 DEF WalkBlock, setup
<1>3. PICK k \in Here :
        LET b == list[k]
        IN /\ copied' = IF b.name \notin Known THEN copied
                        ELSE [copied EXCEPT ![b.name] = IF b.name = "meta" THEN 1 ELSE Msize(b)]
           /\ divided' = IF b.name \in build.outputs THEN [divided EXCEPT ![b.name] = 0]
                         ELSE divided
           /\ walk' = walk + Msize(b) + 4
  BY DEF WalkBlock
<1>4. /\ k \in DOMAIN list /\ walk = 12 + Before(list, k) /\ packet[k] = walk
      /\ packet = [m \in DOMAIN list |-> 12 + Before(list, m)]
  BY <1>0 DEF Here, Walked
<1>5. /\ k \in 1 .. 13 /\ Before(list, k) \in Nat /\ Msize(list[k]) \in Nat
      /\ walk' = 12 + (Before(list, k) + Msize(list[k]) + 4)
  <2>1. k \in 1 .. 13 /\ Msize(list[k]) \in Nat
    BY <1>0, <1>4 DEF IsList, Entries
  <2>2. Before(list, k) \in Nat
    BY <1>0, <2>1, BeforeGrows
  <2> QED
    BY <1>3, <1>4, <2>1, <2>2
<1>6. AtBlock'
  <2>1. PICK m \in DOMAIN list \cup {13} :
          m > 1 /\ Before(list, m) = Before(list, k) + Msize(list[k]) + 4
    BY <1>0, <1>4, StepsToBlock
  <2> QED
    BY <1>2, <1>5, <2>1 DEF AtBlock
<1>7. /\ copied \in [OutputNames \cup {"meta"} -> Int] /\ divided \in [OutputNames -> Int]
      /\ Known \subseteq OutputNames \cup {"meta"} /\ build.outputs \subseteq OutputNames
      /\ build.outputs \subseteq Known /\ "meta" \notin build.outputs
  BY <1>0 DEF RInv, Known, Programmed, OutputNames
<1>8. /\ copied' \in [OutputNames \cup {"meta"} -> Int] /\ divided' \in [OutputNames -> Int]
  BY <1>3, <1>5, <1>7
<1>9. Known' = Known /\ DOMAIN copied' = DOMAIN copied
  BY <1>2, <1>7, <1>8 DEF Known
<1>10. \A m \in DOMAIN list : m # k => list[m].name # list[k].name
  BY <1>0, <1>4, ListIs, NamesDiffer DEF IsList
<1>11. ASSUME NEW m \in DOMAIN list
       PROVE  IF packet'[m] < walk' THEN Passed(m)'
              ELSE list[m].name \in Known => copied'[list[m].name] = Nothing
  <2>0. /\ m \in 1 .. 13 /\ Before(list, m) \in Nat /\ Msize(list[m]) \in Nat
        /\ packet[m] = 12 + Before(list, m)
    <3>1. m \in 1 .. 13 /\ Msize(list[m]) \in Nat
      BY <1>0 DEF IsList, Entries
    <3> QED
      BY <1>0, <1>4, <3>1, BeforeGrows
  <2>1. CASE m = k
    <3>1. packet'[m] < walk'
      BY <1>2, <1>4, <1>5, <2>1
    <3>2. Passed(m)'
      BY <1>2, <1>3, <1>7, <1>9, <2>1 DEF Passed
    <3> QED
      BY <3>1, <3>2
  <2>2. CASE m # k
    <3>1. /\ list[m].name \in Known => copied'[list[m].name] = copied[list[m].name]
          /\ list[m].name \in build.outputs => divided'[list[m].name] = divided[list[m].name]
      BY <1>3, <1>7, <1>10, <2>2
    <3>2. Passed(m) => Passed(m)'
      BY <1>0, <1>2, <1>9, <3>1 DEF Passed
    <3>3. m < k => packet[m] < walk /\ packet[m] < walk'
      <4>1. m < k => Before(list, m) + Msize(list[m]) + 4 <= Before(list, k)
        BY <1>0, <1>5, BlocksApart
      <4> QED
        BY <1>4, <1>5, <2>0, <4>1
    <3>4. m > k => ~ (packet[m] < walk) /\ ~ (packet[m] < walk')
      <4>1. k < m => Before(list, k) + Msize(list[k]) + 4 <= Before(list, m)
        BY <1>0, <1>4, <2>0, BlocksApart
      <4> QED
        BY <1>4, <1>5, <2>0, <4>1
    <3>5. IF packet[m] < walk THEN Passed(m)
          ELSE list[m].name \in Known => copied[list[m].name] = Nothing
      BY <1>0 DEF Walked
    <3>6. m < k \/ m > k
      BY <1>5, <2>0, <2>2
    <3> QED
      BY <1>2, <3>1, <3>2, <3>3, <3>4, <3>5, <3>6
  <2> QED
    BY <2>1, <2>2
<1>12. \A o \in DOMAIN copied \ Known : copied'[o] = Nothing
  BY <1>0, <1>3, <1>7 DEF Walked
<1>13. Walked'
  BY <1>2, <1>4, <1>9, <1>11, <1>12 DEF Walked
<1>14. walk' \in Int
  BY <1>5
<1> QED
  BY <1>1, <1>2, <1>6, <1>8, <1>13, <1>14 DEF RInv

\* No block begins at walk, so it is past them all: in the footer nothing is found.
LEMMA WalkOnStep ==
  ASSUME RInv, WalkOn
  PROVE  RInv'
<1>0. /\ UNCHANGED <<setup, packet, copied, divided, phase>> /\ walk' = walk + 4
      /\ Programmed /\ Walked /\ phase = "walk" /\ Here = {} /\ walk \in Int
  BY DEF RInv, WalkOn
<1>1. Programmed'
  BY <1>0 DEF Programmed, setup
<1>2. InFooter
  <2>1. CASE AtBlock
    <3>1. PICK k \in DOMAIN list \cup {13} : walk = 12 + Before(list, k)
      BY <2>1 DEF AtBlock
    <3>2. k = 13
      BY <1>0, <3>1 DEF Here, Walked
    <3> QED
      BY <1>0, <3>1, <3>2 DEF InFooter
  <2> QED
    BY <2>1, <1>0 DEF RInv
<1>3. Before(list, 13) \in Nat
  BY <1>0, ListIs, BeforeGrows
<1>4. InFooter' /\ walk' \in Int
  BY <1>0, <1>2, <1>3 DEF InFooter, setup
<1>5. \A k \in DOMAIN list : packet[k] < walk /\ packet'[k] < walk'
  <2> SUFFICES ASSUME NEW k \in DOMAIN list
               PROVE  packet[k] < walk /\ packet'[k] < walk'
    OBVIOUS
  <2>1. k \in 1 .. 13 /\ k < 13 /\ IsList(list) /\ Msize(list[k]) \in Nat
    BY <1>0, ListIs DEF IsList, Entries
  <2>2. Before(list, k) + Msize(list[k]) + 4 <= Before(list, 13) /\ Before(list, k) \in Nat
    BY <2>1, BlocksApart, BeforeGrows
  <2>3. packet[k] = 12 + Before(list, k) /\ packet' = packet
    BY <1>0 DEF Walked
  <2> QED
    BY <1>0, <1>2, <1>3, <2>1, <2>2, <2>3 DEF InFooter
<1>6. Known' = Known /\ \A k : Passed(k)' <=> Passed(k)
  BY <1>0 DEF Known, Passed, setup
<1>7. Walked'
  BY <1>0, <1>5, <1>6 DEF Walked, setup
<1> QED
  BY <1>0, <1>1, <1>4, <1>7 DEF RInv

\* The end of the walk is in the footer: everything was passed, and is converted now.
LEMMA WalkEndStep ==
  ASSUME RInv, WalkEnd
  PROVE  RInv'
<1>0. /\ UNCHANGED <<setup, packet, copied, walk>> /\ walk >= data_read_size
      /\ phase' = "done" /\ phase = "walk"
      /\ divided' = [o \in OutputNames |->
                       IF o \in Converted \cap build.outputs THEN divided[o] + 1 ELSE divided[o]]
      /\ Programmed /\ Walked /\ walk \in Int /\ divided \in [OutputNames -> Int]
      /\ build.outputs \subseteq OutputNames
  BY DEF RInv, WalkEnd, Programmed
<1>1. Programmed'
  BY <1>0 DEF Programmed, setup
<1>2. Before(list, 13) \in Nat
  BY <1>0, ListIs, BeforeGrows
<1>3. walk >= 12 + Before(list, 13)
  BY <1>0, <1>2 DEF Programmed, ReadSize
<1>4. InFooter'
  BY <1>0, <1>3 DEF InFooter, setup
<1>5. \A k \in DOMAIN list : packet[k] < walk
  <2> SUFFICES ASSUME NEW k \in DOMAIN list
               PROVE  packet[k] < walk
    OBVIOUS
  <2>1. k \in 1 .. 13 /\ k < 13 /\ IsList(list) /\ Msize(list[k]) \in Nat
    BY <1>0, ListIs DEF IsList, Entries
  <2>2. Before(list, k) + Msize(list[k]) + 4 <= Before(list, 13) /\ Before(list, k) \in Nat
    BY <2>1, BlocksApart, BeforeGrows
  <2>3. packet[k] = 12 + Before(list, k)
    BY <1>0 DEF Walked
  <2> QED
    BY <1>0, <1>2, <1>3, <2>1, <2>2, <2>3
<1>6. Known' = Known /\ list' = list /\ build' = build
  BY <1>0 DEF Known, setup
<1>7. \A k \in DOMAIN list : Passed(k)'
  <2> SUFFICES ASSUME NEW k \in DOMAIN list
               PROVE  Passed(k)'
    OBVIOUS
  <2>1. Passed(k)
    BY <1>0, <1>5 DEF Walked
  <2>2. list[k].name \in build.outputs =>
          divided'[list[k].name] = IF list[k].name \in Converted THEN 1 ELSE 0
    BY <1>0, <2>1 DEF Passed
  <2> QED
    BY <1>0, <1>6, <2>1, <2>2 DEF Passed
<1>8. Walked'
  BY <1>0, <1>5, <1>6, <1>7 DEF Walked
<1>9. divided' \in [OutputNames -> Int]
  BY <1>0
<1> QED
  BY <1>0, <1>1, <1>4, <1>8, <1>9 DEF RInv

LEMMA StepRInv == RInv /\ [RNext]_rvars => RInv'
<1> SUFFICES ASSUME RInv, [RNext]_rvars
             PROVE  RInv'
  OBVIOUS
<1>1. CASE ResultsRest
  BY <1>1 DEF ResultsRest, RInv, NothingCopied, Nothing
<1>2. CASE UNCHANGED rvars
  BY <1>2 DEF rvars, setup, RInv, Programmed, AtBlock, InFooter, Passed, Walked, Known
<1> QED
  BY <1>1, <1>2, StartStep, MeasuredStep, WalkBlockStep, WalkOnStep, WalkEndStep DEF RNext

\* The bytes that are read are no more than the header file reckons with.
LEMMA ReadSizeFits ==
  ASSUME Programmed
  PROVE  data_read_size <= TemporaryBufferSize
<1> DEFINE size(o) == IF o \in build.outputs THEN FullSize(o, build.nt) ELSE 0
           full == [k \in Entries |-> CASE k = 1 -> 4 [] k = 2 -> 16 [] k = 3 -> 8
                                        [] OTHER -> size(OutputAt(k))]
           used == [k \in Entries |-> IF k \in DOMAIN list /\ k < 13 THEN Msize(list[k]) + 4 ELSE 0]
<1>1. build.nt \in 1 .. 4 /\ zones \in Resolutions /\ build.outputs \subseteq OutputNames
  BY DEF Programmed
<1>2. \A o \in OutputNames : size(o) \in Nat
  BY <1>1, SizesFit
<1>3. \A k \in Entries : used[k] \in Nat /\ full[k] \in Nat /\ used[k] <= full[k]
  <2> SUFFICES ASSUME NEW k \in Entries
               PROVE  used[k] \in Nat /\ full[k] \in Nat /\ used[k] <= full[k]
    OBVIOUS
  <2>1. k \in 1 .. 12 /\ used[k] = IF k \in DOMAIN list THEN Msize(list[k]) + 4 ELSE 0
    BY DEF Entries
  <2>2. CASE k <= 3
    <3>1. k = 1 \/ k = 2 \/ k = 3
      BY <2>1, <2>2
    <3> QED
      BY <2>1, <3>1, ListIs
  <2>3. CASE k > 3
    <3>1. full[k] = size(OutputAt(k)) /\ OutputAt(k) \in OutputNames
      BY <2>1, <2>3, NamesDiffer
    <3>2. CASE k \in DOMAIN list
      <4>1. OutputAt(k) \in build.outputs /\ Msize(list[k]) = SizeOf(OutputAt(k), zones, build.nt)
        BY <2>3, <3>2, ListIs
      <4>2. size(OutputAt(k)) = FullSize(OutputAt(k), build.nt)
        BY <4>1
      <4>3. /\ SizeOf(OutputAt(k), zones, build.nt) \in Nat
            /\ FullSize(OutputAt(k), build.nt) \in Nat
            /\ SizeOf(OutputAt(k), zones, build.nt) <= FullSize(OutputAt(k), build.nt) - 4
        BY <1>1, <3>1, SizesFit
      <4> HIDE DEF size, full, used
      <4> QED
        BY <2>1, <3>1, <3>2, <4>1, <4>2, <4>3
    <3>3. CASE k \notin DOMAIN list
      BY <1>2, <2>1, <3>1, <3>3
    <3> QED
      BY <3>2, <3>3
  <2> QED
    BY <2>1, <2>2, <2>3
<1>4. used \in [Entries -> Nat] /\ full \in [Entries -> Nat]
  BY <1>3
<1>5. Before(list, 13) = Total(used)
  BY DEF Before
<1>6. Total(used) \in Nat /\ Total(full) \in Nat /\ Total(used) <= Total(full)
  <2> HIDE DEF used, full
  <2> QED
    BY <1>3, <1>4, TotalGrows
<1>7. /\ full[1] = 4 /\ full[2] = 16 /\ full[3] = 8
      /\ full[4] = size("ambient") /\ full[5] = size("spads") /\ full[6] = size("targets")
      /\ full[7] = size("signal") /\ full[8] = size("sigma") /\ full[9] = size("distance")
      /\ full[10] = size("reflectance") /\ full[11] = size("status") /\ full[12] = size("motion")
  <2> HIDE DEF size
  <2> QED
    BY DEF Entries, OutputAt
<1>8. MaxResultsSize = 40 + size("ambient") + size("spads") + size("targets") + size("signal")
                       + size("sigma") + size("distance") + size("reflectance") + size("status")
                       + size("motion") + 20
  BY DEF MaxResultsSize
<1>9. MaxResultsSize = Total(full) + 32
  <2>1. /\ size("ambient") \in Nat /\ size("spads") \in Nat /\ size("targets") \in Nat
        /\ size("signal") \in Nat /\ size("sigma") \in Nat /\ size("distance") \in Nat
        /\ size("reflectance") \in Nat /\ size("status") \in Nat /\ size("motion") \in Nat
    BY <1>2 DEF OutputNames
  <2> HIDE DEF size, full
  <2> QED
    BY <1>7, <1>8, <2>1 DEF Total
<1>10. data_read_size <= MaxResultsSize /\ data_read_size \in Nat /\ MaxResultsSize \in Nat
  <2> HIDE DEF full, used
  <2>1. data_read_size = Total(used) + 32
    BY <1>5 DEF Programmed, ReadSize
  <2> QED
    BY <1>6, <1>9, <2>1
<1> QED
  BY <1>10 DEF TemporaryBufferSize

LEMMA RInvFits == RInv => PacketFits
  BY ReadSizeFits DEF RInv, PacketFits

LEMMA RInvMapped == RInv => PacketMapped
<1> SUFFICES ASSUME RInv, phase = "done"
             PROVE  /\ \A o \in DOMAIN copied : copied[o] # Nothing <=> o \in Known
                    /\ \A o \in build.outputs :
                         /\ copied[o] = IF o = "motion" THEN 140
                              ELSE zones * Width(o) * (IF o \in PerZone THEN 1 ELSE build.nt)
                         /\ copied[o] <= FullSize(o, build.nt) - 4
                         /\ o \in Converted => divided[o] = 1
                    /\ \E k \in DOMAIN packet :
                         /\ \A m \in DOMAIN packet : m <= k
                         /\ packet[k] + 4 + Msize(list[k]) = data_read_size - 20
  BY DEF PacketMapped
<1>1. Programmed /\ Walked /\ InFooter /\ walk \in Int
  BY DEF RInv
<1>2. /\ build.nt \in 1 .. 4 /\ zones \in Resolutions /\ build.outputs \subseteq OutputNames
      /\ data_read_size = Before(list, 13) + 32 /\ IsList(list)
      /\ packet = [k \in DOMAIN list |-> 12 + Before(list, k)]
  BY <1>1, ListIs DEF Programmed, ReadSize, Walked
<1>3. Before(list, 13) \in Nat
  BY <1>2, BeforeGrows
<1>4. ASSUME NEW k \in DOMAIN list
      PROVE  Passed(k)
  <2>1. k \in 1 .. 13 /\ k < 13 /\ Msize(list[k]) \in Nat
    BY <1>2 DEF IsList, Entries
  <2>2. Before(list, k) + Msize(list[k]) + 4 <= Before(list, 13) /\ Before(list, k) \in Nat
    BY <1>2, <2>1, BlocksApart, BeforeGrows
  <2>3. packet[k] < walk
    BY <1>1, <1>2, <1>3, <2>1, <2>2 DEF InFooter
  <2> QED
    BY <1>1, <2>3 DEF Walked
<1>5. ASSUME NEW o \in build.outputs
      PROVE  /\ copied[o] = SizeOf(o, zones, build.nt) /\ copied[o] \in Nat
             /\ copied[o] <= FullSize(o, build.nt) - 4
             /\ o \in Converted => divided[o] = 1
  <2>1. o # "meta" /\ o \in OutputNames
    BY <1>2 DEF OutputNames
  <2>2. PICK k \in Entries : k > 3 /\ OutputAt(k) = o
    BY <2>1, NamesDiffer
  <2>3. k \in DOMAIN list /\ list[k].name = o /\ Msize(list[k]) = SizeOf(o, zones, build.nt)
    BY <1>1, <2>2, ListIs
  <2>4. Passed(k)
    BY <1>4, <2>3
  <2>5. copied[o] = SizeOf(o, zones, build.nt)
    BY <2>1, <2>3, <2>4 DEF Passed, Known
  <2>6. o \in Converted => divided[o] = 1
    BY <2>3, <2>4 DEF Passed
  <2> QED
    BY <1>2, <2>1, <2>5, <2>6, SizesFit
<1>6. copied["meta"] = 1
  <2>1. 2 \in DOMAIN list /\ list[2].name = "meta"
    BY <1>1, ListIs, NamesDiffer
  <2> QED
    BY <1>4, <2>1 DEF Passed, Known
<1>7. \A o \in DOMAIN copied : copied[o] # Nothing <=> o \in Known
  <2>1. \A o \in Known : copied[o] # Nothing
    BY <1>5, <1>6 DEF Known, Nothing
  <2>2. \A o \in DOMAIN copied : o \notin Known => copied[o] = Nothing
    BY <1>1 DEF Walked
  <2> QED
    BY <2>1, <2>2
<1>8. \E k \in DOMAIN packet :
        /\ \A m \in DOMAIN packet : m <= k
        /\ packet[k] + 4 + Msize(list[k]) = data_read_size - 20
  <2>1. DOMAIN list \in SUBSET (1 .. 12) /\ 1 \in DOMAIN list
    BY <1>1, ListIs DEF IsList, Entries
  <2>2. PICK k \in DOMAIN list : \A m \in DOMAIN list : m <= k
    BY <2>1, Greatest
  <2>3. k \in 1 .. 12 /\ k \in 1 .. 13 /\ k + 1 \in 1 .. 13 /\ k \in Entries
    BY <2>1 DEF Entries
  <2>4. Before(list, 13) = Before(list, k + 1)
    <3>1. \A m \in DOMAIN list : ~ (k + 1 <= m /\ m < 13)
      BY <2>1, <2>2
    <3> QED
      BY <1>2, <2>3, <3>1, NoneBetween
  <2>5. Before(list, k + 1) = Before(list, k) + (Msize(list[k]) + 4)
    BY <1>2, <2>3, BeforeNext
  <2>6. Before(list, k) \in Nat /\ Msize(list[k]) \in Nat /\ packet[k] = 12 + Before(list, k)
    BY <1>2, <2>3, BeforeGrows DEF IsList
  <2>7. packet[k] + 4 + Msize(list[k]) = data_read_size - 20
    BY <1>2, <1>3, <2>4, <2>5, <2>6
  <2> QED
    BY <1>2, <2>2, <2>7
<1>9. \A o \in build.outputs :
        copied[o] = IF o = "motion" THEN 140
                    ELSE zones * Width(o) * (IF o \in PerZone THEN 1 ELSE build.nt)
  BY <1>5 DEF SizeOf
<1> QED
  BY <1>5, <1>7, <1>8, <1>9

\* The list is one that a build can make, and the walk over a packet is at the header
\* of a block, with all before it copied and nothing after it, or in the footer.
THEOREM ResultsInvariant == RSpec => []RInv
<1> QED
  BY InitRInv, StepRInv, PTL DEF RSpec

\* For any outputs that are compiled in, any resolution and any number of targets: the
\* bytes that get_ranging_data reads are at most those that the header file gives
\* temp_buffer.
THEOREM PacketsFit == RSpec => []PacketFits
  BY ResultsInvariant, RInvFits, PTL

\* For as many packets as the sensor makes: each output that is compiled in is found,
\* copied whole and converted once, and the blocks end where the footer begins.
THEOREM PacketsMapped == RSpec => []PacketMapped
  BY ResultsInvariant, RInvMapped, PTL
=============================================================================
