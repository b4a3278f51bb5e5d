--------------------------- MODULE Ranging_proofs ---------------------------
(***************************************************************************)
(* Proofs about Ranging, for packets of any number of transfers, counters  *)
(* of any width and any number of frames: a packet that passes the footer  *)
(* check is not torn, and a stop that could see the MCU's status returns 0 *)
(* only if the MCU stopped, whatever transfers fail; and without faults no *)
(* result is delivered twice or taken from an earlier session, and every   *)
(* stop that returns 0 has stopped the sensor.                             *)
(***************************************************************************)
EXTENDS Ranging, TLAPS

-----------------------------------------------------------------------------
(* Arithmetic.                                                             *)

\* A number is its quotient times the modulus plus its remainder.
LEMMA Division ==
  ASSUME NEW m \in Nat \ {0}, NEW a \in Nat
  PROVE  a = m * (a \div m) + (a % m) /\ a \div m \in Nat /\ a % m \in 0 .. m - 1
BY SMT

\* A multiple of m below m is none.
LEMMA SmallMultiple ==
  ASSUME NEW m \in Nat \ {0}, NEW p \in Int, 0 <= m * p, m * p < m
  PROVE  p = 0
BY SMT

\* Two numbers that are less than a turn apart and have the same remainder
\* are equal.  It is what makes 16-bit identifiers enough.
LEMMA SameRemainder ==
  ASSUME NEW m \in Nat \ {0}, NEW a \in Nat, NEW b \in Nat,
         a % m = b % m, a <= b, b - a < m
  PROVE  a = b
<1> DEFINE p == a \div m
           q == b \div m
<1>1. a = m * p + (a % m) /\ b = m * q + (b % m)
  BY Division
<1>2. p \in Nat /\ q \in Nat
  BY Division
<1>5. a % m \in Int
  <2>1. a % m \in 0 .. m - 1
    BY Division
  <2> QED
    BY <2>1, SMT
<1> HIDE DEF p, q
<1>3. b - a = m * (q - p) /\ q - p \in Int
  BY <1>1, <1>2, <1>5, SMT
<1>4. q - p = 0
  BY <1>3, SmallMultiple
<1> QED
  BY <1>3, <1>4, SMT

\* The stream count of a frame is one the host can hold.
LEMMA CountType ==
  ASSUME NEW f \in Frames
  PROVE  Count(f) \in Counts
<1>1. CASE f = 0
  BY <1>1, RangingAssumption DEF Count, NoCount, Counts
<1>2. CASE f # 0
  <2>1. f \in Nat
    BY RangingAssumption DEF Frames
  <2>2. f % CountMod \in 0 .. CountMod - 1
    BY <2>1, RangingAssumption, Division
  <2> QED
    BY <1>2, <2>2, RangingAssumption DEF Count, Counts
<1> QED
  BY <1>1, <1>2

-----------------------------------------------------------------------------
(* Types.                                                                  *)

\* The outcome of a write is a pair of Booleans.
LEMMA WritesType ==
  ASSUME NEW w \in Writes
  PROVE  w[1] \in BOOLEAN /\ w[2] \in BOOLEAN
<1>1. w \in {<<TRUE, FALSE>>, <<FALSE, TRUE>>, <<FALSE, FALSE>>}
  BY Zenon DEF Writes
<1>2. CASE w = <<TRUE, FALSE>>
  BY <1>2
<1>3. CASE w = <<FALSE, TRUE>>
  BY <1>3
<1>4. CASE w = <<FALSE, FALSE>>
  BY <1>4
<1> QED
  BY <1>1, <1>2, <1>3, <1>4

\* A read succeeds or fails.
LEMMA ReadsType == Reads \subseteq BOOLEAN
<1>1. (~Faults) \in BOOLEAN
  BY RangingAssumption
<1> QED
  BY <1>1 DEF Reads

\* The initial values are well typed.
LEMMA TypeInit == Init => TypeOK
<1> SUFFICES ASSUME Init
             PROVE  TypeOK
  OBVIOUS
<1> USE RangingAssumption
<1>1. 0 \in Frames /\ CountMod \in Counts /\ 0 \in 0 .. Last + 1 /\ 0 \in 0 .. MaxTries + 1
  BY DEF Frames, Counts
<1>2. temp \in [0 .. Last -> Frames \cup {Other}]
  BY <1>1 DEF Init
<1> QED
  BY <1>1, <1>2 DEF Init, TypeOK, NoCount

\* No step of the application or of the sensor leaves the types.
LEMMA TypeStep == TypeOK /\ [Next]_vars => TypeOK'
<1> SUFFICES ASSUME TypeOK, [Next]_vars
             PROVE  TypeOK'
  OBVIOUS
<1> USE RangingAssumption
<1>1. CASE Frame
  BY <1>1 DEF Frame, TypeOK, Frames, host
<1>2. CASE Halt
  BY <1>2 DEF Halt, TypeOK, host
<1>3. CASE Trigger
  BY <1>3 DEF Trigger, TypeOK, Frames, host
<1>4. CASE SetAutoStop
  <2>1. PICK v \in BOOLEAN, w \in Writes, odd \in {FALSE, page = 0} :
          /\ is_auto_stop_enabled' = v
          /\ autodev' = IF w[1] /\ page = 2 THEN v ELSE autodev
          /\ status' = (w[2] \/ odd)
    BY <1>4 DEF SetAutoStop
  <2>2. is_auto_stop_enabled' \in BOOLEAN /\ status' \in BOOLEAN
    BY <2>1
  <2>3. autodev' \in BOOLEAN
    BY <2>1, Zenon DEF TypeOK
  <2> QED
    BY <1>4, <2>2, <2>3 DEF SetAutoStop, TypeOK
<1>5. CASE Start
  <2>1. status' \in BOOLEAN
    BY <1>5 DEF Start
  <2>2. streamcount' \in Counts
    BY <1>5 DEF Start, Counts, NoCount
  <2>3. pc' = "begin" /\ ready' = FALSE /\ head' = Other /\ sensor' = sensor
    BY <1>5 DEF Start
  <2> QED
    BY <1>5, <2>1, <2>2, <2>3 DEF Start, TypeOK, sensor
<1>6. CASE StartCmd
  <2>1. PICK w0 \in Writes, w2 \in Writes, w \in Writes, odd \in BOOLEAN :
          LET starts == w[1] /\ page' = 2 /\ mcu \notin {"stopping", "halted"}
          IN /\ page' = IF w2[1] THEN 2 ELSE IF w0[1] THEN 0 ELSE page
             /\ mcu' = IF starts THEN "ranging" ELSE mcu
             /\ window' = IF starts THEN 0 ELSE window
             /\ status' = \/ status \/ w0[2] \/ w2[2] \/ w[2]
                          \/ IF page' = 2 THEN w[1] /\ ~starts ELSE odd
    BY <1>6 DEF StartCmd
  <2>2. mcu' \in {"idle", "ranging", "stopping", "halted", "auto"}
    BY <2>1 DEF TypeOK
  <2>3. window' \in Frames /\ page' \in {0, 2}
    BY <2>1 DEF TypeOK, Frames
  <2>4. status' \in BOOLEAN
    BY <2>1
  <2>5. got' \in Frames \cup {Other}
    BY <1>6 DEF StartCmd, TypeOK
  <2> QED
    BY <1>6, <2>2, <2>3, <2>4, <2>5 DEF StartCmd, TypeOK
<1>7. CASE StartVerify
  <2>1. status' \in BOOLEAN
    BY <1>7 DEF StartVerify
  <2> QED
    BY <1>7, <2>1 DEF StartVerify, TypeOK, sensor
<1>8. CASE Check
  <2>1. ready' \in BOOLEAN
    BY <1>8 DEF Check, Judge
  <2>2. streamcount' \in Counts
    BY <1>8, CountType DEF Check, Judge, TypeOK
  <2> QED
    BY <1>8, <2>1, <2>2 DEF Check, TypeOK, sensor
<1>9. CASE CheckFails
  <2>1. ready' \in BOOLEAN
    BY <1>9 DEF CheckFails, Judge
  <2>2. streamcount' \in Counts
    BY <1>9, CountType DEF CheckFails, Judge, TypeOK
  <2> QED
    BY <1>9, <2>1, <2>2 DEF CheckFails, TypeOK, sensor
<1>10. CASE Get
  <2>1. chunk' \in 0 .. Last + 1
    BY <1>10 DEF Get
  <2> QED
    BY <1>10, <2>1 DEF Get, TypeOK, sensor
<1>11. CASE GetChunk
  <2>1. Shown \in Frames \cup {Other}
    BY DEF Shown, TypeOK
  <2>2. temp' \in [0 .. Last -> Frames \cup {Other}]
    BY <1>11, <2>1 DEF GetChunk, TypeOK
  <2>3. head' \in Frames \cup {Swapped, Other}
    BY <1>11, <2>1 DEF GetChunk, TypeOK
  <2> QED
    BY <1>11, <2>2, <2>3 DEF GetChunk, TypeOK, sensor
<1>12. CASE GetFails
  BY <1>12 DEF GetFails, TypeOK, sensor
<1>13. CASE GetEnd
  <2>1. streamcount' \in Counts
    BY <1>13, CountType DEF GetEnd
  <2>2. status' \in BOOLEAN
    BY <1>13 DEF GetEnd
  <2> QED
    BY <1>13, <2>1, <2>2 DEF GetEnd, TypeOK, sensor
<1>14. CASE Use
  <2>1. got' \in Frames \cup {Other}
    BY <1>14 DEF Use, TypeOK
  <2> QED
    BY <1>14, <2>1 DEF Use, TypeOK, sensor
<1>15. CASE Stop
  <2>1. pc' \in {"ask", "check"} /\ status' \in BOOLEAN /\ tries' \in 0 .. MaxTries + 1
    BY <1>15 DEF Stop
  <2>2. tries' <= MaxTries
    BY <1>15 DEF Stop
  <2> QED
    BY <1>15, <2>1, <2>2 DEF Stop, TypeOK, sensor
<1>16. CASE StopPoll
  <2>1. tries' = tries + 1 /\ tries \in 0 .. MaxTries
    BY <1>16 DEF StopPoll, TypeOK
  <2>2. PICK ok \in Reads, bit7 \in StoppedBit, low \in {TRUE, page = 0} :
          LET late == tries + 1 > MaxTries
          IN /\ pc' = IF (ok /\ bit7) \/ late THEN "check" ELSE "poll"
             /\ status' = (status \/ ~ok \/ (late /\ (bit7 \/ low)))
    BY <1>16 DEF StopPoll
  <2>3. pc' \in {"poll", "check"} /\ (pc' = "poll" => ~(tries + 1 > MaxTries))
    BY <2>2
  <2>4. status' \in BOOLEAN
    BY <2>2
  <2>5. tries' \in 0 .. MaxTries + 1 /\ (pc' \in {"ask", "poll"} => tries' <= MaxTries)
    BY <2>1, <2>3, SMT
  <2> QED
    BY <1>16, <2>3, <2>4, <2>5 DEF StopPoll, TypeOK, sensor
<1>17. CASE StopCheck
  <2>1. status' \in BOOLEAN
    BY <1>17 DEF StopCheck
  <2> QED
    BY <1>17, <2>1 DEF StopCheck, TypeOK, sensor
<1>18. CASE StopUndo
  <2>1. PICK w0 \in Writes, w14 \in Writes, w15 \in Writes, w2 \in Writes,
             gone \in BOOLEAN :
          LET away == gone /\ (w0[1] \/ page = 0)
          IN /\ gone \in {w14[1], w15[1]}
             /\ \/ away /\ mcu \in {"halted", "auto", "stopping"} /\ mcu' = "idle"
                \/ away /\ mcu = "stopping" /\ mcu' = "ranging"
                \/ (~away \/ mcu \in {"idle", "ranging"}) /\ UNCHANGED mcu
             /\ page' = IF w2[1] THEN 2 ELSE IF w0[1] THEN 0 ELSE page
             /\ status' = (status \/ w0[2] \/ w14[2] \/ w15[2] \/ w2[2])
    BY <1>18, Zenon DEF StopUndo
  <2>2. mcu' \in {"idle", "ranging", "stopping", "halted", "auto"}
    BY <2>1 DEF TypeOK
  <2>3. page' \in {0, 2} /\ status' \in BOOLEAN
    BY <2>1 DEF TypeOK
  <2> QED
    BY <1>18, <2>2, <2>3 DEF StopUndo, TypeOK
<1>19. CASE UNCHANGED vars
  BY <1>19 DEF vars, sensor, host, TypeOK
<1>20. CASE CheckOther
  BY <1>20 DEF CheckOther, TypeOK, sensor
<1>21. CASE StopAsk
  <2>1. PICK w0 \in Writes, w15 \in Writes, w14 \in Writes, asked \in BOOLEAN :
          /\ page' = IF w0[1] THEN 0 ELSE page
          /\ mcu' = IF asked /\ page' = 0 /\ mcu = "ranging" THEN "stopping" ELSE mcu
          /\ status' = (status \/ w0[2] \/ w15[2] \/ w14[2])
    BY <1>21 DEF StopAsk
  <2>2. page' \in {0, 2} /\ status' \in BOOLEAN
    BY <2>1 DEF TypeOK
  <2>3. mcu' \in {"idle", "ranging", "stopping", "halted", "auto"}
    BY <2>1 DEF TypeOK
  <2>4. pc' = "poll" /\ tries' = tries /\ tries <= MaxTries
    BY <1>21 DEF StopAsk, TypeOK
  <2> QED
    BY <1>21, <2>2, <2>3, <2>4 DEF StopAsk, TypeOK
<1> QED
  BY <1>1, <1>2, <1>3, <1>4, <1>5, <1>6, <1>7, <1>8, <1>9, <1>10, <1>11, <1>12,
     <1>13, <1>14, <1>15, <1>16, <1>17, <1>18, <1>19, <1>20, <1>21
     DEF Next, Sensor, Run, Poll

-----------------------------------------------------------------------------
(* Packets.                                                                *)

\* The footer check is enough: if the first and the last transfer are of one
\* frame, so are those between them.
LEMMA WholePacket ==
  ASSUME TypeOK, Order, chunk = Last + 1, Id(temp[0]) = Id(temp[Last])
  PROVE  temp[0] \in Frames /\ \A c \in 0 .. Last : temp[c] = temp[0]
<1> USE RangingAssumption
<1>1. 0 \in 0 .. Last /\ Last \in 0 .. Last /\ Last < chunk /\ chunk > 0
  OBVIOUS
<1>2. \A c \in 0 .. Last : temp[c] \in Frames /\ temp[c] \in Nat
  <2>1. \A c \in 0 .. Last : c < chunk
    OBVIOUS
  <2> QED
    BY <2>1 DEF Order, Frames
<1>3. window \in Nat
  BY DEF TypeOK, Frames
<1>4. temp[0] <= temp[Last] /\ temp[Last] <= window /\ window - temp[0] < IdMod
  BY <1>1 DEF Order
<1>5. temp[Last] - temp[0] < IdMod
  BY <1>1, <1>2, <1>3, <1>4, SMT
<1>6. temp[0] = temp[Last]
  BY <1>1, <1>2, <1>4, <1>5, SameRemainder DEF Id
<1>7. ASSUME NEW c \in 0 .. Last
      PROVE  temp[c] = temp[0]
  <2>1. temp[0] <= temp[c] /\ temp[c] <= temp[Last]
    BY <1>1 DEF Order
  <2>2. temp[c] \in Nat /\ temp[0] \in Nat
    BY <1>1, <1>2
  <2> QED
    BY <1>6, <2>1, <2>2, SMT
<1> QED
  BY <1>1, <1>2, <1>7

\* A new packet in the window, less than a turn after the first transfer.
LEMMA OrderFrame ==
  ASSUME TypeOK, Order, pc = "get", page = 2, window <= frame,
         Reading => frame + 1 - temp[0] < IdMod,
         window' = frame + 1, temp' = temp, chunk' = chunk
  PROVE  Order'
<1> USE RangingAssumption
<1>1. \A c \in 0 .. Last : c < chunk => temp[c] \in Nat /\ temp[c] \in Frames
  BY DEF Order, Frames
<1>2. window \in Nat /\ frame \in Nat /\ chunk \in Nat /\ 0 \in 0 .. Last
  BY DEF TypeOK, Frames
<1>3. ASSUME NEW c \in 0 .. Last, c < chunk
      PROVE  temp[0] <= temp[c] /\ temp[c] <= frame + 1
  <2>1. temp[0] <= temp[c] /\ temp[c] <= window /\ temp[c] \in Nat /\ temp[0] \in Nat
    BY <1>1, <1>2, <1>3 DEF Order
  <2> QED
    BY <2>1, <1>2, SMT
<1>4. chunk > 0 => frame + 1 - temp[0] < IdMod
  BY DEF Reading
<1>5. ASSUME chunk' > 0
      PROVE  window' - temp'[0] < IdMod
  <2>1. frame + 1 - temp[0] < IdMod
    BY <1>4, <1>5
  <2>2. temp[0] \in Nat
    BY <1>1, <1>2, <1>5
  <2> QED
    BY <2>1, <2>2, <1>2, SMT
<1>6. \A c, d \in 0 .. Last : c <= d /\ d < chunk' => temp'[c] <= temp'[d]
  BY DEF Order
<1>7. \A c \in 0 .. Last :
        c < chunk' => temp'[c] \in Frames' /\ temp'[0] <= temp'[c] /\ temp'[c] <= window'
  BY <1>1, <1>3 DEF Frames
<1> QED
  BY <1>5, <1>6, <1>7 DEF Order

\* One more transfer, of the packet that is in the window now.
LEMMA OrderChunk ==
  ASSUME TypeOK, Order, page = 2, GetChunk
  PROVE  Order'
<1> USE RangingAssumption
<1>1. /\ temp' = [temp EXCEPT ![chunk] = window]
      /\ chunk' = chunk + 1 /\ window' = window /\ chunk \in 0 .. Last
  <2>1. chunk \in Nat
    BY DEF TypeOK
  <2> QED
    BY <2>1 DEF GetChunk, Shown, sensor
<1>2. /\ window \in Nat /\ window \in Frames
      /\ \A c \in 0 .. Last : c # chunk => temp'[c] = temp[c]
      /\ temp'[chunk] = window
  BY <1>1 DEF TypeOK, Frames
<1>3. \A c \in 0 .. Last : c < chunk => temp[c] <= window /\ temp[c] \in Frames
  BY DEF Order
<1>4. ASSUME NEW c \in 0 .. Last, NEW d \in 0 .. Last, c <= d, d < chunk'
      PROVE  temp'[c] <= temp'[d]
  <2>1. CASE d < chunk
    <3>1. temp[c] <= temp[d]
      BY <1>4, <2>1 DEF Order
    <3>2. c # chunk /\ d # chunk
      BY <1>1, <1>4, <2>1
    <3> QED
      BY <3>1, <3>2, <1>2
  <2>2. CASE d = chunk
    <3>1. CASE c = chunk
      BY <2>2, <3>1, <1>2
    <3>2. CASE c # chunk
      <4>1. c < chunk
        BY <1>1, <1>4, <2>2, <3>2
      <4> QED
        BY <4>1, <1>2, <1>3, <2>2, <3>2
    <3> QED
      BY <3>1, <3>2
  <2> QED
    BY <1>1, <1>4, <2>1, <2>2, SMT
<1>5. ASSUME NEW c \in 0 .. Last, c < chunk'
      PROVE  temp'[c] \in Frames /\ temp'[0] <= temp'[c] /\ temp'[c] <= window'
  <2>1. temp'[0] <= temp'[c]
    BY <1>4, <1>5
  <2>2. temp'[c] <= window /\ temp'[c] \in Frames
    <3>1. CASE c = chunk
      BY <3>1, <1>2
    <3>2. CASE c # chunk
      <4>1. c < chunk
        BY <1>1, <1>5, <3>2
      <4> QED
        BY <4>1, <1>2, <1>3, <3>2
    <3> QED
      BY <3>1, <3>2
  <2> QED
    BY <2>1, <2>2, <1>1
<1>6. window' - temp'[0] < IdMod
  <2>1. CASE chunk = 0
    BY <2>1, <1>1, <1>2
  <2>2. CASE chunk # 0
    <3>1. chunk > 0 /\ 0 \in 0 .. Last
      BY <2>2, <1>1
    <3>2. temp'[0] = temp[0]
      BY <3>1, <2>2, <1>2
    <3> QED
      BY <3>1, <3>2, <1>1 DEF Order
  <2> QED
    BY <2>1, <2>2
<1>7. Frames' = Frames
  BY DEF Frames
<1> QED
  BY <1>4, <1>5, <1>6, <1>7 DEF Order

\* The steps of a session that are not of a packet on its way: the sensor shows
\* the same frame, or none.
LEMMA NotReading ==
  ASSUME [Next]_vars, pc' \notin {"get", "got"}
  PROVE  (frame' = frame /\ window' \in {0, window}) \/ Frame \/ Trigger
BY DEF Next, Sensor, Halt, Run, Poll, SetAutoStop, Start, StartCmd, StartVerify, Check,
   CheckOther, CheckFails, Get, GetChunk, GetFails, GetEnd, Use, Stop, StopAsk, StopPoll,
   StopCheck, StopUndo, vars, sensor, host

\* The sensor's steps, and every step of the application.
LEMMA WindowStep == WindowInv /\ [Next]_vars => WindowInv'
<1> SUFFICES ASSUME WindowInv, [Next]_vars
             PROVE  WindowInv'
  OBVIOUS
<1> USE RangingAssumption
<1>1. TypeOK /\ window <= frame
  BY DEF WindowInv
<1>2. page = 2 => (pc = "get" /\ ~status => Order) /\ NoTornResult
  BY DEF WindowInv
<1>3. TypeOK'
  BY <1>1, TypeStep
<1>4. frame \in Nat /\ window \in Nat /\ Frames' = Frames
  BY <1>1 DEF TypeOK, Frames
<1> SUFFICES /\ window' <= frame'
             /\ page' = 2 => (pc' = "get" /\ ~status' => Order') /\ NoTornResult'
  BY <1>3 DEF WindowInv
<1>5. CASE Frame \/ Trigger
  <2>1. /\ window' = frame + 1 /\ frame' = frame + 1 /\ page' = page
        /\ temp' = temp /\ chunk' = chunk /\ pc' = pc /\ status' = status
        /\ Reading => frame + 1 - temp[0] < IdMod
    BY <1>5 DEF Frame, Trigger, host
  <2>2. window' <= frame'
    BY <2>1, <1>4
  <2>3. page' = 2 /\ pc' = "get" /\ ~status' => Order'
    BY <2>1, <1>1, <1>2, OrderFrame
  <2>4. page' = 2 => NoTornResult'
    BY <2>1, <1>2, <1>4 DEF NoTornResult
  <2> QED
    BY <2>2, <2>3, <2>4
<1>6. CASE GetChunk
  <2>1. /\ window' = window /\ frame' = frame /\ pc' = "get" /\ pc = "get"
        /\ status' = status /\ page' = page
    BY <1>6 DEF GetChunk, sensor
  <2>2. page = 2 /\ ~status' => Order'
    BY <2>1, <1>1, <1>2, <1>6, OrderChunk
  <2> QED
    BY <2>1, <2>2, <1>1 DEF NoTornResult
<1>7. CASE GetEnd
  <2>1. /\ window' = window /\ frame' = frame /\ pc = "get" /\ pc' = "got"
        /\ temp' = temp /\ chunk = Last + 1 /\ page' = page
    BY <1>7 DEF GetEnd, sensor
  <2>2. page = 2 /\ ~status' => ~status /\ Id(temp[0]) = Id(temp[Last])
    BY <1>7 DEF GetEnd, Mismatch
  <2>3. page = 2 /\ ~status' => temp[0] \in Frames /\ \A c \in 0 .. Last : temp[c] = temp[0]
    BY <2>1, <2>2, <1>1, <1>2, WholePacket
  <2> QED
    BY <2>1, <2>3, <1>1, <1>4 DEF NoTornResult
<1>8. CASE Get
  <2>1. /\ window' = window /\ frame' = frame /\ pc' = "get" /\ chunk' = 0
    BY <1>8 DEF Get, sensor
  <2>2. Order'
    BY <2>1 DEF Order
  <2> QED
    BY <2>1, <2>2, <1>1 DEF NoTornResult
<1>9. CASE GetFails
  BY <1>9, <1>1 DEF GetFails, sensor, NoTornResult
<1>10. CASE Halt \/ UNCHANGED vars
  <2>1. /\ pc' = pc /\ window' = window /\ frame' = frame /\ status' = status
        /\ temp' = temp /\ chunk' = chunk /\ page' = page
    BY <1>10 DEF Halt, vars, sensor, host
  <2> QED
    BY <2>1, <1>1, <1>2, <1>4 DEF NoTornResult, Order
<1>11. CASE pc' \notin {"get", "got"}
  <2>1. (frame' = frame /\ window' \in {0, window}) \/ Frame \/ Trigger
    BY <1>11, NotReading
  <2> QED
    BY <2>1, <1>1, <1>4, <1>5, <1>11 DEF NoTornResult
<1>12. SetAutoStop \/ Start \/ StartCmd \/ StartVerify \/ Use \/ Stop \/ StopAsk
       \/ StopPoll \/ StopCheck \/ StopUndo \/ Check \/ CheckOther \/ CheckFails
         => pc' \notin {"get", "got"}
  BY DEF SetAutoStop, Start, StartCmd, StartVerify, Use, Stop, StopAsk, StopPoll,
     StopCheck, StopUndo, Check, CheckOther, CheckFails
<1> QED
  BY <1>5, <1>6, <1>7, <1>8, <1>9, <1>10, <1>11, <1>12 DEF Next, Sensor, Run, Poll

\* While page 0 is selected no packet is announced: start_ranging left an answer in
\* temp_buffer, and nothing that is read on page 0 looks like a packet.
LEMMA PageStep ==
  ASSUME TypeOK, PageInv, [Next]_vars
  PROVE  PageInv'
<1>1. CASE Sensor
  <2>1. page' = page /\ pc' = pc /\ head' = head /\ ready' = ready
    BY <1>1 DEF Sensor, Frame, Halt, Trigger, host
  <2> QED
    BY <2>1 DEF PageInv
<1>2. CASE SetAutoStop \/ Start \/ StopAsk \/ StopPoll \/ StopCheck \/ StopUndo \/ Stop
  BY <1>2 DEF SetAutoStop, Start, StopAsk, StopPoll, StopCheck, StopUndo, Stop, sensor, PageInv
<1>3. CASE StartCmd
  BY <1>3 DEF StartCmd, PageInv
<1>4. CASE StartVerify \/ Check \/ CheckOther
  BY <1>4 DEF StartVerify, Check, CheckOther, sensor, PageInv
<1>5. CASE CheckFails
  <2>1. pc = "on" /\ pc' = "on" /\ page' = page /\ head' = head
    BY <1>5 DEF CheckFails, sensor
  <2>2. Other \notin Frames /\ Other # Swapped
    BY RangingAssumption DEF Other, Swapped, Frames
  <2>3. head = Other => ready' = FALSE
    BY <1>5, <2>2 DEF CheckFails
  <2> QED
    BY <2>1, <2>3 DEF PageInv
<1>6. CASE Get
  <2>1. pc = "on" /\ ready /\ pc' = "get" /\ page' = page
    BY <1>6 DEF Get, sensor
  <2>2. page = 2
    BY <2>1 DEF PageInv, TypeOK
  <2> QED
    BY <2>1, <2>2 DEF PageInv
<1>7. CASE GetChunk \/ GetFails \/ GetEnd
  BY <1>7 DEF GetChunk, GetFails, GetEnd, sensor, PageInv
<1>8. CASE Use
  BY <1>8 DEF Use, sensor, PageInv
<1>9. CASE UNCHANGED vars
  BY <1>9 DEF vars, sensor, host, PageInv
<1> QED
  BY <1>1, <1>2, <1>3, <1>4, <1>5, <1>6, <1>7, <1>8, <1>9 DEF Next, Run, Poll

\* Together.
LEMMA PacketStep == PacketInv /\ [Next]_vars => PacketInv'
  BY WindowStep, PageStep DEF PacketInv, WindowInv

\* No packet is on its way at first.
LEMMA PacketInit == Init => PacketInv
<1> SUFFICES ASSUME Init
             PROVE  PacketInv
  OBVIOUS
<1>1. TypeOK
  BY TypeInit
<1>2. pc = "off" /\ window = 0 /\ frame = 0
  BY DEF Init
<1> QED
  BY <1>1, <1>2 DEF PacketInv, WindowInv, PageInv, NoTornResult

\* PacketInv holds in every reachable state, with and without faults.
THEOREM PacketInvariant == SafeSpec => []PacketInv
  BY PacketInit, PacketStep, PTL DEF SafeSpec

\* A result that get_ranging_data gives with status 0 is of one frame: the
\* footer check of the code finds every torn packet, however many transfers
\* the platform cuts it in and whichever of them fail.
THEOREM ResultsAreWhole == SafeSpec => []NoTornResult
<1>1. PacketInv => NoTornResult
  BY DEF PacketInv, WindowInv, PageInv, NoTornResult
<1> QED
  BY <1>1, PacketInvariant, PTL

-----------------------------------------------------------------------------
(* Results, when no transfer fails.                                        *)

\* Every write arrives, and no step of a failing read is possible.
LEMMA NoFaults ==
  ASSUME ~Faults
  PROVE  /\ \A w \in Writes : w[1] = TRUE
         /\ ~CheckFails /\ ~GetFails
<1>1. Writes = {<<TRUE, FALSE>>}
  BY Zenon DEF Writes
<1> QED
  BY <1>1 DEF CheckFails, GetFails

\* The MCU is held stopped only while stop_ranging runs.
LEMMA HeldStep ==
  ASSUME ~Faults, Held, [Next]_vars
  PROVE  Held'
<1>1. CASE Frame \/ Halt \/ Trigger
  BY <1>1 DEF Frame, Halt, Trigger, host, Held
<1>2. CASE SetAutoStop
  BY <1>2 DEF SetAutoStop, Held
<1>3. CASE Start \/ StartVerify \/ Check \/ CheckOther \/ Get \/ GetChunk \/ GetEnd \/ Use
  BY <1>3 DEF Start, StartVerify, Check, CheckOther, Get, GetChunk, GetEnd, Use, sensor, Held
<1>4. CASE StartCmd
  BY <1>4 DEF StartCmd, Held
<1>5. CASE Stop
  BY <1>5 DEF Stop, sensor, Held
<1>6. CASE StopAsk
  BY <1>6 DEF StopAsk, Held
<1>7. CASE StopPoll
  <2>1. pc' \in {"poll", "check"}
    BY <1>7 DEF StopPoll
  <2> QED
    BY <2>1 DEF Held
<1>8. CASE StopCheck
  BY <1>8 DEF StopCheck, Held
<1>9. CASE StopUndo
  <2>1. PICK w0 \in Writes, w14 \in Writes, w15 \in Writes, w2 \in Writes,
             gone \in BOOLEAN :
          LET away == gone /\ (w0[1] \/ page = 0)
          IN /\ gone \in {w14[1], w15[1]}
             /\ \/ away /\ mcu \in {"halted", "auto", "stopping"} /\ mcu' = "idle"
                \/ away /\ mcu = "stopping" /\ mcu' = "ranging"
                \/ (~away \/ mcu \in {"idle", "ranging"}) /\ UNCHANGED mcu
    BY <1>9, Zenon DEF StopUndo
  <2>2. w0[1] = TRUE /\ w14[1] = TRUE /\ w15[1] = TRUE
    BY NoFaults
  <2>3. mcu' \notin {"stopping", "halted"}
    BY <2>1, <2>2
  <2> QED
    BY <2>3 DEF Held
<1>10. CASE UNCHANGED vars
  BY <1>10 DEF vars, sensor, host, Held
<1> QED
  BY <1>1, <1>2, <1>3, <1>4, <1>5, <1>6, <1>7, <1>8, <1>9, <1>10, NoFaults
     DEF Next, Sensor, Run, Poll

\* A new packet in the window is newer than any result, hence it has no say in
\* what the stream count must be.
LEMMA FreshFrame ==
  ASSUME FreshInv, TypeOK', Held',
         window' = frame + 1, frame' = frame + 1, page' = page, UNCHANGED host
  PROVE  FreshInv'
<1> USE RangingAssumption
<1>1. frame \in Nat /\ got \in Nat /\ window \in Nat
  BY DEF FreshInv, TypeOK, Frames
<1>2. /\ window' # got' /\ window' > got' /\ window' >= got'
      /\ got' <= frame' /\ window' <= frame'
  BY <1>1 DEF FreshInv, host
<1>3. temp[0] <= window /\ temp[0] \in Frames => temp[0] <= window'
  BY <1>1 DEF Frames, FreshInv
<1>4. Frames' = Frames
  BY DEF Frames
<1> QED
  BY <1>2, <1>3, <1>4 DEF FreshInv, host

\* Every step keeps FreshInv if no transfer fails.
LEMMA FreshStep ==
  ASSUME ~Faults, FreshInv, [Next]_vars
  PROVE  FreshInv'
<1> USE RangingAssumption
<1>1. TypeOK /\ TypeOK' /\ Held'
  BY TypeStep, HeldStep DEF FreshInv
<1>2. frame \in Nat /\ got \in Nat /\ got \in Frames /\ window \in Nat /\ Frames' = Frames
  BY <1>1 DEF TypeOK, Frames, FreshInv
<1>3. \A f \in Frames : f \in Nat
  BY DEF Frames
<1>4. CASE Frame \/ Trigger
  BY <1>1, <1>4, FreshFrame DEF Frame, Trigger
<1>5. CASE Halt
  BY <1>1, <1>2, <1>5 DEF Halt, host, FreshInv
<1>6. CASE SetAutoStop
  <2>1. /\ pc = "off" /\ pc' = pc /\ window' = window /\ frame' = frame /\ got' = got
        /\ page' = page
    BY <1>6 DEF SetAutoStop
  <2> QED
    BY <1>1, <1>2, <2>1 DEF FreshInv
<1>7. CASE Start
  <2>1. /\ pc = "off" /\ pc' = "begin" /\ ~ready' /\ page' = page
        /\ window' = window /\ frame' = frame /\ got' = got
    BY <1>7 DEF Start, sensor
  <2> QED
    BY <1>1, <1>2, <2>1 DEF FreshInv
<1>8. CASE StartCmd
  <2>1. /\ pc' = "verify" /\ got' = frame /\ frame' = frame
        /\ mcu \notin {"stopping", "halted"} /\ ready' = ready /\ ~ready
    BY <1>8 DEF StartCmd, FreshInv, Held
  <2>2. PICK w2 \in Writes, w \in Writes :
          /\ page' = 2 \/ ~w2[1]
          /\ window' = IF w[1] /\ page' = 2 /\ mcu \notin {"stopping", "halted"}
                       THEN 0 ELSE window
    BY <1>8 DEF StartCmd
  <2>3. window' = 0 /\ page' = 2
    BY <2>1, <2>2, NoFaults
  <2>4. frame \in Frames
    BY <1>1 DEF TypeOK
  <2> QED
    BY <1>1, <1>2, <2>1, <2>3, <2>4 DEF FreshInv
<1>9. CASE StartVerify
  BY <1>1, <1>2, <1>9 DEF StartVerify, sensor, FreshInv
<1>10. CASE Check
  <2>1. /\ pc = "on" /\ pc' = "on" /\ ~ready /\ temp' = temp /\ page' = page
        /\ window' = window /\ frame' = frame /\ got' = got
        /\ ready' = (window # 0 /\ Count(window) # streamcount)
        /\ streamcount' = IF ready' THEN Count(window) ELSE streamcount
    BY <1>10 DEF Check, Judge, sensor
  <2>2. ready' => window > got
    BY <2>1, <1>2 DEF FreshInv
  <2>3. window' = got' /\ window' # 0 => streamcount' = Count(window')
    BY <2>1, <1>2 DEF FreshInv
  <2> QED
    BY <1>1, <1>2, <2>1, <2>2, <2>3 DEF FreshInv
<1>11. CASE Get
  BY <1>1, <1>2, <1>11 DEF Get, sensor, FreshInv
<1>12. CASE GetChunk
  <2>1. /\ pc = "get" /\ pc' = "get" /\ ready' = ready /\ chunk' = chunk + 1
        /\ window' = window /\ frame' = frame /\ got' = got
        /\ temp' = [temp EXCEPT ![chunk] = window]
        /\ head' = IF chunk = 0 THEN window ELSE head
        /\ chunk \in 0 .. Last /\ page' = page
    <3>1. page = 2
      BY <1>12 DEF GetChunk, FreshInv
    <3> QED
      BY <1>1, <1>12, <3>1 DEF GetChunk, Shown, sensor, TypeOK
  <2>2. ready /\ window > got
    BY <2>1 DEF FreshInv
  <2>3. head' = temp'[0] /\ temp'[0] \in Frames /\ got < temp'[0] /\ temp'[0] <= window
    <3>1. CASE chunk = 0
      BY <2>1, <2>2, <3>1, <1>1, <1>2 DEF TypeOK
    <3>2. CASE chunk # 0
      <4>1. chunk > 0 /\ temp'[0] = temp[0] /\ head' = head
        BY <2>1, <3>2, <1>1 DEF TypeOK
      <4> QED
        BY <4>1, <2>1 DEF FreshInv
    <3> QED
      BY <3>1, <3>2
  <2> QED
    BY <1>1, <1>2, <2>1, <2>2, <2>3 DEF FreshInv
<1>13. CASE GetEnd
  <2>1. /\ pc = "get" /\ pc' = "got" /\ chunk = Last + 1 /\ temp' = temp /\ page' = page
        /\ window' = window /\ frame' = frame /\ got' = got
        /\ head \in Frames => streamcount' = Count(head)
    BY <1>13 DEF GetEnd, sensor
  <2>2. head = temp[0] /\ temp[0] \in Frames /\ got < temp[0] /\ temp[0] <= window
    BY <2>1 DEF FreshInv
  <2> QED
    BY <1>1, <1>2, <2>1, <2>2 DEF FreshInv
<1>14. CASE Use
  <2>1. /\ pc = "got" /\ pc' = "on" /\ ~ready' /\ streamcount' = streamcount /\ page' = page
        /\ window' = window /\ frame' = frame
        /\ got' = IF status THEN got ELSE temp[0]
    BY <1>14 DEF Use, sensor
  <2>2. /\ streamcount = Count(temp[0]) /\ got < temp[0] /\ temp[0] <= window
        /\ window <= frame /\ temp[0] \in Frames
    BY <2>1 DEF FreshInv
  <2>3. /\ got' \in Frames /\ got' <= frame' /\ window' >= got'
        /\ window' = got' => streamcount' = Count(window')
    <3>1. temp[0] \in Nat
      BY <1>3, <2>2
    <3>2. CASE status
      BY <1>2, <2>1, <2>2, <3>1, <3>2
    <3>3. CASE ~status
      BY <1>2, <2>1, <2>2, <3>1, <3>3
    <3> QED
      BY <3>2, <3>3
  <2> QED
    BY <1>1, <1>2, <2>1, <2>2, <2>3 DEF FreshInv
<1>15. CASE Stop \/ StopAsk \/ StopPoll
  <2>1. /\ pc' \in {"ask", "poll", "check"} /\ pc \in {"on", "ask", "poll"}
        /\ window' = window /\ frame' = frame /\ got' = got
    BY <1>15 DEF Stop, StopAsk, StopPoll, sensor
  <2>2. pc' = "ask" => page' = 2
    BY <1>15 DEF Stop, StopAsk, StopPoll, sensor, FreshInv
  <2> QED
    BY <1>1, <1>2, <2>1, <2>2 DEF FreshInv
<1>16. CASE StopCheck \/ StopUndo
  <2>1. /\ pc' \in {"undo", "off"} /\ pc \in {"check", "undo"}
        /\ window' = window /\ frame' = frame /\ got' = got
    BY <1>16 DEF StopCheck, StopUndo, sensor
  <2>2. pc' = "off" => page' = 2
    <3>1. ASSUME StopUndo
          PROVE  page' = 2
      <4>1. PICK w2 \in Writes : page' = 2 \/ ~w2[1]
        BY <3>1 DEF StopUndo
      <4> QED
        BY <4>1, NoFaults
    <3> QED
      BY <1>16, <3>1 DEF StopCheck
  <2> QED
    BY <1>1, <1>2, <2>1, <2>2 DEF FreshInv
<1>17. CASE UNCHANGED vars
  BY <1>1, <1>2, <1>17 DEF vars, sensor, host, FreshInv
<1>18. CASE CheckOther
  BY <1>18 DEF CheckOther, FreshInv
<1> QED
  BY <1>4, <1>5, <1>6, <1>7, <1>8, <1>9, <1>10, <1>11, <1>12, <1>13, <1>14,
     <1>15, <1>16, <1>17, <1>18, NoFaults DEF Next, Sensor, Run, Poll

\* FreshInv holds in every reachable state if no transfer fails.
THEOREM FreshInvariant ==
  ASSUME ~Faults
  PROVE  SafeSpec => []FreshInv
<1>1. Init => FreshInv
  <2> SUFFICES ASSUME Init
               PROVE  FreshInv
    OBVIOUS
  <2>1. TypeOK
    BY TypeInit
  <2>2. /\ pc = "off" /\ window = 0 /\ frame = 0 /\ got = 0 /\ mcu = "idle" /\ page = 2
        /\ 0 \in Frames
    BY RangingAssumption DEF Init, Frames
  <2> QED
    BY <2>1, <2>2 DEF FreshInv, Held
<1>2. FreshInv /\ [Next]_vars => FreshInv'
  BY FreshStep
<1> QED
  BY <1>1, <1>2, PTL DEF SafeSpec

\* If no transfer fails, a valid result is newer than every one before it and
\* was measured in this session, although the 8-bit stream count wraps and a
\* wrapped count may hide a frame from check_data_ready.
THEOREM ResultsAreFresh ==
  ASSUME ~Faults
  PROVE  SafeSpec => []FreshResults
<1>1. FreshInv => FreshResults
  <2> SUFFICES ASSUME FreshInv, pc = "got"
               PROVE  temp[0] > got
    BY DEF FreshResults
  <2>1. temp[0] \in Frames /\ got \in Frames /\ got < temp[0]
    BY RangingAssumption DEF FreshInv, TypeOK
  <2> QED
    BY <2>1, RangingAssumption DEF Frames
<1> QED
  BY <1>1, FreshInvariant, PTL

\* If no transfer fails, check_data_ready announces only packets that were not taken yet.
\* (The kernel's interrupt does not keep this promise: see KernelRanging.)
THEOREM PollingTellsNew ==
  ASSUME ~Faults
  PROVE  SafeSpec => []ReadyMeansNew
<1>1. FreshInv => ReadyMeansNew
  BY DEF FreshInv, ReadyMeansNew
<1> QED
  BY <1>1, FreshInvariant, PTL

-----------------------------------------------------------------------------
(* Stopping.                                                               *)

\* A stop that asked, and reads the status registers, has seen the MCU stopped if
\* nothing failed so far.
StopInv ==
  /\ TypeOK
  /\ pc \in {"check", "undo"} /\ ~status /\ tries > 0 /\ page = 0
       => mcu \notin {"ranging", "stopping"}

\* The sensor does not start by itself.
LEMMA StopSensor ==
  ASSUME StopInv, Sensor
  PROVE  StopInv'
<1>1. TypeOK'
  BY TypeStep DEF StopInv, Next
<1>2. /\ pc' = pc /\ status' = status /\ tries' = tries /\ page' = page
      /\ mcu' = mcu \/ mcu' \in {"halted", "auto"}
  BY DEF Sensor, Frame, Halt, Trigger, host
<1> QED
  BY <1>1, <1>2 DEF StopInv

\* The calls of a session keep the invariant.
LEMMA StopStep ==
  ASSUME StopInv, [Next]_vars
  PROVE  StopInv'
<1>1. TypeOK'
  BY TypeStep DEF StopInv
<1>2. CASE Sensor
  BY <1>2, StopSensor
<1>3. CASE SetAutoStop \/ Start \/ StartCmd \/ StartVerify \/ Poll \/ Get \/ GetChunk
           \/ GetFails \/ GetEnd \/ Use \/ StopAsk \/ StopUndo
  <2>1. pc' \notin {"check", "undo"}
    BY <1>3 DEF SetAutoStop, Start, StartCmd, StartVerify, Poll, Check, CheckOther,
       CheckFails, Get, GetChunk, GetFails, GetEnd, Use, StopAsk, StopUndo
  <2> QED
    BY <1>1, <2>1 DEF StopInv
<1>4. CASE Stop
  <2>1. tries' = 0
    BY <1>4 DEF Stop
  <2> QED
    BY <1>1, <2>1 DEF StopInv
<1>5. CASE StopPoll
  <2>1. PICK ok \in Reads, bit7 \in StoppedBit, low \in {TRUE, page = 0} :
          LET late == tries + 1 > MaxTries
          IN /\ pc' = IF (ok /\ bit7) \/ late THEN "check" ELSE "poll"
             /\ status' = (status \/ ~ok \/ (late /\ (bit7 \/ low)))
    BY <1>5 DEF StopPoll
  <2>2. mcu' = mcu /\ page' = page
    BY <1>5 DEF StopPoll, sensor
  <2>3. /\ status \in BOOLEAN /\ ok \in BOOLEAN
    BY ReadsType DEF StopInv, TypeOK
  <2>4. ASSUME page = 0, pc' = "check", ~status'
        PROVE  mcu \in {"halted", "auto"}
    <3>1. low = TRUE /\ bit7 = (mcu \in {"halted", "auto"})
      BY <2>4 DEF StoppedBit
    <3>2. ok /\ ~(tries + 1 > MaxTries)
      BY <2>1, <2>3, <2>4, <3>1
    <3>3. bit7
      BY <2>1, <2>4, <3>2
    <3> QED
      BY <3>1, <3>3
  <2>5. pc' \in {"poll", "check"}
    BY <2>1
  <2> QED
    BY <1>1, <2>2, <2>4, <2>5 DEF StopInv
<1>6. CASE StopCheck
  <2>1. PICK ok \in Reads, odd \in {FALSE, page = 2} : status' = (status \/ ~ok \/ odd)
    BY <1>6 DEF StopCheck
  <2>2. status \in BOOLEAN /\ ok \in BOOLEAN /\ odd \in BOOLEAN
    BY ReadsType DEF StopInv, TypeOK
  <2>3. ~status' => ~status
    BY <2>1, <2>2
  <2>4. pc = "check" /\ mcu' = mcu /\ page' = page /\ tries' = tries
    BY <1>6 DEF StopCheck, sensor
  <2> QED
    BY <1>1, <2>3, <2>4 DEF StopInv
<1>7. CASE UNCHANGED vars
  BY <1>1, <1>7 DEF vars, sensor, host, StopInv
<1> QED
  BY <1>2, <1>3, <1>4, <1>5, <1>6, <1>7 DEF Next, Run

\* The step out of stop_ranging: withdrawing the stop request restarts nothing that has
\* stopped.
LEMMA UndoRestartsNothing ==
  ASSUME TypeOK, Next, pc = "undo", pc' = "off", ~status'
  PROVE  ~status /\ (mcu \notin {"ranging", "stopping"} => mcu' \notin {"ranging", "stopping"})
<1>1. StopUndo
  BY DEF Next, Sensor, Frame, Halt, Trigger, host, Run, Poll, SetAutoStop, Start, StartCmd,
     StartVerify, Check, CheckOther, CheckFails, Get, GetChunk, GetFails, GetEnd, Use, Stop,
     StopAsk, StopPoll, StopCheck
<1>2. PICK w0 \in Writes, w14 \in Writes, w15 \in Writes, w2 \in Writes, gone \in BOOLEAN :
        LET away == gone /\ (w0[1] \/ page = 0)
        IN /\ gone \in {w14[1], w15[1]}
           /\ \/ away /\ mcu \in {"halted", "auto", "stopping"} /\ mcu' = "idle"
              \/ away /\ mcu = "stopping" /\ mcu' = "ranging"
              \/ (~away \/ mcu \in {"idle", "ranging"}) /\ UNCHANGED mcu
           /\ page' = IF w2[1] THEN 2 ELSE IF w0[1] THEN 0 ELSE page
           /\ status' = (status \/ w0[2] \/ w14[2] \/ w15[2] \/ w2[2])
  BY <1>1, Zenon DEF StopUndo
<1>3. status \in BOOLEAN
  BY DEF TypeOK
<1>4. ~status
  BY <1>2, <1>3
<1>5. mcu \notin {"ranging", "stopping"} => mcu' \notin {"ranging", "stopping"}
  BY <1>2
<1> QED
  BY <1>4, <1>5

\* So a stop that returns 0, having seen the MCU stopped, leaves it so.
LEMMA StopEnds ==
  ASSUME StopInv, [Next]_vars
  PROVE  [pc = "undo" /\ pc' = "off" /\ ~status' /\ tries > 0 /\ page = 0
            => mcu' \notin {"ranging", "stopping"}]_vars
  BY UndoRestartsNothing DEF StopInv

\* A stop that asked the MCU to stop, and whose page select was not lost, returns 0 only
\* if the MCU stopped: whichever of the other transfers are lost, reported or not, for
\* any number of polls, and with the auto-stop feature too.
THEOREM StopIsSeen == SafeSpec => StopSeen
<1>1. Init => StopInv
  BY TypeInit DEF Init, StopInv
<1>2. StopInv /\ [Next]_vars => StopInv'
  BY StopStep
<1>3. StopInv /\ [Next]_vars
        => [pc = "undo" /\ pc' = "off" /\ ~status' /\ tries > 0 /\ page = 0
              => mcu' \notin {"ranging", "stopping"}]_vars
  BY StopEnds
<1> QED
  BY <1>1, <1>2, <1>3, PTL DEF SafeSpec, StopSeen

-----------------------------------------------------------------------------
(* Stopping, when no transfer fails and auto-stop is not used.             *)

\* A stop asks, on page 0, unless the MCU has stopped by itself.
AskInv ==
  /\ ~is_auto_stop_enabled
  /\ pc = "poll" => page = 0
  /\ pc \in {"check", "undo"} => (page = 0 /\ tries > 0) \/ mcu = "auto"

\* Every step keeps that.
LEMMA AskStep ==
  ASSUME ~Faults, ~AutoStop, FreshInv, AskInv, [Next]_vars
  PROVE  AskInv'
<1>1. CASE Sensor
  BY <1>1 DEF Sensor, Frame, Halt, Trigger, host, AskInv
<1>2. CASE Start \/ StartCmd \/ StartVerify \/ Poll \/ Get \/ GetChunk \/ GetEnd \/ Use
           \/ StopUndo
  <2>1. pc' \notin {"poll", "check", "undo"} /\ is_auto_stop_enabled' = is_auto_stop_enabled
    BY <1>2 DEF Start, StartCmd, StartVerify, Poll, Check, CheckOther, CheckFails, Get,
       GetChunk, GetEnd, Use, StopUndo
  <2> QED
    BY <2>1 DEF AskInv
<1>3. CASE Stop
  <2>1. page = 2
    BY <1>3 DEF Stop, FreshInv
  <2>2. /\ pc' \in {"ask", "check"} /\ (pc' = "check" => mcu = "auto")
        /\ is_auto_stop_enabled' = is_auto_stop_enabled /\ mcu' = mcu
    BY <1>3, <2>1 DEF Stop, AskInv, sensor
  <2> QED
    BY <2>2 DEF AskInv
<1>4. CASE StopAsk
  <2>1. PICK w0 \in Writes : page' = IF w0[1] THEN 0 ELSE page
    BY <1>4 DEF StopAsk
  <2>2. page' = 0
    BY <2>1, NoFaults
  <2> QED
    BY <1>4, <2>2 DEF StopAsk, AskInv
<1>5. CASE StopPoll
  <2>1. /\ pc = "poll" /\ pc' \in {"poll", "check"} /\ page' = page /\ tries' = tries + 1
        /\ is_auto_stop_enabled' = is_auto_stop_enabled
    BY <1>5 DEF StopPoll, sensor
  <2>2. tries' > 0
    BY <2>1, RangingAssumption DEF FreshInv, TypeOK
  <2> QED
    BY <2>1, <2>2 DEF AskInv
<1>6. CASE StopCheck
  BY <1>6 DEF StopCheck, sensor, AskInv
<1>7. CASE UNCHANGED vars
  BY <1>7 DEF vars, sensor, host, AskInv
<1>8. ~SetAutoStop
  BY DEF SetAutoStop
<1> QED
  BY <1>1, <1>2, <1>3, <1>4, <1>5, <1>6, <1>7, <1>8, NoFaults DEF Next, Run

\* When stop_ranging returns 0 the sensor does not range, for any number of polls, if
\* no transfer fails and auto-stop is not used.  (Neither condition can be left out.)
THEOREM StopStops ==
  ASSUME ~Faults, ~AutoStop
  PROVE  SafeSpec => StopMeansStopped
<1>1. Init => StopInv /\ AskInv
  BY TypeInit DEF Init, StopInv, AskInv
<1>2. StopInv /\ AskInv /\ FreshInv /\ [Next]_vars => (StopInv /\ AskInv)'
  BY StopStep, AskStep
<1>3. StopInv /\ AskInv /\ [Next]_vars
        => [pc = "undo" /\ pc' = "off" /\ ~status' => mcu' \notin {"ranging", "stopping"}]_vars
  <2> SUFFICES ASSUME StopInv, AskInv, Next, pc = "undo", pc' = "off", ~status'
               PROVE  mcu' \notin {"ranging", "stopping"}
    OBVIOUS
  <2>1. ~status /\ (mcu \notin {"ranging", "stopping"} => mcu' \notin {"ranging", "stopping"})
    BY UndoRestartsNothing DEF StopInv
  <2>2. mcu \notin {"ranging", "stopping"}
    BY <2>1 DEF StopInv, AskInv
  <2> QED
    BY <2>1, <2>2
<1> QED
  BY <1>1, <1>2, <1>3, FreshInvariant, PTL DEF SafeSpec, StopMeansStopped
=============================================================================
