------------------------------ MODULE Ranging ------------------------------
(***************************************************************************)
(* A ranging session of the user-space driver (vl53l8cx_api.c): start,     *)
(* check_data_ready, get_ranging_data and stop, step by step against a     *)
(* sensor that goes on measuring.  A results packet is read in several bus *)
(* transfers (platform.c, stmvl53l8cx.c), between which the sensor may     *)
(* replace it.                                                             *)
(*                                                                         *)
(* A packet is known by the number of its frame, counted since power on    *)
(* (0: no packet).  The host never sees that number, only the 8-bit stream *)
(* count and the 16-bit identifier in the packet's header and footer.      *)
(***************************************************************************)
EXTENDS Integers

CONSTANTS
  Last,       \* a packet is read in transfers 0 .. Last
  CountMod,   \* stream counts are taken modulo this (255 in the sensor)
  IdMod,      \* packet identifiers modulo this (2^16)
  MaxTries,   \* polls of stop_ranging before it gives up (500)
  MaxFrame,   \* bound: the sensor measures this many frames
  Faults,     \* may transfers fail?
  AutoStop    \* does the application use the auto-stop feature?

ASSUME RangingAssumption ==
  /\ Last \in Nat /\ CountMod \in Nat \ {0} /\ IdMod \in Nat \ {0}
  /\ MaxTries \in Nat /\ MaxFrame \in Nat
  /\ Faults \in BOOLEAN /\ AutoStop \in BOOLEAN

VARIABLES
  mcu,          \* "idle", "ranging", "stopping", "halted" or "auto"
  frame,        \* frames measured so far
  window,       \* the frame whose packet the results window holds
  page,         \* the page its registers are on: 2 (results and commands) or 0
  autodev,      \* the auto-stop bit in the sensor's pipe control
  is_auto_stop_enabled,  \* the copy of it in the host's configuration
  streamcount,  \* p_dev->streamcount
  head,         \* temp_buffer[0..3]: a frame's first bytes, Swapped or Other
  temp,         \* the rest of temp_buffer: transfer number -> frame
  chunk,        \* next transfer of get_ranging_data
  pc,           \* where the application is
  ready,        \* the isReady it was given
  status,       \* is the running call's status, or the last call's, not 0?
  tries,        \* polls of stop_ranging so far
  got           \* last frame taken as a valid result, or older than the session

sensor == <<mcu, frame, window, page, autodev>>
host == <<is_auto_stop_enabled, streamcount, head, temp, chunk, pc, ready,
          status, tries, got>>
vars == <<sensor, host>>

Frames == 0 .. MaxFrame
Swapped == -1              \* a packet's first bytes, after VL53L8CX_SwapBuffer
Other == -2                \* bytes of another command's answer, or of page 0
NoCount == CountMod        \* 255: the host's reset value, and a window without packet
Counts == 0 .. CountMod

Count(f) == IF f = 0 THEN NoCount ELSE f % CountMod
Id(f) == f % IdMod

\* How a write to the sensor ends: <<did it arrive, did the host get an error>>.
\* A lost write may go unreported (stmvl53l8cx_write_regs).  A read reports.
Writes == {<<TRUE, FALSE>>} \cup
          IF Faults THEN {<<FALSE, TRUE>>, <<FALSE, FALSE>>} ELSE {}
Reads == {TRUE} \cup {~Faults}

TypeOK ==
  /\ mcu \in {"idle", "ranging", "stopping", "halted", "auto"}
  /\ frame \in Frames /\ window \in Frames /\ page \in {0, 2}
  /\ autodev \in BOOLEAN /\ is_auto_stop_enabled \in BOOLEAN
  /\ streamcount \in Counts
  /\ head \in Frames \cup {Swapped, Other}
  /\ temp \in [0 .. Last -> Frames \cup {Other}]
  /\ chunk \in 0 .. Last + 1
  /\ pc \in {"off", "begin", "verify", "on", "get", "got", "ask", "poll",
             "check", "undo"}
  /\ ready \in BOOLEAN /\ status \in BOOLEAN
  /\ tries \in 0 .. MaxTries + 1 /\ (pc \in {"ask", "poll"} => tries <= MaxTries)
  /\ got \in Frames \cup {Other}

\* After vl53l8cx_init.
Init ==
  /\ mcu = "idle" /\ frame = 0 /\ window = 0 /\ page = 2
  /\ autodev = FALSE /\ is_auto_stop_enabled = FALSE
  /\ streamcount = NoCount /\ head = Other /\ temp = [c \in 0 .. Last |-> 0]
  /\ chunk = 0 /\ pc = "off" /\ ready = FALSE /\ status = FALSE
  /\ tries = 0 /\ got = 0

-----------------------------------------------------------------------------
(* The sensor.                                                             *)

\* A packet is on its way to the host.
Reading == pc = "get" /\ chunk > 0 /\ page = 2

\* A new packet replaces the one in the window.  A packet is read faster than
\* the identifiers come round.
Frame ==
  /\ mcu \in {"ranging", "stopping"}
  /\ frame < MaxFrame
  /\ Reading => frame + 1 - temp[0] < IdMod
  /\ frame' = frame + 1
  /\ window' = frame + 1
  /\ UNCHANGED <<mcu, page, autodev, host>>

\* The MCU honours a stop request.
Halt == /\ mcu = "stopping"
        /\ mcu' = "halted"
        /\ UNCHANGED <<frame, window, page, autodev, host>>

\* A threshold is reached and the MCU stops by itself, after a last packet.
Trigger ==
  /\ mcu = "ranging" /\ autodev
  /\ frame < MaxFrame
  /\ Reading => frame + 1 - temp[0] < IdMod
  /\ mcu' = "auto"
  /\ frame' = frame + 1
  /\ window' = frame + 1
  /\ UNCHANGED <<page, autodev, host>>

-----------------------------------------------------------------------------
(* vl53l8cx_set_detection_thresholds_auto_stop                             *)

\* The host's copy is set whether or not the sensor's bit could be: commands
\* and their answers are on page 2.
SetAutoStop ==
  /\ AutoStop /\ pc = "off"
  /\ \E v \in BOOLEAN, w \in Writes, odd \in {FALSE, page = 0} :
       /\ is_auto_stop_enabled' = v
       /\ autodev' = IF w[1] /\ page = 2 THEN v ELSE autodev
       /\ status' = (w[2] \/ odd)
  /\ head' = Other
  /\ UNCHANGED <<mcu, frame, window, page, streamcount, temp, chunk, pc, ready, tries, got>>

-----------------------------------------------------------------------------
(* vl53l8cx_start_ranging                                                  *)

\* Forget the last count and configure the outputs.
Start ==
  /\ pc = "off"
  /\ streamcount' = NoCount
  /\ head' = Other
  /\ \E ok \in Reads \cup {page = 2} : status' = ~ok
  /\ ready' = FALSE
  /\ pc' = "begin"
  /\ UNCHANGED <<sensor, is_auto_stop_enabled, temp, chunk, tries, got>>

\* The interrupt output is enabled on page 0, then page 2 is selected for the
\* start command and the poll for its answer: an MCU that is still held stopped
\* gives none, and what is read on page 0 may look like one.  The window shows
\* no packet until the first frame; the frames of earlier sessions are old from
\* here on.
StartCmd ==
  /\ pc = "begin"
  /\ \E w0, w2, w \in Writes, odd \in BOOLEAN :
       LET starts == w[1] /\ page' = 2 /\ mcu \notin {"stopping", "halted"}
       IN /\ page' = IF w2[1] THEN 2 ELSE IF w0[1] THEN 0 ELSE page
          /\ mcu' = IF starts THEN "ranging" ELSE mcu
          /\ window' = IF starts THEN 0 ELSE window
          /\ status' = \/ status \/ w0[2] \/ w2[2] \/ w[2]
                       \/ IF page' = 2 THEN w[1] /\ ~starts ELSE odd
  /\ got' = frame
  /\ pc' = "verify"
  /\ UNCHANGED <<frame, autodev, is_auto_stop_enabled, streamcount, head, temp,
                 chunk, ready, tries>>

\* Data size and laser safety are checked when the sensor ranges already.
StartVerify ==
  /\ pc = "verify"
  /\ \E ok \in Reads \cup {page = 2} : status' = (status \/ ~ok)
  /\ pc' = "on"
  /\ UNCHANGED <<sensor, is_auto_stop_enabled, streamcount, head, temp, chunk,
                 ready, tries, got>>

-----------------------------------------------------------------------------
(* vl53l8cx_check_data_ready                                               *)

\* The four bytes that are in temp_buffer decide.
Judge(f) ==
  /\ ready' = (f # 0 /\ Count(f) # streamcount)
  /\ streamcount' = IF ready' THEN Count(f) ELSE streamcount

Check ==
  /\ pc = "on" /\ ~ready /\ page = 2
  /\ head' = window
  /\ Judge(window)
  /\ status' = FALSE
  /\ UNCHANGED <<sensor, is_auto_stop_enabled, temp, chunk, pc, tries, got>>

\* The first registers of page 0 do not look like a packet (register 1 is 0x0C,
\* see is_alive), but may look like an error.
CheckOther ==
  /\ pc = "on" /\ ~ready /\ page = 0
  /\ head' = Other
  /\ ready' = FALSE
  /\ status' \in BOOLEAN
  /\ UNCHANGED <<sensor, is_auto_stop_enabled, streamcount, temp, chunk, pc,
                 tries, got>>

\* The read fails, and the comparison runs on what the buffer held before.
\* Bytes 1 and 2 of a packet are 5 and 5, byte 3 has bit 4 set: swapped, they
\* look like a packet's again if bit 4 of the count is set, with byte 3 for a
\* count.  (Answers of other commands do not look like a packet.)
CheckFails ==
  /\ Faults /\ pc = "on" /\ ~ready
  /\ \/ head \in Frames /\ Judge(head)
     \/ head \notin Frames /\ ready' = FALSE /\ UNCHANGED streamcount
     \/ head = Swapped /\ ready' = TRUE /\ streamcount' \in Counts \ {NoCount}
  /\ status' = TRUE
  /\ UNCHANGED <<sensor, is_auto_stop_enabled, head, temp, chunk, pc, tries, got>>

-----------------------------------------------------------------------------
(* vl53l8cx_get_ranging_data                                               *)

\* The application found isReady set.
Get ==
  /\ pc = "on" /\ ready
  /\ chunk' = 0
  /\ status' = FALSE
  /\ pc' = "get"
  /\ UNCHANGED <<sensor, is_auto_stop_enabled, streamcount, head, temp, ready,
                 tries, got>>

\* What a read of the window's addresses gives.
Shown == IF page = 2 THEN window ELSE Other

\* One bus transfer, of the packet the window holds by now.
GetChunk ==
  /\ pc = "get" /\ chunk <= Last
  /\ temp' = [temp EXCEPT ![chunk] = Shown]
  /\ head' = IF chunk = 0 THEN Shown ELSE head
  /\ chunk' = chunk + 1
  /\ UNCHANGED <<sensor, is_auto_stop_enabled, streamcount, pc, ready, status,
                 tries, got>>

\* A mutant: the error of a read is dropped, as that of a write is.
GetFailsQuietly ==
  /\ Faults /\ pc = "get" /\ chunk <= Last
  /\ chunk' = Last + 1
  /\ UNCHANGED <<sensor, is_auto_stop_enabled, streamcount, head, temp, pc, ready,
                 status, tries, got>>

\* It fails: RdMulti returns an error, the rest of the packet is not read.
GetFails ==
  /\ Faults /\ pc = "get" /\ chunk <= Last
  /\ status' = TRUE
  /\ chunk' = Last + 1
  /\ UNCHANGED <<sensor, is_auto_stop_enabled, streamcount, head, temp, pc, ready,
                 tries, got>>

\* The identifiers of header and footer differ; what page 0 has in their places
\* may or may not.
Mismatch == IF page = 2 THEN {Id(temp[0]) # Id(temp[Last])} ELSE BOOLEAN

\* Mutants: no footer check; the stream count of the packet is not kept; the
\* count is read anew, after the packet.
GetEndUnchecked ==
  /\ pc = "get" /\ chunk = Last + 1
  /\ IF head \in Frames THEN streamcount' = Count(head) ELSE streamcount' \in Counts
  /\ head' = Swapped
  /\ pc' = "got"
  /\ UNCHANGED <<sensor, is_auto_stop_enabled, temp, chunk, ready, status, tries, got>>

GetEndNoCount ==
  /\ pc = "get" /\ chunk = Last + 1
  /\ head' = Swapped
  /\ \E torn \in Mismatch : status' = (status \/ torn)
  /\ pc' = "got"
  /\ UNCHANGED <<sensor, is_auto_stop_enabled, streamcount, temp, chunk, ready,
                 tries, got>>

GetEndLateCount ==
  /\ pc = "get" /\ chunk = Last + 1
  /\ streamcount' = Count(window)
  /\ head' = Swapped
  /\ \E torn \in Mismatch : status' = (status \/ torn)
  /\ pc' = "got"
  /\ UNCHANGED <<sensor, is_auto_stop_enabled, temp, chunk, ready, tries, got>>

\* The packet, whole or not, is taken: streamcount, byte swap, footer check.
GetEnd ==
  /\ pc = "get" /\ chunk = Last + 1
  /\ IF head \in Frames THEN streamcount' = Count(head) ELSE streamcount' \in Counts
  /\ head' = Swapped
  /\ \E torn \in Mismatch : status' = (status \/ torn)
  /\ pc' = "got"
  /\ UNCHANGED <<sensor, is_auto_stop_enabled, temp, chunk, ready, tries, got>>

\* The application uses the result, and waits for the next one.
Use ==
  /\ pc = "got"
  /\ got' = IF status THEN got ELSE temp[0]
  /\ ready' = FALSE
  /\ pc' = "on"
  /\ UNCHANGED <<sensor, is_auto_stop_enabled, streamcount, head, temp, chunk,
                 status, tries>>

-----------------------------------------------------------------------------
(* vl53l8cx_stop_ranging                                                   *)

\* The stop request is sent unless the auto-stop flag is read as set (on page 2)
\* or the host believes that auto-stop is on.
Stop ==
  /\ pc = "on" /\ ~ready
  /\ \E ok \in Reads, odd \in BOOLEAN :
       LET auto == ok /\ IF page = 2 THEN mcu = "auto" ELSE odd
       IN /\ pc' = IF auto \/ is_auto_stop_enabled THEN "check" ELSE "ask"
          /\ status' = ~ok
  /\ tries' = 0
  /\ UNCHANGED <<sensor, is_auto_stop_enabled, streamcount, head, temp, chunk,
                 ready, got>>

\* Page 0 is selected, and the request is two registers there; what one of them
\* does alone is open.
StopAsk ==
  /\ pc = "ask"
  /\ \E w0, w15, w14 \in Writes, asked \in BOOLEAN :
       /\ asked \in {w15[1], w14[1]}
       /\ page' = IF w0[1] THEN 0 ELSE page
       /\ mcu' = IF asked /\ page' = 0 /\ mcu = "ranging" THEN "stopping" ELSE mcu
       /\ status' = (status \/ w0[2] \/ w15[2] \/ w14[2])
  /\ pc' = "poll"
  /\ UNCHANGED <<frame, window, autodev, is_auto_stop_enabled, streamcount, head,
                 temp, chunk, ready, tries, got>>

\* "MCU stopped", bit 7 of register 6 of page 0, as it can be read: page 2 has a
\* byte of a packet in its place.
StoppedBit == IF page = 0 THEN {mcu \in {"halted", "auto"}} ELSE BOOLEAN

\* Mutants: the timeout goes unreported; there is no timeout.
StopPollQuiet ==
  /\ pc = "poll"
  /\ tries' = tries + 1
  /\ \E ok \in Reads, bit7 \in StoppedBit :
       /\ pc' = IF (ok /\ bit7) \/ tries' > MaxTries THEN "check" ELSE "poll"
       /\ status' = (status \/ ~ok)
  /\ UNCHANGED <<sensor, is_auto_stop_enabled, streamcount, head, temp, chunk,
                 ready, got>>

StopPollForever ==
  /\ pc = "poll"
  /\ \E ok \in Reads, bit7 \in StoppedBit :
       /\ pc' = IF ok /\ bit7 THEN "check" ELSE "poll"
       /\ status' = (status \/ ~ok)
  /\ UNCHANGED <<sensor, is_auto_stop_enabled, streamcount, head, temp, chunk,
                 ready, tries, got>>

\* One poll.  When the polls run out the register's value goes into the status,
\* whatever it is: register 6 of page 0 is not 0 (bit 7 if the MCU has stopped,
\* bit 0 while it is up: init and set_power_mode poll for that), the byte of a
\* packet may be.
StopPoll ==
  /\ pc = "poll"
  /\ tries' = tries + 1
  /\ \E ok \in Reads, bit7 \in StoppedBit, low \in {TRUE, page = 0} :
       LET late == tries + 1 > MaxTries
       IN /\ pc' = IF (ok /\ bit7) \/ late THEN "check" ELSE "poll"
          /\ status' = (status \/ ~ok \/ (late /\ (bit7 \/ low)))
  /\ UNCHANGED <<sensor, is_auto_stop_enabled, streamcount, head, temp, chunk,
                 ready, got>>

\* GO2 status 1 of a stopped MCU is looked at.  If page 2 is selected (nothing
\* was asked for, or the page select was lost), what is read in place of the two
\* status registers may look like an error.
StopCheck ==
  /\ pc = "check"
  /\ \E ok \in Reads, odd \in {FALSE, page = 2} : status' = (status \/ ~ok \/ odd)
  /\ pc' = "undo"
  /\ UNCHANGED <<sensor, is_auto_stop_enabled, streamcount, head, temp, chunk,
                 ready, tries, got>>

\* A mutant: the stop request stays.
StopUndoForgets ==
  /\ pc = "undo"
  /\ page' = 2
  /\ pc' = "off"
  /\ tries' = 0
  /\ UNCHANGED <<mcu, frame, window, autodev, is_auto_stop_enabled, streamcount,
                 head, temp, chunk, ready, status, got>>

\* On page 0 the request is withdrawn and the interrupt output released, then
\* page 2 is selected again.  An MCU that had not stopped yet may go on.
StopUndo ==
  /\ pc = "undo"
  /\ \E w0, w14, w15, w2 \in Writes, gone \in BOOLEAN :
       LET away == gone /\ (w0[1] \/ page = 0)
       IN /\ gone \in {w14[1], w15[1]}
          /\ \/ away /\ mcu \in {"halted", "auto", "stopping"} /\ mcu' = "idle"
             \/ away /\ mcu = "stopping" /\ mcu' = "ranging"
             \/ (~away \/ mcu \in {"idle", "ranging"}) /\ UNCHANGED mcu
          /\ page' = IF w2[1] THEN 2 ELSE IF w0[1] THEN 0 ELSE page
          /\ status' = (status \/ w0[2] \/ w14[2] \/ w15[2] \/ w2[2])
  /\ pc' = "off"
  /\ tries' = 0
  /\ UNCHANGED <<frame, window, autodev, is_auto_stop_enabled, streamcount, head,
                 temp, chunk, ready, got>>

-----------------------------------------------------------------------------
Sensor == Frame \/ Halt \/ Trigger

\* The steps of a call in progress.
Run == \/ StartCmd \/ StartVerify
       \/ Get \/ GetChunk \/ GetFails \/ GetEnd \/ Use
       \/ StopAsk \/ StopPoll \/ StopCheck \/ StopUndo

Poll == Check \/ CheckOther \/ CheckFails

Next == Sensor \/ Run \/ Poll \/ SetAutoStop \/ Start \/ Stop

SafeSpec == Init /\ [][Next]_vars

\* A running call goes on, and so does the loop that waits for data; when a
\* session begins or ends, and when the sensor measures, is open.
Spec == SafeSpec /\ WF_vars(Run) /\ WF_vars(Poll)

-----------------------------------------------------------------------------
(* Properties.                                                             *)

\* The footer check: a packet that get_ranging_data returns with status 0 is
\* one packet, although the sensor may have replaced it between two transfers.
NoTornResult ==
  pc = "got" /\ ~status => /\ temp[0] \in Frames
                           /\ \A c \in 0 .. Last : temp[c] = temp[0]

\* A valid result is newer than every result before it, and was measured in
\* this session: nothing is delivered twice, and nothing of an earlier session.
FreshResults == pc = "got" /\ ~status => temp[0] > got

\* "wait for a new measurement ... 1 if data is ready" (platform.h): when the
\* application is told so, the window holds a packet newer than the last it took.
\* (Of polling; the interrupt's flag outlives the packet it was raised for.)
ReadyMeansNew == pc = "on" /\ ready => window > got

\* A stop that asked the MCU to stop, and whose polls read its status register,
\* returns 0 only if the MCU stopped: although the request may be lost without
\* an error, and a register stands for the error code of the timeout.
StopSeen ==
  [][pc = "undo" /\ pc' = "off" /\ ~status' /\ tries > 0 /\ page = 0
       => mcu' \notin {"ranging", "stopping"}]_vars

\* "status : 0 if stop is OK" (vl53l8cx_api.h): when stop_ranging returns 0 the
\* sensor does not range.  The code keeps that if nothing is lost; a lost page
\* select is enough to break it, and with the auto-stop feature the code does
\* not even ask the sensor to stop.
StopMeansStopped ==
  [][pc = "undo" /\ pc' = "off" /\ ~status' => mcu' \notin {"ranging", "stopping"}]_vars

\* A frame that is measured while the application waits is delivered, or a
\* later one is: no frame leaves the application waiting behind it.
NoFrameMissed ==
  \A k \in 1 .. MaxFrame :
    (window >= k /\ pc = "on") ~> (got >= k \/ pc \in {"off", "ask", "poll", "check"})

\* Every call ends: only the wait for data depends on the sensor.
CallsEnd == pc # "on" ~> pc \in {"on", "off"}

\* The inductive invariants of the proofs.  PacketInv is about the packet on its
\* way: what was read is in the order of the frames, and less than a turn of
\* the identifiers apart; and only the window is read for one.
Order ==
  /\ \A c \in 0 .. Last :
       c < chunk => temp[c] \in Frames /\ temp[0] <= temp[c] /\ temp[c] <= window
  /\ \A c, d \in 0 .. Last : c <= d /\ d < chunk => temp[c] <= temp[d]
  /\ chunk > 0 => window - temp[0] < IdMod

WindowInv ==
  /\ TypeOK
  /\ window <= frame
  /\ page = 2 => (pc = "get" /\ ~status => Order) /\ NoTornResult

PageInv ==
  /\ pc = "begin" => head = Other /\ ~ready
  /\ page = 0 /\ pc \in {"verify", "on"} => head = Other /\ ~ready
  /\ pc \in {"get", "got"} => page = 2

PacketInv == WindowInv /\ PageInv

\* FreshInv is about the stream count: without faults, it is that of the last
\* frame taken as long as no newer one is in the window, and only stop_ranging
\* leaves page 2 and holds the MCU stopped, so that every start command is taken.
Held == mcu \in {"stopping", "halted"} => pc \in {"poll", "check", "undo"}

FreshInv ==
  /\ TypeOK
  /\ Held
  /\ page = 2 \/ pc \in {"poll", "check", "undo"}
  /\ window <= frame /\ got \in Frames /\ got <= frame
  /\ pc \notin {"off", "begin"} => window = 0 \/ window >= got
  /\ pc \in {"verify", "on"} /\ window = got /\ window # 0
       => streamcount = Count(window)
  /\ pc \in {"begin", "verify"} => ~ready
  /\ pc \in {"on", "get"} /\ ready => window > got
  /\ pc = "get" => ready
  /\ (pc = "get" /\ chunk > 0) \/ pc = "got"
       => temp[0] \in Frames /\ got < temp[0] /\ temp[0] <= window
  /\ pc = "get" /\ chunk > 0 => head = temp[0]
  /\ pc = "got" => streamcount = Count(temp[0])
=============================================================================
