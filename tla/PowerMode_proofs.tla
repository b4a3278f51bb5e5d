-------------------------- MODULE PowerMode_proofs --------------------------
(***************************************************************************)
(* Proofs about PowerMode, for any timeout of the polls, with and without  *)
(* transfers that fail: what init and set_power_mode promise when they     *)
(* return 0.                                                               *)
(***************************************************************************)
EXTENDS PowerMode, TLAPS

\* A change of mode: what it has done if nothing failed in it.
Changing ==
  /\ pc = "power" => want \in Modes
  /\ pc = "stored" => want = "wakeup" /\ (~status => reg09 = 4)
  /\ pc = "poll" => want \in Modes /\ (~status => (want = "wakeup" <=> reg09 = 4))
  /\ pc = "deepen" => want = "deep" /\ (~status => reg09 = 2)

\* init, by itself or at the end of a wake-up: after the boot it goes on without a
\* failure only.
Starting ==
  /\ pc \in {"reboot", "boot", "download", "checksum", "configure"} =>
       want \in {"init", "wakeup"}
  /\ pc \in {"boot", "download", "checksum", "configure"} /\ ~status =>
       reg09 = 4 /\ reg0F = 64
  /\ pc \in {"checksum", "configure"} => ~status

\* What a call has achieved that returns 0.
Achieved ==
  OK => /\ want # "invalid"
        /\ want = "init" => fw = "configured" /\ reg09 = 4 /\ reg0F = 64
        /\ want \in Modes => (want = "wakeup" <=> reg09 = 4)
        /\ want = "deep" => reg0F = 67

\* The inductive invariant of the two functions.
PowerInv == TypeOK /\ Changing /\ Starting /\ Achieved

\* No call so far failed, this one included.
Clean == failed = {} /\ ~status /\ ~outer

\* As long as no call fails, register 0x0F tells that the memory may be lost, from the
\* moment it may be until init is to run.
Remembered ==
  /\ pc = "idle" /\ failed = {} /\ fw # "configured" => reg09 = 2 /\ reg0F = 67
  /\ Clean /\ pc \in {"power", "done"} /\ fw # "configured" => reg09 = 2 /\ reg0F = 67
  /\ Clean /\ pc \in {"stored", "deepen"} /\ fw # "configured" => reg0F = 67
  /\ Clean /\ pc = "poll" /\ fw # "configured" =>
       IF want = "wakeup" THEN stored ELSE reg0F = 67

ReadyInv == PowerInv /\ Remembered

-----------------------------------------------------------------------------
\* A transfer succeeds or fails.
LEMMA OKsBoolean == OKs \subseteq BOOLEAN
<1>1. (~Faults) \in BOOLEAN
  BY PowerAssumption
<1> QED
  BY <1>1 DEF OKs

\* One poll goes on or ends; if it ends, it does as the status says, which a timeout or
\* a read that failed sets.
LEMMA PollStep ==
  ASSUME TypeOK, NEW value \in BOOLEAN, NEW next, NEW stop, pc \notin {next, stop},
         PollFor(value, next, stop)
  PROVE  /\ status' \in BOOLEAN /\ tries' \in 0 .. MaxTries
         /\ status => status'
         /\ pc' \in {pc, IF status' THEN stop ELSE next}
<1>1. PICK ok \in OKs : \E match \in IF ok THEN {up = value} ELSE BOOLEAN :
        /\ status' = (status \/ ~ok \/ tries = MaxTries)
        /\ pc' = IF ~match /\ tries < MaxTries THEN pc
                ELSE IF status' THEN stop ELSE next
        /\ tries' = IF pc' = pc THEN tries + 1 ELSE 0
  BY DEF PollFor
<1>2. PICK match \in IF ok THEN {up = value} ELSE BOOLEAN :
        /\ status' = (status \/ ~ok \/ tries = MaxTries)
        /\ pc' = IF ~match /\ tries < MaxTries THEN pc
                ELSE IF status' THEN stop ELSE next
        /\ tries' = IF pc' = pc THEN tries + 1 ELSE 0
  BY <1>1
<1>3. status \in BOOLEAN /\ ok \in BOOLEAN /\ (tries = MaxTries) \in BOOLEAN
  BY OKsBoolean DEF TypeOK
<1>4. status' \in BOOLEAN /\ (status => status')
  BY <1>2, <1>3
<1>5. pc' \in {pc, IF status' THEN stop ELSE next}
  BY <1>2
<1>6. pc' = pc => tries # MaxTries
  BY <1>2 DEF TypeOK
<1>7. tries' \in 0 .. MaxTries
  BY <1>2, <1>6, PowerAssumption DEF TypeOK
<1> QED
  BY <1>4, <1>5, <1>7

\* The sensor is switched on and has no firmware.
LEMMA InitReadyInv == Init => ReadyInv
<1> SUFFICES ASSUME Init PROVE ReadyInv
  OBVIOUS
<1>1. TypeOK
  <2>1. tries \in 0 .. MaxTries
    BY PowerAssumption DEF Init
  <2>2. up \in BOOLEAN /\ stored \in BOOLEAN /\ outer \in BOOLEAN /\ status \in BOOLEAN
    BY Zenon DEF Init
  <2>3. failed \subseteq {"init", "set_power_mode"}
    BY DEF Init
  <2> QED
    BY <2>1, <2>2, <2>3 DEF Init, TypeOK
<1>2. Changing /\ Starting /\ Achieved /\ Remembered
  BY DEF Init, Changing, Starting, Achieved, Remembered, OK
<1> QED
  BY <1>1, <1>2 DEF ReadyInv, PowerInv

\* The steps of the sensor keep the invariant: it forgets only in deep sleep.
LEMMA SensorStep ==
  ASSUME ReadyInv, Settle \/ Forget
  PROVE  ReadyInv'
<1> USE DEF ReadyInv, PowerInv, TypeOK, Changing, Starting, Achieved, Remembered, OK, Clean,
        Modes, call
<1>1. CASE Settle
  <2>1. up' \in BOOLEAN
    BY <1>1 DEF Settle
  <2> QED
    BY <1>1, <2>1 DEF Settle
<1>2. CASE Forget
  <2>1. /\ reg09 = 2 /\ reg0F = 67 /\ fw' = "none"
        /\ UNCHANGED <<reg09, reg0F, up, want, stored, outer, failed, pc, status, tries>>
    BY <1>2 DEF Forget, ModeOf
  <2> QED
    BY <2>1
<1> QED
  BY <1>1, <1>2

\* So do the steps of a change of mode.
LEMMA ModeStep ==
  ASSUME ReadyInv, SetMode \/ Power \/ ReadStored \/ Poll \/ Deepen
  PROVE  ReadyInv'
<1> USE PowerAssumption, OKsBoolean DEF ReadyInv, PowerInv, TypeOK, Changing, Starting,
        Achieved, Remembered, OK, Clean, Modes, call, chip
<1>1. CASE SetMode
  <2>1. PICK m \in Modes \cup {"invalid"}, ok \in OKs :
          \E cur \in IF ok THEN {ModeOf(reg09, reg0F)} ELSE Modes :
            /\ want' = m
            /\ status' = (~ok \/ m = "invalid")
            /\ pc' = IF m \in {cur, "invalid"} THEN "done" ELSE "power"
    BY <1>1 DEF SetMode
  <2>2. /\ pc = "idle" /\ stored' = FALSE /\ outer' = FALSE
        /\ UNCHANGED <<reg09, reg0F, up, fw, tries, failed>>
    BY <1>1 DEF SetMode
  <2>3. TypeOK'
    BY <2>1, <2>2
  <2>4. Changing' /\ Starting'
    BY <2>1, <2>2
  <2>5. ~status' /\ pc' = "done" => m = ModeOf(reg09, reg0F)
    BY <2>1
  <2>6. Achieved'
    BY <2>1, <2>2, <2>5 DEF ModeOf
  <2>7. Remembered'
    BY <2>1, <2>2
  <2> QED
    BY <2>3, <2>4, <2>6, <2>7
<1>2. CASE Power
  <2>1. PICK ok \in BOOLEAN :
          /\ reg09' = IF ~ok THEN reg09 ELSE IF want = "wakeup" THEN 4 ELSE 2
          /\ status' = (status \/ ~ok)
    BY <1>2 DEF Power
  <2>2. /\ pc = "power" /\ pc' = IF want = "wakeup" THEN "stored" ELSE "poll"
        /\ tries' = 0 /\ UNCHANGED <<reg0F, up, fw, want, stored, outer, failed>>
    BY <1>2 DEF Power
  <2>3. status' \in BOOLEAN /\ (~status' => ok /\ ~status)
    BY <2>1
  <2>4. TypeOK'
    BY <2>1, <2>2, <2>3
  <2>5. Changing' /\ Starting'
    BY <2>1, <2>2, <2>3
  <2>6. Achieved' /\ Remembered'
    BY <2>1, <2>2, <2>3
  <2> QED
    BY <2>4, <2>5, <2>6
<1>3. CASE ReadStored
  <2>1. PICK read \in BOOLEAN, written \in BOOLEAN :
          \E deep \in IF read THEN {reg0F = 67} ELSE BOOLEAN :
            /\ stored' = deep
            /\ reg0F' = IF deep /\ written THEN 64 ELSE reg0F
            /\ status' = (status \/ ~read \/ (deep /\ ~written))
    BY <1>3 DEF ReadStored
  <2>2. PICK deep \in BOOLEAN :
          /\ read => (deep <=> reg0F = 67)
          /\ stored' = deep
          /\ reg0F' = IF deep /\ written THEN 64 ELSE reg0F
          /\ status' = (status \/ ~read \/ (deep /\ ~written))
    BY <2>1
  <2>3. /\ pc = "stored" /\ pc' = "poll"
        /\ UNCHANGED <<reg09, up, fw, want, outer, failed, tries>>
    BY <1>3 DEF ReadStored
  <2>4. status' \in BOOLEAN /\ (~status' => read /\ ~status)
    BY <2>2
  <2>5. stored' \in BOOLEAN /\ reg0F' \in {64, 67} /\ (read => (stored' <=> reg0F = 67))
    BY <2>2
  <2>6. TypeOK'
    BY <2>3, <2>4, <2>5
  <2>7. Changing' /\ Starting' /\ Achieved'
    BY <2>3, <2>4
  <2>8. Remembered'
    BY <2>3, <2>4, <2>5
  <2> QED
    BY <2>6, <2>7, <2>8
<1>4. CASE Poll
  <2> DEFINE next == CASE want = "deep" -> "deepen"
                       [] want = "wakeup" /\ stored -> "reboot"
                       [] OTHER -> "done"
  <2>1. /\ next \in {"deepen", "reboot", "done"}
        /\ (next = "deepen") <=> (want = "deep")
        /\ (next = "reboot") <=> (want = "wakeup" /\ stored)
    OBVIOUS
  <2>2. pc = "poll" /\ PollFor(want = "wakeup", next, next)
    BY <1>4 DEF Poll
  <2>3. UNCHANGED <<reg09, reg0F, up, fw, want, stored, outer, failed>>
    BY <1>4 DEF Poll
  <2> HIDE DEF next
  <2>4. (want = "wakeup") \in BOOLEAN
    OBVIOUS
  <2>5. /\ status' \in BOOLEAN /\ tries' \in 0 .. MaxTries /\ (status => status')
        /\ pc' = pc \/ pc' = next
    BY <2>1, <2>2, <2>4, PollStep
  <2>6. TypeOK'
    BY <2>1, <2>2, <2>3, <2>5
  <2>7. Changing' /\ Starting'
    BY <2>1, <2>2, <2>3, <2>5
  <2>8. Achieved'
    BY <2>1, <2>2, <2>3, <2>5
  <2>9. Remembered'
    BY <2>1, <2>2, <2>3, <2>5
  <2> QED
    BY <2>6, <2>7, <2>8, <2>9
<1>5. CASE Deepen
  <2>1. PICK ok \in BOOLEAN : /\ reg0F' = IF ok THEN 67 ELSE reg0F
                              /\ status' = (status \/ ~ok)
    BY <1>5 DEF Deepen
  <2>2. /\ pc = "deepen" /\ pc' = "done"
        /\ UNCHANGED <<reg09, up, fw, want, stored, outer, failed, tries>>
    BY <1>5 DEF Deepen
  <2>3. /\ status' \in BOOLEAN /\ reg0F' \in {64, 67}
        /\ ~status' => ~status /\ reg0F' = 67
    BY <2>1
  <2>4. TypeOK'
    BY <2>2, <2>3
  <2>5. Changing' /\ Starting' /\ Achieved' /\ Remembered'
    BY <2>2, <2>3
  <2> QED
    BY <2>4, <2>5
<1> QED
  BY <1>1, <1>2, <1>3, <1>4, <1>5

\* So do those of init.
LEMMA InitStep ==
  ASSUME ReadyInv, CallInit \/ Reboot \/ Boot \/ Download \/ Checksum \/ Configure \/ Return
  PROVE  ReadyInv'
<1> USE PowerAssumption, OKsBoolean DEF ReadyInv, PowerInv, TypeOK, Changing, Starting,
        Achieved, Remembered, OK, Clean, Modes, call, chip
<1>1. CASE CallInit
  BY <1>1 DEF CallInit
<1>2. CASE Reboot
  <2>1. PICK ok \in BOOLEAN :
          /\ IF ok THEN reg09' = 4 /\ reg0F' = 64 /\ fw' = "none"
             ELSE reg09' \in {reg09, 4} /\ reg0F' \in {reg0F, 64, 67} /\ fw' \in {fw, "none"}
          /\ status' = ~ok
    BY <1>2 DEF Reboot
  <2>2. /\ pc = "reboot" /\ outer' = status /\ pc' = "boot" /\ tries' = 0
        /\ UNCHANGED <<up, want, stored, failed>>
    BY <1>2 DEF Reboot
  <2>3. TypeOK'
    BY <2>1, <2>2
  <2>4. Changing' /\ Starting' /\ Achieved' /\ Remembered'
    BY <2>1, <2>2
  <2> QED
    BY <2>3, <2>4
<1>3. CASE Boot
  <2>1. /\ pc = "boot" /\ PollFor(TRUE, "download", "done")
        /\ UNCHANGED <<reg09, reg0F, up, fw, want, stored, outer, failed>>
    BY <1>3 DEF Boot
  <2>2. /\ status' \in BOOLEAN /\ tries' \in 0 .. MaxTries /\ (status => status')
        /\ pc' \in {pc, IF status' THEN "done" ELSE "download"}
    BY <2>1, PollStep
  <2>3. TypeOK'
    BY <2>1, <2>2
  <2>4. Changing' /\ Starting' /\ Achieved' /\ Remembered'
    BY <2>1, <2>2
  <2> QED
    BY <2>3, <2>4
<1>4. CASE Download
  <2>1. PICK written \in BOOLEAN, read \in BOOLEAN :
          /\ fw' = IF written /\ up THEN "loaded" ELSE fw
          /\ status' = (status \/ ~written \/ ~read)
    BY <1>4 DEF Download
  <2>2. /\ pc = "download" /\ pc' = IF status' THEN "done" ELSE "checksum"
        /\ UNCHANGED <<reg09, reg0F, up, want, stored, outer, failed, tries>>
    BY <1>4 DEF Download
  <2>3. status' \in BOOLEAN /\ (~status' => ~status)
    BY <2>1
  <2>4. TypeOK'
    BY <2>1, <2>2, <2>3
  <2>5. Changing' /\ Starting' /\ Achieved' /\ Remembered'
    BY <2>2, <2>3
  <2> QED
    BY <2>4, <2>5
<1>5. CASE Checksum
  BY <1>5 DEF Checksum
<1>6. CASE Configure
  <2>1. PICK written \in BOOLEAN, read \in BOOLEAN :
          /\ fw' = IF written /\ up THEN "configured" ELSE fw
          /\ status' = (~written \/ ~read \/ ~up)
    BY <1>6 DEF Configure
  <2>2. /\ pc = "configure" /\ pc' = "done"
        /\ UNCHANGED <<reg09, reg0F, up, want, stored, outer, failed, tries>>
    BY <1>6 DEF Configure
  <2>3. /\ status' \in BOOLEAN /\ fw' \in {fw, "configured"}
        /\ ~status' => fw' = "configured"
    BY <2>1
  <2>4. TypeOK'
    BY <2>2, <2>3
  <2>5. Changing' /\ Starting' /\ Achieved' /\ Remembered'
    BY <2>2, <2>3
  <2> QED
    BY <2>4, <2>5
<1>7. CASE Return
  <2>1. /\ pc = "done" /\ pc' = "idle" /\ status' = FALSE
        /\ UNCHANGED <<reg09, reg0F, up, fw, want, stored, outer, tries>>
    BY <1>7 DEF Return
  <2>2. failed' \subseteq {"init", "set_power_mode"}
    BY <1>7 DEF Return
  <2>3. failed' = {} => Clean
    BY <1>7 DEF Return
  <2>4. TypeOK'
    BY <2>1, <2>2
  <2>5. Changing' /\ Starting' /\ Achieved' /\ Remembered'
    BY <2>1, <2>3
  <2> QED
    BY <2>4, <2>5
<1> QED
  BY <1>1, <1>2, <1>3, <1>4, <1>5, <1>6, <1>7

-----------------------------------------------------------------------------
\* The invariant of init and the power modes, for any timeout, with faults or without.
THEOREM PowerInvariant == SafeSpec => []ReadyInv
<1>1. ReadyInv /\ [Next]_vars => ReadyInv'
  <2> SUFFICES ASSUME ReadyInv, [Next]_vars PROVE ReadyInv'
    OBVIOUS
  <2>1. CASE Next
    BY <2>1, SensorStep, ModeStep, InitStep DEF Next, Step
  <2>2. CASE UNCHANGED vars
    BY <2>2 DEF vars, chip, call, ReadyInv, PowerInv, TypeOK, Changing, Starting,
       Achieved, Remembered, OK, Clean
  <2> QED
    BY <2>1, <2>2
<1> QED
  BY <1>1, InitReadyInv, PTL DEF SafeSpec

\* Every variable keeps its type, however many polls, failures and calls there are.
THEOREM PowerTyped == SafeSpec => []TypeOK
<1>1. ReadyInv => TypeOK
  BY DEF ReadyInv, PowerInv
<1> QED
  BY <1>1, PowerInvariant, PTL

\* An init that returns 0 has recovered the sensor from whatever earlier calls left.
THEOREM InitAlwaysRestores == SafeSpec => []InitRestores
<1>1. ReadyInv => InitRestores
  BY DEF ReadyInv, PowerInv, Achieved, InitRestores
<1> QED
  BY <1>1, PowerInvariant, PTL

\* A change of mode that returns 0 is applied, whatever failed before it.
THEOREM ModeIsApplied == SafeSpec => []ModeApplied
<1>1. ReadyInv => ModeApplied
  BY DEF ReadyInv, PowerInv, TypeOK, Achieved, ModeApplied
<1> QED
  BY <1>1, PowerInvariant, PTL

\* As long as every call returned 0, a sensor that was woken up can range.
THEOREM AwakeIsReady == SafeSpec => []AwakeMeansReady
<1>1. ReadyInv => AwakeMeansReady
  BY DEF ReadyInv, PowerInv, Achieved, Remembered, OK, Clean, Modes, AwakeMeansReady
<1> QED
  BY <1>1, PowerInvariant, PTL
=============================================================================
