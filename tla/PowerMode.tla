----------------------------- MODULE PowerMode -----------------------------
(***************************************************************************)
(* vl53l8cx_init, vl53l8cx_get_power_mode and vl53l8cx_set_power_mode      *)
(* (vl53l8cx_api.c).  The driver keeps no power mode: it reads two         *)
(* registers back, whose values also survive a call that failed half-way.  *)
(* What the sensor's memory holds appears in neither of them.              *)
(***************************************************************************)
EXTENDS Naturals

CONSTANTS
  MaxTries,  \* polls for an answer before the timeout (200)
  Faults     \* may transfers fail, and the sensor answer too late?

ASSUME PowerAssumption ==
  MaxTries \in Nat \ {0} /\ Faults \in BOOLEAN

VARIABLES
  reg09,   \* register 0x09: 4 on, 2 asleep
  reg0F,   \* register 0x0F: 67 (0x43) makes sleep deep, 64 (0x40) does not
  up,      \* bit 0 of register 0x06: the MCU runs
  fw,      \* the sensor's memory: "none", "loaded" or "configured"
  pc,      \* where the call is
  want,    \* the mode asked for, or "init"
  stored,  \* stored_mode == 0x43
  outer,   \* status of set_power_mode is not 0, while it runs init
  status,  \* status of the running function is not 0
  tries,   \* timeout of _vl53l8cx_poll_for_answer
  failed   \* which functions returned something else than 0?  (History variable.)

chip == <<reg09, reg0F, up, fw>>
call == <<want, stored, outer, failed>>
vars == <<chip, call, pc, status, tries>>

Modes == {"sleep", "wakeup", "deep"}

TypeOK ==
  /\ reg09 \in {2, 4} /\ reg0F \in {64, 67} /\ up \in BOOLEAN
  /\ fw \in {"none", "loaded", "configured"}
  /\ pc \in {"idle", "power", "stored", "poll", "deepen", "reboot", "boot",
             "download", "checksum", "configure", "done"}
  /\ want \in Modes \cup {"init", "invalid"}
  /\ stored \in BOOLEAN /\ outer \in BOOLEAN /\ status \in BOOLEAN
  /\ tries \in 0 .. MaxTries /\ failed \subseteq {"init", "set_power_mode"}

\* Powered on, no firmware: the first call is vl53l8cx_init.
Init ==
  /\ reg09 = 4 /\ reg0F = 64 /\ up = TRUE /\ fw = "none"
  /\ pc = "reboot" /\ want = "init"
  /\ stored = FALSE /\ outer = FALSE /\ status = FALSE /\ tries = 0
  /\ failed = {}

\* Does a transfer succeed?  (A platform that reports failing writes: all but
\* the kernel build, for which see Transfer.)
OKs == {TRUE, ~Faults}

\* The mode that get_power_mode tells from the two registers.
ModeOf(r9, rF) == CASE r9 = 4 -> "wakeup"
                    [] r9 = 2 /\ rF = 67 -> "deep"
                    [] r9 = 2 /\ rF # 67 -> "sleep"

-----------------------------------------------------------------------------
(* The sensor follows its registers, in its own time.                      *)

Settle == /\ up # (reg09 = 4)
          /\ up' = (reg09 = 4)
          /\ UNCHANGED <<reg09, reg0F, fw, call, pc, status, tries>>

\* "This mode clears all memory" (vl53l8cx_api.h, of deep sleep).
Forget == /\ ModeOf(reg09, reg0F) = "deep" /\ ~up /\ fw # "none"
          /\ fw' = "none"
          /\ UNCHANGED <<reg09, reg0F, up, call, pc, status, tries>>

-----------------------------------------------------------------------------
(* vl53l8cx_set_power_mode                                                 *)

\* get_power_mode, and out if there is nothing to do.  A read that fails leaves
\* an uninitialised byte to compare.
SetMode ==
  /\ pc = "idle"
  /\ \E m \in Modes \cup {"invalid"}, ok \in OKs :
     \E cur \in IF ok THEN {ModeOf(reg09, reg0F)} ELSE Modes :
       /\ want' = m
       /\ status' = (~ok \/ m = "invalid")
       /\ pc' = IF m \in {cur, "invalid"} THEN "done" ELSE "power"
  /\ stored' = FALSE /\ outer' = FALSE
  /\ UNCHANGED <<chip, tries, failed>>

\* A mutant: the status of the write is overwritten, not or-ed.
PowerUnchecked ==
  /\ pc = "power"
  /\ \E ok \in OKs : reg09' = IF ~ok THEN reg09 ELSE IF want = "wakeup" THEN 4 ELSE 2
  /\ pc' = IF want = "wakeup" THEN "stored" ELSE "poll"
  /\ tries' = 0
  /\ UNCHANGED <<reg0F, up, fw, call, status>>

\* 0x09 := 4 to wake up, 2 to sleep.
Power ==
  /\ pc = "power"
  /\ \E ok \in OKs :
       /\ reg09' = IF ~ok THEN reg09 ELSE IF want = "wakeup" THEN 4 ELSE 2
       /\ status' = (status \/ ~ok)
  /\ pc' = IF want = "wakeup" THEN "stored" ELSE "poll"
  /\ tries' = 0
  /\ UNCHANGED <<reg0F, up, fw, call>>

\* A mutant: 0x0F is reset before it is read.
ReadStoredLate ==
  /\ pc = "stored"
  /\ stored' = FALSE
  /\ reg0F' = 64
  /\ pc' = "poll"
  /\ UNCHANGED <<reg09, up, fw, want, outer, failed, status, tries>>

\* Was the sleep deep?  0x0F tells, and is reset at once.
ReadStored ==
  /\ pc = "stored"
  /\ \E read \in OKs, written \in OKs :
     \E deep \in IF read THEN {reg0F = 67} ELSE BOOLEAN :
       /\ stored' = deep
       /\ reg0F' = IF deep /\ written THEN 64 ELSE reg0F
       /\ status' = (status \/ ~read \/ (deep /\ ~written))
  /\ pc' = "poll"
  /\ UNCHANGED <<reg09, up, fw, want, outer, failed, tries>>

\* Mutants: one poll too many; no timeout.
PollForOneMore(value, next, stop) ==
  \E ok \in OKs :
    /\ status' = (status \/ ~ok \/ tries > MaxTries)
    /\ pc' = IF ~(ok /\ up = value) /\ tries <= MaxTries THEN pc
             ELSE IF status' THEN stop ELSE next
    /\ tries' = IF pc' = pc THEN tries + 1 ELSE 0

PollForForever(value, next, stop) ==
  \E ok \in OKs :
    /\ status' = (status \/ ~ok)
    /\ pc' = IF ~(ok /\ up = value) THEN pc ELSE IF status' THEN stop ELSE next
    /\ UNCHANGED tries

\* One poll of _vl53l8cx_poll_for_answer for bit 0 of 0x06.  The last one is a
\* timeout whatever it reads; one that fails judges what temp_buffer held.  The
\* sensor is late only if Faults.
PollFor(value, next, stop) ==
  \E ok \in OKs :
  \E match \in IF ok THEN {up = value} ELSE BOOLEAN :
    /\ Faults \/ up = value \/ tries + 1 < MaxTries
    /\ status' = (status \/ ~ok \/ tries = MaxTries)
    /\ pc' = IF ~match /\ tries < MaxTries THEN pc
             ELSE IF status' THEN stop ELSE next
    /\ tries' = IF pc' = pc THEN tries + 1 ELSE 0

\* The mode is applied, or not in time: the code goes on either way.
Poll ==
  /\ pc = "poll"
  /\ LET next == CASE want = "deep" -> "deepen"
                   [] want = "wakeup" /\ stored -> "reboot"
                   [] OTHER -> "done"
     IN PollFor(want = "wakeup", next, next)
  /\ UNCHANGED <<chip, call>>

\* 0x0F := 0x43.
Deepen ==
  /\ pc = "deepen"
  /\ \E ok \in OKs : /\ reg0F' = IF ok THEN 67 ELSE reg0F
                    /\ status' = (status \/ ~ok)
  /\ pc' = "done"
  /\ UNCHANGED <<reg09, up, fw, call, tries>>

-----------------------------------------------------------------------------
(* vl53l8cx_init, with a status of its own                                 *)

CallInit == /\ pc = "idle"
            /\ pc' = "reboot" /\ want' = "init"
            /\ stored' = FALSE /\ outer' = FALSE /\ status' = FALSE
            /\ UNCHANGED <<chip, tries, failed>>

\* A mutant: 0x0F is not part of the sequence.
RebootShort ==
  /\ pc = "reboot"
  /\ \E ok \in OKs :
       /\ IF ok THEN reg09' = 4 /\ fw' = "none"
          ELSE reg09' \in {reg09, 4} /\ fw' \in {fw, "none"}
       /\ status' = ~ok
  /\ outer' = status
  /\ pc' = "boot"
  /\ tries' = 0
  /\ UNCHANGED <<reg0F, up, want, stored, failed>>

\* The reboot sequence.  If one of its writes fails, so may others.
Reboot ==
  /\ pc = "reboot"
  /\ \E ok \in OKs :
       /\ IF ok THEN reg09' = 4 /\ reg0F' = 64 /\ fw' = "none"
          ELSE reg09' \in {reg09, 4} /\ reg0F' \in {reg0F, 64, 67} /\ fw' \in {fw, "none"}
       /\ status' = ~ok
  /\ outer' = status
  /\ pc' = "boot"
  /\ tries' = 0
  /\ UNCHANGED <<up, want, stored, failed>>

\* Wait for the boot; any failure so far ends init.
Boot ==
  /\ pc = "boot"
  /\ PollFor(TRUE, "download", "done")
  /\ UNCHANGED <<chip, call>>

\* The firmware is downloaded and the MCU reset.  The poll for its boot tells of
\* no timeout, but of reads that fail.
Download ==
  /\ pc = "download"
  /\ \E written \in OKs, read \in OKs :
       /\ fw' = IF written /\ up THEN "loaded" ELSE fw
       /\ status' = (status \/ ~written \/ ~read)
  /\ pc' = IF status' THEN "done" ELSE "checksum"
  /\ UNCHANGED <<reg09, reg0F, up, call, tries>>

\* VL53L8CX_STATUS_FW_CHECKSUM_FAIL, or go on.
Checksum ==
  /\ pc = "checksum"
  /\ \E ok \in OKs : status' = (~ok \/ fw = "none")
  /\ pc' = IF status' THEN "done" ELSE "configure"
  /\ UNCHANGED <<chip, call, tries>>

\* Offsets, crosstalk and default settings, which a running MCU answers.
Configure ==
  /\ pc = "configure"
  /\ \E written \in OKs, read \in OKs :
       /\ fw' = IF written /\ up THEN "configured" ELSE fw
       /\ status' = (~written \/ ~read \/ ~up)
  /\ pc' = "done"
  /\ UNCHANGED <<reg09, reg0F, up, call, tries>>

\* The call returns: status |= vl53l8cx_init(), if there was one.
Return == /\ pc = "done"
          /\ pc' = "idle"
          /\ status' = FALSE
          /\ failed' = failed \cup
               IF ~(status \/ outer) THEN {}
               ELSE IF want = "init" THEN {"init"} ELSE {"set_power_mode"}
          /\ UNCHANGED <<chip, want, stored, outer, tries>>

-----------------------------------------------------------------------------
Step == \/ Power \/ ReadStored \/ Poll \/ Deepen
        \/ Reboot \/ Boot \/ Download \/ Checksum \/ Configure \/ Return

Next == Settle \/ Forget \/ SetMode \/ CallInit \/ Step

SafeSpec == Init /\ [][Next]_vars

\* A running call goes on.  The sensor need not answer.
Spec == SafeSpec /\ WF_vars(Step)

\* The call that ends returns 0.
OK == pc = "done" /\ ~status /\ ~outer

-----------------------------------------------------------------------------
(* Properties.                                                             *)

\* init recovers the sensor from whatever an earlier call left: from sleep, from
\* deep sleep, from an init or a change of mode that failed half-way.
InitRestores ==
  OK /\ want = "init" => fw = "configured" /\ reg09 = 4 /\ reg0F = 64

\* A change of mode that returns 0 has switched the sensor on or off as asked, and
\* to deep sleep if that was asked, whatever failed in the calls before it.
\* (Sleep asked for in deep sleep leaves it in deep sleep, with status 0.)
ModeApplied ==
  OK /\ want \in Modes => /\ (want = "wakeup") = (reg09 = 4)
                          /\ (want = "deep") => (reg0F = 67)

\* Sleep "retains the firmware and the configuration", deep sleep loses them and
\* wake-up restores them: as long as every call returned 0, a sensor that was woken
\* up can range, in whatever order the modes followed one another.
AwakeMeansReady == OK /\ want = "wakeup" /\ failed = {} => fw = "configured"

\* "When user want to restart the sensor, he can use macro ...WAKEUP" and "status :
\* 0 if power mode is OK" (vl53l8cx_api.h, of set_power_mode): a wake-up that
\* returns 0 gives a sensor that can range if it could before it was put to
\* sleep, also when an earlier wake-up failed.  The code does not keep it.
RetryRestarts ==
  OK /\ want = "wakeup" /\ "init" \notin failed => fw = "configured"

\* Every call returns, even if the sensor never answers: polls time out.
CallsReturn == pc # "idle" ~> pc = "idle"
=============================================================================
