---------------------------- MODULE Calibration ----------------------------
(***************************************************************************)
(* The crosstalk plugin (vl53l8cx_plugin_xtalk.c).  A calibration saves    *)
(* seven settings, changes the configuration of the sensor, measures,      *)
(* reads the new crosstalk grid into the host's buffer, loads the default  *)
(* configuration and restores the seven, and it goes on to the end         *)
(* whatever fails on the way.  A get or set function of a setting is one   *)
(* step here (Settings has their mailbox commands).                        *)
(***************************************************************************)
EXTENDS Naturals, Sequences

CONSTANTS
  MaxFaults,  \* steps that fail (bound)
  Tuned       \* the settings that the application changes

\* The settings that calibrate_xtalk saves, and others that it does not.
Saved == <<"resolution", "frequency", "integration", "sharpener", "order",
           "margin", "mode">>
Settings == {Saved[i] : i \in 1 .. Len(Saved)} \cup {"sync", "enable", "interrupt"}

ASSUME CalibrationAssumption ==
  /\ MaxFaults \in Nat /\ Tuned \subseteq Settings \ {"sharpener"}

Junk == "junk"    \* whatever a read that failed leaves
Settable == {"default", "changed"}

\* What it may leave of a setting: another value, or one the set function refuses (the
\* mode is read as one of the two).
JunkOf(s) == CASE s = "resolution" -> {0, 16, 64} [] s = "sharpener" -> {0, 100}
               [] s = "mode" -> Settable [] OTHER -> {"changed", Junk}

\* The range check of the set function of s; that of the frequency has none.
InRange(s, v) ==
  CASE s = "sharpener" -> v < 100 [] s = "frequency" -> TRUE [] OTHER -> v # Junk

\* set_sharpener_percent and get_sharpener_percent: a byte stands for the percent.
ToByte(p) == (p * 255) \div 100
ToPercent(b) == (b * 100) \div 255

\* A crosstalk grid is a record: whose it is, and of 8x8 or, reduced, of 4x4.
\* send_xtalk_data takes the host's buffer to be of 8x8.
Sent(h, r) ==
  IF r = 16 THEN [of |-> IF h.zones = 64 THEN h.of ELSE Junk, zones |-> 16] ELSE h

\* VL53L8CX_DEFAULT_CONFIGURATION: the blocks in it.  That of the global switch of
\* the thresholds is not among them, that of their interrupt is.
Defaults ==
  [s \in Settings \ {"enable"} |->
     CASE s = "resolution" -> 16 [] s = "sharpener" -> 3 [] OTHER -> "default"]

VARIABLES
  settings,  \* of the sensor
  grid,      \* the crosstalk grid of the sensor
  measured,  \* has the sensor been started for a calibration?
  host,      \* xtalk_data
  saved,     \* what the get functions told
  out,       \* the caller's buffer of get_caldata_xtalk
  call,      \* the function that runs
  job,       \* its steps still to do
  status,    \* is the status not 0?
  lost,      \* the kinds of step that failed in this call  (history)
  before,    \* the settings when the call began  (history)
  faults,    \* steps that failed so far
  failed     \* did a call return something else than 0?  (history)

sensor == <<settings, grid, measured>>
history == <<before, failed>>
vars == <<sensor, host, saved, out, call, job, status, lost, faults, history>>

\* The local variables of a function, before it reads.
Unsaved == [s \in Settings |-> CHOOSE v \in JunkOf(s) : TRUE]

Init ==
  /\ settings = [s \in Settings |-> IF s = "enable" THEN "default" ELSE Defaults[s]]
  /\ grid = [of |-> "default", zones |-> 16] /\ measured = FALSE
  /\ host = [of |-> "default", zones |-> 64]
  /\ saved = Unsaved /\ out = host
  /\ call = "none" /\ job = <<>>
  /\ status = FALSE /\ lost = {} /\ faults = 0
  /\ before = settings /\ failed = FALSE

-----------------------------------------------------------------------------
(* The functions.                                                          *)

Do(op) == [op |-> op, on |-> "resolution"]
Each(op) == [i \in 1 .. Len(Saved) |-> [op |-> op, on |-> Saved[i]]]

\* A mutant: the settings are restored, and then the defaults are loaded.
CalibrateRestoresFirst(valid) ==
  Each("save")
  \o (IF valid THEN <<Do("full"), Do("prepare"), Do("launch"), Do("await")>> ELSE <<>>)
  \o <<Do("read")>> \o Each("restore") \o <<Do("defaults")>>

\* A mutant: it measures in the resolution the sensor is in.
CalibrateAsItIs(valid) ==
  Each("save")
  \o (IF valid THEN <<Do("prepare"), Do("launch"), Do("await")>> ELSE <<>>)
  \o <<Do("read"), Do("defaults")>> \o Each("restore")

\* Wrong arguments are found after the settings are saved, and skip the
\* measurement, but not what comes after it.
CalibrateJob(valid) ==
  Each("save")
  \o (IF valid THEN <<Do("full"), Do("prepare"), Do("launch"), Do("await")>> ELSE <<>>)
  \o <<Do("read"), Do("defaults")>> \o Each("restore")

\* A mutant: the sensor is not switched to 8x8.
GetCaldataAsItIs == <<Do("save"), Do("copy"), Do("restore")>>

GetCaldataJob == <<Do("save"), Do("full"), Do("copy"), Do("restore")>>

\* A mutant: the new data is not sent.
SetCaldataKept == <<Do("save"), Do("take")>>

SetCaldataJob == <<Do("save"), Do("take"), Do("restore")>>

Begin(name, steps, refused) ==
  /\ call = "none"
  /\ call' = name /\ job' = steps /\ status' = refused
  /\ lost' = {} /\ before' = settings
  /\ UNCHANGED <<sensor, host, saved, out, faults, failed>>

Calibrate == \E valid \in BOOLEAN : Begin("calibrate_xtalk", CalibrateJob(valid), ~valid)
GetCaldata == Begin("get_caldata_xtalk", GetCaldataJob, FALSE)
SetCaldata == Begin("set_caldata_xtalk", SetCaldataJob, FALSE)

\* set_detection_thresholds_enable writes two of the settings.
Fields(s) == IF s = "enable" THEN {"enable", "interrupt"} ELSE {s}

\* Between these calls the application changes its settings.
Tune ==
  /\ call = "none"
  /\ \/ \E s \in Tuned \ {"resolution"}, c \in Settable :
          settings' = [t \in Settings |-> IF t \in Fields(s) THEN c ELSE settings[t]]
          /\ UNCHANGED grid
     \/ \E r \in {16, 64} :
          /\ settings' = [settings EXCEPT !["resolution"] = r]
          /\ "resolution" \in Tuned /\ grid' = Sent(host, r)
  /\ UNCHANGED <<measured, host, saved, out, call, job, status, lost, faults, history>>

-----------------------------------------------------------------------------
(* Their steps.                                                            *)

\* A step that fails sets the status, and the function goes on.
Step(op, ok) ==
  /\ job # <<>> /\ Head(job).op = op
  /\ ok \/ faults < MaxFaults
  /\ job' = Tail(job)
  /\ status' = (status \/ ~ok)
  /\ lost' = IF ok THEN lost ELSE lost \cup {op}
  /\ faults' = IF ok THEN faults ELSE faults + 1
  /\ UNCHANGED <<call, history>>

\* get_*: a sharpener is a byte of the sensor and a percent of the host.
Told(s) == IF s = "sharpener" THEN ToPercent(settings[s]) ELSE settings[s]

Save ==
  \E ok \in BOOLEAN :
    /\ Step("save", ok)
    /\ LET s == Head(job).on IN
       \E v \in IF ok THEN {Told(s)} ELSE JunkOf(s) :
         saved' = [saved EXCEPT ![s] = v]
    /\ UNCHANGED <<sensor, host, out>>

\* set_resolution: the zones, unless the resolution makes no sense, and the grid.
\* If it fails either may have been done.
Resolve(r, ok) ==
  LET to == [settings EXCEPT !["resolution"] = IF r \in {16, 64} THEN r ELSE @]
  IN /\ settings' \in {to} \cup IF ok THEN {} ELSE {settings}
     /\ grid' \in {Sent(host, r)} \cup IF ok THEN {} ELSE {grid}

\* set_*: a value out of range is refused.
Assign(s, v, ok) ==
  LET to == IF ~InRange(s, v) THEN settings
            ELSE [settings EXCEPT ![s] = IF s = "sharpener" THEN ToByte(v) ELSE v]
  IN /\ settings' \in {to} \cup IF ok THEN {} ELSE {settings}
     /\ UNCHANGED grid

Restore ==
  \E ok \in BOOLEAN :
    /\ Step("restore", ok)
    /\ LET s == Head(job).on IN
       IF s = "resolution" THEN Resolve(saved[s], ok) ELSE Assign(s, saved[s], ok)
    /\ UNCHANGED <<measured, host, saved, out>>

Full == \E ok \in BOOLEAN : /\ Step("full", ok) /\ Resolve(64, ok)
                            /\ UNCHANGED <<measured, host, saved, out>>

\* VL53L8CX_CALIBRATE_XTALK, CAL_CFG and the list of outputs.
Prepare == \E ok \in BOOLEAN : /\ Step("prepare", ok)
                               /\ UNCHANGED <<sensor, host, saved, out>>

Launch == \E ok \in BOOLEAN :
            /\ Step("launch", ok)
            /\ measured' \in {TRUE} \cup IF ok THEN {} ELSE {measured}
            /\ UNCHANGED <<settings, grid, host, saved, out>>

\* The end of the measurement: a new grid; or none, as the cover glass is too good
\* (VL53L8CX_STATUS_XTALK_FAILED), when the default data is taken; or the timeout.
Await ==
  \/ /\ Step("await", TRUE)
     /\ grid' = IF measured THEN [of |-> "new", zones |-> settings["resolution"]] ELSE grid
     /\ measured \/ lost # {}
     /\ UNCHANGED <<settings, measured, host, saved, out>>
  \/ /\ Step("await", FALSE)
     /\ host' \in {host, [of |-> "default", zones |-> 64]}
     /\ UNCHANGED <<sensor, saved, out>>

\* The sensor's grid is read back, with the default data or without.
Read ==
  \E ok \in BOOLEAN :
    /\ Step("read", ok)
    /\ host' = IF ok THEN grid ELSE [grid EXCEPT !.of = Junk]
    /\ UNCHANGED <<sensor, saved, out>>

Copy ==
  \E ok \in BOOLEAN :
    /\ Step("copy", ok)
    /\ out' = IF ok THEN grid ELSE [grid EXCEPT !.of = Junk]
    /\ UNCHANGED <<sensor, host, saved>>

Take == /\ Step("take", TRUE)
        /\ host' = [of |-> "user", zones |-> 64]
        /\ UNCHANGED <<sensor, saved, out>>

\* The blocks of the default configuration are back as after init, others are as
\* they were.  A measurement that timed out ends, at the latest, here.
Load ==
  \E ok \in BOOLEAN :
    /\ Step("defaults", ok)
    /\ settings' \in {[s \in Settings |-> IF s \in DOMAIN Defaults THEN Defaults[s]
                                          ELSE settings[s]]}
                     \cup IF ok THEN {} ELSE {settings}
    /\ measured' = FALSE
    /\ UNCHANGED <<grid, host, saved, out>>

Return ==
  /\ call # "none" /\ job = <<>>
  /\ call' = "none" /\ status' = FALSE /\ lost' = {}
  /\ failed' = (failed \/ status)
  /\ saved' = Unsaved /\ before' = settings
  /\ UNCHANGED <<sensor, host, out, job, faults>>

-----------------------------------------------------------------------------
Next == \/ Tune \/ Calibrate \/ GetCaldata \/ SetCaldata
        \/ Save \/ Full \/ Prepare \/ Launch \/ Await \/ Read \/ Copy \/ Take
        \/ Load \/ Restore \/ Return

SafeSpec == Init /\ [][Next]_vars

Done(name) == call = name /\ job = <<>>
OK == call # "none" /\ job = <<>> /\ ~status

-----------------------------------------------------------------------------
(* Properties.                                                             *)

\* However a calibration ends - the glass too good, a timeout, wrong arguments, or a
\* step that failed in between - the settings it saves are those from before if
\* they could be read and written.  The sharpener may have lost a percent.
SavedKept ==
  Done("calibrate_xtalk") /\ {"save", "restore"} \cap lost = {} =>
    /\ \A i \in 1 .. Len(Saved) :
         Saved[i] # "sharpener" => settings[Saved[i]] = before[Saved[i]]
    /\ ToPercent(before["sharpener"]) - ToPercent(settings["sharpener"]) \in {0, 1}

\* A function of the plugin that returns 0 leaves the sensor with the host's
\* crosstalk data, reduced if it is in 4x4, whatever earlier calls left behind.
GridInUse == OK => grid = Sent(host, settings["resolution"])

\* get_caldata_xtalk returns the host's data, not the grid the sensor had in 4x4.
CaldataTells == OK /\ call = "get_caldata_xtalk" => out = host

\* As long as every call returned 0 the host's data is of 8x8 between two calls, as
\* send_xtalk_data takes it to be.
HostWhole == call = "none" /\ ~failed => host.zones = 64 /\ host.of # Junk

\* "This function allows indicating if the detection thresholds are enabled"
\* (vl53l8cx_plugin_detection_thresholds.h): get_detection_thresholds_enable tells
\* of the switch, which agrees with the interrupt's configuration as long as all
\* calls return 0.  A calibration loads the default for one of the two only.
EnableTells == call = "none" /\ ~failed => settings["enable"] = settings["interrupt"]
=============================================================================
