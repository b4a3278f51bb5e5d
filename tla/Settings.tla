------------------------------ MODULE Settings ------------------------------
(***************************************************************************)
(* The sensor's settings (vl53l8cx_api.c): blocks of the device's memory   *)
(* that the host reads and writes through one command mailbox, whose       *)
(* answer it polls for.  A set function changes a few bytes of a block by  *)
(* reading the block, changing them and writing all of it back, and some   *)
(* set functions have several blocks to keep in step.                      *)
(***************************************************************************)
EXTENDS Naturals, Sequences

\* The set functions that replace one field of one block, and that block.
FieldOf ==
  [set_ranging_frequency_hz |-> "freq", set_integration_time_ms |-> "time",
   set_sharpener_percent |-> "sharpener", set_target_order |-> "order",
   set_xtalk_margin |-> "margin", set_external_sync_pin_enable |-> "sync",
   set_VHV_repeat_count |-> "vhv", set_results_crc |-> "crc",
   set_detection_thresholds_auto_stop |-> "pipe"]
Setters == DOMAIN FieldOf
Readable == {"zone", "mode", "enable"} \cup {FieldOf[f] : f \in Setters \ {"set_results_crc"}}
Functions == {"set_resolution", "set_ranging_mode", "set_detection_thresholds_enable"}
             \cup Setters \cup Readable

CONSTANTS
  MaxTries,     \* polls for an answer before the timeout (200)
  Faults,       \* may transfers fail, and the sensor answer too late?
  Invalid,      \* does the application pass values that are not supported?
  Applications  \* sets of functions; get functions by the name of their block

ASSUME SettingsAssumption ==
  /\ MaxTries \in Nat \ {0} /\ Faults \in BOOLEAN /\ Invalid \in BOOLEAN
  /\ Applications \subseteq SUBSET Functions

\* The blocks of VL53L8CX_DCI_*: DSS_CONFIG, ZONE_CONFIG, the offset and crosstalk
\* grids, RANGING_MODE, SINGLE_RANGE, DET_THRESH_GLOBAL_CONFIG ("enable"),
\* DET_THRESH_CONFIG ("interrupt"), and those of one field.
Blocks == {"dss", "zone", "offset", "xtalk", "mode", "single", "enable", "interrupt"}
          \cup {FieldOf[f] : f \in Setters}
Resolutions == {16, 64}
RangingModes == {1, 3}      \* continuous, autonomous
Switch == {0, 1}
Wrong == 254                \* a value no set function supports
Unknown == 255              \* what bytes from somewhere else happen to say

\* Two values of each field.
Supported ==
  [b \in {FieldOf[f] : f \in Setters} |->
     CASE b = "freq" -> {1, 60} [] b = "order" -> {1, 2}
       [] b \in {"sync", "crc", "pipe"} -> Switch [] OTHER -> {2, 50}]
Vals == Resolutions \cup RangingModes \cup Switch \cup {1, 60, 2, 50} \cup {Wrong, Unknown}
Junk == "junk"              \* no block: where such bytes are of

\* A block: the value the set functions change, and whose bytes the rest are.
Contents == [val : Vals, of : Blocks \cup {Junk}]
Block(b, v) == [val |-> v, of |-> b]
NoData == [val |-> Unknown, of |-> Junk]

Ops == {"read", "write", "replace", "rewrite"}
Commands == [op : Ops, block : Blocks, val : Vals]
Cmd(o, b, v) == [op |-> o, block |-> b, val |-> v]

VARIABLES
  app,      \* the functions this application uses; does not change
  dev,      \* the sensor's blocks
  copy,     \* crc_checksum_for_results_pkt and is_auto_stop_enabled, of the host
  pending,  \* the command in the mailbox: [block, write, data], or none
  answer,   \* VL53L8CX_UI_CMD_STATUS says that the last command was done
  ui,       \* the data area of the mailbox
  pc,       \* where the host is
  call,     \* the function it runs: [name, arg]
  job,      \* the mailbox commands of that function still to do
  data,     \* temp_buffer, as far as it holds a block
  status,   \* is the status not 0?
  tries,    \* timeout of _vl53l8cx_poll_for_answer
  failed    \* has any call returned something else than 0?  (History variable.)

sensor == <<dev, pending, answer, ui>>
calls == <<app, copy, call, failed>>
vars == <<sensor, calls, pc, job, data, status, tries>>

None == [block |-> Junk]

TypeOK ==
  /\ app \in Applications
  /\ copy \in [{"crc", "pipe"} -> Switch]
  /\ dev \in [Blocks -> Contents]
  /\ pending \in [block : Blocks, write : BOOLEAN, data : Contents] \cup {None}
  /\ answer \in BOOLEAN
  /\ ui \in Contents
  /\ pc \in {"idle", "ask", "await", "fetch", "send", "confirm", "done"}
  /\ call \in [name : app \cup {"none"}, arg : Vals]
  /\ job \in Seq(Commands)
  /\ (pc \in {"idle", "done"}) <=> (job = <<>>)
  /\ data \in Contents
  /\ status \in BOOLEAN
  /\ tries \in 0 .. MaxTries
  /\ failed \in BOOLEAN

Default(b) ==
  CASE b \in {"mode", "single"} -> 3 [] b = "freq" -> 1 [] b = "order" -> 2
    [] b \in {"sync", "crc", "pipe", "enable", "interrupt"} -> 0
    [] b \in {"time", "sharpener", "margin", "vhv"} -> 2 [] OTHER -> 16

\* After vl53l8cx_init: 4x4, autonomous, 1 Hz, strongest target first, no thresholds.
Init ==
  /\ app \in Applications
  /\ dev = [b \in Blocks |-> Block(b, Default(b))]
  /\ copy = [c \in {"crc", "pipe"} |-> 0]
  /\ pending = None /\ answer = TRUE /\ ui = NoData
  /\ pc = "idle" /\ call = [name |-> "none", arg |-> Wrong] /\ job = <<>>
  /\ data = NoData /\ status = FALSE /\ tries = 0 /\ failed = FALSE

\* Does a transfer succeed?  (A platform that reports failing writes.)
OKs == {TRUE, ~Faults}

-----------------------------------------------------------------------------
(* The functions, as the mailbox commands they give.                       *)

\* send_offset_data, send_xtalk_data: the calibrated grids are of 8x8 zones, and
\* are reduced to 4x4 for that resolution only.
Grid(r) == IF r = 16 THEN 16 ELSE 64

\* A mutant: the crosstalk grid is forgotten.
ResolutionJobNoXtalk(r) ==
  <<Cmd("replace", "dss", r), Cmd("replace", "zone", r), Cmd("write", "offset", Grid(r))>>

\* A value that is not supported skips the switch, and not the grids.
ResolutionJob(r) ==
  (IF r \in Resolutions THEN <<Cmd("replace", "dss", r), Cmd("replace", "zone", r)>>
   ELSE <<>>)
  \o <<Cmd("write", "offset", Grid(r)), Cmd("write", "xtalk", Grid(r))>>

\* A mutant: single_range is left as it is.
ModeJobNoSingle(m) == <<Cmd("replace", "mode", m)>>

\* A mode that is not supported: the block is written back as it was read, and
\* single_range as it was initialised, which is that of the continuous mode.
ModeJob(m) ==
  IF m \in RangingModes
  THEN <<Cmd("replace", "mode", m), Cmd("write", "single", m)>>
  ELSE <<Cmd("rewrite", "mode", Unknown), Cmd("write", "single", 1)>>

\* The global switch, and what raises an interrupt.
EnableJob(e) == <<Cmd("replace", "enable", e), Cmd("replace", "interrupt", e)>>

\* A mutant: the interrupt is left as it is.
EnableJobNoInterrupt(e) == <<Cmd("replace", "enable", e)>>

\* These look at their argument first, and send nothing if it is wrong.
Checked == {"time", "sharpener", "order", "margin"}

FieldJob(b, v) == IF b \in Checked /\ v = Wrong THEN <<>> ELSE <<Cmd("replace", b, v)>>

\* A mutant: turning the feature off keeps the host's flag.
CopiedWhenOn(name, v) ==
  IF name \in Setters /\ FieldOf[name] \in DOMAIN copy /\ v # 0
  THEN [copy EXCEPT ![FieldOf[name]] = v] ELSE copy

\* The host's flag, which get_ranging_data or stop_ranging look at, follows the
\* argument, whatever becomes of the command.
Copied(name, v) ==
  IF name \in Setters /\ FieldOf[name] \in DOMAIN copy
  THEN [copy EXCEPT ![FieldOf[name]] = v] ELSE copy

Start(op) == IF op = "write" THEN "send" ELSE "ask"

Begin(name, arg, cmds, refused) ==
  /\ pc = "idle" /\ name \in app
  /\ call' = [name |-> name, arg |-> arg]
  /\ job' = cmds
  /\ status' = refused
  /\ pc' = IF cmds = <<>> THEN "done" ELSE Start(Head(cmds).op)
  /\ copy' = Copied(name, arg)
  /\ UNCHANGED <<sensor, app, failed, data, tries>>

Arguments(good) == good \cup IF Invalid THEN {Wrong} ELSE {}

SetResolution == \E r \in Arguments(Resolutions) :
                   Begin("set_resolution", r, ResolutionJob(r), r = Wrong)

\* "status = VL53L8CX_STATUS_INVALID_PARAM", and on.
SetRangingMode == \E m \in Arguments(RangingModes) :
                    Begin("set_ranging_mode", m, ModeJob(m), m = Wrong)

SetThresholdsEnable == \E e \in Switch :
                         Begin("set_detection_thresholds_enable", e, EnableJob(e), FALSE)

\* The other set functions.  Those that do not check their argument have no wrong
\* ones here: they do with them what they do with any other.
SetField == \E f \in Setters :
              LET b == FieldOf[f] IN
              \E v \in IF b \in Checked THEN Arguments(Supported[b]) ELSE Supported[b] :
                Begin(f, v, FieldJob(b, v), v = Wrong)

Get == \E b \in Readable : Begin(b, Wrong, <<Cmd("read", b, Wrong)>>, FALSE)

-----------------------------------------------------------------------------
(* The mailbox.                                                            *)

\* A command is written.  That one that arrives replaces the one in the mailbox,
\* and that its answer is not there yet, is assumed of the firmware: the driver
\* relies on both, and nothing in it shows them.
Post(cmd, next) ==
  /\ \E ok \in OKs :
       /\ pending' = IF ok THEN cmd ELSE pending
       /\ answer' = (answer /\ ~ok)
       /\ status' = (status \/ ~ok)
  /\ pc' = next
  /\ tries' = 0
  /\ UNCHANGED <<dev, ui, calls, job, data>>

\* The firmware carries the command out and says so.
Execute ==
  /\ pending # None
  /\ IF pending.write
     THEN dev' = [dev EXCEPT ![pending.block] = pending.data] /\ UNCHANGED ui
     ELSE ui' = dev[pending.block] /\ UNCHANGED dev
  /\ pending' = None /\ answer' = TRUE
  /\ UNCHANGED <<pc, calls, job, data, status, tries>>

\* Mutants: the timeout goes unreported; one poll too many.
PollQuiet(next) ==
  /\ Faults \/ answer \/ tries + 1 < MaxTries
  /\ \E ok \in OKs :
       /\ status' = (status \/ ~ok)
       /\ IF (ok /\ answer) \/ tries = MaxTries THEN next /\ tries' = 0
          ELSE tries' = tries + 1 /\ UNCHANGED <<pc, job>>
  /\ UNCHANGED <<sensor, calls, data>>

PollOneMore(next) ==
  /\ \E ok \in OKs :
       /\ status' = (status \/ ~ok \/ tries > MaxTries)
       /\ IF (ok /\ answer) \/ tries > MaxTries THEN next /\ tries' = 0
          ELSE tries' = tries + 1 /\ UNCHANGED <<pc, job>>
  /\ UNCHANGED <<sensor, calls, data>>

\* One poll for the answer.  The last one is a timeout whatever it reads; a poll
\* that fails looks at what is in temp_buffer; and the sensor may answer that
\* its MCU is in error.  After a timeout or an error the function goes on as if
\* the command were done.
Poll(next) ==
  /\ Faults \/ answer \/ tries + 1 < MaxTries
  /\ \E ok \in OKs, mcu_error \in {FALSE, Faults} :
     \E match \in IF ok THEN {answer} ELSE BOOLEAN :
       LET late == tries = MaxTries
           over == match \/ late \/ mcu_error
       IN /\ status' = (status \/ ~ok \/ late \/ mcu_error)
          /\ IF over THEN next /\ tries' = 0
             ELSE tries' = tries + 1 /\ UNCHANGED <<pc, job>>
  /\ UNCHANGED <<sensor, calls, data>>

\* On to the next command of the function, or out of it.
Proceed ==
  /\ job' = Tail(job)
  /\ pc' = IF Len(job) = 1 THEN "done" ELSE Start(job[2].op)

\* dci_read_data: ask for the block,
Ask == /\ pc = "ask"
       /\ Post([block |-> Head(job).block, write |-> FALSE, data |-> NoData], "await")

\* A mutant: the data area is read at once.
AwaitNothing == /\ pc = "await" /\ pc' = "fetch"
                /\ UNCHANGED <<sensor, calls, job, data, status, tries>>

\* wait for it,
Await == pc = "await" /\ Poll(pc' = "fetch" /\ UNCHANGED job)

\* and read the data area.  If that fails temp_buffer keeps older bytes.
Fetch ==
  /\ pc = "fetch"
  /\ \E ok \in OKs : /\ data' = IF ok THEN ui ELSE NoData
                     /\ status' = (status \/ ~ok)
  /\ IF Head(job).op = "read" THEN Proceed ELSE pc' = "send" /\ UNCHANGED job
  /\ UNCHANGED <<sensor, calls, tries>>

\* What is written back: the bytes read, or not read, with the new value in
\* them; or a block that the host makes up itself.
Outgoing ==
  CASE Head(job).op = "write" -> Block(Head(job).block, Head(job).val)
    [] Head(job).op = "replace" -> [data EXCEPT !.val = Head(job).val]
    [] OTHER -> data

\* dci_write_data, send_offset_data or send_xtalk_data, whether or not what came
\* before it failed.  Bytes of another block do for junk.
Send ==
  /\ pc = "send"
  /\ LET b == Head(job).block
         d == [Outgoing EXCEPT !.of = IF @ = b THEN b ELSE Junk]
     IN Post([block |-> b, write |-> TRUE, data |-> d], "confirm")

Confirm == pc = "confirm" /\ Poll(Proceed)

Return == /\ pc = "done"
          /\ pc' = "idle" /\ call' = [name |-> "none", arg |-> Wrong]
          /\ data' = NoData /\ status' = FALSE
          /\ failed' = (failed \/ status)
          /\ UNCHANGED <<sensor, app, copy, job, tries>>

-----------------------------------------------------------------------------
Next == \/ SetResolution \/ SetRangingMode \/ SetThresholdsEnable \/ SetField \/ Get
        \/ Ask \/ Await \/ Fetch \/ Send \/ Confirm \/ Return
        \/ Execute

SafeSpec == Init /\ [][Next]_vars

OK == pc = "done" /\ ~status

-----------------------------------------------------------------------------
(* Properties.                                                             *)

Value(b) == dev[b].val

\* The blocks that a set function is about.
About(f) ==
  {b \in Blocks : \/ f = "set_resolution" /\ b \in {"dss", "zone", "offset", "xtalk"}
                  \/ f = "set_ranging_mode" /\ b \in {"mode", "single"}
                  \/ f = "set_detection_thresholds_enable" /\ b \in {"enable", "interrupt"}
                  \/ f \in Setters /\ FieldOf[f] = b}

\* A set function that returns 0 has brought every block it is about to the
\* value asked for, whatever earlier calls left half done: after a failure the
\* application can try again.
SetHolds == OK => \A b \in About(call.name) : Value(b) = call.arg

\* A get function that returns 0 tells what the sensor holds: the answer it
\* polled for was that of its own command.
GetTells == OK /\ call.name \in Blocks => data = dev[call.name]

\* As long as every call returned 0, the blocks that belong together agree between
\* any two calls, the grids are those of the resolution ("Data extrapolation is
\* required for 4X4", vl53l8cx_api.c), and every block has its own bytes around
\* the values that were set.
InStep ==
  pc = "idle" /\ ~failed =>
    /\ \A b \in {"dss", "offset", "xtalk"} : Value(b) = Value("zone")
    /\ Value("mode") = Value("single")
    /\ Value("enable") = Value("interrupt")
    /\ \A b \in Blocks : dev[b].of = b

\* The flags by which the host decides whether to check a packet's CRC and whether
\* to send a stop request are those of the sensor after a set function returned 0,
\* whatever earlier calls left, and stay so until the next one.
CopiesAgree ==
  \A c \in DOMAIN copy :
    /\ OK /\ call.name \in Setters /\ FieldOf[call.name] = c => copy[c] = Value(c)
    /\ pc = "idle" /\ ~failed => copy[c] = Value(c)
=============================================================================
