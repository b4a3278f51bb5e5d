-------------------------- MODULE Settings_proofs --------------------------
(***************************************************************************)
(* Proofs about Settings, for any number of polls, any applications, with  *)
(* and without transfers that fail and arguments that are wrong: what a    *)
(* call that returns 0 has achieved.  The argument: as long as nothing     *)
(* failed in a call, the mailbox holds that call's own command or none, a  *)
(* block that it is about is still to be written or has its value, and     *)
(* every command that is still to come writes that value.                  *)
(***************************************************************************)
EXTENDS Settings, SequenceTheorems, TLAPS

\* The blocks that the function still has a command for.
Todo == {job[j].block : j \in 1 .. Len(job)}

\* A command that the function may give when its argument was right.
Meant(cmds, name, arg) ==
  \A j \in 1 .. Len(cmds) :
    \/ /\ cmds[j].op \in {"replace", "write"}
       /\ cmds[j].block \in About(name) /\ cmds[j].val = arg
    \/ cmds[j].op = "read" /\ Len(cmds) = 1 /\ cmds[j].block = name

\* Where the host is in its function, and what is left of that function.
JobInv ==
  /\ pc = "idle" => ~status /\ call.name = "none"
  /\ \A c \in DOMAIN copy :
       call.name \in Setters /\ FieldOf[call.name] = c => copy[c] = call.arg
  /\ ~status =>
       /\ Meant(job, call.name, call.arg)
       /\ \A b \in About(call.name) : b \in Todo \/ Value(b) = call.arg

\* The mailbox, while nothing failed in the call.  A command that an earlier call gave
\* up may be in it until the call has written its own first command.
MailInv ==
  /\ answer <=> (pending = None)
  /\ ~status =>
     /\ pc \in {"ask", "send"} => pending = None \/ About(call.name) \subseteq Todo
     /\ pc = "await" =>
          \/ pending = [block |-> job[1].block, write |-> FALSE, data |-> NoData]
          \/ pending = None /\ ui = dev[job[1].block]
     /\ pc = "fetch" => pending = None /\ ui = dev[job[1].block]
     /\ pc = "send" => job[1].op # "read" /\ (job[1].op # "write" => pending = None)
     /\ pc = "confirm" =>
          /\ job[1].op # "read"
          /\ \/ /\ pending # None /\ pending.write
                /\ pending.block = job[1].block /\ pending.data.val = call.arg
             \/ pending = None /\ Value(job[1].block) = call.arg
     /\ pc = "done" => pending = None /\ (call.name \in Blocks => data = dev[call.name])

\* As long as no call so far failed, this one included, only the blocks that the
\* call is about may be out of step.
CleanInv ==
  ~failed /\ ~status =>
    /\ \A b \in Blocks : dev[b].of = b
    /\ pc \notin {"await", "confirm"} => pending = None
    /\ pc = "send" /\ job[1].op # "write" => data.of = job[1].block
    /\ pc = "confirm" => pending = None \/ pending.data.of = pending.block
    /\ \A f \in Functions : f = call.name \/ \A a, b \in About(f) : Value(a) = Value(b)
    /\ \A c \in DOMAIN copy : c \in About(call.name) \/ copy[c] = Value(c)

IInv == TypeOK /\ JobInv /\ MailInv /\ CleanInv

-----------------------------------------------------------------------------
(* The functions and their commands.                                       *)

\* A transfer succeeds or fails.
LEMMA OKsBoolean == OKs \subseteq BOOLEAN
<1>1. (~Faults) \in BOOLEAN
  BY SettingsAssumption
<1> QED
  BY <1>1 DEF OKs

\* A field is a block, junk is none, and neither a block nor "none" is a function that
\* sets something.
LEMMA Names ==
  /\ \A f \in Setters : FieldOf[f] \in Blocks
  /\ Junk \notin Blocks
  /\ "none" \notin Functions
  /\ \A f \in Setters : f \notin Blocks
                        /\ f \notin {"set_resolution", "set_ranging_mode",
                                     "set_detection_thresholds_enable", "none"}
  /\ \A b \in Blocks :
       b \notin {"set_resolution", "set_ranging_mode", "set_detection_thresholds_enable"}
  /\ Readable \subseteq Blocks
  /\ {"crc", "pipe"} \subseteq Blocks
<1>1. Setters = {"set_ranging_frequency_hz", "set_integration_time_ms",
                 "set_sharpener_percent", "set_target_order", "set_xtalk_margin",
                 "set_external_sync_pin_enable", "set_VHV_repeat_count",
                 "set_results_crc", "set_detection_thresholds_auto_stop"}
  BY DEF Setters, FieldOf
<1>2. /\ FieldOf["set_ranging_frequency_hz"] = "freq" /\ FieldOf["set_integration_time_ms"] = "time"
      /\ FieldOf["set_sharpener_percent"] = "sharpener" /\ FieldOf["set_target_order"] = "order"
      /\ FieldOf["set_xtalk_margin"] = "margin" /\ FieldOf["set_external_sync_pin_enable"] = "sync"
      /\ FieldOf["set_VHV_repeat_count"] = "vhv" /\ FieldOf["set_results_crc"] = "crc"
      /\ FieldOf["set_detection_thresholds_auto_stop"] = "pipe"
  BY DEF FieldOf
<1>3. {FieldOf[f] : f \in Setters}
        = {"freq", "time", "sharpener", "order", "margin", "sync", "vhv", "crc", "pipe"}
  BY <1>1, <1>2
<1>4. Blocks = {"dss", "zone", "offset", "xtalk", "mode", "single", "enable", "interrupt",
                "freq", "time", "sharpener", "order", "margin", "sync", "vhv", "crc", "pipe"}
  BY <1>3 DEF Blocks
<1>5. Readable \subseteq Blocks
  BY <1>4 DEF Readable, Blocks
<1>6. \A f \in Setters : FieldOf[f] \in Blocks
  BY DEF Blocks
<1>7. "none" \notin Functions
  BY <1>1, <1>4, <1>5 DEF Functions
<1> QED
  BY <1>1, <1>4, <1>5, <1>6, <1>7 DEF Junk

\* Only set functions of one field are about the blocks of others.
LEMMA AboutDisjoint ==
  ASSUME NEW f \in Functions, NEW g, f \notin Setters, f # g, NEW b \in About(g)
  PROVE  b \notin About(f)
<1>1. {FieldOf[h] : h \in Setters}
        = {"freq", "time", "sharpener", "order", "margin", "sync", "vhv", "crc", "pipe"}
  BY DEF Setters, FieldOf
<1>2. g \in Setters =>
        FieldOf[g] \notin {"dss", "zone", "offset", "xtalk", "mode", "single", "enable", "interrupt"}
  BY <1>1
<1> QED
  BY <1>2, Names DEF About

\* What is left after the first command of a function.
LEMMA TailJob ==
  ASSUME NEW s \in Seq(Commands), s # <<>>
  PROVE  /\ Head(s) = s[1] /\ s[1] \in Commands /\ Len(s) \in Nat \ {0}
         /\ Tail(s) \in Seq(Commands) /\ Len(Tail(s)) = Len(s) - 1
         /\ Len(s) = 1 => Tail(s) = <<>>
         /\ Len(s) # 1 => Tail(s) # <<>>
         /\ \A j \in 1 .. Len(Tail(s)) : Tail(s)[j] = s[j + 1]
<1>1. Len(s) \in Nat \ {0}
  OBVIOUS
<1>2. Head(s) = s[1] /\ s[1] \in Commands
  BY <1>1
<1>3. Tail(s) \in Seq(Commands) /\ Len(Tail(s)) = Len(s) - 1
  BY <1>1
<1>4. \A j \in 1 .. Len(Tail(s)) : Tail(s)[j] = s[j + 1]
  BY <1>1
<1>5. \A t \in Seq(Commands) : t = <<>> <=> Len(t) = 0
  BY EmptySeq
<1>6. Tail(s) = <<>> <=> Len(Tail(s)) = 0
  BY <1>3, <1>5, Zenon
<1> QED
  BY <1>1, <1>2, <1>3, <1>4, <1>5, <1>6

\* The values that the sensor has after init are values, and agree where they have to.
LEMMA Defaults ==
  /\ \A b \in Blocks : Default(b) \in Vals
  /\ \A f \in Functions : \A a, b \in About(f) : Default(a) = Default(b)
  /\ Default("crc") = 0 /\ Default("pipe") = 0
<1>1. Default("crc") = 0 /\ Default("pipe") = 0
  BY Zenon DEF Default
<1>2. Default("mode") = 3 /\ Default("single") = 3
  BY Zenon DEF Default
<1>3. Default("enable") = 0 /\ Default("interrupt") = 0
  BY Zenon DEF Default
<1>4. \A b \in {"dss", "zone", "offset", "xtalk"} : Default(b) = 16
  BY Zenon DEF Default
<1>5. \A b : Default(b) \in {3, 1, 2, 0, 16}
  BY Zenon DEF Default
<1>6. {3, 1, 2, 0, 16} \subseteq Vals
  BY DEF Vals, Resolutions, RangingModes, Switch
<1>7. ASSUME NEW f \in Functions, NEW a \in About(f), NEW b \in About(f)
      PROVE  Default(a) = Default(b)
  <2>1. f \in Setters => a = b
    BY <1>7, Names DEF About
  <2>2. f \notin Setters => Default(a) = Default(b)
    BY <1>7, <1>2, <1>3, <1>4 DEF About
  <2> QED
    BY <2>1, <2>2
<1> QED
  BY <1>1, <1>5, <1>6, <1>7

\* After vl53l8cx_init nothing was asked of the sensor yet.
LEMMA InitIInv == Init => IInv
<1> SUFFICES ASSUME Init PROVE IInv
  OBVIOUS
<1>1. dev \in [Blocks -> Contents] /\ \A b \in Blocks : dev[b] = Block(b, Default(b))
  BY Defaults DEF Init, Contents, Block
<1>2. NoData \in Contents /\ Wrong \in Vals
  BY DEF NoData, Contents, Vals
<1>3. TypeOK
  <2>1. job \in Seq(Commands) /\ ((pc \in {"idle", "done"}) <=> (job = <<>>))
    BY DEF Init
  <2>2. copy \in [{"crc", "pipe"} -> Switch] /\ tries \in 0 .. MaxTries
    BY SettingsAssumption DEF Init, Switch
  <2>3. answer \in BOOLEAN /\ status \in BOOLEAN /\ failed \in BOOLEAN
    BY Zenon DEF Init
  <2> QED
    BY <1>1, <1>2, <2>1, <2>2, <2>3 DEF Init, TypeOK
<1>4. JobInv
  <2>1. Len(job) = 0 /\ call.name = "none" /\ About("none") = {}
    BY Names DEF Init, About
  <2> QED
    BY <2>1, Names DEF Init, JobInv, Meant
<1>5. MailInv
  BY Zenon DEF Init, MailInv
<1>6. CleanInv
  <2>1. \A b \in Blocks : dev[b].of = b /\ Value(b) = Default(b)
    BY <1>1 DEF Block, Value
  <2>2. \A f \in Functions : \A a, b \in About(f) : Value(a) = Value(b)
    BY <2>1, Defaults DEF About
  <2>3. \A c \in DOMAIN copy : copy[c] = Value(c)
    BY <2>1, Defaults, Names DEF Init
  <2> QED
    BY <2>1, <2>2, <2>3 DEF Init, CleanInv
<1> QED
  BY <1>3, <1>4, <1>5, <1>6 DEF IInv

\* The values of a field are values, and never the one that no function supports.
LEMMA SupportedValues ==
  \A f \in Setters :
    /\ Supported[FieldOf[f]] \subseteq Vals /\ Wrong \notin Supported[FieldOf[f]]
    /\ FieldOf[f] \in {"crc", "pipe"} => Supported[FieldOf[f]] = Switch
<1> SUFFICES ASSUME NEW f \in Setters
             PROVE  /\ Supported[FieldOf[f]] \subseteq Vals /\ Wrong \notin Supported[FieldOf[f]]
                    /\ FieldOf[f] \in {"crc", "pipe"} => Supported[FieldOf[f]] = Switch
  OBVIOUS
<1> DEFINE b == FieldOf[f]
<1>1. Supported[b] = CASE b = "freq" -> {1, 60} [] b = "order" -> {1, 2}
                       [] b \in {"sync", "crc", "pipe"} -> Switch [] OTHER -> {2, 50}
  BY Zenon DEF Supported
<1>2. Supported[b] \in {{1, 60}, {1, 2}, Switch, {2, 50}}
  BY <1>1, Zenon
<1>3. b \in {"crc", "pipe"} => Supported[b] = Switch
  <2>1. b = "crc" => b # "freq" /\ b # "order"
    OBVIOUS
  <2>2. b = "pipe" => b # "freq" /\ b # "order"
    OBVIOUS
  <2> QED
    BY <1>1, <2>1, <2>2, Zenon
<1> HIDE DEF b
<1>4. Supported[b] \subseteq Vals /\ Wrong \notin Supported[b]
  BY <1>2 DEF Vals, Switch, Wrong
<1> QED
  BY <1>3, <1>4 DEF b

-----------------------------------------------------------------------------
(* A function begins.                                                      *)

\* A function whose commands are meant for its blocks, all of them, unless its
\* argument is refused, begins with the invariant.
LEMMA BeginStep ==
  ASSUME IInv, NEW name, NEW arg \in Vals, NEW cmds \in Seq(Commands),
         NEW refused \in BOOLEAN, name \in Functions,
         Begin(name, arg, cmds, refused),
         name \in Setters /\ FieldOf[name] \in {"crc", "pipe"} => arg \in Switch,
         ~refused => /\ cmds # <<>> /\ Meant(cmds, name, arg)
                     /\ \A b \in About(name) : \E j \in 1 .. Len(cmds) : cmds[j].block = b
  PROVE  IInv'
<1> USE DEF IInv
<1>1. /\ pc = "idle" /\ name \in app /\ call' = [name |-> name, arg |-> arg]
      /\ job' = cmds /\ status' = refused /\ ~status /\ call.name = "none"
      /\ dev' = dev /\ pending' = pending /\ answer' = answer /\ ui' = ui
      /\ app' = app /\ failed' = failed /\ data' = data /\ tries' = tries
  BY DEF Begin, sensor, JobInv
<1>2. copy' \in [{"crc", "pipe"} -> Switch] /\ DOMAIN copy = {"crc", "pipe"}
      /\ \A c \in {"crc", "pipe"} :
           copy'[c] = IF name \in Setters /\ FieldOf[name] = c THEN arg ELSE copy[c]
  <2>1. copy \in [{"crc", "pipe"} -> Switch] /\ copy' = Copied(name, arg)
    BY DEF TypeOK, Begin
  <2> QED
    BY <2>1 DEF Copied
<1>3. cmds = <<>> => pc' = "done"
  BY DEF Begin
<1>4. cmds # <<>> => pc' = IF cmds[1].op = "write" THEN "send" ELSE "ask"
  BY TailJob DEF Begin, Start
<1>5. TypeOK'
  <2>1. pc' \in {"ask", "send", "done"} /\ (pc' = "done" <=> cmds = <<>>)
    BY <1>3, <1>4
  <2>2. call' \in [name : app \cup {"none"}, arg : Vals]
    BY <1>1
  <2> QED
    BY <1>1, <1>2, <2>1, <2>2 DEF TypeOK
<1>6. JobInv'
  <2>1. pc' # "idle"
    BY <1>3, <1>4
  <2>2. ~refused => \A b \in About(name) : b \in Todo'
    BY <1>1 DEF Todo
  <2>3. \A c \in DOMAIN copy' : name \in Setters /\ FieldOf[name] = c => copy'[c] = arg
    BY <1>2
  <2> QED
    BY <1>1, <2>1, <2>2, <2>3 DEF JobInv
<1>7. MailInv'
  <2>1. ~refused => About(name) \subseteq Todo'
    BY <1>1 DEF Todo
  <2>2. ~refused => pc' \in {"ask", "send"}
    BY <1>3, <1>4
  <2>3. CASE ~refused /\ pc' = "send"
    BY <1>1, <1>4, <2>1, <2>3 DEF MailInv
  <2>4. CASE ~refused /\ pc' = "ask"
    BY <1>1, <2>1, <2>4 DEF MailInv
  <2>5. CASE refused
    BY <1>1, <2>5 DEF MailInv
  <2> QED
    BY <2>2, <2>3, <2>4, <2>5
<1>8. CleanInv'
  <2>1. CASE ~failed /\ ~refused
    <3>1. pc' \in {"ask", "send"} /\ (pc' = "send" => job'[1].op = "write")
      BY <2>1, <1>1, <1>3, <1>4
    <3>2. pending = None /\ \A b \in Blocks : dev[b].of = b
      BY <2>1, <1>1 DEF CleanInv
    <3>3. \A f \in Functions : \A a, b \in About(f) : Value(a) = Value(b)
      BY <2>1, <1>1, Names DEF CleanInv
    <3>4. \A c \in DOMAIN copy : copy[c] = Value(c)
      BY <2>1, <1>1, Names DEF CleanInv, About
    <3>5. \A c \in DOMAIN copy' : c \in About(name) \/ copy'[c] = Value(c)
      BY <1>2, <3>4, Names DEF About
    <3> QED
      BY <1>1, <3>1, <3>2, <3>3, <3>5 DEF CleanInv, Value
  <2> QED
    BY <1>1, <2>1 DEF CleanInv
<1> QED
  BY <1>5, <1>6, <1>7, <1>8

\* Two tuples of two make one of four.
LEMMA PairAndPair ==
  ASSUME NEW a, NEW b, NEW c, NEW d
  PROVE  <<a, b>> \o <<c, d>> = <<a, b, c, d>>
<1> DEFINE S == {a, b, c, d}
           s == <<a, b>>
           t == <<c, d>>
           u == <<a, b, c, d>>
<1>1. s \in Seq(S) /\ t \in Seq(S) /\ u \in Seq(S) /\ Len(s) = 2 /\ Len(t) = 2 /\ Len(u) = 4
  OBVIOUS
<1>2. s[1] = a /\ s[2] = b /\ t[1] = c /\ t[2] = d
      /\ u[1] = a /\ u[2] = b /\ u[3] = c /\ u[4] = d
  OBVIOUS
<1> HIDE DEF S, s, t, u
<1>3. /\ s \o t \in Seq(S) /\ Len(s \o t) = 4
      /\ \A i \in 1 .. 4 : (s \o t)[i] = IF i <= 2 THEN s[i] ELSE t[i - 2]
  <2>1. /\ s \o t \in Seq(S) /\ Len(s \o t) = Len(s) + Len(t)
        /\ \A i \in 1 .. Len(s) + Len(t) :
             (s \o t)[i] = IF i <= Len(s) THEN s[i] ELSE t[i - Len(s)]
    BY <1>1, ConcatProperties, Zenon
  <2>2. Len(s) + Len(t) = 4
    BY <1>1
  <2> QED
    BY <1>1, <2>1, <2>2
<1>4. \A i \in 1 .. 4 : (s \o t)[i] = u[i]
  BY <1>2, <1>3
<1>5. s \o t = u
  BY <1>1, <1>3, <1>4, SeqEqual
<1> QED
  BY <1>5 DEF s, t, u

\* The commands of every function are commands, and those of an argument that is
\* supported are meant for the function's blocks, all of them.
LEMMA ResolutionCommands ==
  ASSUME NEW r \in Resolutions \cup {Wrong}
  PROVE  /\ ResolutionJob(r) \in Seq(Commands) /\ ResolutionJob(r) # <<>>
         /\ r # Wrong => /\ Meant(ResolutionJob(r), "set_resolution", r)
                         /\ \A b \in About("set_resolution") :
                              \E j \in 1 .. Len(ResolutionJob(r)) : ResolutionJob(r)[j].block = b
<1>1. {16, 64, Wrong} \subseteq Vals /\ Wrong \notin Resolutions
  BY DEF Vals, Resolutions, Wrong
<1>2. {"dss", "zone", "offset", "xtalk"} \subseteq Blocks
  BY DEF Blocks
<1>3. Grid(r) \in {16, 64} /\ (r # Wrong => Grid(r) = r)
  BY DEF Grid, Resolutions
<1>4. About("set_resolution") = {"dss", "zone", "offset", "xtalk"}
  BY <1>2, Names DEF About
<1>5. CASE r = Wrong
  <2>1. ResolutionJob(r) = <<Cmd("write", "offset", Grid(r)), Cmd("write", "xtalk", Grid(r))>>
    BY <1>1, <1>5 DEF ResolutionJob
  <2> QED
    BY <2>1, <1>1, <1>2, <1>3, <1>5 DEF Commands, Cmd, Ops
<1>6. CASE r # Wrong
  <2>1. ResolutionJob(r) = <<Cmd("replace", "dss", r), Cmd("replace", "zone", r),
                             Cmd("write", "offset", r), Cmd("write", "xtalk", r)>>
    <3>1. Grid(r) = r /\ r \in Resolutions
      BY <1>3, <1>6
    <3>2. <<Cmd("replace", "dss", r), Cmd("replace", "zone", r)>>
            \o <<Cmd("write", "offset", r), Cmd("write", "xtalk", r)>>
            = <<Cmd("replace", "dss", r), Cmd("replace", "zone", r),
                Cmd("write", "offset", r), Cmd("write", "xtalk", r)>>
      BY PairAndPair
    <3> QED
      BY <3>1, <3>2 DEF ResolutionJob
  <2>2. ResolutionJob(r) \in Seq(Commands) /\ ResolutionJob(r) # <<>>
    BY <2>1, <1>1, <1>2, <1>6 DEF Commands, Cmd, Ops, Resolutions
  <2>3. Meant(ResolutionJob(r), "set_resolution", r)
    BY <2>1, <1>4 DEF Cmd, Meant
  <2>4. \A b \in About("set_resolution") :
          \E j \in 1 .. Len(ResolutionJob(r)) : ResolutionJob(r)[j].block = b
    <3>1. Len(ResolutionJob(r)) = 4
      BY <2>1
    <3>2. /\ ResolutionJob(r)[1].block = "dss" /\ ResolutionJob(r)[2].block = "zone"
          /\ ResolutionJob(r)[3].block = "offset" /\ ResolutionJob(r)[4].block = "xtalk"
      BY <2>1 DEF Cmd
    <3> QED
      BY <3>1, <3>2, <1>4
  <2> QED
    BY <2>2, <2>3, <2>4
<1> QED
  BY <1>5, <1>6

\* set_ranging_mode writes its two blocks, or for a wrong mode none.
LEMMA ModeCommands ==
  ASSUME NEW m \in RangingModes \cup {Wrong}
  PROVE  /\ ModeJob(m) \in Seq(Commands) /\ ModeJob(m) # <<>>
         /\ m # Wrong => /\ Meant(ModeJob(m), "set_ranging_mode", m)
                         /\ \A b \in About("set_ranging_mode") :
                              \E j \in 1 .. Len(ModeJob(m)) : ModeJob(m)[j].block = b
<1>1. {1, 3, Unknown} \subseteq Vals /\ Wrong \notin RangingModes
  BY DEF Vals, RangingModes, Wrong
<1>2. {"mode", "single"} \subseteq Blocks
  BY DEF Blocks
<1>3. About("set_ranging_mode") = {"mode", "single"}
  BY <1>2, Names DEF About
<1>4. CASE m = Wrong
  BY <1>1, <1>2, <1>4 DEF ModeJob, Commands, Cmd, Ops
<1>5. CASE m # Wrong
  <2>1. ModeJob(m) = <<Cmd("replace", "mode", m), Cmd("write", "single", m)>>
    BY <1>5 DEF ModeJob
  <2>2. ModeJob(m) \in Seq(Commands) /\ ModeJob(m) # <<>>
    BY <2>1, <1>1, <1>2, <1>5 DEF Commands, Cmd, Ops, RangingModes
  <2>3. Meant(ModeJob(m), "set_ranging_mode", m)
    BY <2>1, <1>3 DEF Cmd, Meant
  <2>4. Len(ModeJob(m)) = 2 /\ ModeJob(m)[1].block = "mode" /\ ModeJob(m)[2].block = "single"
    BY <2>1 DEF Cmd
  <2> QED
    BY <2>2, <2>3, <2>4, <1>3
<1> QED
  BY <1>4, <1>5

\* set_detection_thresholds_enable writes the two copies of the switch.
LEMMA EnableCommands ==
  ASSUME NEW e \in Switch
  PROVE  /\ EnableJob(e) \in Seq(Commands) /\ EnableJob(e) # <<>>
         /\ Meant(EnableJob(e), "set_detection_thresholds_enable", e)
         /\ \A b \in About("set_detection_thresholds_enable") :
              \E j \in 1 .. Len(EnableJob(e)) : EnableJob(e)[j].block = b
<1>1. {"enable", "interrupt"} \subseteq Blocks /\ e \in Vals
  BY DEF Blocks, Vals
<1>2. About("set_detection_thresholds_enable") = {"enable", "interrupt"}
  BY <1>1, Names DEF About
<1>3. EnableJob(e) \in Seq(Commands) /\ EnableJob(e) # <<>>
  BY <1>1 DEF EnableJob, Commands, Cmd, Ops
<1>4. Meant(EnableJob(e), "set_detection_thresholds_enable", e)
  BY <1>2 DEF EnableJob, Cmd, Meant
<1>5. /\ Len(EnableJob(e)) = 2
      /\ EnableJob(e)[1].block = "enable" /\ EnableJob(e)[2].block = "interrupt"
  BY DEF EnableJob, Cmd
<1> QED
  BY <1>2, <1>3, <1>4, <1>5

\* One command, for a block that the function sets or asks for.
LEMMA OneCommand ==
  ASSUME NEW op \in Ops, NEW b \in Blocks, NEW v \in Vals
  PROVE  /\ <<Cmd(op, b, v)>> \in Seq(Commands) /\ <<Cmd(op, b, v)>> # <<>>
         /\ Len(<<Cmd(op, b, v)>>) = 1 /\ <<Cmd(op, b, v)>>[1].block = b
         /\ \A name : About(name) = {b} /\ op = "replace" => Meant(<<Cmd(op, b, v)>>, name, v)
         /\ op = "read" => Meant(<<Cmd(op, b, v)>>, b, v)
  BY DEF Commands, Cmd, Meant

\* Whichever function begins.
LEMMA CallStep ==
  ASSUME IInv, SetResolution \/ SetRangingMode \/ SetThresholdsEnable \/ SetField \/ Get
  PROVE  IInv'
<1>1. /\ Resolutions \subseteq Vals /\ RangingModes \subseteq Vals /\ Switch \subseteq Vals
      /\ Wrong \in Vals /\ TRUE \in BOOLEAN /\ FALSE \in BOOLEAN
  BY DEF Vals
<1>2. \A good : Arguments(good) \subseteq good \cup {Wrong}
  BY DEF Arguments
<1>3. \A name : About(name) \subseteq Blocks
  BY DEF About
<1>4. \A name \in app : name \in Functions
  BY SettingsAssumption DEF IInv, TypeOK
<1>5. CASE SetResolution
  <2>1. PICK r \in Arguments(Resolutions) :
               Begin("set_resolution", r, ResolutionJob(r), r = Wrong)
    BY <1>5 DEF SetResolution
  <2>2. r \in Resolutions \cup {Wrong} /\ r \in Vals /\ (r = Wrong) \in BOOLEAN
    BY <1>1, <1>2
  <2>3. "set_resolution" \in Functions /\ "set_resolution" \notin Setters
    BY Names DEF Functions
  <2> QED
    BY <2>1, <2>2, <2>3, ResolutionCommands, BeginStep
<1>6. CASE SetRangingMode
  <2>1. PICK m \in Arguments(RangingModes) :
               Begin("set_ranging_mode", m, ModeJob(m), m = Wrong)
    BY <1>6 DEF SetRangingMode
  <2>2. m \in RangingModes \cup {Wrong} /\ m \in Vals /\ (m = Wrong) \in BOOLEAN
    BY <1>1, <1>2
  <2>3. "set_ranging_mode" \in Functions /\ "set_ranging_mode" \notin Setters
    BY Names DEF Functions
  <2> QED
    BY <2>1, <2>2, <2>3, ModeCommands, BeginStep
<1>7. CASE SetThresholdsEnable
  <2>1. PICK e \in Switch :
               Begin("set_detection_thresholds_enable", e, EnableJob(e), FALSE)
    BY <1>7 DEF SetThresholdsEnable
  <2>2. /\ "set_detection_thresholds_enable" \in Functions
        /\ "set_detection_thresholds_enable" \notin Setters
    BY Names DEF Functions
  <2> QED
    BY <1>1, <2>1, <2>2, EnableCommands, BeginStep
<1>8. CASE SetField
  <2>1. PICK f \in Setters :
          \E v \in IF FieldOf[f] \in Checked THEN Arguments(Supported[FieldOf[f]])
                   ELSE Supported[FieldOf[f]] :
            Begin(f, v, FieldJob(FieldOf[f], v), v = Wrong)
    BY <1>8 DEF SetField
  <2>2. PICK v \in IF FieldOf[f] \in Checked THEN Arguments(Supported[FieldOf[f]])
                   ELSE Supported[FieldOf[f]] :
          Begin(f, v, FieldJob(FieldOf[f], v), v = Wrong)
    BY <2>1
  <2> DEFINE b == FieldOf[f]
  <2>3. /\ b \in Blocks /\ f \in Functions /\ f \notin Blocks
        /\ b \in {"crc", "pipe"} => b \notin Checked
    BY Names DEF Functions, Checked
  <2>4. /\ Supported[b] \subseteq Vals /\ Wrong \notin Supported[b]
        /\ b \in {"crc", "pipe"} => Supported[b] = Switch
    BY SupportedValues
  <2>5. v \in Vals /\ (v = Wrong) \in BOOLEAN /\ (v = Wrong => b \in Checked)
    BY <1>1, <1>2, <2>2, <2>4
  <2>6. b \in {"crc", "pipe"} => v \in Switch
    BY <2>2, <2>3, <2>4
  <2>7. About(f) = {b}
    BY <2>3, Names DEF About
  <2>8. FieldJob(b, v) = IF v = Wrong THEN <<>> ELSE <<Cmd("replace", b, v)>>
    BY <2>5 DEF FieldJob
  <2>9. FieldJob(b, v) \in Seq(Commands)
    BY <2>3, <2>5, <2>8, OneCommand DEF Ops
  <2>10. v # Wrong => /\ FieldJob(b, v) # <<>> /\ Meant(FieldJob(b, v), f, v)
                      /\ \A x \in About(f) :
                           \E j \in 1 .. Len(FieldJob(b, v)) : FieldJob(b, v)[j].block = x
    BY <2>3, <2>5, <2>7, <2>8, OneCommand DEF Ops
  <2> HIDE DEF b
  <2> QED
    BY <2>2, <2>3, <2>5, <2>6, <2>9, <2>10, BeginStep DEF b
<1>9. CASE Get
  <2>1. PICK b \in Readable : Begin(b, Wrong, <<Cmd("read", b, Wrong)>>, FALSE)
    BY <1>9 DEF Get
  <2>2. b \in Functions /\ b \in Blocks /\ b \notin Setters
    BY Names DEF Functions
  <2>3. About(b) = {}
    <3>1. b \notin {"set_resolution", "set_ranging_mode", "set_detection_thresholds_enable"}
      BY <2>2, Names
    <3> QED
      BY <2>2, <3>1 DEF About
  <2> QED
    BY <1>1, <2>1, <2>2, <2>3, OneCommand, BeginStep DEF Ops
<1> QED
  BY <1>5, <1>6, <1>7, <1>8, <1>9

-----------------------------------------------------------------------------
(* The mailbox.                                                            *)

\* The function is at one of its commands.
LEMMA AtCommand ==
  ASSUME TypeOK, pc \notin {"idle", "done"}
  PROVE  /\ job # <<>> /\ Head(job) = job[1] /\ Len(job) \in Nat \ {0}
         /\ job[1] \in Commands /\ job[1].block \in Blocks /\ job[1].val \in Vals
         /\ job[1].op \in Ops /\ 1 \in 1 .. Len(job)
<1>1. job # <<>> /\ job \in Seq(Commands)
  BY DEF TypeOK
<1>2. Head(job) = job[1] /\ job[1] \in Commands /\ Len(job) \in Nat \ {0}
  BY <1>1, TailJob
<1> QED
  BY <1>1, <1>2 DEF Commands

\* What the function is at, while nothing failed in it.
LEMMA AtMeant ==
  ASSUME TypeOK, JobInv, ~status, pc \notin {"idle", "done"}
  PROVE  \/ /\ job[1].op \in {"replace", "write"}
            /\ job[1].block \in About(call.name) /\ job[1].val = call.arg
         \/ job[1].op = "read" /\ Len(job) = 1 /\ job[1].block = call.name
  BY AtCommand DEF JobInv, Meant

\* An empty mailbox holds no command for a block.
LEMMA NoneFacts ==
  ASSUME TypeOK
  PROVE  /\ None.block \notin Blocks
         /\ pending # None =>
              /\ pending \in [block : Blocks, write : BOOLEAN, data : Contents]
              /\ pending.block \in Blocks /\ pending.write \in BOOLEAN
              /\ pending.data \in Contents
<1>1. None.block \notin Blocks
  BY Names DEF None
<1>2. pending # None => pending \in [block : Blocks, write : BOOLEAN, data : Contents]
  BY DEF TypeOK
<1> QED
  BY <1>1, <1>2

\* A command arrives, and replaces the one in the mailbox, or the call fails.
LEMMA PostStep ==
  ASSUME IInv, NEW cmd, NEW next \in {"await", "confirm"}, pc \in {"ask", "send"},
         cmd \in [block : Blocks, write : BOOLEAN, data : Contents], Post(cmd, next)
  PROVE  /\ TypeOK' /\ JobInv'
         /\ cmd # None /\ (answer' <=> (pending' = None))
         /\ ~status' => ~status /\ pending' = cmd
         /\ dev' = dev /\ ui' = ui /\ job' = job /\ call' = call /\ copy' = copy
         /\ failed' = failed /\ data' = data /\ pc' = next
<1> USE DEF IInv
<1>1. PICK ok \in OKs :
        /\ pending' = IF ok THEN cmd ELSE pending
        /\ answer' = (answer /\ ~ok)
        /\ status' = (status \/ ~ok)
  BY DEF Post
<1>2. /\ dev' = dev /\ ui' = ui /\ job' = job /\ call' = call /\ copy' = copy /\ app' = app
      /\ failed' = failed /\ data' = data /\ pc' = next /\ tries' = 0
  BY DEF Post, calls
<1>3. ok \in BOOLEAN /\ status \in BOOLEAN /\ answer \in BOOLEAN /\ cmd # None
  BY OKsBoolean, NoneFacts DEF TypeOK
<1>4. /\ status' \in BOOLEAN /\ answer' \in BOOLEAN
      /\ ~status' => ~status /\ ok
      /\ ok => ~answer'
      /\ ~ok => answer' = answer
  BY <1>1, <1>3
<1>5. answer <=> (pending = None)
  BY DEF MailInv
<1>6. answer' <=> (pending' = None)
  BY <1>1, <1>3, <1>4, <1>5
<1>7. TypeOK'
  <2>1. pending' \in [block : Blocks, write : BOOLEAN, data : Contents] \cup {None}
    BY <1>1 DEF TypeOK
  <2>2. tries' \in 0 .. MaxTries
    BY <1>2, SettingsAssumption
  <2> QED
    BY <1>2, <1>4, <2>1, <2>2 DEF TypeOK
<1>8. JobInv'
  BY <1>2, <1>4 DEF JobInv, Todo, Value
<1> QED
  BY <1>1, <1>2, <1>3, <1>4, <1>6, <1>7, <1>8

\* A block is asked for.
LEMMA AskStep ==
  ASSUME IInv, Ask
  PROVE  IInv'
<1> DEFINE cmd == [block |-> job[1].block, write |-> FALSE, data |-> NoData]
<1>1. /\ pc = "ask" /\ job[1].block \in Blocks
      /\ Post([block |-> job[1].block, write |-> FALSE, data |-> NoData], "await")
  BY AtCommand DEF Ask, IInv
<1>2. cmd \in [block : Blocks, write : BOOLEAN, data : Contents]
  BY <1>1 DEF NoData, Contents, Vals
<1>3. /\ TypeOK' /\ JobInv' /\ (answer' <=> (pending' = None))
      /\ ~status' => ~status /\ pending' = cmd
      /\ dev' = dev /\ ui' = ui /\ job' = job /\ call' = call /\ copy' = copy
      /\ failed' = failed /\ pc' = "await"
  BY <1>1, <1>2, PostStep
<1>4. MailInv'
  BY <1>3 DEF MailInv
<1>5. CleanInv'
  BY <1>3 DEF CleanInv, IInv, Value
<1> QED
  BY <1>3, <1>4, <1>5 DEF IInv

\* What is sent: a block, with the new value in it, and the bytes of the block around
\* it if these were read.
LEMMA OutgoingFacts ==
  ASSUME TypeOK, pc = "send"
  PROVE  /\ Outgoing \in Contents
         /\ job[1].op \in {"write", "replace"} => Outgoing.val = job[1].val
         /\ job[1].op = "write" => Outgoing.of = job[1].block
         /\ job[1].op = "replace" => Outgoing.of = data.of
<1>1. /\ Head(job) = job[1] /\ job[1].block \in Blocks /\ job[1].val \in Vals
      /\ data \in Contents
  BY AtCommand DEF TypeOK
<1>2. job[1].op = "write" => Outgoing = Block(job[1].block, job[1].val)
  BY <1>1, Zenon DEF Outgoing
<1>3. job[1].op = "replace" => Outgoing = [data EXCEPT !.val = job[1].val]
  <2>1. job[1].op = "replace" => job[1].op # "write"
    OBVIOUS
  <2> QED
    BY <1>1, <2>1, Zenon DEF Outgoing
<1>4. job[1].op \notin {"write", "replace"} => Outgoing = data
  <2>1. job[1].op \notin {"write", "replace"} => job[1].op # "write" /\ job[1].op # "replace"
    OBVIOUS
  <2> QED
    BY <1>1, <2>1, Zenon DEF Outgoing
<1> QED
  BY <1>1, <1>2, <1>3, <1>4 DEF Block, Contents

\* A block is sent.
LEMMA SendStep ==
  ASSUME IInv, Send
  PROVE  IInv'
<1> USE DEF IInv
<1> DEFINE b == job[1].block
           d == [Outgoing EXCEPT !.of = IF Outgoing.of = b THEN b ELSE Junk]
           cmd == [block |-> b, write |-> TRUE, data |-> d]
<1>1. pc = "send" /\ b \in Blocks /\ Post(cmd, "confirm")
  BY AtCommand DEF Send
<1>2. /\ d \in Contents /\ d.val = Outgoing.val
      /\ Outgoing.of = b => d.of = b
  BY <1>1, OutgoingFacts DEF Contents
<1> HIDE DEF d
<1>3. cmd \in [block : Blocks, write : BOOLEAN, data : Contents]
  BY <1>1, <1>2
<1>4. /\ TypeOK' /\ JobInv' /\ (answer' <=> (pending' = None)) /\ cmd # None
      /\ ~status' => ~status /\ pending' = cmd
      /\ dev' = dev /\ ui' = ui /\ job' = job /\ call' = call /\ copy' = copy
      /\ failed' = failed /\ data' = data /\ pc' = "confirm"
  BY <1>1, <1>3, PostStep
<1>5. ~status => /\ job[1].op \in {"replace", "write"} /\ job[1].val = call.arg
                 /\ d.val = call.arg
  BY <1>1, <1>2, AtMeant, OutgoingFacts DEF MailInv
<1>6. MailInv'
  BY <1>4, <1>5 DEF MailInv
<1>7. ~status /\ ~failed => d.of = b
  BY <1>1, <1>2, <1>5, OutgoingFacts DEF CleanInv
<1>8. CleanInv'
  BY <1>4, <1>7 DEF CleanInv, Value
<1> QED
  BY <1>4, <1>6, <1>8

\* A poll that ends the wait without a failure has seen the answer.
LEMMA AwaitFacts ==
  ASSUME IInv, Await
  PROVE  /\ pc = "await" /\ status' \in BOOLEAN /\ tries' \in 0 .. MaxTries
         /\ job' = job /\ pc' \in {"await", "fetch"}
         /\ ~status' => ~status
         /\ ~status' /\ pc' = "fetch" => answer
         /\ UNCHANGED <<sensor, calls, data>>
<1> USE DEF IInv
<1>0. PICK ok \in OKs, mcu_error \in {FALSE, Faults} :
        \E match \in IF ok THEN {answer} ELSE BOOLEAN :
        /\ status' = (status \/ ~ok \/ tries = MaxTries \/ mcu_error)
        /\ IF match \/ tries = MaxTries \/ mcu_error
           THEN (pc' = "fetch" /\ UNCHANGED job) /\ tries' = 0
           ELSE tries' = tries + 1 /\ UNCHANGED <<pc, job>>
  <2>1. Poll(pc' = "fetch" /\ UNCHANGED job)
    BY DEF Await
  <2> QED
    BY <2>1 DEF Poll
<1>1. PICK match \in IF ok THEN {answer} ELSE BOOLEAN :
        /\ status' = (status \/ ~ok \/ tries = MaxTries \/ mcu_error)
        /\ IF match \/ tries = MaxTries \/ mcu_error
           THEN (pc' = "fetch" /\ UNCHANGED job) /\ tries' = 0
           ELSE tries' = tries + 1 /\ UNCHANGED <<pc, job>>
  BY <1>0
<1>2. ok \in BOOLEAN /\ mcu_error \in BOOLEAN /\ match \in BOOLEAN
      /\ status \in BOOLEAN /\ (tries = MaxTries) \in BOOLEAN /\ (ok => match = answer)
  BY OKsBoolean, SettingsAssumption DEF TypeOK
<1>3. pc = "await" /\ UNCHANGED <<sensor, calls, data>>
  BY DEF Await, Poll
<1>4. status' \in BOOLEAN /\ (~status' => ~status /\ ok /\ tries # MaxTries /\ ~mcu_error)
  BY <1>1, <1>2
<1>5. job' = job /\ pc' \in {"await", "fetch"}
  BY <1>1, <1>3
<1>6. tries' \in 0 .. MaxTries
  BY <1>1, SettingsAssumption DEF TypeOK
<1>7. ~status' /\ pc' = "fetch" => answer
  BY <1>1, <1>2, <1>3, <1>4
<1> QED
  BY <1>3, <1>4, <1>5, <1>6, <1>7

\* The poll for the answer: it goes on when the answer is there, or with a status.
LEMMA ConfirmFacts ==
  ASSUME IInv, Confirm
  PROVE  /\ pc = "confirm" /\ status' \in BOOLEAN /\ tries' \in 0 .. MaxTries
         /\ \/ Proceed /\ (~status' => answer)
            \/ job' = job /\ pc' = pc
         /\ ~status' => ~status
         /\ UNCHANGED <<sensor, calls, data>>
<1> USE DEF IInv
<1>0. PICK ok \in OKs, mcu_error \in {FALSE, Faults} :
        \E match \in IF ok THEN {answer} ELSE BOOLEAN :
        /\ status' = (status \/ ~ok \/ tries = MaxTries \/ mcu_error)
        /\ IF match \/ tries = MaxTries \/ mcu_error
           THEN Proceed /\ tries' = 0
           ELSE tries' = tries + 1 /\ UNCHANGED <<pc, job>>
  <2>1. Poll(Proceed)
    BY DEF Confirm
  <2> QED
    BY <2>1 DEF Poll
<1>1. PICK match \in IF ok THEN {answer} ELSE BOOLEAN :
        /\ status' = (status \/ ~ok \/ tries = MaxTries \/ mcu_error)
        /\ IF match \/ tries = MaxTries \/ mcu_error
           THEN Proceed /\ tries' = 0
           ELSE tries' = tries + 1 /\ UNCHANGED <<pc, job>>
  BY <1>0
<1>2. ok \in BOOLEAN /\ mcu_error \in BOOLEAN /\ match \in BOOLEAN
      /\ status \in BOOLEAN /\ (tries = MaxTries) \in BOOLEAN /\ (ok => match = answer)
  BY OKsBoolean, SettingsAssumption DEF TypeOK
<1>3. pc = "confirm" /\ UNCHANGED <<sensor, calls, data>>
  BY DEF Confirm, Poll
<1>4. status' \in BOOLEAN /\ (~status' => ~status /\ ok /\ tries # MaxTries /\ ~mcu_error)
  BY <1>1, <1>2
<1>5. \/ Proceed /\ (match \/ tries = MaxTries \/ mcu_error)
      \/ job' = job /\ pc' = pc
  BY <1>1
<1>6. tries' \in 0 .. MaxTries
  BY <1>1, SettingsAssumption DEF TypeOK
<1>7. ~status' /\ (match \/ tries = MaxTries \/ mcu_error) => answer
  BY <1>2, <1>4
<1> QED
  BY <1>3, <1>4, <1>5, <1>6, <1>7

\* The poll for the answer of a get keeps the invariant.
LEMMA AwaitStep ==
  ASSUME IInv, Await
  PROVE  IInv'
<1> USE DEF IInv
<1>1. /\ pc = "await" /\ status' \in BOOLEAN /\ tries' \in 0 .. MaxTries
      /\ job' = job /\ pc' \in {"await", "fetch"}
      /\ ~status' => ~status
      /\ ~status' /\ pc' = "fetch" => answer
      /\ dev' = dev /\ pending' = pending /\ answer' = answer /\ ui' = ui
      /\ app' = app /\ copy' = copy /\ call' = call /\ failed' = failed /\ data' = data
  BY AwaitFacts DEF sensor, calls
<1>2. TypeOK'
  BY <1>1 DEF TypeOK
<1>3. JobInv'
  BY <1>1 DEF JobInv, Todo, Value
<1>4. MailInv'
  <2>1. CASE pc' = "await"
    BY <1>1, <2>1 DEF MailInv
  <2>2. CASE pc' = "fetch"
    <3>1. [block |-> job[1].block, write |-> FALSE, data |-> NoData] # None
      BY <1>1, AtCommand, NoneFacts
    <3>2. ~status' => pending = None /\ ui = dev[job[1].block]
      BY <1>1, <2>2, <3>1 DEF MailInv
    <3> QED
      BY <1>1, <2>2, <3>2 DEF MailInv
  <2> QED
    BY <1>1, <2>1, <2>2
<1>5. CleanInv'
  <2>1. ~status' /\ pc' = "fetch" => pending = None
    BY <1>1 DEF MailInv
  <2> QED
    BY <1>1, <2>1 DEF CleanInv, Value
<1> QED
  BY <1>2, <1>3, <1>4, <1>5

\* What a function has left after one of its commands.
LEMMA ProceedFacts ==
  ASSUME TypeOK, pc \notin {"idle", "done"}, Proceed
  PROVE  /\ job' = Tail(job) /\ job' \in Seq(Commands) /\ Len(job') = Len(job) - 1
         /\ \A j \in 1 .. Len(job') : job'[j] = job[j + 1]
         /\ Len(job) \in Nat \ {0}
         /\ \A b \in Todo : b = job[1].block \/ b \in Todo'
         /\ pc' \in {"ask", "send", "done"}
         /\ pc' = "done" <=> job' = <<>>
         /\ pc' = "done" <=> Len(job) = 1
         /\ pc' = "send" => job'[1].op = "write"
<1>1. job \in Seq(Commands) /\ job # <<>>
  BY DEF TypeOK
<1>2. /\ job' = Tail(job) /\ job' \in Seq(Commands) /\ Len(job') = Len(job) - 1
      /\ \A j \in 1 .. Len(job') : job'[j] = job[j + 1]
      /\ Len(job) \in Nat \ {0}
      /\ Len(job) = 1 => job' = <<>>
      /\ Len(job) # 1 => job' # <<>>
  BY <1>1, TailJob DEF Proceed
<1>3. \A b \in Todo : b = job[1].block \/ b \in Todo'
  <2> SUFFICES ASSUME NEW j \in 1 .. Len(job), j # 1
               PROVE  job[j].block \in Todo'
    BY DEF Todo
  <2>1. j - 1 \in 1 .. Len(job') /\ (j - 1) + 1 = j
    BY <1>2
  <2>2. job'[j - 1] = job[j]
    BY <1>2, <2>1
  <2> QED
    BY <2>1, <2>2 DEF Todo
<1>4. pc' = IF Len(job) = 1 THEN "done" ELSE Start(job[2].op)
  BY DEF Proceed
<1>5. Len(job) # 1 => job'[1] = job[2]
  BY <1>2
<1>6. /\ pc' \in {"ask", "send", "done"} /\ (pc' = "done" <=> Len(job) = 1)
      /\ pc' = "send" => job'[1].op = "write"
  BY <1>4, <1>5 DEF Start
<1> QED
  BY <1>2, <1>3, <1>6

\* The answer that was waited for is read.
LEMMA FetchStep ==
  ASSUME IInv, Fetch
  PROVE  IInv'
<1> USE DEF IInv
<1>1. PICK ok \in OKs : data' = (IF ok THEN ui ELSE NoData) /\ status' = (status \/ ~ok)
  BY DEF Fetch
<1>2. /\ pc = "fetch" /\ Head(job) = job[1] /\ job[1].block \in Blocks
      /\ dev' = dev /\ pending' = pending /\ answer' = answer /\ ui' = ui
      /\ app' = app /\ copy' = copy /\ call' = call /\ failed' = failed /\ tries' = tries
  BY AtCommand DEF Fetch, sensor, calls
<1>3. status \in BOOLEAN /\ ok \in BOOLEAN
  BY OKsBoolean DEF TypeOK
<1>4. /\ status' \in BOOLEAN /\ data' \in Contents
      /\ ~status' => ~status /\ data' = ui
  BY <1>1, <1>3 DEF TypeOK, NoData, Contents, Vals
<1>5. ~status' => data' = dev[job[1].block] /\ pending = None
  BY <1>2, <1>4 DEF MailInv
<1>6. CASE job[1].op = "read"
  <2>1. Proceed
    BY <1>2, <1>6 DEF Fetch
  <2>2. /\ job' \in Seq(Commands) /\ Len(job') = Len(job) - 1
        /\ pc' \in {"ask", "send", "done"}
        /\ pc' = "done" <=> job' = <<>>
        /\ pc' = "done" <=> Len(job) = 1
    BY <1>2, <2>1, ProceedFacts
  <2>3. ~status' => Len(job) = 1 /\ job[1].block = call.name /\ pc' = "done" /\ Len(job') = 0
    <3>1. ASSUME ~status' PROVE Len(job) = 1 /\ job[1].block = call.name
      <4>1. ~status /\ pc \notin {"idle", "done"} /\ job[1].op \notin {"replace", "write"}
        BY <1>2, <1>4, <1>6, <3>1
      <4> QED
        BY <4>1, AtMeant
    <3>2. ~status' => pc' = "done" /\ job' = <<>>
      BY <2>2, <3>1
    <3>3. Len(<<>>) = 0
      OBVIOUS
    <3> QED
      BY <3>1, <3>2, <3>3
  <2>4. ~status' => About(call.name) = {}
    BY <1>2, <2>3, Names DEF About
  <2>5. TypeOK'
    BY <1>2, <1>4, <2>2 DEF TypeOK
  <2>6. JobInv'
    BY <1>2, <2>2, <2>3, <2>4 DEF JobInv, Meant
  <2>7. MailInv'
    BY <1>2, <1>5, <2>2, <2>3 DEF MailInv
  <2>8. CleanInv'
    BY <1>2, <1>4, <1>5, <2>3 DEF CleanInv, Value
  <2> QED
    BY <2>5, <2>6, <2>7, <2>8
<1>7. CASE job[1].op # "read"
  <2>1. pc' = "send" /\ job' = job
    BY <1>2, <1>7 DEF Fetch
  <2>2. TypeOK'
    BY <1>2, <1>4, <2>1 DEF TypeOK
  <2>3. JobInv'
    BY <1>2, <1>4, <2>1 DEF JobInv, Todo, Value
  <2>4. MailInv'
    BY <1>2, <1>5, <1>7, <2>1 DEF MailInv
  <2>5. CleanInv'
    BY <1>2, <1>4, <1>5, <2>1 DEF CleanInv, Value
  <2> QED
    BY <2>2, <2>3, <2>4, <2>5
<1> QED
  BY <1>6, <1>7

\* A block was written, and the answer says so.
LEMMA ConfirmStep ==
  ASSUME IInv, Confirm
  PROVE  IInv'
<1> USE DEF IInv
<1>1. /\ pc = "confirm" /\ status' \in BOOLEAN /\ tries' \in 0 .. MaxTries
      /\ ~status' => ~status
      /\ dev' = dev /\ pending' = pending /\ answer' = answer /\ ui' = ui
      /\ app' = app /\ copy' = copy /\ call' = call /\ failed' = failed /\ data' = data
  BY ConfirmFacts DEF sensor, calls
<1>2. CASE job' = job /\ pc' = pc
  <2>1. TypeOK'
    BY <1>1, <1>2 DEF TypeOK
  <2>2. JobInv'
    BY <1>1, <1>2 DEF JobInv, Todo, Value
  <2>3. MailInv'
    BY <1>1, <1>2 DEF MailInv, Value
  <2>4. CleanInv'
    BY <1>1, <1>2 DEF CleanInv, Value
  <2> QED
    BY <2>1, <2>2, <2>3, <2>4
<1>3. CASE Proceed /\ (~status' => answer)
  <2>1. /\ job' = Tail(job) /\ job' \in Seq(Commands) /\ Len(job') = Len(job) - 1
        /\ \A j \in 1 .. Len(job') : job'[j] = job[j + 1]
        /\ Len(job) \in Nat \ {0}
        /\ \A b \in Todo : b = job[1].block \/ b \in Todo'
        /\ pc' \in {"ask", "send", "done"}
        /\ pc' = "done" <=> job' = <<>>
        /\ pc' = "send" => job'[1].op = "write"
    BY <1>1, <1>3, ProceedFacts
  <2>2. ~status' => /\ pending = None /\ Value(job[1].block) = call.arg
                    /\ job[1].block \in About(call.name)
    BY <1>1, <1>3, AtMeant DEF MailInv
  <2>3. TypeOK'
    BY <1>1, <2>1 DEF TypeOK
  <2>4. ASSUME ~status', NEW b \in About(call.name)
        PROVE  b \in Todo' \/ Value(b) = call.arg
    BY <1>1, <2>1, <2>2, <2>4 DEF JobInv
  <2>5. ASSUME ~status', NEW j \in 1 .. Len(job')
        PROVE  /\ job'[j].op \in {"replace", "write"}
               /\ job'[j].block \in About(call.name) /\ job'[j].val = call.arg
    <3>1. j + 1 \in 1 .. Len(job) /\ Len(job) # 1
      BY <2>1
    <3>2. job'[j] = job[j + 1]
      BY <2>1
    <3>3. \/ /\ job[j + 1].op \in {"replace", "write"}
             /\ job[j + 1].block \in About(call.name) /\ job[j + 1].val = call.arg
          \/ Len(job) = 1
      BY <1>1, <2>5, <3>1 DEF JobInv, Meant
    <3> QED
      BY <3>1, <3>2, <3>3
  <2>6. ~status' => Meant(job', call.name, call.arg)
    BY <2>5 DEF Meant
  <2>7. JobInv'
    BY <1>1, <2>1, <2>4, <2>6 DEF JobInv, Value
  <2>8. MailInv'
    <3>1. ~status' => call.name \notin Blocks
      BY <2>2, Names DEF About
    <3> QED
      BY <1>1, <2>1, <2>2, <3>1 DEF MailInv
  <2>9. CleanInv'
    BY <1>1, <2>1, <2>2 DEF CleanInv, Value
  <2> QED
    BY <2>3, <2>7, <2>8, <2>9
<1> QED
  BY <1>2, <1>3, ConfirmFacts

\* What a call that returns 0 has achieved.
LEMMA DoneFacts ==
  ASSUME IInv, OK
  PROVE  /\ \A b \in About(call.name) : Value(b) = call.arg
         /\ pending = None
<1>1. job = <<>> /\ Len(job) = 0
  BY DEF IInv, TypeOK, OK
<1>2. Todo = {}
  BY <1>1 DEF Todo
<1> QED
  BY <1>2 DEF IInv, JobInv, MailInv, OK

\* The function returns.
LEMMA ReturnStep ==
  ASSUME IInv, Return
  PROVE  IInv'
<1> USE DEF IInv
<1>1. /\ pc = "done" /\ pc' = "idle" /\ call' = [name |-> "none", arg |-> Wrong]
      /\ data' = NoData /\ status' = FALSE /\ failed' = (failed \/ status)
      /\ dev' = dev /\ pending' = pending /\ answer' = answer /\ ui' = ui
      /\ app' = app /\ copy' = copy /\ job' = job /\ tries' = tries
  BY DEF Return, sensor
<1>2. failed \in BOOLEAN /\ status \in BOOLEAN
  BY DEF TypeOK
<1>3. failed' \in BOOLEAN /\ (~failed' => ~failed /\ ~status)
  BY <1>1, <1>2
<1>4. job = <<>> /\ Len(job) = 0 /\ About("none") = {} /\ "none" \notin Setters
  BY <1>1, Names DEF TypeOK, About
<1>5. TypeOK'
  <2>1. NoData \in Contents /\ Wrong \in Vals
    BY DEF NoData, Contents, Vals
  <2>2. call' \in [name : app' \cup {"none"}, arg : Vals] /\ status' \in BOOLEAN
    BY <1>1, <2>1
  <2> QED
    BY <1>1, <1>3, <1>4, <2>1, <2>2 DEF TypeOK
<1>6. JobInv'
  BY <1>1, <1>4 DEF JobInv, Meant
<1>7. MailInv'
  BY <1>1 DEF MailInv
<1>8. CleanInv'
  <2> SUFFICES ASSUME ~failed', ~status' PROVE CleanInv'
    BY DEF CleanInv
  <2>1. OK /\ ~failed /\ ~status
    BY <1>1, <1>3 DEF OK
  <2>2. pending = None /\ \A b \in About(call.name) : Value(b) = call.arg
    BY <2>1, DoneFacts
  <2>3. \A f \in Functions : \A a, b \in About(f) : Value(a) = Value(b)
    BY <2>1, <2>2 DEF CleanInv
  <2>4. \A c \in DOMAIN copy : copy[c] = Value(c)
    <3> SUFFICES ASSUME NEW c \in DOMAIN copy, c \in About(call.name) PROVE copy[c] = Value(c)
      BY <2>1 DEF CleanInv
    <3>1. call.name \in Setters /\ FieldOf[call.name] = c
      BY DEF TypeOK, About
    <3> QED
      BY <2>2, <3>1 DEF JobInv
  <2> QED
    BY <1>1, <2>1, <2>2, <2>3, <2>4 DEF CleanInv, Value
<1> QED
  BY <1>5, <1>6, <1>7, <1>8

\* The firmware carries out what is in the mailbox: while nothing failed in the call,
\* that is the call's own command, or one of before its first.
LEMMA ExecuteStep ==
  ASSUME IInv, Execute
  PROVE  IInv'
<1> USE DEF IInv
<1>1. /\ pending # None /\ pending' = None /\ answer' = TRUE
      /\ pending.block \in Blocks /\ pending.write \in BOOLEAN /\ pending.data \in Contents
      /\ pc' = pc /\ app' = app /\ copy' = copy /\ call' = call /\ failed' = failed
      /\ job' = job /\ data' = data /\ status' = status /\ tries' = tries
  BY NoneFacts DEF Execute, calls
<1>2. /\ pending.write =>
           dev' = [dev EXCEPT ![pending.block] = pending.data] /\ ui' = ui
      /\ ~pending.write => dev' = dev /\ ui' = dev[pending.block]
  BY DEF Execute
<1>3. TypeOK'
  BY <1>1, <1>2 DEF TypeOK
<1>4. \A b \in Blocks : /\ b # pending.block => dev'[b] = dev[b]
                        /\ pending.write /\ b = pending.block => dev'[b] = pending.data
  BY <1>1, <1>2 DEF TypeOK
<1>5. ~status => /\ pc \in {"idle", "ask", "send", "await", "confirm"}
                 /\ pc = "send" => job[1].op = "write"
                 /\ pc = "await" => /\ ~pending.write /\ dev' = dev
                                    /\ ui' = dev[job[1].block]
                 /\ pc = "confirm" => /\ pending.write /\ pending.block = job[1].block
                                      /\ pending.data.val = call.arg
                                      /\ job[1].op # "read"
                                      /\ pending.block \in About(call.name)
  <2>1. ~status => pc \notin {"fetch", "done"} /\ (pc = "send" => job[1].op = "write")
    BY <1>1 DEF MailInv
  <2>2. ~status /\ pc = "await" => pending.block = job[1].block /\ ~pending.write
    BY <1>1 DEF MailInv
  <2>3. ~status /\ pc = "confirm" => /\ pending.write /\ pending.block = job[1].block
                                     /\ pending.data.val = call.arg /\ job[1].op # "read"
    BY <1>1 DEF MailInv
  <2>4. ~status /\ pc = "confirm" => pending.block \in About(call.name)
    BY <2>3, AtMeant
  <2> QED
    BY <1>2, <2>1, <2>2, <2>3, <2>4 DEF TypeOK
<1>6. JobInv'
  <2>1. ASSUME ~status, NEW b \in About(call.name), b \notin Todo
        PROVE  dev'[b].val = call.arg
    <3>1. b \in Blocks /\ dev[b].val = call.arg
      BY <2>1 DEF About, JobInv, Value
    <3>2. pc \notin {"ask", "send"}
      BY <1>1, <2>1 DEF MailInv
    <3>3. pc # "idle"
      BY <2>1, Names DEF JobInv, About
    <3> QED
      BY <1>4, <1>5, <2>1, <3>1, <3>2, <3>3
  <2> QED
    BY <1>1, <2>1 DEF JobInv, Todo, Value
<1>7. MailInv'
  <2>1. CASE ~status /\ pc = "confirm"
    <3>1. dev'[job[1].block].val = call.arg
      BY <1>1, <1>4, <1>5, <2>1
    <3> QED
      BY <1>1, <1>5, <2>1, <3>1 DEF MailInv, Value
  <2>2. CASE ~status /\ pc = "await"
    BY <1>1, <1>5, <2>2 DEF MailInv
  <2>3. CASE ~status /\ pc \notin {"confirm", "await"}
    BY <1>1, <1>5, <2>3 DEF MailInv, Todo
  <2>4. CASE status
    BY <1>1, <2>4 DEF MailInv
  <2> QED
    BY <2>1, <2>2, <2>3, <2>4
<1>8. CleanInv'
  <2> SUFFICES ASSUME ~failed, ~status PROVE CleanInv'
    BY <1>1 DEF CleanInv
  <2>1. pc \in {"await", "confirm"}
    BY <1>1 DEF CleanInv
  <2>2. CASE pc = "await"
    BY <1>1, <1>5, <2>2 DEF CleanInv, Value
  <2>3. CASE pc = "confirm"
    <3>1. pending.block \in About(call.name) /\ pending.data.of = pending.block
      BY <1>1, <1>5, <2>3 DEF CleanInv
    <3>2. \A b \in Blocks : dev'[b].of = b
      BY <1>4, <1>5, <2>3, <3>1 DEF CleanInv
    <3>3. ASSUME NEW f \in Functions, f # call.name, NEW a \in About(f), NEW b \in About(f)
          PROVE  dev'[a].val = dev'[b].val
      <4>1. f \in Setters => a = b
        BY <3>3, Names DEF About
      <4>2. f \notin Setters => pending.block \notin About(f)
        BY <3>1, <3>3, AboutDisjoint
      <4>3. a \in Blocks /\ b \in Blocks /\ dev[a].val = dev[b].val
        BY <3>3 DEF CleanInv, Value, About
      <4> QED
        BY <1>4, <4>1, <4>2, <4>3
    <3>4. ASSUME NEW c \in DOMAIN copy, c \notin About(call.name)
          PROVE  copy[c] = dev'[c].val
      <4>1. c \in Blocks /\ c # pending.block /\ copy[c] = dev[c].val
        BY <3>1, <3>4, Names DEF CleanInv, TypeOK, Value
      <4> QED
        BY <1>4, <4>1
    <3> QED
      BY <1>1, <2>3, <3>2, <3>3, <3>4 DEF CleanInv, Value
  <2> QED
    BY <2>1, <2>2, <2>3
<1> QED
  BY <1>3, <1>6, <1>7, <1>8

\* Every step keeps the invariant.
LEMMA NextStep ==
  ASSUME IInv, [Next]_vars
  PROVE  IInv'
<1>1. CASE Next
  BY <1>1, CallStep, AskStep, AwaitStep, FetchStep, SendStep, ConfirmStep, ReturnStep,
     ExecuteStep DEF Next
<1>2. CASE UNCHANGED vars
  BY <1>2 DEF vars, sensor, calls, IInv, TypeOK, JobInv, MailInv, CleanInv, Todo, Value
<1> QED
  BY <1>1, <1>2

\* The invariant holds in every behaviour.
THEOREM MailboxInvariant == SafeSpec => []IInv
<1> QED
  BY InitIInv, NextStep, PTL DEF SafeSpec

-----------------------------------------------------------------------------
(* What follows.                                                           *)

\* Every variable keeps its type, however many polls, failures and calls there are.
THEOREM SettingsTyped == SafeSpec => []TypeOK
<1>1. IInv => TypeOK
  BY DEF IInv
<1> QED
  BY <1>1, MailboxInvariant, PTL

\* A set function that returns 0 has brought every block it is about to the value asked
\* for, whatever calls before it left in the mailbox or half done.
THEOREM SetFunctionsHold == SafeSpec => []SetHolds
<1>1. IInv => SetHolds
  BY DoneFacts DEF SetHolds
<1> QED
  BY <1>1, MailboxInvariant, PTL

\* A get function that returns 0 returns what the sensor holds, never what the data area
\* held before.
THEOREM GetFunctionsTell == SafeSpec => []GetTells
<1>1. IInv => GetTells
  BY DEF IInv, MailInv, GetTells, OK
<1> QED
  BY <1>1, MailboxInvariant, PTL

\* As long as every call returns 0, the blocks that belong together agree between any two
\* calls, and no block holds the bytes of another.
THEOREM BlocksInStep == SafeSpec => []InStep
<1>1. ASSUME IInv, pc = "idle", ~failed
      PROVE  /\ \A b \in {"dss", "offset", "xtalk"} : Value(b) = Value("zone")
             /\ Value("mode") = Value("single")
             /\ Value("enable") = Value("interrupt")
             /\ \A b \in Blocks : dev[b].of = b
  <2>1. ~status /\ call.name = "none"
    BY <1>1 DEF IInv, JobInv
  <2>2. \A f \in Functions : \A a, b \in About(f) : Value(a) = Value(b)
    BY <1>1, <2>1, Names DEF IInv, CleanInv
  <2>3. /\ "set_resolution" \in Functions /\ "set_ranging_mode" \in Functions
        /\ "set_detection_thresholds_enable" \in Functions
    BY DEF Functions
  <2>4. /\ {"dss", "zone", "offset", "xtalk"} \subseteq About("set_resolution")
        /\ {"mode", "single"} \subseteq About("set_ranging_mode")
        /\ {"enable", "interrupt"} \subseteq About("set_detection_thresholds_enable")
    BY DEF About, Blocks
  <2>5. \A b \in Blocks : dev[b].of = b
    BY <1>1, <2>1 DEF IInv, CleanInv
  <2> QED
    BY <2>2, <2>3, <2>4, <2>5
<1>2. IInv => InStep
  BY <1>1 DEF InStep
<1> QED
  BY <1>2, MailboxInvariant, PTL

\* The host's copies of two settings are those of the sensor after a set function
\* returned 0, and between any two calls as long as none failed.
THEOREM FlagsAgree == SafeSpec => []CopiesAgree
<1>1. ASSUME IInv, NEW c \in DOMAIN copy, OK, call.name \in Setters,
             FieldOf[call.name] = c
      PROVE  copy[c] = Value(c)
  <2>1. copy[c] = call.arg
    BY <1>1 DEF IInv, JobInv
  <2>2. c \in About(call.name)
    BY <1>1, Names DEF About
  <2> QED
    BY <1>1, <2>1, <2>2, DoneFacts
<1>2. ASSUME IInv, NEW c \in DOMAIN copy, pc = "idle", ~failed
      PROVE  copy[c] = Value(c)
  <2>1. ~status /\ c \notin About(call.name)
    BY <1>2, Names DEF IInv, JobInv, About
  <2> QED
    BY <1>2, <2>1 DEF IInv, CleanInv
<1>3. IInv => CopiesAgree
  BY <1>1, <1>2 DEF CopiesAgree
<1> QED
  BY <1>3, MailboxInvariant, PTL
=============================================================================
