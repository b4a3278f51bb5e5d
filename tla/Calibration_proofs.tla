------------------------- MODULE Calibration_proofs -------------------------
(***************************************************************************)
(* Proofs about Calibration, for any number of steps that fail and any     *)
(* settings that the application changes: the settings that a calibration  *)
(* saves are those from before when it ends, the sensor has the host's     *)
(* crosstalk data after every call that returned 0, and the host's data    *)
(* stays of 8x8.                                                           *)
(*                                                                         *)
(* The invariant is about the job, the steps a call has still to do: they  *)
(* are in the order of their ranks, so that the first of them tells which  *)
(* others may be left.                                                     *)
(***************************************************************************)
EXTENDS Calibration, SequenceTheorems, TLAPS

\* The kinds of step, the steps, and what is saved and restored.
Ops == {"save", "full", "prepare", "launch", "await", "take", "read", "copy", "defaults",
        "restore"}
Steps == [op : Ops, on : Settings]
To(op, s) == [op |-> op, on |-> s]
AllSaved == {Saved[i] : i \in 1 .. Len(Saved)}

\* The steps of a job, and the order in which a job has them.
Items(s) == {s[j] : j \in 1 .. Len(s)}
Rank(op) ==
  IF op = "save" THEN 0 ELSE IF op = "full" THEN 1 ELSE IF op = "prepare" THEN 2
  ELSE IF op = "launch" THEN 3 ELSE IF op = "await" THEN 4
  ELSE IF op = "defaults" THEN 6 ELSE IF op = "restore" THEN 7 ELSE 5
Ordered(s) == \A i, j \in 1 .. Len(s) : i <= j => Rank(s[i].op) <= Rank(s[j].op)

\* A job of the steps X.
Program(s, X) == s \in Seq(Steps) /\ Ordered(s) /\ Items(s) = X

\* Ranks are numbers.
LEMMA RankType == \A op : Rank(op) \in 0 .. 7
  BY DEF Rank

\* The settings by name.
LEMMA NamesAre ==
  /\ Settings = {"resolution", "frequency", "integration", "sharpener", "order", "margin",
                 "mode", "sync", "enable", "interrupt"}
  /\ AllSaved = {"resolution", "frequency", "integration", "sharpener", "order", "margin",
                 "mode"}
  /\ Len(Saved) = 7
<1>1. /\ Len(Saved) = 7 /\ Saved[1] = "resolution" /\ Saved[2] = "frequency"
      /\ Saved[3] = "integration" /\ Saved[4] = "sharpener" /\ Saved[5] = "order"
      /\ Saved[6] = "margin" /\ Saved[7] = "mode"
  BY DEF Saved
<1>2. \A i \in 1 .. 7 : i = 1 \/ i = 2 \/ i = 3 \/ i = 4 \/ i = 5 \/ i = 6 \/ i = 7
  OBVIOUS
<1> DEFINE names == {"resolution", "frequency", "integration", "sharpener", "order",
                     "margin", "mode"}
<1>3. AllSaved = names
  <2>1. ASSUME NEW s \in AllSaved PROVE s \in names
    BY <1>1, <1>2 DEF AllSaved
  <2>2. ASSUME NEW s \in names PROVE s \in AllSaved
    <3>1. \E i \in 1 .. 7 : s = Saved[i] BY <1>1
    <3> QED BY <1>1, <3>1 DEF AllSaved
  <2> QED BY <2>1, <2>2
<1>4. Settings = AllSaved \cup {"sync", "enable", "interrupt"}
  BY DEF Settings, AllSaved
<1> QED BY <1>1, <1>3, <1>4

\* A job that goes on with another, whose steps are of no lower rank.
LEMMA Joined ==
  ASSUME NEW s, NEW X, Program(s, X), NEW t, NEW Y, Program(t, Y),
         \A x \in X, y \in Y : Rank(x.op) <= Rank(y.op)
  PROVE Program(s \o t, X \cup Y)
<1> DEFINE u == s \o t  m == Len(s)  n == Len(t)
<1>1. /\ s \in Seq(Steps) /\ t \in Seq(Steps) BY DEF Program
<1>2. /\ u \in Seq(Steps) /\ Len(u) = m + n
      /\ \A i \in 1 .. m + n : u[i] = IF i <= m THEN s[i] ELSE t[i - m]
  BY <1>1, ConcatProperties, Zenon
<1>3. m \in Nat /\ n \in Nat BY <1>1, LenProperties, Zenon
<1> HIDE DEF u, m, n
<1>4. /\ \A i \in 1 .. m : u[i] = s[i] /\ s[i] \in X
      /\ \A i \in 1 .. n : u[i + m] = t[i] /\ t[i] \in Y
  <2>1. ASSUME NEW i \in 1 .. m PROVE u[i] = s[i] /\ s[i] \in X
    <3>1. u[i] = s[i] BY <1>2, <1>3
    <3>2. s[i] \in Items(s) BY DEF Items, m
    <3> QED BY <3>1, <3>2 DEF Program
  <2>2. ASSUME NEW i \in 1 .. n PROVE u[i + m] = t[i] /\ t[i] \in Y
    <3>1. i + m \in 1 .. m + n /\ ~(i + m <= m) /\ (i + m) - m = i BY <1>3
    <3>2. u[i + m] = t[i] BY <1>2, <3>1
    <3>3. t[i] \in Items(t) BY DEF Items, n
    <3> QED BY <3>2, <3>3 DEF Program
  <2> QED BY <2>1, <2>2
<1>5. \A i \in 1 .. m + n : i \in 1 .. m \/ \E k \in 1 .. n : i = k + m
  <2> TAKE i \in 1 .. m + n
  <2>1. CASE i <= m BY <2>1, <1>3
  <2>2. CASE i > m
    <3>1. i - m \in 1 .. n /\ i = (i - m) + m BY <2>2, <1>3
    <3> QED BY <3>1
  <2> QED BY <2>1, <2>2, <1>3
<1>6. Items(u) = X \cup Y
  <2>1. ASSUME NEW x \in Items(u) PROVE x \in X \cup Y
    BY <1>2, <1>4, <1>5 DEF Items
  <2>2. ASSUME NEW x \in X PROVE x \in Items(u)
    <3>1. PICK i \in 1 .. m : x = s[i] BY DEF Program, Items, m
    <3>2. i \in 1 .. m + n /\ u[i] = x BY <3>1, <1>3, <1>4
    <3> QED BY <3>2, <1>2 DEF Items
  <2>3. ASSUME NEW x \in Y PROVE x \in Items(u)
    <3>1. PICK i \in 1 .. n : x = t[i] BY DEF Program, Items, n
    <3>2. i + m \in 1 .. m + n /\ u[i + m] = x BY <3>1, <1>3, <1>4
    <3> QED BY <3>2, <1>2 DEF Items
  <2> QED BY <2>1, <2>2, <2>3
<1>7. Ordered(u)
  <2> SUFFICES ASSUME NEW i \in 1 .. m + n, NEW j \in 1 .. m + n, i <= j
               PROVE Rank(u[i].op) <= Rank(u[j].op)
    BY <1>2 DEF Ordered
  <2>1. CASE j \in 1 .. m
    <3>1. i \in 1 .. m /\ u[i] = s[i] /\ u[j] = s[j] BY <2>1, <1>3, <1>4
    <3> QED BY <2>1, <3>1 DEF Program, Ordered, m
  <2>2. CASE \E k \in 1 .. n : j = k + m
    <3>1. PICK k \in 1 .. n : j = k + m BY <2>2
    <3>2. CASE i \in 1 .. m BY <1>4, <3>1, <3>2
    <3>3. CASE \E l \in 1 .. n : i = l + m
      <4>1. PICK l \in 1 .. n : i = l + m BY <3>3
      <4>2. l <= k BY <1>3, <3>1, <4>1
      <4>3. Rank(t[l].op) <= Rank(t[k].op) BY <4>2 DEF Program, Ordered, n
      <4> QED BY <1>4, <3>1, <4>1, <4>3
    <3> QED BY <1>5, <3>2, <3>3
  <2> QED BY <1>5, <2>1, <2>2
<1> QED BY <1>2, <1>6, <1>7 DEF Program, u

\* The seven settings are saved, or restored, in one job.
LEMMA EachProgram ==
  ASSUME NEW op \in Ops
  PROVE Program(Each(op), {To(op, s) : s \in AllSaved})
<1> DEFINE e == Each(op)
<1>1. /\ e \in [1 .. 7 -> Steps] /\ \A i \in 1 .. 7 : e[i] = To(op, Saved[i]) /\ Saved[i] \in Settings
  BY NamesAre DEF Each, To, Steps, AllSaved, Settings
<1>2. e \in Seq(Steps) /\ Len(e) = 7
  <2>1. e = [i \in 1 .. 7 |-> To(op, Saved[i])] BY NamesAre DEF Each, To
  <2>2. \A i \in 1 .. 7 : To(op, Saved[i]) \in Steps BY <1>1
  <2> QED BY <2>1, <2>2
<1>3. Items(e) = {To(op, s) : s \in AllSaved}
  BY <1>1, <1>2, NamesAre DEF Items, AllSaved
<1>4. Ordered(e)
  <2>1. \A i \in 1 .. 7 : e[i].op = op BY <1>1 DEF To
  <2> QED BY <1>2, <2>1, RankType DEF Ordered
<1> QED BY <1>2, <1>3, <1>4 DEF Program

\* The rank of each kind of step.
LEMMA RankOf ==
  /\ Rank("save") = 0 /\ Rank("full") = 1 /\ Rank("prepare") = 2 /\ Rank("launch") = 3
  /\ Rank("await") = 4 /\ Rank("take") = 5 /\ Rank("read") = 5 /\ Rank("copy") = 5
  /\ Rank("defaults") = 6 /\ Rank("restore") = 7
  BY DEF Rank

\* The parts of the jobs.
Whats(op) == {To(op, s) : s \in AllSaved}
Only(op) == {To(op, "resolution")}
Measuring == Only("full") \cup Only("prepare") \cup Only("launch") \cup Only("await")

\* The steps of a part are of its kind.
LEMMA OpOf ==
  ASSUME NEW op, NEW x \in Whats(op) \cup Only(op)
  PROVE x.op = op
  BY DEF Whats, Only, To

\* The job of a measurement.
LEMMA MeasuringProgram ==
  Program(<<Do("full"), Do("prepare"), Do("launch"), Do("await")>>, Measuring)
<1> DEFINE e == <<Do("full"), Do("prepare"), Do("launch"), Do("await")>>
<1>1. /\ e \in Seq(Steps) /\ Len(e) = 4
      /\ e[1] = To("full", "resolution") /\ e[2] = To("prepare", "resolution")
      /\ e[3] = To("launch", "resolution") /\ e[4] = To("await", "resolution")
  BY NamesAre DEF Do, To, Steps, Ops
<1>2. \A i \in 1 .. 4 : i = 1 \/ i = 2 \/ i = 3 \/ i = 4 OBVIOUS
<1>3. \A i \in 1 .. 4 : Rank(e[i].op) = i
  BY <1>1, <1>2, RankOf DEF To
<1> HIDE DEF e
<1>4. Ordered(e) BY <1>1, <1>3 DEF Ordered
<1>5. Items(e) = Measuring
  <2>1. Items(e) = {e[1], e[2], e[3], e[4]} BY <1>1, <1>2 DEF Items
  <2> QED BY <2>1, <1>1 DEF Measuring, Only
<1> QED BY <1>1, <1>4, <1>5 DEF Program, e

\* calibrate_xtalk: wrong arguments skip the measurement only.
LEMMA CalibrateProgram ==
  ASSUME NEW valid \in BOOLEAN
  PROVE Program(CalibrateJob(valid),
                Whats("save") \cup (IF valid THEN Measuring ELSE {})
                  \cup Only("read") \cup Only("defaults") \cup Whats("restore"))
<1> DEFINE m == IF valid THEN <<Do("full"), Do("prepare"), Do("launch"), Do("await")>> ELSE <<>>
           M == IF valid THEN Measuring ELSE {}
           r == <<Do("read"), Do("defaults")>>
           R == Only("read") \cup Only("defaults")
<1>1. Program(Each("save"), Whats("save")) /\ Program(Each("restore"), Whats("restore"))
  BY EachProgram DEF Whats, Ops
<1>2. Program(m, M)
  <2>1. Program(<<>>, {}) BY DEF Program, Ordered, Items
  <2> QED BY <2>1, MeasuringProgram
<1>3. Program(r, R)
  <2>1. /\ r \in Seq(Steps) /\ Len(r) = 2
        /\ r[1] = To("read", "resolution") /\ r[2] = To("defaults", "resolution")
    BY NamesAre DEF Do, To, Steps, Ops
  <2>2. \A i \in 1 .. 2 : i = 1 \/ i = 2 OBVIOUS
  <2>3. \A i \in 1 .. 2 : Rank(r[i].op) = i + 4
    BY <2>1, <2>2, RankOf DEF To
  <2> HIDE DEF r
  <2>4. Ordered(r) BY <2>1, <2>3 DEF Ordered
  <2>5. Items(r) = {r[1], r[2]} BY <2>1, <2>2 DEF Items
  <2> QED BY <2>1, <2>4, <2>5 DEF Program, Only
<1>4. /\ \A x \in Whats("save") : Rank(x.op) = 0
      /\ \A x \in M : Rank(x.op) \in 1 .. 4
      /\ \A x \in R : Rank(x.op) \in 5 .. 6
      /\ \A x \in Whats("restore") : Rank(x.op) = 7
  BY OpOf, RankOf DEF Measuring
<1>5. Each("save") \o m \o r \o Each("restore") = CalibrateJob(valid)
  BY DEF CalibrateJob
<1> HIDE DEF m, M, r, R
<1>6. Program(Each("save") \o m, Whats("save") \cup M) BY <1>1, <1>2, <1>4, Joined
<1>7. \A x \in Whats("save") \cup M : Rank(x.op) \in 0 .. 4 BY <1>4
<1>8. Program(Each("save") \o m \o r, (Whats("save") \cup M) \cup R)
  BY <1>6, <1>7, <1>3, <1>4, Joined
<1>9. \A x \in (Whats("save") \cup M) \cup R : Rank(x.op) \in 0 .. 6 BY <1>4, <1>7
<1>10. Program(Each("save") \o m \o r \o Each("restore"),
              ((Whats("save") \cup M) \cup R) \cup Whats("restore"))
  BY <1>8, <1>9, <1>1, <1>4, Joined
<1>11. ((Whats("save") \cup M) \cup R) \cup Whats("restore")
         = Whats("save") \cup M \cup Only("read") \cup Only("defaults") \cup Whats("restore")
  BY DEF R
<1> QED BY <1>5, <1>10, <1>11 DEF M

\* get_caldata_xtalk.
LEMMA GetProgram ==
  Program(GetCaldataJob, Only("save") \cup Only("full") \cup Only("copy") \cup Only("restore"))
<1> DEFINE e == <<Do("save"), Do("full"), Do("copy"), Do("restore")>>
<1>1. /\ e \in Seq(Steps) /\ Len(e) = 4
      /\ e[1] = To("save", "resolution") /\ e[2] = To("full", "resolution")
      /\ e[3] = To("copy", "resolution") /\ e[4] = To("restore", "resolution")
  BY NamesAre DEF Do, To, Steps, Ops
<1>2. \A i \in 1 .. 4 : i = 1 \/ i = 2 \/ i = 3 \/ i = 4 OBVIOUS
<1>3. /\ Rank(e[1].op) = 0 /\ Rank(e[2].op) = 1 /\ Rank(e[3].op) = 5 /\ Rank(e[4].op) = 7
  BY <1>1, RankOf DEF To
<1> HIDE DEF e
<1>4. Ordered(e) BY <1>1, <1>2, <1>3 DEF Ordered
<1>5. Items(e) = {e[1], e[2], e[3], e[4]} BY <1>1, <1>2 DEF Items
<1> QED BY <1>1, <1>4, <1>5 DEF Program, Only, GetCaldataJob, e

\* set_caldata_xtalk.
LEMMA SetProgram ==
  Program(SetCaldataJob, Only("save") \cup Only("take") \cup Only("restore"))
<1> DEFINE e == <<Do("save"), Do("take"), Do("restore")>>
<1>1. /\ e \in Seq(Steps) /\ Len(e) = 3
      /\ e[1] = To("save", "resolution") /\ e[2] = To("take", "resolution")
      /\ e[3] = To("restore", "resolution")
  BY NamesAre DEF Do, To, Steps, Ops
<1>2. \A i \in 1 .. 3 : i = 1 \/ i = 2 \/ i = 3 OBVIOUS
<1>3. /\ Rank(e[1].op) = 0 /\ Rank(e[2].op) = 5 /\ Rank(e[3].op) = 7
  BY <1>1, RankOf DEF To
<1> HIDE DEF e
<1>4. Ordered(e) BY <1>1, <1>2, <1>3 DEF Ordered
<1>5. Items(e) = {e[1], e[2], e[3]} BY <1>1, <1>2 DEF Items
<1> QED BY <1>1, <1>4, <1>5 DEF Program, Only, SetCaldataJob, e

\* The first step of a job is the one whose turn it is, and the last of its rank to go.
LEMMA Popped ==
  ASSUME NEW s \in Seq(Steps), s # <<>>, Ordered(s)
  PROVE /\ Program(Tail(s), Items(Tail(s))) /\ Head(s) \in Steps
        /\ Items(s) = Items(Tail(s)) \cup {Head(s)}
        /\ \A x \in Items(s) : Rank(Head(s).op) <= Rank(x.op)
<1> DEFINE t == Tail(s)  n == Len(s)  h == Head(s)
<1>1. n \in Nat /\ n > 0 /\ h = s[1] /\ h \in Steps /\ t \in Seq(Steps) /\ Len(t) = n - 1
      /\ \A i \in 1 .. n - 1 : t[i] = s[i + 1]
  <2>1. n \in Nat /\ n > 0 /\ h = s[1] BY EmptySeq
  <2>2. h \in Steps /\ t \in Seq(Steps) /\ Len(t) = n - 1
        /\ \A i \in 1 .. Len(t) : t[i] = s[i + 1]
    BY HeadTailProperties, Zenon
  <2> QED BY <2>1, <2>2
<1>2. Ordered(t)
  <2> SUFFICES ASSUME NEW i \in 1 .. n - 1, NEW j \in 1 .. n - 1, i <= j
               PROVE Rank(t[i].op) <= Rank(t[j].op)
    BY <1>1 DEF Ordered
  <2>1. i + 1 \in 1 .. n /\ j + 1 \in 1 .. n /\ i + 1 <= j + 1 BY <1>1
  <2>2. Rank(s[i + 1].op) <= Rank(s[j + 1].op) BY <2>1 DEF Ordered
  <2> QED BY <2>2, <1>1
<1>3. Items(s) = Items(t) \cup {h}
  <2>1. ASSUME NEW x \in Items(s) PROVE x \in Items(t) \cup {h}
    <3>1. PICK i \in 1 .. n : x = s[i] BY DEF Items
    <3>2. CASE i = 1 BY <3>1, <3>2, <1>1
    <3>3. CASE i # 1
      <4>1. i - 1 \in 1 .. n - 1 /\ (i - 1) + 1 = i BY <3>3, <1>1
      <4>2. t[i - 1] = x BY <4>1, <3>1, <1>1
      <4> QED BY <4>1, <4>2, <1>1 DEF Items
    <3> QED BY <3>2, <3>3
  <2>2. ASSUME NEW x \in Items(t) PROVE x \in Items(s)
    <3>1. PICK i \in 1 .. n - 1 : x = t[i] BY <1>1 DEF Items
    <3>2. i + 1 \in 1 .. n /\ s[i + 1] = x BY <3>1, <1>1
    <3> QED BY <3>2 DEF Items
  <2>3. h \in Items(s)
    <3>1. 1 \in 1 .. n BY <1>1
    <3> QED BY <3>1, <1>1 DEF Items
  <2> QED BY <2>1, <2>2, <2>3
<1>4. ASSUME NEW x \in Items(s) PROVE Rank(h.op) <= Rank(x.op)
  <2>1. PICK i \in 1 .. n : x = s[i] BY DEF Items
  <2>2. 1 \in 1 .. n /\ 1 <= i BY <1>1
  <2> QED BY <2>1, <2>2, <1>1 DEF Ordered
<1> QED BY <1>1, <1>2, <1>3, <1>4 DEF Program

-----------------------------------------------------------------------------
\* The values of a setting on the sensor, and those a get function may tell.
ValueOf(s) ==
  IF s = "resolution" THEN {16, 64} ELSE IF s = "sharpener" THEN 0 .. 252
  ELSE IF s = "frequency" THEN Settable \cup {Junk} ELSE Settable
ToldOf(s) ==
  IF s = "resolution" THEN {0, 16, 64} ELSE IF s = "sharpener" THEN 0 .. 100
  ELSE IF s = "mode" THEN Settable ELSE Settable \cup {Junk}
Grids == [of : {"default", "new", "user", Junk}, zones : {16, 64}]

\* What each function saves, and the steps it may have.
SavedBy == IF call = "calibrate_xtalk" THEN AllSaved
           ELSE IF call = "none" THEN {} ELSE {"resolution"}
OpsOf == IF call = "calibrate_xtalk" THEN Ops \ {"take", "copy"}
         ELSE IF call = "get_caldata_xtalk" THEN {"save", "full", "copy", "restore"}
         ELSE {"save", "take", "restore"}
Has(op) == \E x \in Items(job) : x.op = op

\* The types of the variables.
CalTyped ==
  /\ settings = [s \in Settings |-> settings[s]] /\ before = [s \in Settings |-> before[s]]
  /\ saved = [s \in Settings |-> saved[s]]
  /\ \A s \in Settings : /\ settings[s] \in ValueOf(s) /\ before[s] \in ValueOf(s)
                        /\ saved[s] \in ToldOf(s)
  /\ grid \in Grids /\ host \in Grids /\ out \in Grids
  /\ measured \in BOOLEAN /\ status \in BOOLEAN /\ failed \in BOOLEAN
  /\ call \in {"none", "calibrate_xtalk", "get_caldata_xtalk", "set_caldata_xtalk"}
  /\ job \in Seq(Steps)

\* A call that runs restores all it saved, as its last steps.
JobShape ==
  /\ call = "none" => job = <<>> /\ ~status
  /\ Ordered(job) /\ \A x \in Items(job) : x.op \in OpsOf
  /\ (\E x \in Items(job) : x.op # "restore") =>
       \A s \in SavedBy : To("restore", s) \in Items(job)
  /\ ~status => lost = {}

\* What was told is what the settings were before the call.
ToldBefore(s) == IF s = "sharpener" THEN ToPercent(before[s]) ELSE before[s]
Saving ==
  /\ Has("save") => settings = before
  /\ "save" \notin lost =>
       \A s \in SavedBy : To("save", s) \in Items(job) \/ saved[s] = ToldBefore(s)

\* What was restored is what it was before the call.
Kept(s) == IF s = "sharpener" THEN ToPercent(before[s]) - ToPercent(settings[s]) \in {0, 1}
           ELSE settings[s] = before[s]
Restoring ==
  {"save", "restore"} \cap lost = {} =>
    \A s \in SavedBy : To("restore", s) \in Items(job) \/ Kept(s)

\* The restored resolution takes the host's grid with it.
GridSet ==
  call # "none" /\ ~status =>
    To("restore", "resolution") \in Items(job) \/ grid = Sent(host, settings["resolution"])

\* The grid that get_caldata_xtalk copies is the host's, as the sensor is in 8x8.
Telling ==
  call = "get_caldata_xtalk" /\ ~status =>
    /\ Has("full") => Has("copy")
    /\ Has("full") \/ (IF Has("copy") THEN grid = host ELSE out = host)

\* So is the one that a calibration reads back.
Whole ==
  ~failed /\ ~status =>
    /\ host.zones = 64 /\ host.of # Junk
    /\ call = "calibrate_xtalk" /\ Has("read") =>
         Has("full") \/ (settings["resolution"] = 64 /\ grid.zones = 64 /\ grid.of # Junk)

\* The invariant.
CalInv == CalTyped /\ JobShape /\ Saving /\ Restoring /\ GridSet /\ Telling /\ Whole

\* The junk of a read is of the type of what is told, and there is some.
LEMMA JunkType ==
  ASSUME NEW s \in Settings
  PROVE JunkOf(s) \subseteq ToldOf(s) /\ JunkOf(s) # {}
<1>1. /\ ~("resolution" = "sharpener") /\ ~("resolution" = "mode") /\ ~("sharpener" = "mode")
      /\ ~("sharpener" = "resolution") /\ ~("mode" = "resolution") /\ ~("mode" = "sharpener")
  BY SMT
<1>2. s = "resolution" => JunkOf(s) = {0, 16, 64} BY <1>1, Zenon DEF JunkOf
<1>3. s = "sharpener" => JunkOf(s) = {0, 100} BY <1>1, Zenon DEF JunkOf
<1>4. s = "mode" => JunkOf(s) = Settable BY <1>1, Zenon DEF JunkOf
<1>5. s \notin {"resolution", "sharpener", "mode"} => JunkOf(s) = {"changed", Junk}
  BY <1>1, Zenon DEF JunkOf
<1> QED BY <1>2, <1>3, <1>4, <1>5 DEF ToldOf, Settable

\* The range checks of the set functions.
LEMMA RangeOf ==
  ASSUME NEW s, NEW v
  PROVE /\ s = "sharpener" => (InRange(s, v) <=> v < 100)
        /\ s = "frequency" => InRange(s, v)
        /\ s \notin {"sharpener", "frequency"} => (InRange(s, v) <=> v # Junk)
<1>1. ~("sharpener" = "frequency") /\ ~("frequency" = "sharpener") BY SMT
<1>2. s = "sharpener" => (InRange(s, v) <=> v < 100)
  <2> SUFFICES ASSUME s = "sharpener" PROVE InRange(s, v) <=> v < 100 OBVIOUS
  <2> QED BY <1>1, Zenon DEF InRange
<1>3. s = "frequency" => InRange(s, v)
  <2> SUFFICES ASSUME s = "frequency" PROVE InRange(s, v) OBVIOUS
  <2> QED BY <1>1, Zenon DEF InRange
<1>4. s \notin {"sharpener", "frequency"} => (InRange(s, v) <=> v # Junk)
  <2> SUFFICES ASSUME ~(s = "sharpener"), ~(s = "frequency") PROVE InRange(s, v) <=> v # Junk
    OBVIOUS
  <2> QED BY Zenon DEF InRange
<1> QED BY <1>2, <1>3, <1>4

\* The default configuration has every setting but the switch of the thresholds.
LEMMA DefaultsType ==
  ASSUME NEW s \in Settings \ {"enable"}
  PROVE s \in DOMAIN Defaults /\ Defaults[s] \in ValueOf(s)
<1>1. ~("resolution" = "sharpener") /\ ~("sharpener" = "resolution") BY SMT
<1>2. s = "resolution" => Defaults[s] = 16 BY <1>1, Zenon DEF Defaults
<1>3. s = "sharpener" => Defaults[s] = 3 BY <1>1, Zenon DEF Defaults
<1>4. s \notin {"resolution", "sharpener"} => Defaults[s] = "default"
  BY <1>1, Zenon DEF Defaults
<1>5. s \in DOMAIN Defaults BY DEF Defaults
<1> QED BY <1>2, <1>3, <1>4, <1>5 DEF ValueOf, Settable

\* A sharpener that is told and set again loses at most a percent.
LEMMA SharpenerKept ==
  ASSUME NEW b \in 0 .. 252
  PROVE /\ ToPercent(b) \in 0 .. 99 /\ ToByte(ToPercent(b)) \in 0 .. 252
        /\ ToPercent(b) - ToPercent(ToByte(ToPercent(b))) \in {0, 1}
  BY DEF ToPercent, ToByte

\* A percent that passes the range check is a byte from 0 to 252.
LEMMA SharpenerSet ==
  ASSUME NEW p \in 0 .. 99
  PROVE ToByte(p) \in 0 .. 252
  BY DEF ToByte

\* It holds after init.
LEMMA InitCalInv == Init => CalInv
<1> SUFFICES ASSUME Init PROVE CalInv OBVIOUS
<1>1. CalTyped
  <2>1. \A s \in Settings : settings[s] \in ValueOf(s)
    BY DefaultsType DEF Init, ValueOf, Settable
  <2>2. \A s \in Settings : Unsaved[s] \in ToldOf(s)
    BY JunkType DEF Unsaved
  <2>3. grid \in Grids /\ host \in Grids /\ out \in Grids BY DEF Init, Grids
  <2>4. job \in Seq(Steps) BY DEF Init
  <2>5. settings = [s \in Settings |-> settings[s]] /\ saved = [s \in Settings |-> saved[s]]
    BY DEF Init, Unsaved
  <2>6. saved = Unsaved /\ before = settings BY DEF Init
  <2> QED BY <2>1, <2>2, <2>3, <2>4, <2>5, <2>6 DEF Init, CalTyped
<1>2. Items(job) = {} BY DEF Init, Items
<1>3. JobShape BY <1>2 DEF Init, JobShape, Ordered
<1>4. Saving /\ Restoring BY <1>2 DEF Init, Saving, Restoring, SavedBy, Has
<1>5. GridSet /\ Telling /\ Whole BY <1>2 DEF Init, GridSet, Telling, Whole, Junk
<1> QED BY <1>1, <1>3, <1>4, <1>5 DEF CalInv

\* A call begins with its whole job to do.
LEMMA BeginCalInv ==
  ASSUME CalInv, NEW X, NEW steps, Program(steps, X), NEW refused \in BOOLEAN,
         NEW name \in {"calibrate_xtalk", "get_caldata_xtalk", "set_caldata_xtalk"},
         Begin(name, steps, refused),
         \A x \in X : x.op \in OpsOf',
         \A s \in SavedBy' : To("save", s) \in X /\ To("restore", s) \in X,
         name = "get_caldata_xtalk" =>
           To("full", "resolution") \in X /\ To("copy", "resolution") \in X,
         name = "calibrate_xtalk" => refused \/ To("full", "resolution") \in X
  PROVE CalInv'
<1>1. /\ call = "none" /\ call' = name /\ job' = steps /\ status' = refused /\ lost' = {}
      /\ before' = settings /\ UNCHANGED <<settings, grid, measured, host, saved, out, failed>>
  BY DEF Begin, sensor
<1>2. Items(job)' = X /\ Ordered(job)' /\ job' \in Seq(Steps)
  BY <1>1 DEF Program, Items, Ordered
<1>3. ~status BY <1>1 DEF CalInv, JobShape
<1>4. CalTyped' BY <1>1, <1>2 DEF CalInv, CalTyped
<1>5. JobShape' BY <1>1, <1>2 DEF JobShape
<1>6. Saving' BY <1>1, <1>2 DEF Saving
<1>7. Restoring' BY <1>2 DEF Restoring
<1>8. "resolution" \in SavedBy' BY <1>1, NamesAre DEF SavedBy
<1>9. GridSet' BY <1>2, <1>8 DEF GridSet
<1>10. \A op : To(op, "resolution").op = op BY DEF To
<1>11. name = "get_caldata_xtalk" => Has("full")' /\ Has("copy")'
  BY <1>2, <1>10 DEF Has
<1>12. Telling' BY <1>1, <1>11 DEF Telling
<1>13. name = "calibrate_xtalk" => refused \/ Has("full")'
  BY <1>2, <1>10 DEF Has
<1>14. Whole' BY <1>1, <1>3, <1>13 DEF CalInv, Whole
<1> QED BY <1>4, <1>5, <1>6, <1>7, <1>9, <1>12, <1>14 DEF CalInv

\* What every step does to the job and the status.
LEMMA StepTakes ==
  ASSUME CalInv, NEW op \in Ops, NEW ok \in BOOLEAN, Step(op, ok)
  PROVE /\ call # "none" /\ op \in OpsOf
        /\ Head(job) = To(op, Head(job).on) /\ Head(job).on \in Settings
        /\ \A k, s : To(k, s) \in Items(job) =>
                      To(k, s) \in Items(job)' \/ (k = op /\ s = Head(job).on)
        /\ UNCHANGED <<call, before, failed>>
        /\ ~status' => ~status /\ ok
        /\ lost \subseteq lost' /\ (~ok => op \in lost')
        /\ job' \in Seq(Steps) /\ status' \in BOOLEAN /\ JobShape'
<1> DEFINE h == Head(job)
<1>1. /\ job # <<>> /\ h.op = op /\ job' = Tail(job) /\ status' = (status \/ ~ok)
      /\ lost' = IF ok THEN lost ELSE lost \cup {op}
      /\ UNCHANGED <<call, before, failed>>
  BY DEF Step, history
<1>2. job \in Seq(Steps) /\ Ordered(job) /\ status \in BOOLEAN
  BY DEF CalInv, CalTyped, JobShape
<1>3. /\ job' \in Seq(Steps) /\ Ordered(job)' /\ h \in Steps
      /\ Items(job) = Items(job)' \cup {h}
      /\ \A x \in Items(job) : Rank(h.op) <= Rank(x.op)
  <2>1. /\ Program(Tail(job), Items(Tail(job))) /\ h \in Steps
        /\ Items(job) = Items(Tail(job)) \cup {h}
        /\ \A x \in Items(job) : Rank(h.op) <= Rank(x.op)
    BY <1>1, <1>2, Popped, Zenon
  <2>2. Items(Tail(job)) = Items(job)' BY <1>1 DEF Items
  <2>3. Tail(job) \in Seq(Steps) /\ Ordered(Tail(job)) BY <2>1 DEF Program
  <2>4. Ordered(job)' BY <2>3, <1>1 DEF Ordered
  <2> QED BY <1>1, <2>1, <2>2, <2>3, <2>4
<1> HIDE DEF h
<1>4. h = To(op, h.on) /\ h.on \in Settings BY <1>1, <1>3 DEF Steps, To
<1>5. call # "none" BY <1>1 DEF CalInv, JobShape
<1>6. \A x \in Items(job) : x.op \in OpsOf BY DEF CalInv, JobShape
<1>7. op \in OpsOf BY <1>1, <1>3, <1>6
<1>8. ASSUME NEW k, NEW s, To(k, s) \in Items(job)
      PROVE To(k, s) \in Items(job)' \/ (k = op /\ s = h.on)
  <2>1. CASE To(k, s) = h
    <3>1. To(k, s).op = k /\ To(k, s).on = s BY DEF To
    <3> QED BY <2>1, <3>1, <1>1
  <2> QED BY <2>1, <1>3, <1>8
<1>11. ~status' => ~status /\ ok BY <1>1, <1>2
<1>12. lost \subseteq lost' /\ (~ok => op \in lost') BY <1>1
<1>13. JobShape'
  <2>1. OpsOf' = OpsOf /\ SavedBy' = SavedBy BY <1>1 DEF OpsOf, SavedBy
  <2>2. \A x \in Items(job)' : x.op \in OpsOf' BY <1>3, <1>6, <2>1
  <2>3. ASSUME NEW x \in Items(job)', x.op # "restore", NEW s \in SavedBy'
        PROVE To("restore", s) \in Items(job)'
    <3>1. x \in Items(job) BY <1>3
    <3>2. To("restore", s) \in Items(job) BY <3>1, <2>3, <2>1 DEF CalInv, JobShape
    <3>3. x.op \in Ops BY <1>6, <3>1 DEF OpsOf, Ops
    <3>4. Rank(op) <= Rank(x.op) BY <3>1, <1>3, <1>1
    <3>5. op # "restore" BY <3>3, <3>4, <2>3, RankOf DEF Ops
    <3> QED BY <1>8, <3>2, <3>5
  <2>4. ~status' => lost' = {} BY <1>1, <1>11 DEF CalInv, JobShape
  <2>5. call' # "none" BY <1>1, <1>5
  <2> QED BY <1>3, <2>2, <2>3, <2>4, <2>5 DEF JobShape
<1>14. status' \in BOOLEAN BY <1>1, <1>2
<1> QED BY <1>1, <1>3, <1>4, <1>5, <1>7, <1>8, <1>11, <1>12, <1>13, <1>14 DEF h

\* The kinds of step that are left.
LEMMA StepHas ==
  ASSUME CalInv, NEW op \in Ops, NEW ok \in BOOLEAN, Step(op, ok), NEW k
  PROVE /\ Has(op) /\ (Has(k)' => Has(k)) /\ (Has(k) /\ ~Has(k)' => k = op)
        /\ Has(k) => Rank(op) <= Rank(k)
<1> DEFINE h == Head(job)
<1>1. job # <<>> /\ h.op = op /\ job' = Tail(job) /\ job \in Seq(Steps) /\ Ordered(job)
  BY DEF Step, CalInv, CalTyped, JobShape
<1>2. /\ Items(job) = Items(Tail(job)) \cup {h}
      /\ \A x \in Items(job) : Rank(h.op) <= Rank(x.op)
  BY <1>1, Popped, Zenon
<1>3. Items(Tail(job)) = Items(job)' BY <1>1 DEF Items
<1> HIDE DEF h
<1> QED BY <1>1, <1>2, <1>3 DEF Has

\* After the gets nothing is told any more.
LEMMA SavingStays ==
  ASSUME CalInv, NEW op \in Ops \ {"save"}, NEW ok \in BOOLEAN, Step(op, ok), UNCHANGED saved
  PROVE Saving' /\ ~Has("save")
<1>0. op \in Ops OBVIOUS
<1>1. ~Has("save")
  <2>1. Has("save") => Rank(op) <= Rank("save") BY <1>0, StepHas, Zenon
  <2>2. Rank(op) > Rank("save") BY RankOf DEF Ops
  <2> QED BY <2>1, <2>2, RankType
<1>2. ~Has("save")' BY <1>0, StepHas, <1>1, Zenon
<1>3. SavedBy' = SavedBy /\ lost \subseteq lost' /\ before' = before BY StepTakes DEF SavedBy
<1>4. \A s : To("save", s) \notin Items(job)
  BY <1>1 DEF Has, To
<1>5. \A s : ToldBefore(s)' = ToldBefore(s) BY <1>3 DEF ToldBefore
<1> QED BY <1>1, <1>2, <1>3, <1>4, <1>5 DEF CalInv, Saving

\* Before the sets all is to be restored yet.
LEMMA NothingRestored ==
  ASSUME CalInv, NEW op \in Ops \ {"restore"}, NEW ok \in BOOLEAN, Step(op, ok)
  PROVE Restoring' /\ GridSet'
<1>1. \A s \in SavedBy : To("restore", s) \in Items(job)
  <2>1. op \in Ops /\ op # "restore" OBVIOUS
  <2>2. Has(op) BY <2>1, StepHas, Zenon
  <2> QED BY <2>1, <2>2 DEF CalInv, JobShape, Has
<1>2. \A s \in SavedBy : To("restore", s) \in Items(job)'
  BY <1>1, StepTakes
<1>3. SavedBy' = SavedBy /\ call # "none" /\ call \in {"calibrate_xtalk", "get_caldata_xtalk", "set_caldata_xtalk"}
  BY StepTakes DEF SavedBy, CalInv, CalTyped
<1>4. "resolution" \in SavedBy BY <1>3, NamesAre DEF SavedBy
<1> QED BY <1>2, <1>3, <1>4 DEF Restoring, GridSet

\* As long as the sensor and the host's buffers stay, what is read of them does.
LEMMA NothingMoved ==
  ASSUME CalInv, NEW op \in Ops \ {"full", "copy"}, NEW ok \in BOOLEAN, Step(op, ok),
         UNCHANGED <<settings, grid, host, out>>
  PROVE Telling' /\ Whole'
<1>1. /\ UNCHANGED <<call, failed>> /\ (~status' => ~status)
      /\ (Has("full")' <=> Has("full")) /\ (Has("copy")' <=> Has("copy"))
      /\ (Has("read")' => Has("read"))
  <2>1. /\ op \in Ops /\ op # "full" /\ op # "copy" OBVIOUS
  <2>2. \A k : (Has(k)' => Has(k)) /\ (k # op /\ Has(k) => Has(k)')
    BY <2>1, StepHas, Zenon
  <2>3. UNCHANGED <<call, failed>> /\ (~status' => ~status)
    BY <2>1, StepTakes
  <2> QED BY <2>1, <2>2, <2>3
<1>2. Telling' BY <1>1 DEF CalInv, Telling
<1>3. Whole' BY <1>1 DEF CalInv, Whole
<1> QED BY <1>2, <1>3

\* What a get function that works tells is of the type of what is told.
LEMMA ToldType ==
  ASSUME CalTyped, NEW s \in Settings
  PROVE Told(s) \in ToldOf(s)
<1>1. settings[s] \in ValueOf(s) BY DEF CalTyped
<1>2. CASE s = "sharpener"
  <2>1. ToPercent(settings[s]) \in 0 .. 99 BY <1>1, <1>2, SharpenerKept DEF ValueOf
  <2> QED BY <1>2, <2>1 DEF Told, ToldOf
<1>3. CASE s # "sharpener"
  BY <1>1, <1>3 DEF Told, ToldOf, ValueOf
<1> QED BY <1>2, <1>3

\* A get: the setting is told as it was before the call.
LEMMA SaveCalInv == CalInv /\ Save => CalInv'
<1> SUFFICES ASSUME CalInv, Save PROVE CalInv' OBVIOUS
<1>1. PICK ok \in BOOLEAN :
       /\ Step("save", ok)
       /\ \E v \in IF ok THEN {Told(Head(job).on)} ELSE JunkOf(Head(job).on) :
            saved' = [saved EXCEPT ![Head(job).on] = v]
       /\ UNCHANGED <<settings, grid, measured, host, out>>
  BY Zenon DEF Save, sensor
<1> DEFINE s == Head(job).on
<1>2. PICK v \in IF ok THEN {Told(s)} ELSE JunkOf(s) : saved' = [saved EXCEPT ![s] = v]
  BY <1>1
<1>3. "save" \in Ops /\ "save" \in Ops \ {"restore"} /\ "save" \in Ops \ {"full", "copy"}
  BY DEF Ops
<1>4. /\ s \in Settings /\ UNCHANGED <<call, before, failed>>
      /\ \A k, q : To(k, q) \in Items(job) =>
                    To(k, q) \in Items(job)' \/ (k = "save" /\ q = s)
      /\ job' \in Seq(Steps) /\ status' \in BOOLEAN /\ JobShape'
      /\ lost \subseteq lost' /\ (~ok => "save" \in lost')
  BY <1>1, <1>3, StepTakes
<1> HIDE DEF s
<1>0. Has("save") /\ (Has("save")' => Has("save")) BY <1>1, <1>3, StepHas, Zenon
<1>5. v \in ToldOf(s) /\ (ok => v = Told(s))
  BY <1>2, <1>4, ToldType, JunkType DEF CalInv
<1>6. CalTyped'
  <2>1. /\ saved' = [q \in Settings |-> saved'[q]]
        /\ \A q \in Settings : saved'[q] = IF q = s THEN v ELSE saved[q]
    BY <1>2, <1>4 DEF CalInv, CalTyped
  <2>2. \A q \in Settings : saved'[q] \in ToldOf(q) BY <2>1, <1>5 DEF CalInv, CalTyped
  <2> QED BY <2>1, <2>2, <1>1, <1>4 DEF CalInv, CalTyped
<1>7. Saving'
  <2>1. settings = before BY <1>0 DEF CalInv, Saving
  <2>2. SavedBy' = SavedBy /\ \A q : ToldBefore(q)' = ToldBefore(q)
    BY <1>4 DEF SavedBy, ToldBefore
  <2>3. Told(s) = ToldBefore(s) BY <2>1 DEF Told, ToldBefore
  <2>4. ASSUME "save" \notin lost', NEW q \in SavedBy
        PROVE To("save", q) \in Items(job)' \/ saved'[q] = ToldBefore(q)
    <3>1. ok /\ "save" \notin lost BY <2>4, <1>4
    <3>2. q \in Settings BY NamesAre DEF SavedBy
    <3>3. CASE q = s
      <4>1. saved'[q] = v BY <1>2, <3>2, <3>3 DEF CalInv, CalTyped
      <4> QED BY <4>1, <3>1, <3>3, <1>5, <2>3
    <3>4. CASE q # s
      <4>1. saved'[q] = saved[q] BY <1>2, <3>2, <3>4 DEF CalInv, CalTyped
      <4>2. To("save", q) \in Items(job) \/ saved[q] = ToldBefore(q)
        BY <3>1 DEF CalInv, Saving
      <4> QED BY <4>1, <4>2, <3>4, <1>4
    <3> QED BY <3>3, <3>4
  <2> QED BY <1>1, <1>4, <2>1, <2>2, <2>4 DEF Saving
<1>8. Restoring' /\ GridSet' BY <1>1, <1>3, NothingRestored
<1>9. Telling' /\ Whole' BY <1>1, <1>3, NothingMoved
<1> QED BY <1>4, <1>6, <1>7, <1>8, <1>9 DEF CalInv

\* A grid is reduced for 4x4 only.
LEMMA SentIs ==
  ASSUME NEW h \in Grids, NEW r
  PROVE Sent(h, r) \in Grids /\ (r # 16 => Sent(h, r) = h)
  BY DEF Sent, Grids

\* What set_resolution changes.
LEMMA ResolveDoes ==
  ASSUME CalTyped, NEW r, NEW ok \in BOOLEAN, Resolve(r, ok)
  PROVE /\ settings' = [s \in Settings |-> settings'[s]]
        /\ \A s \in Settings : settings'[s] \in ValueOf(s)
        /\ \A s \in Settings \ {"resolution"} : settings'[s] = settings[s]
        /\ grid' \in Grids
        /\ ok /\ r \in {16, 64} => settings'["resolution"] = r /\ grid' = Sent(host, r)
<1> DEFINE to == [settings EXCEPT !["resolution"] =
                    IF r \in {16, 64} THEN r ELSE settings["resolution"]]
<1>1. /\ settings' \in {to} \cup IF ok THEN {} ELSE {settings}
      /\ grid' \in {Sent(host, r)} \cup IF ok THEN {} ELSE {grid}
  BY DEF Resolve
<1>2. /\ to = [s \in Settings |-> to[s]]
      /\ \A s \in Settings \ {"resolution"} : to[s] = settings[s]
      /\ to["resolution"] = IF r \in {16, 64} THEN r ELSE settings["resolution"]
  BY NamesAre DEF CalTyped
<1> HIDE DEF to
<1>3. \A s \in Settings : to[s] \in ValueOf(s)
  <2>1. settings["resolution"] \in {16, 64} BY NamesAre DEF CalTyped, ValueOf
  <2> QED BY <1>2, <2>1 DEF CalTyped, ValueOf
<1>4. Sent(host, r) \in Grids BY SentIs DEF CalTyped
<1> QED BY <1>1, <1>2, <1>3, <1>4 DEF CalTyped

\* What another set function changes.
LEMMA AssignDoes ==
  ASSUME CalTyped, NEW s \in Settings \ {"resolution"}, NEW v \in ToldOf(s),
         NEW ok \in BOOLEAN, Assign(s, v, ok)
  PROVE /\ settings' = [q \in Settings |-> settings'[q]]
        /\ \A q \in Settings : settings'[q] \in ValueOf(q)
        /\ \A q \in Settings \ {s} : settings'[q] = settings[q]
        /\ UNCHANGED grid
        /\ ok /\ InRange(s, v) => settings'[s] = IF s = "sharpener" THEN ToByte(v) ELSE v
<1> DEFINE w == IF s = "sharpener" THEN ToByte(v) ELSE v
           to == IF ~InRange(s, v) THEN settings ELSE [settings EXCEPT ![s] = w]
<1>1. settings' \in {to} \cup (IF ok THEN {} ELSE {settings}) /\ UNCHANGED grid
  BY DEF Assign
<1>2. InRange(s, v) => w \in ValueOf(s)
  <2>1. CASE s = "sharpener"
    <3> SUFFICES ASSUME InRange(s, v) PROVE ToByte(v) \in 0 .. 252
      BY <2>1 DEF ValueOf
    <3>1. v \in 0 .. 99 BY <2>1, RangeOf DEF ToldOf
    <3> QED BY <3>1, SharpenerSet
  <2>2. CASE s # "sharpener" /\ s # "frequency"
    <3>1. InRange(s, v) => v # Junk BY <2>2, RangeOf
    <3> QED BY <2>2, <3>1 DEF ToldOf, ValueOf, Settable
  <2>3. CASE s = "frequency"
    BY <2>3 DEF ToldOf, ValueOf
  <2> QED BY <2>1, <2>2, <2>3
<1> HIDE DEF w
<1>3. /\ to = [q \in Settings |-> to[q]]
      /\ \A q \in Settings \ {s} : to[q] = settings[q]
      /\ InRange(s, v) => to[s] = w
      /\ ~InRange(s, v) => to = settings
  <2>1. CASE InRange(s, v)
    BY <2>1 DEF CalTyped
  <2>2. CASE ~InRange(s, v)
    <3>1. to = settings BY <2>2
    <3> QED BY <2>2, <3>1 DEF CalTyped
  <2> QED BY <2>1, <2>2
<1> HIDE DEF to
<1>4. \A q \in Settings : to[q] \in ValueOf(q)
  BY <1>2, <1>3 DEF CalTyped
<1> QED BY <1>1, <1>3, <1>4 DEF CalTyped, w

\* A set: what was told comes back, and the grid with the resolution.
LEMMA RestoreCalInv == CalInv /\ Restore => CalInv'
<1> SUFFICES ASSUME CalInv, Restore PROVE CalInv' OBVIOUS
<1> PICK s : s = Head(job).on OBVIOUS
<1>1. PICK ok \in BOOLEAN :
       /\ Step("restore", ok)
       /\ IF s = "resolution" THEN Resolve(saved[s], ok) ELSE Assign(s, saved[s], ok)
       /\ UNCHANGED <<measured, host, saved, out>>
  BY Zenon DEF Restore
<1>2. "restore" \in Ops /\ "restore" \in Ops \ {"save"} BY DEF Ops
<1>3. /\ s \in Settings /\ call # "none" /\ "restore" \in OpsOf
      /\ UNCHANGED <<call, before, failed>>
      /\ \A k, q : To(k, q) \in Items(job) =>
                    To(k, q) \in Items(job)' \/ (k = "restore" /\ q = s)
      /\ job' \in Seq(Steps) /\ status' \in BOOLEAN /\ JobShape'
      /\ (~status' => ~status /\ ok)
      /\ lost \subseteq lost' /\ (~ok => "restore" \in lost')
  BY <1>1, <1>2, StepTakes
<1>4. Saving' /\ ~Has("save") BY <1>1, <1>2, SavingStays
<1>5. /\ ~Has("full")' /\ ~Has("copy")' /\ ~Has("read")'
      /\ ~Has("full") /\ ~Has("copy")
  <2>1. /\ (Has("full")' => Has("full")) /\ (Has("full") => Rank("restore") <= Rank("full"))
    BY <1>1, <1>2, StepHas, Zenon
  <2>2. /\ (Has("copy")' => Has("copy")) /\ (Has("copy") => Rank("restore") <= Rank("copy"))
    BY <1>1, <1>2, StepHas, Zenon
  <2>3. /\ (Has("read")' => Has("read")) /\ (Has("read") => Rank("restore") <= Rank("read"))
    BY <1>1, <1>2, StepHas, Zenon
  <2> QED BY <2>1, <2>2, <2>3, RankOf
<1>6. CalTyped /\ saved[s] \in ToldOf(s) BY <1>3 DEF CalInv, CalTyped
\* Only the setting that is restored changes.
<1>7. /\ settings' = [q \in Settings |-> settings'[q]]
      /\ \A q \in Settings : settings'[q] \in ValueOf(q)
      /\ \A q \in Settings \ {s} : settings'[q] = settings[q]
      /\ grid' \in Grids
  <2>1. CASE s = "resolution" BY <1>1, <1>6, <2>1, ResolveDoes
  <2>2. CASE s # "resolution"
    <3>1. Assign(s, saved[s], ok) /\ s \in Settings \ {"resolution"} BY <1>1, <1>3, <2>2
    <3> QED BY <1>6, <3>1, AssignDoes DEF CalTyped
  <2> QED BY <2>1, <2>2
<1>8. CalTyped' BY <1>1, <1>3, <1>7 DEF CalInv, CalTyped
<1>9. SavedBy' = SavedBy BY <1>3 DEF SavedBy
<1>10. \A q \in SavedBy : To("save", q) \notin Items(job) BY <1>4 DEF Has, To
\* What was told is restored.
<1>11. ASSUME ok, "save" \notin lost, s \in SavedBy PROVE Kept(s)'
  <2>1. saved[s] = ToldBefore(s) BY <1>10, <1>11 DEF CalInv, Saving
  <2>2. before[s] \in ValueOf(s) /\ before' = before BY <1>3 DEF CalInv, CalTyped
  <2>3. CASE s = "resolution"
    <3>1. saved[s] = before[s] /\ before[s] \in {16, 64}
      BY <2>1, <2>2, <2>3 DEF ToldBefore, ValueOf
    <3>2. settings'[s] = saved[s] BY <1>1, <1>6, <1>11, <2>3, <3>1, ResolveDoes
    <3> QED BY <2>2, <2>3, <3>1, <3>2 DEF Kept
  <2>4. CASE s = "sharpener"
    <3>1. before[s] \in 0 .. 252 /\ saved[s] = ToPercent(before[s])
      BY <2>1, <2>2, <2>4 DEF ToldBefore, ValueOf
    <3>2. saved[s] \in 0 .. 99
      <4>1. ToPercent(before[s]) \in 0 .. 99 BY <3>1, SharpenerKept
      <4> QED BY <3>1, <4>1
    <3>3. InRange(s, saved[s]) BY <2>4, <3>2, RangeOf
    <3>4. Assign(s, saved[s], ok) /\ s \in Settings \ {"resolution"} BY <1>1, <1>3, <2>4
    <3>5. settings'[s] = ToByte(saved[s])
      BY <1>6, <1>11, <2>4, <3>3, <3>4, AssignDoes
    <3>6. ToPercent(before[s]) - ToPercent(settings'[s]) \in {0, 1}
      BY <3>1, <3>5, SharpenerKept
    <3> QED BY <2>2, <2>4, <3>6 DEF Kept
  <2>5. CASE s \notin {"resolution", "sharpener"}
    <3>1. saved[s] = before[s] BY <2>1, <2>5 DEF ToldBefore
    <3>2. InRange(s, saved[s])
      <4>1. CASE s = "frequency" BY <4>1, RangeOf
      <4>2. CASE s # "frequency"
        <5>1. saved[s] # Junk BY <2>2, <2>5, <3>1, <4>2 DEF ValueOf, Settable, Junk
        <5> QED BY <2>5, <4>2, <5>1, RangeOf
      <4> QED BY <4>1, <4>2
    <3>3. Assign(s, saved[s], ok) /\ s \in Settings \ {"resolution"} BY <1>1, <1>3, <2>5
    <3>4. settings'[s] = saved[s] BY <1>6, <1>11, <2>5, <3>2, <3>3, AssignDoes
    <3> QED BY <2>2, <2>5, <3>1, <3>4 DEF Kept
  <2> QED BY <2>3, <2>4, <2>5
<1>12. Restoring'
  <2> SUFFICES ASSUME {"save", "restore"} \cap lost' = {}, NEW q \in SavedBy
               PROVE To("restore", q) \in Items(job)' \/ Kept(q)'
    BY <1>9 DEF Restoring
  <2>1. ok /\ "save" \notin lost /\ {"save", "restore"} \cap lost = {} BY <1>3
  <2>2. q \in Settings BY NamesAre DEF SavedBy
  <2>3. CASE q = s BY <2>1, <2>3, <1>11
  <2>4. CASE q # s
    <3>1. To("restore", q) \in Items(job) \/ Kept(q) BY <2>1 DEF CalInv, Restoring
    <3>2. settings'[q] = settings[q] /\ before' = before BY <1>3, <1>7, <2>2, <2>4
    <3>3. Kept(q) => Kept(q)' BY <3>2 DEF Kept
    <3> QED BY <1>3, <2>4, <3>1, <3>3
  <2> QED BY <2>3, <2>4
<1>13. GridSet'
  <2> SUFFICES ASSUME ~status'
               PROVE \/ To("restore", "resolution") \in Items(job)'
                     \/ grid' = Sent(host', settings'["resolution"])
    BY DEF GridSet
  <2>1. ~status /\ ok /\ lost = {} /\ host' = host BY <1>1, <1>3 DEF CalInv, JobShape
  <2>2. "resolution" \in SavedBy /\ "resolution" \in Settings
    BY <1>3, NamesAre DEF SavedBy, CalInv, CalTyped
  <2>3. CASE s = "resolution"
    <3>1. saved[s] = before[s] BY <1>10, <2>1, <2>2, <2>3 DEF CalInv, Saving, ToldBefore
    <3>2. before[s] \in {16, 64} BY <2>2, <2>3 DEF CalInv, CalTyped, ValueOf
    <3>3. settings'["resolution"] = saved[s] /\ grid' = Sent(host, saved[s])
      BY <1>1, <1>6, <2>1, <2>3, <3>1, <3>2, ResolveDoes
    <3> QED BY <2>1, <3>3
  <2>4. CASE s # "resolution"
    <3>1. Assign(s, saved[s], ok) /\ s \in Settings \ {"resolution"} BY <1>1, <1>3, <2>4
    <3>2. grid' = grid /\ settings'["resolution"] = settings["resolution"]
      BY <1>6, <1>7, <2>2, <3>1, AssignDoes
    <3>3. \/ To("restore", "resolution") \in Items(job)
          \/ grid = Sent(host, settings["resolution"])
      BY <1>3, <2>1 DEF CalInv, GridSet
    <3> QED BY <1>3, <2>1, <2>4, <3>2, <3>3
  <2> QED BY <2>3, <2>4
<1>14. Telling'
  <2> SUFFICES ASSUME call' = "get_caldata_xtalk", ~status' PROVE out' = host'
    BY <1>5 DEF Telling
  <2> QED BY <1>1, <1>3, <1>5 DEF CalInv, Telling
<1>15. Whole' BY <1>1, <1>3, <1>5 DEF CalInv, Whole
<1> QED BY <1>3, <1>4, <1>8, <1>12, <1>13, <1>14, <1>15 DEF CalInv

\* The switch to 8x8, for a measurement or a copy.
LEMMA FullCalInv == CalInv /\ Full => CalInv'
<1> SUFFICES ASSUME CalInv, Full PROVE CalInv' OBVIOUS
<1>1. PICK ok \in BOOLEAN :
       Step("full", ok) /\ Resolve(64, ok) /\ UNCHANGED <<measured, host, saved, out>>
  BY Zenon DEF Full
<1>2. "full" \in Ops /\ "full" \in Ops \ {"save"} /\ "full" \in Ops \ {"restore"} BY DEF Ops
<1>3. /\ UNCHANGED <<call, before, failed>> /\ (~status' => ~status /\ ok)
      /\ job' \in Seq(Steps) /\ status' \in BOOLEAN /\ JobShape'
  BY <1>1, <1>2, StepTakes
<1>4. Saving' BY <1>1, <1>2, SavingStays
<1>5. Restoring' /\ GridSet' BY <1>1, <1>2, NothingRestored
<1>6. /\ settings' = [q \in Settings |-> settings'[q]]
      /\ \A q \in Settings : settings'[q] \in ValueOf(q)
      /\ grid' \in Grids
      /\ ok => settings'["resolution"] = 64 /\ grid' = host
  <2>1. CalTyped /\ Sent(host, 64) = host BY SentIs DEF CalInv, CalTyped
  <2> QED BY <1>1, <2>1, ResolveDoes
<1>7. CalTyped' BY <1>1, <1>3, <1>6 DEF CalInv, CalTyped
<1>8. Has("full") BY <1>1, <1>2, StepHas, Zenon
<1>9. Has("copy") => Has("copy")'
  <2>1. Has("copy") /\ ~Has("copy")' => "copy" = "full" BY <1>1, <1>2, StepHas, Zenon
  <2> QED BY <2>1
<1>10. Telling' BY <1>1, <1>3, <1>6, <1>8, <1>9 DEF CalInv, Telling
<1>11. Whole' BY <1>1, <1>3, <1>6 DEF CalInv, Whole
<1> QED BY <1>3, <1>4, <1>5, <1>7, <1>10, <1>11 DEF CalInv

\* The steps of a calibration's measurement, and what the other functions do instead.
LEMMA OthersCalInv ==
  ASSUME CalInv, NEW op \in Ops \ {"save", "full", "restore"}, NEW ok \in BOOLEAN,
         Step(op, ok), UNCHANGED saved, CalTyped', Telling', Whole'
  PROVE CalInv'
<1>1. op \in Ops /\ op \in Ops \ {"save"} /\ op \in Ops \ {"restore"} OBVIOUS
<1>2. JobShape' BY <1>1, StepTakes
<1>3. Saving' BY <1>1, SavingStays
<1>4. Restoring' /\ GridSet' BY <1>1, NothingRestored
<1> QED BY <1>2, <1>3, <1>4 DEF CalInv

\* The configuration of a measurement.
LEMMA PrepareCalInv == CalInv /\ Prepare => CalInv'
<1> SUFFICES ASSUME CalInv, Prepare PROVE CalInv' OBVIOUS
<1>1. PICK ok \in BOOLEAN :
       Step("prepare", ok) /\ UNCHANGED <<settings, grid, measured, host, saved, out>>
  BY Zenon DEF Prepare, sensor
<1>2. "prepare" \in Ops /\ "prepare" \in Ops \ {"full", "copy"} BY DEF Ops
<1>3. CalTyped' BY <1>1, <1>2, StepTakes DEF CalInv, CalTyped
<1>4. Telling' /\ Whole' BY <1>1, <1>2, NothingMoved
<1>5. "prepare" \in Ops \ {"save", "full", "restore"} BY DEF Ops
<1> QED BY <1>1, <1>3, <1>4, <1>5, OthersCalInv

\* The start of a measurement.
LEMMA LaunchCalInv == CalInv /\ Launch => CalInv'
<1> SUFFICES ASSUME CalInv, Launch PROVE CalInv' OBVIOUS
<1>1. PICK ok \in BOOLEAN :
       /\ Step("launch", ok) /\ UNCHANGED <<settings, grid, host, saved, out>>
       /\ measured' \in {TRUE} \cup IF ok THEN {} ELSE {measured}
  BY Zenon DEF Launch
<1>2. "launch" \in Ops /\ "launch" \in Ops \ {"full", "copy"} BY DEF Ops
<1>3. measured' \in BOOLEAN BY <1>1 DEF CalInv, CalTyped
<1>4. CalTyped' BY <1>1, <1>2, <1>3, StepTakes DEF CalInv, CalTyped
<1>5. Telling' /\ Whole' BY <1>1, <1>2, NothingMoved
<1>6. "launch" \in Ops \ {"save", "full", "restore"} BY DEF Ops
<1> QED BY <1>1, <1>4, <1>5, <1>6, OthersCalInv

\* The end of a measurement, or the timeout.
LEMMA AwaitCalInv == CalInv /\ Await => CalInv'
<1> SUFFICES ASSUME CalInv, Await PROVE CalInv' OBVIOUS
<1>1. "await" \in Ops /\ "await" \in Ops \ {"save", "full", "restore"} BY DEF Ops
<1>2. "await" \in OpsOf /\ call' = call
  BY <1>1, StepTakes DEF Await
<1>3. call = "calibrate_xtalk" BY <1>2 DEF CalInv, CalTyped, OpsOf, Ops
<1>4. Telling' BY <1>2, <1>3 DEF Telling
<1>5. CASE /\ Step("await", TRUE) /\ UNCHANGED <<settings, measured, host, saved, out>>
           /\ grid' = IF measured THEN [of |-> "new", zones |-> settings["resolution"]] ELSE grid
  <2>1. settings["resolution"] \in {16, 64} BY NamesAre DEF CalInv, CalTyped, ValueOf
  <2>2. grid' \in Grids BY <1>5, <2>1 DEF CalInv, CalTyped, Grids
  <2>3. CalTyped' BY <1>1, <1>5, <2>2, StepTakes DEF CalInv, CalTyped
  <2>4. (Has("read")' => Has("read")) /\ (Has("full") /\ ~Has("full")' => "full" = "await")
    BY <1>1, <1>5, StepHas, Zenon
  <2>5. UNCHANGED <<call, failed>> /\ (~status' => ~status) BY <1>1, <1>5, StepTakes
  <2>6. Whole' BY <1>5, <2>4, <2>5 DEF CalInv, Whole, Junk
  <2> QED BY <1>1, <1>4, <1>5, <2>3, <2>6, OthersCalInv
<1>6. CASE /\ Step("await", FALSE) /\ UNCHANGED <<settings, grid, measured, saved, out>>
           /\ host' \in {host, [of |-> "default", zones |-> 64]}
  <2>1. host' \in Grids BY <1>6 DEF CalInv, CalTyped, Grids
  <2>2. CalTyped' BY <1>1, <1>6, <2>1, StepTakes DEF CalInv, CalTyped
  <2>3. status' BY <1>1, <1>6, StepTakes
  <2>4. Whole' BY <2>3 DEF Whole
  <2> QED BY <1>1, <1>4, <1>6, <2>2, <2>4, OthersCalInv
<1> QED BY <1>5, <1>6 DEF Await, sensor

\* The grid that is read back is of 8x8.
LEMMA ReadCalInv == CalInv /\ Read => CalInv'
<1> SUFFICES ASSUME CalInv, Read PROVE CalInv' OBVIOUS
<1>1. PICK ok \in BOOLEAN :
       /\ Step("read", ok) /\ UNCHANGED <<settings, grid, measured, saved, out>>
       /\ host' = IF ok THEN grid ELSE [grid EXCEPT !.of = Junk]
  BY Zenon DEF Read, sensor
<1>2. "read" \in Ops /\ "read" \in Ops \ {"save", "full", "restore"} BY DEF Ops
<1>3. "read" \in OpsOf /\ UNCHANGED <<call, failed>> /\ (~status' => ~status /\ ok)
  BY <1>1, <1>2, StepTakes
<1>4. call = "calibrate_xtalk" BY <1>3 DEF CalInv, CalTyped, OpsOf, Ops
<1>5. host' \in Grids BY <1>1 DEF CalInv, CalTyped, Grids, Junk
<1>6. CalTyped' BY <1>1, <1>2, <1>5, StepTakes DEF CalInv, CalTyped
<1>7. Telling' BY <1>3, <1>4 DEF Telling
<1>8. Has("read") /\ (Has("full") => Rank("read") <= Rank("full"))
  BY <1>1, <1>2, StepHas, Zenon
<1>9. Has("read") /\ ~Has("full") BY <1>8, RankOf
<1>10. Whole'
  <2> SUFFICES ASSUME ~failed', ~status'
               PROVE /\ host'.zones = 64 /\ host'.of # Junk
                     /\ settings'["resolution"] = 64 /\ grid'.zones = 64 /\ grid'.of # Junk
    BY DEF Whole
  <2> QED BY <1>1, <1>3, <1>4, <1>9 DEF CalInv, Whole
<1> QED BY <1>1, <1>2, <1>6, <1>7, <1>10, OthersCalInv

\* The grid that is copied to the caller is the host's.
LEMMA CopyCalInv == CalInv /\ Copy => CalInv'
<1> SUFFICES ASSUME CalInv, Copy PROVE CalInv' OBVIOUS
<1>1. PICK ok \in BOOLEAN :
       /\ Step("copy", ok) /\ UNCHANGED <<settings, grid, measured, host, saved>>
       /\ out' = IF ok THEN grid ELSE [grid EXCEPT !.of = Junk]
  BY Zenon DEF Copy, sensor
<1>2. "copy" \in Ops /\ "copy" \in Ops \ {"save", "full", "restore"} BY DEF Ops
<1>3. "copy" \in OpsOf /\ UNCHANGED <<call, failed>> /\ (~status' => ~status /\ ok)
  BY <1>1, <1>2, StepTakes
<1>4. call # "calibrate_xtalk" BY <1>3 DEF OpsOf
<1>5. out' \in Grids BY <1>1 DEF CalInv, CalTyped, Grids, Junk
<1>6. CalTyped' BY <1>1, <1>2, <1>5, StepTakes DEF CalInv, CalTyped
<1>7. /\ Has("copy") /\ (Has("full") => Rank("copy") <= Rank("full"))
      /\ (Has("full")' => Has("full"))
  BY <1>1, <1>2, StepHas, Zenon
<1>8. Has("copy") /\ ~Has("full") /\ ~Has("full")' BY <1>7, RankOf
<1>9. Telling' BY <1>1, <1>3, <1>8 DEF CalInv, Telling
<1>10. Whole' BY <1>1, <1>3, <1>4 DEF CalInv, Whole
<1> QED BY <1>1, <1>2, <1>6, <1>9, <1>10, OthersCalInv

\* The caller's grid is taken for the host's.
LEMMA TakeCalInv == CalInv /\ Take => CalInv'
<1> SUFFICES ASSUME CalInv, Take PROVE CalInv' OBVIOUS
<1>1. /\ Step("take", TRUE) /\ UNCHANGED <<settings, grid, measured, saved, out>>
      /\ host' = [of |-> "user", zones |-> 64]
  BY DEF Take, sensor
<1>2. "take" \in Ops /\ "take" \in Ops \ {"save", "full", "restore"} BY DEF Ops
<1>3. "take" \in OpsOf /\ UNCHANGED <<call, failed>> BY <1>1, <1>2, StepTakes
<1>4. call # "calibrate_xtalk" /\ call # "get_caldata_xtalk" BY <1>3 DEF OpsOf
<1>5. host' \in Grids BY <1>1 DEF Grids
<1>6. CalTyped' BY <1>1, <1>2, <1>5, StepTakes DEF CalInv, CalTyped
<1>7. Telling' BY <1>3, <1>4 DEF Telling
<1>8. Whole' BY <1>1, <1>3, <1>4 DEF Whole, Junk
<1> QED BY <1>1, <1>2, <1>6, <1>7, <1>8, OthersCalInv

\* The default configuration is loaded: all settings are still to be restored.
LEMMA LoadCalInv == CalInv /\ Load => CalInv'
<1> SUFFICES ASSUME CalInv, Load PROVE CalInv' OBVIOUS
<1> DEFINE to == [s \in Settings |-> IF s \in DOMAIN Defaults THEN Defaults[s] ELSE settings[s]]
<1>1. PICK ok \in BOOLEAN :
       /\ Step("defaults", ok) /\ measured' = FALSE /\ UNCHANGED <<grid, host, saved, out>>
       /\ settings' \in {to} \cup IF ok THEN {} ELSE {settings}
  BY Zenon DEF Load
<1>2. "defaults" \in Ops /\ "defaults" \in Ops \ {"save", "full", "restore"} BY DEF Ops
<1>3. "defaults" \in OpsOf /\ UNCHANGED <<call, failed>> /\ (~status' => ~status)
  BY <1>1, <1>2, StepTakes
<1>4. call = "calibrate_xtalk" BY <1>3 DEF CalInv, CalTyped, OpsOf, Ops
<1>5. to = [s \in Settings |-> to[s]] /\ \A s \in Settings : to[s] \in ValueOf(s)
  <2>1. \A s \in Settings : s \in DOMAIN Defaults <=> s # "enable" BY DEF Defaults
  <2> QED BY <2>1, DefaultsType DEF CalInv, CalTyped
<1> HIDE DEF to
<1>6. CalTyped' BY <1>1, <1>2, <1>5, StepTakes DEF CalInv, CalTyped
<1>7. Telling' BY <1>3, <1>4 DEF Telling
<1>8. (Has("read")' => Has("read")) /\ (Has("read") => Rank("defaults") <= Rank("read"))
  BY <1>1, <1>2, StepHas, Zenon
<1>9. ~Has("read")' BY <1>8, RankOf
<1>10. Whole' BY <1>1, <1>3, <1>9 DEF CalInv, Whole
<1> QED BY <1>1, <1>2, <1>6, <1>7, <1>10, OthersCalInv

\* The application's own calls, between those of the plugin.
LEMMA TuneCalInv == CalInv /\ Tune => CalInv'
<1> SUFFICES ASSUME CalInv, Tune PROVE CalInv' OBVIOUS
<1>1. /\ call = "none"
      /\ UNCHANGED <<measured, host, saved, out, call, job, status, lost, before, failed>>
  BY DEF Tune, history
<1>2. /\ settings' = [s \in Settings |-> settings'[s]]
      /\ \A s \in Settings : settings'[s] \in ValueOf(s)
      /\ grid' \in Grids
  <2>1. ASSUME NEW s \in Tuned \ {"resolution"}, NEW c \in Settable,
               settings' = [t \in Settings |-> IF t \in Fields(s) THEN c ELSE settings[t]],
               UNCHANGED grid
        PROVE /\ settings' = [t \in Settings |-> settings'[t]]
              /\ \A t \in Settings : settings'[t] \in ValueOf(t)
              /\ grid' \in Grids
    <3>1. \A t \in Fields(s) : t # "resolution" /\ t # "sharpener"
      BY CalibrationAssumption DEF Fields
    <3>2. \A t \in Fields(s) : c \in ValueOf(t) BY <3>1 DEF ValueOf
    <3>3. settings' = [t \in Settings |-> settings'[t]]
          /\ \A t \in Settings : settings'[t] = IF t \in Fields(s) THEN c ELSE settings[t]
      BY <2>1
    <3> QED BY <2>1, <3>2, <3>3 DEF CalInv, CalTyped
  <2>2. ASSUME NEW r \in {16, 64}, settings' = [settings EXCEPT !["resolution"] = r],
               grid' = Sent(host, r)
        PROVE /\ settings' = [t \in Settings |-> settings'[t]]
              /\ \A t \in Settings : settings'[t] \in ValueOf(t)
              /\ grid' \in Grids
    <3>1. grid' \in Grids BY <2>2, SentIs DEF CalInv, CalTyped
    <3>2. settings' = [t \in Settings |-> settings'[t]]
          /\ \A t \in Settings : settings'[t] = IF t = "resolution" THEN r ELSE settings[t]
      BY <2>2, NamesAre DEF CalInv, CalTyped
    <3> QED BY <3>1, <3>2 DEF CalInv, CalTyped, ValueOf
  <2> QED BY <2>1, <2>2 DEF Tune
<1>3. CalTyped' BY <1>1, <1>2 DEF CalInv, CalTyped
<1>4. Items(job) = {} /\ Items(job)' = Items(job) /\ SavedBy' = {}
  BY <1>1, EmptySeq DEF CalInv, JobShape, Items, SavedBy
<1>5. JobShape' BY <1>1, <1>4 DEF CalInv, JobShape, Ordered, OpsOf
<1>6. Saving' /\ Restoring' BY <1>4 DEF Saving, Restoring, Has
<1>7. GridSet' /\ Telling' BY <1>1 DEF GridSet, Telling
<1>8. Whole' BY <1>1 DEF CalInv, Whole
<1> QED BY <1>3, <1>5, <1>6, <1>7, <1>8 DEF CalInv

\* The end of a call.
LEMMA ReturnCalInv == CalInv /\ Return => CalInv'
<1> SUFFICES ASSUME CalInv, Return PROVE CalInv' OBVIOUS
<1>1. /\ job = <<>> /\ call' = "none" /\ status' = FALSE /\ lost' = {}
      /\ failed' = (failed \/ status) /\ saved' = Unsaved /\ before' = settings
      /\ UNCHANGED <<settings, grid, measured, host, out, job>>
  BY DEF Return, sensor
<1>2. \A s \in Settings : Unsaved[s] \in ToldOf(s) BY JunkType DEF Unsaved
<1>3. saved' = [s \in Settings |-> saved'[s]] BY <1>1 DEF Unsaved
<1>4. CalTyped' BY <1>1, <1>2, <1>3 DEF CalInv, CalTyped
<1>5. Items(job)' = {} /\ SavedBy' = {} /\ Ordered(job)'
  BY <1>1 DEF Items, SavedBy, Ordered
<1>6. JobShape' BY <1>1, <1>5 DEF JobShape
<1>7. Saving' /\ Restoring' BY <1>5 DEF Saving, Restoring, Has
<1>8. GridSet' /\ Telling' BY <1>1 DEF GridSet, Telling
<1>9. Whole' BY <1>1 DEF CalInv, CalTyped, Whole
<1> QED BY <1>4, <1>6, <1>7, <1>8, <1>9 DEF CalInv

\* calibrate_xtalk begins.
LEMMA CalibrateCalInv == CalInv /\ Calibrate => CalInv'
<1> SUFFICES ASSUME CalInv, Calibrate PROVE CalInv' OBVIOUS
<1>1. PICK valid \in BOOLEAN : Begin("calibrate_xtalk", CalibrateJob(valid), ~valid)
  BY Zenon DEF Calibrate
<1> DEFINE X == Whats("save") \cup (IF valid THEN Measuring ELSE {})
                 \cup Only("read") \cup Only("defaults") \cup Whats("restore")
<1>2. Program(CalibrateJob(valid), X) BY CalibrateProgram
<1>3. call' = "calibrate_xtalk" BY <1>1 DEF Begin
<1>4. \A x \in X : x.op \in {"save", "full", "prepare", "launch", "await", "read", "defaults",
                             "restore"}
  BY OpOf DEF Measuring
<1>5. \A x \in X : x.op \in OpsOf' BY <1>3, <1>4 DEF OpsOf, Ops
<1>6. \A s \in SavedBy' : To("save", s) \in X /\ To("restore", s) \in X
  BY <1>3 DEF SavedBy, Whats
<1>7. ~valid \/ To("full", "resolution") \in X BY DEF Measuring, Only
<1> HIDE DEF X
<1>8. (~valid) \in BOOLEAN OBVIOUS
<1> QED BY <1>1, <1>2, <1>5, <1>6, <1>7, <1>8, BeginCalInv

\* get_caldata_xtalk begins.
LEMMA GetCalInv == CalInv /\ GetCaldata => CalInv'
<1> SUFFICES ASSUME CalInv, GetCaldata PROVE CalInv' OBVIOUS
<1> DEFINE X == Only("save") \cup Only("full") \cup Only("copy") \cup Only("restore")
<1>1. Program(GetCaldataJob, X) BY GetProgram
<1>2. Begin("get_caldata_xtalk", GetCaldataJob, FALSE) BY DEF GetCaldata
<1>3. call' = "get_caldata_xtalk" BY <1>2 DEF Begin
<1>4. \A x \in X : x.op \in {"save", "full", "copy", "restore"} BY OpOf
<1>5. \A x \in X : x.op \in OpsOf' BY <1>3, <1>4 DEF OpsOf
<1>6. \A s \in SavedBy' : To("save", s) \in X /\ To("restore", s) \in X
  BY <1>3 DEF SavedBy, Only
<1>7. To("full", "resolution") \in X /\ To("copy", "resolution") \in X BY DEF Only
<1> HIDE DEF X
<1> QED BY <1>1, <1>2, <1>5, <1>6, <1>7, BeginCalInv

\* set_caldata_xtalk begins.
LEMMA SetCalInv == CalInv /\ SetCaldata => CalInv'
<1> SUFFICES ASSUME CalInv, SetCaldata PROVE CalInv' OBVIOUS
<1> DEFINE X == Only("save") \cup Only("take") \cup Only("restore")
<1>1. Program(SetCaldataJob, X) BY SetProgram
<1>2. Begin("set_caldata_xtalk", SetCaldataJob, FALSE) BY DEF SetCaldata
<1>3. call' = "set_caldata_xtalk" BY <1>2 DEF Begin
<1>4. \A x \in X : x.op \in {"save", "take", "restore"} BY OpOf
<1>5. \A x \in X : x.op \in OpsOf' BY <1>3, <1>4 DEF OpsOf
<1>6. \A s \in SavedBy' : To("save", s) \in X /\ To("restore", s) \in X
  BY <1>3 DEF SavedBy, Only
<1> HIDE DEF X
<1> QED BY <1>1, <1>2, <1>5, <1>6, BeginCalInv

\* Every step keeps the invariant.
LEMMA StepCalInv == CalInv /\ [Next]_vars => CalInv'
<1> SUFFICES ASSUME CalInv, [Next]_vars PROVE CalInv' OBVIOUS
<1>1. CASE UNCHANGED vars
  <2>1. UNCHANGED <<settings, grid, measured, host, saved, out, call, job, status, lost,
                    before, failed>>
    BY <1>1 DEF vars, sensor, history
  <2>2. CalTyped' BY <2>1 DEF CalInv, CalTyped
  <2>3. Items(job)' = Items(job) /\ SavedBy' = SavedBy /\ OpsOf' = OpsOf
    BY <2>1 DEF Items, SavedBy, OpsOf
  <2>4. JobShape' BY <2>1, <2>3 DEF CalInv, JobShape, Ordered
  <2>5. Saving' BY <2>1, <2>3 DEF CalInv, Saving, Has, ToldBefore
  <2>6. Restoring' BY <2>1, <2>3 DEF CalInv, Restoring, Kept
  <2>7. GridSet' /\ Telling' /\ Whole'
    BY <2>1, <2>3 DEF CalInv, GridSet, Telling, Whole, Has
  <2> QED BY <2>2, <2>4, <2>5, <2>6, <2>7 DEF CalInv
<1> QED BY <1>1, TuneCalInv, CalibrateCalInv, GetCalInv, SetCalInv, SaveCalInv, FullCalInv,
           PrepareCalInv, LaunchCalInv, AwaitCalInv, ReadCalInv, CopyCalInv, TakeCalInv,
           LoadCalInv, RestoreCalInv, ReturnCalInv DEF Next

\* The invariant of the calibration, for any faults and any settings the application
\* changes.
THEOREM CalibrationInvariant == SafeSpec => []CalInv
  BY InitCalInv, StepCalInv, PTL DEF SafeSpec

\* A call that is done has no step left.
LEMMA NoneLeft == job = <<>> => Items(job) = {}
  BY EmptySeq DEF Items

\* However a calibration ends, the settings it saves are those from before if they could
\* be read and written, but for a percent of the sharpener.
THEOREM SettingsKept == SafeSpec => []SavedKept
<1>1. CalInv => SavedKept
  <2> SUFFICES ASSUME CalInv, Done("calibrate_xtalk"), {"save", "restore"} \cap lost = {}
               PROVE /\ \A i \in 1 .. Len(Saved) :
                           Saved[i] # "sharpener" => settings[Saved[i]] = before[Saved[i]]
                     /\ ToPercent(before["sharpener"]) - ToPercent(settings["sharpener"])
                          \in {0, 1}
    BY DEF SavedKept
  <2>1. \A s \in AllSaved : Kept(s)
    BY NoneLeft DEF CalInv, Restoring, SavedBy, Done
  <2>2. \A i \in 1 .. Len(Saved) : Saved[i] \in AllSaved BY DEF AllSaved
  <2>3. "sharpener" \in AllSaved BY NamesAre
  <2> QED BY <2>1, <2>2, <2>3 DEF Kept
<1> QED BY <1>1, CalibrationInvariant, PTL

\* A function of the plugin that returns 0 leaves the sensor with the host's crosstalk
\* data, whatever earlier calls that failed have left behind.
THEOREM HostGridInUse == SafeSpec => []GridInUse
<1>1. CalInv => GridInUse
  BY NoneLeft DEF CalInv, GridSet, GridInUse, OK
<1> QED BY <1>1, CalibrationInvariant, PTL

\* get_caldata_xtalk that returns 0 has copied the host's data and not a reduced grid.
THEOREM CalibrationDataTold == SafeSpec => []CaldataTells
<1>1. CalInv => CaldataTells
  BY NoneLeft DEF CalInv, Telling, Has, CaldataTells, OK
<1> QED BY <1>1, CalibrationInvariant, PTL

\* As long as every call returned 0 the host's grid is of 8x8 between two calls.
THEOREM HostGridWhole == SafeSpec => []HostWhole
<1>1. CalInv => HostWhole
  BY DEF CalInv, JobShape, Whole, HostWhole
<1> QED BY <1>1, CalibrationInvariant, PTL
=============================================================================
