------------------------------ MODULE MCParts ------------------------------
(***************************************************************************)
(* One run for the parts of the system that work by themselves: a plugin,  *)
(* an algorithm of the driver or of its platform layer, the change of the  *)
(* I2C address, the life of the kernel module.  An initial state chooses   *)
(* the part that runs; the others stay as they begin.                      *)
(***************************************************************************)
EXTENDS Calibration, ZoneGrid, Chunks, Results, Thresholds, Motion, Address, Lifecycle

\* Thresholds of both signs.
ThresholdLimits == {-7, 1999}

VARIABLE part

PInit ==
  /\ Init /\ GInit /\ CInit /\ RInit /\ TInit /\ MInit /\ AInit /\ LInit
  /\ part \in {"calibration", "grid", "chunks", "results", "thresholds", "motion",
               "address", "lifecycle"}

Calibrates ==
  /\ part = "calibration" /\ Next
  /\ UNCHANGED <<gvars, cvars, rvars, tvars, mvars, avars, lvars, part>>

Reduces ==
  /\ part = "grid" /\ GNext
  /\ UNCHANGED <<vars, cvars, rvars, tvars, mvars, avars, lvars, part>>

Chops ==
  /\ part = "chunks" /\ CNext
  /\ UNCHANGED <<vars, gvars, rvars, tvars, mvars, avars, lvars, part>>

Walks ==
  /\ part = "results" /\ RNext
  /\ UNCHANGED <<vars, gvars, cvars, tvars, mvars, avars, lvars, part>>

Scales ==
  /\ part = "thresholds" /\ TNext
  /\ UNCHANGED <<vars, gvars, cvars, rvars, mvars, avars, lvars, part>>

Detects ==
  /\ part = "motion" /\ MNext
  /\ UNCHANGED <<vars, gvars, cvars, rvars, tvars, avars, lvars, part>>

Readdresses ==
  /\ part = "address" /\ ANext
  /\ UNCHANGED <<vars, gvars, cvars, rvars, tvars, mvars, lvars, part>>

Lives ==
  /\ part = "lifecycle" /\ LNext
  /\ UNCHANGED <<vars, gvars, cvars, rvars, tvars, mvars, avars, part>>

PNext == \/ Calibrates \/ Reduces \/ Chops \/ Walks \/ Scales \/ Detects
         \/ Readdresses \/ Lives

PSpec == PInit /\ [][PNext]_<<vars, gvars, cvars, rvars, tvars, mvars, avars, lvars, part>>
=============================================================================
