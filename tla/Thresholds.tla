----------------------------- MODULE Thresholds -----------------------------
(***************************************************************************)
(* The array of thresholds (vl53l8cx_plugin_detection_thresholds.c), which *)
(* the set function scales in place before it sends it and the get         *)
(* function scales back.  The 64 entries and the two limits of an entry    *)
(* are handled alike: one stands for all.                                  *)
(***************************************************************************)
EXTENDS Integers, FiniteSets

CONSTANTS Limits,  \* thresholds, in the units of the application (bound)
          Tries    \* calls that set thresholds and fail, in a row (bound)

\* No limit is so large that a 32-bit integer cannot hold it scaled.
ASSUME ThresholdsAssumption ==
  Tries \in Nat /\ Limits \subseteq Int /\ \A v \in Limits : v > -32768 /\ v < 32768

Measurements == {"distance", "signal", "sigma", "ambient", "targets", "status", "spads", "motion"}

\* A mutant: the factor of the signal for the sigma.
MultiplierOfSignal(m) ==
  CASE m = "distance" -> 4 [] m \in {"signal", "sigma", "ambient"} -> 2048 [] m = "spads" -> 256
    [] m = "motion" -> 65535 [] m \in {"targets", "status"} -> 1

\* The switch of set_detection_thresholds.
Multiplier(m) ==
  CASE m = "distance" -> 4 [] m \in {"signal", "ambient"} -> 2048 [] m = "sigma" -> 128
    [] m = "spads" -> 256 [] m = "motion" -> 65535 [] m \in {"targets", "status"} -> 1

\* The switch of get_detection_thresholds.
Divisor(m) ==
  CASE m = "distance" -> 4 [] m \in {"signal", "ambient"} -> 2048 [] m = "sigma" -> 128
    [] m = "spads" -> 256 [] m = "motion" -> 65535 [] m \in {"targets", "status"} -> 1

\* C rounds towards 0.
Scaled(e) == [e EXCEPT !.limit = @ * Multiplier(e.measurement)]
Unscaled(e) ==
  [e EXCEPT !.limit = IF @ >= 0 THEN @ \div Divisor(e.measurement)
                      ELSE -((-@) \div Divisor(e.measurement))]

VARIABLES
  array,     \* an entry of the application's array
  checkers,  \* the entry the sensor has
  meant,     \* does the array hold thresholds in the application's units?
  asked,     \* the thresholds of the last set that returned 0, and of those that
             \* failed after it  (history)
  answer     \* what returned last: "none", "set" or "get" with 0, or "error"

tvars == <<array, checkers, meant, asked, answer>>

Unset == [measurement |-> "targets", limit |-> 0]

TInit == /\ array = Unset /\ checkers = Unset /\ meant = TRUE
         /\ asked = {Unset} /\ answer = "none"

\* The application fills the array.
Fill ==
  /\ \E m \in Measurements, v \in Limits : array' = [measurement |-> m, limit |-> v]
  /\ meant' = TRUE /\ answer' = "none"
  /\ UNCHANGED <<checkers, asked>>

\* The array keeps the scaled limits.  If it fails, the thresholds may be set.
SetThresholds ==
  /\ meant
  /\ array' = Scaled(array) /\ meant' = FALSE
  /\ \/ answer' = "set" /\ checkers' = array' /\ asked' = {array}
     \/ answer' = "error" /\ checkers' \in {checkers, array'} /\ asked' = asked \cup {array}
        /\ Cardinality(asked) <= Tries

\* If it fails, the array holds whatever it does.
GetThresholds ==
  \/ /\ array' = Unscaled(checkers)
     /\ meant' = TRUE /\ answer' = "get"
     /\ UNCHANGED <<checkers, asked>>
  \/ /\ array' \in {array, Unset}
     /\ meant' = FALSE /\ answer' = "error"
     /\ UNCHANGED <<checkers, asked>>

TNext == Fill \/ SetThresholds \/ GetThresholds

TSpec == TInit /\ [][TNext]_tvars

-----------------------------------------------------------------------------
(* Properties.                                                             *)

\* As long as the application sets only arrays that it filled or got, it gets what it
\* set, in its own units and in the same measurement: the two switches agree, the
\* array that a get returned 0 for can be set again, and a set that failed has
\* left the thresholds from before or those it was to set.
ThresholdsTold == answer = "get" => array \in asked
=============================================================================
