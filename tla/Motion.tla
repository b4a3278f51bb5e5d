------------------------------- MODULE Motion -------------------------------
(***************************************************************************)
(* The motion indicator (vl53l8cx_plugin_motion_indicator.c): a struct of  *)
(* the application that the three functions change and then send whole.    *)
(* The distances are kept as they were given; the two numbers that the     *)
(* sensor computes with stand for them.                                    *)
(***************************************************************************)
EXTENDS Zones

CONSTANT Distances  \* mm, arguments of set_distance_motion (bound)

ASSUME MotionAssumption == Distances \subseteq 0 .. 65535

VARIABLES
  config,    \* VL53L8CX_Motion_Configuration of the application: map_id, distances
  detector,  \* what the sensor has of it
  wish,      \* resolution and distances of the last calls that returned 0  (history)
  trouble,   \* did a transfer fail since the last init?  (history)
  reply      \* what returned last: "none", "ok" or "error"

mvars == <<config, detector, wish, trouble, reply>>

NoMap == [z \in AllZones |-> 0]
ByDefault == <<400, 1500>>

MInit ==
  /\ config = [map |-> NoMap, mm |-> <<0, 0>>] /\ detector = config
  /\ wish = [res |-> 0, mm |-> <<0, 0>>] /\ trouble = TRUE /\ reply = "none"

\* The struct is sent, or it is not known whether it was.
SendConfig ==
  \/ detector' = config' /\ reply' = "ok"
  \/ detector' \in {detector, config'} /\ reply' = "error"

\* A mutant: the zones that 4x4 has not keep their aggregate.
MapKept(r) == IF r = 16 THEN [z \in AllZones |-> IF z < 16 THEN z ELSE config.map[z]] ELSE MapId(r)

NewMap(r) == MapId(r)

\* motion_indicator_set_resolution: another resolution is refused.
SetMotionResolution ==
  \E r \in Resolutions :
    /\ config' = [config EXCEPT !.map = NewMap(r)]
    /\ SendConfig
    /\ wish' = IF reply' = "ok" THEN [wish EXCEPT !.res = r] ELSE wish
    /\ trouble' = (trouble \/ reply' = "error")

\* motion_indicator_init: clears the struct, which a resolution that is refused
\* leaves without a map.
InitMotion ==
  \E r \in Resolutions \cup {0} :
    /\ config' = [map |-> IF r = 0 THEN NoMap ELSE NewMap(r), mm |-> ByDefault]
    /\ IF r = 0 THEN reply' = "error" /\ UNCHANGED detector ELSE SendConfig
    /\ wish' = IF reply' = "ok" THEN [res |-> r, mm |-> ByDefault] ELSE wish
    /\ trouble' = (reply' = "error")

\* The check of the distances; a difference below 0 passes it.
Accepted(lo, hi) == hi - lo <= 3500 /\ lo >= 400 /\ hi <= 4000

\* motion_indicator_set_distance_motion
SetDistance ==
  \E lo, hi \in Distances :
    IF Accepted(lo, hi)
    THEN /\ config' = [config EXCEPT !.mm = <<lo, hi>>]
         /\ SendConfig
         /\ wish' = IF reply' = "ok" THEN [wish EXCEPT !.mm = <<lo, hi>>] ELSE wish
         /\ trouble' = (trouble \/ reply' = "error")
    ELSE reply' = "error" /\ UNCHANGED <<config, detector, wish, trouble>>

MNext == InitMotion \/ SetMotionResolution \/ SetDistance

MSpec == MInit /\ [][MNext]_mvars

-----------------------------------------------------------------------------
(* Properties.                                                             *)

\* After an init that returned 0 and as long as no transfer failed, the sensor looks
\* for motion between the distances of the last call that set some, refused calls left
\* aside, in the zones of the last resolution: each belongs to one of 16 aggregates,
\* four zones of 8x8 or one of 4x4 to each, and no other zone to any.
MotionAsSet ==
  ~trouble =>
    /\ detector.mm = wish.mm
    /\ \A a \in Cells :
         {z \in AllZones : detector.map[z] = a} =
           IF wish.res = 16 THEN {a} ELSE {Corner(a) + d : d \in {0, 1, 8, 9}}
    /\ \A z \in AllZones : detector.map[z] \in Cells <=> z < wish.res
=============================================================================
