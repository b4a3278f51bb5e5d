------------------------------- MODULE Zones -------------------------------
(***************************************************************************)
(* How the zones of the two resolutions lie: 64 zones in rows of eight, or *)
(* 16 in rows of four.                                                     *)
(***************************************************************************)
EXTENDS Integers

\* VL53L8CX_RESOLUTION_4X4 and VL53L8CX_RESOLUTION_8X8.
Resolutions == {16, 64}
AllZones == 0 .. 63
Cells == 0 .. 15

\* The first of the four zones of 8x8 that a cell of 4x4 covers, in the loops of
\* _vl53l8cx_send_offset_data and _vl53l8cx_send_xtalk_data.
Corner(c) == 2 * (c % 4) + 16 * (c \div 4)

\* map_id of vl53l8cx_motion_indicator_set_resolution: the aggregate of each zone,
\* -1 for a zone that does not exist.
MapId(r) ==
  [z \in AllZones |-> CASE r = 64 -> (z % 8) \div 2 + 4 * (z \div 16)
                        [] r = 16 /\ z < 16 -> z
                        [] OTHER -> -1]
=============================================================================
