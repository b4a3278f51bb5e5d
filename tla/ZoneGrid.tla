------------------------------ MODULE ZoneGrid ------------------------------
(***************************************************************************)
(* The grids that _vl53l8cx_send_offset_data and _vl53l8cx_send_xtalk_data *)
(* send to the sensor.  The host keeps them in 8x8; for 4x4 they are       *)
(* reduced in place, cell by cell, and the cells left over are cleared.    *)
(* The headers around the grids and the order of their bytes are left out. *)
(***************************************************************************)
EXTENDS Zones

CONSTANTS Word,    \* values of a signal cell: 2^32, of which a sum wraps
          Samples  \* the contents of the zones of a grid, or their negatives (bound)

\* The cells are small against their type: the sum of four does not wrap.
ASSUME GridAssumption ==
  Word \in Nat /\ Samples \subseteq Nat /\ \A v \in Samples : 4 * v < Word

VARIABLES cells,   \* signal_grid or range_grid, and what is sent
          whole,   \* the grid that the host keeps
          kind,    \* uint32_t "signal" or int16_t "range"
          res,     \* the resolution
          step     \* turns of the loops so far: 16 to clear, 17 to send it; 18: no call

gvars == <<cells, whole, kind, res, step>>

NoGrid == [z \in AllZones |-> 0]

GInit == /\ cells = NoGrid /\ whole = NoGrid
         /\ kind = "signal" /\ res = 64 /\ step = 18

\* C rounds towards 0.
Quarter(sum) == IF sum >= 0 THEN sum \div 4 ELSE -((-sum) \div 4)

\* The sum of four uint32_t wraps; that of four int16_t is an int.
Sum(k, a, b, c, d) == IF k = "signal" THEN (a + b + c + d) % Word ELSE a + b + c + d

\* A mutant: the outer loop is that of the columns.
CellByColumns(n) == 4 * (n % 4) + n \div 4

\* The cell of a turn: j is the row, of the outer loop, and i the column.
Cell(n) == n

SendGrid ==
  /\ step = 18
  /\ \E k \in {"signal", "range"}, r \in Resolutions, b, h \in Samples, at \in AllZones :
       /\ whole' = [z \in AllZones |-> IF z # at THEN b ELSE IF k = "range" THEN -h ELSE h]
       /\ kind' = k /\ res' = r
       /\ step' = IF r = 16 THEN 0 ELSE 17
  /\ cells' = whole'

ReduceCell ==
  /\ step < 16
  /\ LET c == Cell(step)
         o == Corner(c)
     IN cells' = [cells EXCEPT ![c] =
                   Quarter(Sum(kind, cells[o], cells[o + 1], cells[o + 8], cells[o + 9]))]
  /\ step' = step + 1
  /\ UNCHANGED <<whole, kind, res>>

ClearRest ==
  /\ step = 16
  /\ cells' = [z \in AllZones |-> IF z \in Cells THEN cells[z] ELSE 0]
  /\ step' = 17
  /\ UNCHANGED <<whole, kind, res>>

\* Nothing of the grids stays: they are on the stack and in temp_buffer.
GridSent ==
  /\ step = 17
  /\ cells' = NoGrid /\ whole' = NoGrid /\ kind' = "signal" /\ res' = 64 /\ step' = 18

GNext == SendGrid \/ ReduceCell \/ ClearRest \/ GridSent

GSpec == GInit /\ [][GNext]_gvars

\* A grid sent for 4x4 has in each cell the average, over the whole grid, of the four
\* zones that the motion indicator's map sends to that cell, and nothing else;
\* although it is made in place no sum reads a cell that was replaced.
GridReduced ==
  step = 17 =>
    IF res = 64 THEN cells = whole
    ELSE \A c \in AllZones :
           IF c \in Cells
           THEN \E o \in AllZones :
                  /\ {z \in AllZones : MapId(64)[z] = c} = {o, o + 1, o + 8, o + 9}
                  /\ cells[c] = Quarter(whole[o] + whole[o + 1] + whole[o + 8] + whole[o + 9])
           ELSE cells[c] = 0
=============================================================================
