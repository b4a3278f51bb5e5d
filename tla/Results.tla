------------------------------ MODULE Results ------------------------------
(***************************************************************************)
(* The layout of a results packet: start_ranging programs the list of      *)
(* outputs and works out how many bytes to read; the sensor makes a packet *)
(* of a header, the blocks of the list that are enabled and a footer; and  *)
(* get_ranging_data walks over it, copies the blocks that it knows to the  *)
(* application's struct and converts the copied values.                    *)
(*                                                                         *)
(* Which outputs are enabled and how many targets a zone has is fixed when *)
(* the program is built; the resolution is the sensor's.                   *)
(***************************************************************************)
EXTENDS Zones

CONSTANTS Targets,  \* values of VL53L8CX_NB_TARGET_PER_ZONE
          Packets   \* packets of a session (bound)

ASSUME ResultsAssumption == Targets \subseteq 1 .. 4 /\ Packets \in Nat

\* The block headers of VL53L8CX_START_BH and so on.
Block(name, type, size, idx) == [name |-> name, type |-> type, size |-> size, idx |-> idx]

\* The array output[] of start_ranging.
Table(nt) ==
  LET at(one, more) == IF nt = 1 THEN one ELSE more
  IN <<Block("start", 13, 0, 0), Block("meta", 0, 12, 21684), Block("common", 0, 4, 21696),
       Block("ambient", 4, 16, 21712), Block("spads", 4, 64, 21968),
       Block("targets", 1, 64, at(56196, 22480)), Block("signal", 4, 64, at(56260, 22672)),
       Block("sigma", 2, 64, at(57028, 25744)), Block("distance", 2, 64, at(57156, 26256)),
       Block("reflectance", 1, 64, at(57412, 27280)), Block("status", 1, 64, at(57476, 27536)),
       Block("motion", 0, 140, at(55384, 52304))>>

Entries == 1 .. 12

OutputNames == {"ambient", "spads", "targets", "signal", "sigma", "distance", "reflectance",
                "status", "motion"}
PerZone == {"ambient", "spads", "targets"}

\* How the values of an output are converted (VL53L8CX_USE_RAW_FORMAT is not set).
Converted == {"ambient", "signal", "sigma", "distance", "reflectance", "motion"}

VARIABLES
  build,    \* the outputs that are enabled and the targets of a zone
  zones,    \* the resolution
  list,     \* the entries of the table that are enabled, as they are programmed
  data_read_size,
  packet,   \* entry -> where the sensor puts its block
  walk,     \* where get_ranging_data is in the packet
  copied,   \* output or meta data -> bytes copied from this packet, or Nothing
  divided,  \* output -> conversions of the values that the struct holds
  packets,  \* packets of this session
  phase     \* "rest", "started", "walk", "done"

setup == <<build, zones, list, data_read_size>>
rvars == <<setup, packet, walk, copied, divided, packets, phase>>

Nothing == -1
NothingCopied == [o \in OutputNames \cup {"meta"} |-> Nothing]
NoBuild == [outputs |-> {}, nt |-> 1]

RInit == /\ build = NoBuild /\ zones = 16 /\ list = <<>> /\ data_read_size = 0
         /\ packet = <<>> /\ walk = 0 /\ copied = NothingCopied
         /\ divided = [o \in OutputNames |-> 0] /\ packets = 0 /\ phase = "rest"

\* The sum of a value of each entry.
Total(f) == f[1] + f[2] + f[3] + f[4] + f[5] + f[6] + f[7] + f[8] + f[9] + f[10] + f[11] + f[12]

-----------------------------------------------------------------------------
(* start_ranging.                                                          *)

\* A mutant: every block has a value for each target.
SizedByTargets(b, r, nt) ==
  IF b.type \notin 1 .. 12 THEN b ELSE [b EXCEPT !.size = r * nt]

\* The number of values, for a block of values: those of a zone are at
\* 0x54d0 .. 0x54d0 + 959, or have one target.
Sized(b, r, nt) ==
  IF b.type \notin 1 .. 12 THEN b
  ELSE [b EXCEPT !.size = IF b.idx >= 21712 /\ b.idx < 21712 + 960 THEN r ELSE r * nt]

\* Bytes of a block behind its header (msize).
Msize(b) == IF b.type \in 1 .. 12 THEN b.type * b.size ELSE b.size

\* The bytes that the blocks of a list take before the n-th entry, with their headers.
Before(l, n) ==
  Total([k \in Entries |-> IF k \in DOMAIN l /\ k < n THEN Msize(l[k]) + 4 ELSE 0])

\* A mutant: the header of a block is not counted.
ReadSizeBare(l) ==
  Total([k \in Entries |-> IF k \in DOMAIN l THEN Msize(l[k]) ELSE 0]) + 32

ReadSize(l) == Before(l, 13) + 32

\* The entries whose bit is set in output_bh_enable: the first three are always.
Enabled(outs, nt) == {k \in Entries : k <= 3 \/ Table(nt)[k].name \in outs}

StartResults ==
  /\ phase = "rest"
  /\ \E outs \in SUBSET OutputNames, nt \in Targets, r \in Resolutions :
       /\ build' = [outputs |-> outs, nt |-> nt]
       /\ zones' = r
       /\ list' = [k \in Enabled(outs, nt) |-> Sized(Table(nt)[k], r, nt)]
  /\ data_read_size' = ReadSize(list')
  /\ phase' = "started"
  /\ UNCHANGED <<packet, walk, copied, divided, packets>>

-----------------------------------------------------------------------------
(* The sensor (external), and get_ranging_data.                            *)

\* 12 bytes of the packet's own, then every block behind its header - of the first,
\* the start, nothing is behind it - and a footer of 20 bytes that names no block.
Measured ==
  /\ phase \in {"started", "done"} /\ packets < Packets
  /\ packet' = [k \in DOMAIN list |-> 12 + Before(list, k)]
  /\ walk' = 16 /\ copied' = NothingCopied
  /\ packets' = packets + 1 /\ phase' = "walk"
  /\ UNCHANGED <<setup, divided>>

\* The block whose header is at walk.
Here == {k \in DOMAIN packet : packet[k] = walk}

Known == build.outputs \cup {"meta"}

\* A turn of the loop that finds a block's header; another block than those that are
\* compiled in is passed over.
WalkBlock ==
  /\ phase = "walk" /\ walk < data_read_size
  /\ \E k \in Here :
       LET b == list[k]
       IN /\ copied' = IF b.name \notin Known THEN copied
                       ELSE [copied EXCEPT ![b.name] = IF b.name = "meta" THEN 1 ELSE Msize(b)]
          /\ divided' = IF b.name \in build.outputs THEN [divided EXCEPT ![b.name] = 0] ELSE divided
          /\ walk' = walk + Msize(b) + 4
  /\ UNCHANGED <<setup, packet, packets, phase>>

\* A turn that finds none: in the footer.
WalkOn ==
  /\ phase = "walk" /\ walk < data_read_size /\ Here = {}
  /\ walk' = walk + 4
  /\ UNCHANGED <<setup, packet, copied, divided, packets, phase>>

\* All values of the struct are converted, those that were copied and others.
WalkEnd ==
  /\ phase = "walk" /\ walk >= data_read_size
  /\ divided' = [o \in OutputNames |->
                    IF o \in Converted \cap build.outputs THEN divided[o] + 1 ELSE divided[o]]
  /\ phase' = "done"
  /\ UNCHANGED <<setup, packet, walk, copied, packets>>

ResultsRest ==
  /\ phase = "done"
  /\ build' = NoBuild /\ zones' = 16 /\ list' = <<>> /\ data_read_size' = 0
  /\ packet' = <<>> /\ walk' = 0 /\ copied' = NothingCopied
  /\ divided' = [o \in OutputNames |-> 0] /\ packets' = 0 /\ phase' = "rest"

RNext == StartResults \/ Measured \/ WalkBlock \/ WalkOn \/ WalkEnd \/ ResultsRest

RSpec == RInit /\ [][RNext]_rvars

-----------------------------------------------------------------------------
(* Properties.                                                             *)

\* The bytes of a value in VL53L8CX_ResultsData.
Width(o) == CASE o \in {"ambient", "spads", "signal"} -> 4 [] o \in {"sigma", "distance"} -> 2
              [] o \in {"targets", "reflectance", "status"} -> 1

\* L5CX_AMB_SIZE and so on: the array of an output in the struct, and a header.
FullSize(o, nt) == CASE o \in PerZone -> 64 * Width(o) + 4 [] o = "motion" -> 144
                     [] OTHER -> 64 * nt * Width(o) + 4

\* VL53L8CX_MAX_RESULTS_SIZE and VL53L8CX_TEMPORARY_BUFFER_SIZE
MaxResultsSize ==
  LET size(o) == IF o \in build.outputs THEN FullSize(o, build.nt) ELSE 0
  IN 40 + size("ambient") + size("spads") + size("targets") + size("signal") + size("sigma")
     + size("distance") + size("reflectance") + size("status") + size("motion") + 20

TemporaryBufferSize == IF MaxResultsSize < 1024 THEN 1024 ELSE MaxResultsSize

\* Whatever outputs are compiled in and however many targets: the number of bytes that
\* start_ranging works out from the list of outputs is at most the size that the
\* header file gives temp_buffer, which get_ranging_data fills with them.
PacketFits == phase # "rest" => data_read_size <= TemporaryBufferSize

\* The walk over a packet, of which the lengths come from the list that start_ranging
\* programmed, finds every output that is compiled in, copies it whole and converts
\* what it copied once, in every packet; and it leaves the footer where the ids
\* are compared.
PacketMapped ==
  phase = "done" =>
    /\ \A o \in DOMAIN copied : copied[o] # Nothing <=> o \in Known
    /\ \A o \in build.outputs :
         /\ copied[o] = IF o = "motion" THEN 140
                        ELSE zones * Width(o) * (IF o \in PerZone THEN 1 ELSE build.nt)
         /\ copied[o] <= FullSize(o, build.nt) - 4
         /\ o \in Converted => divided[o] = 1
    /\ \E k \in DOMAIN packet :
         /\ \A m \in DOMAIN packet : m <= k
         /\ packet[k] + 4 + Msize(list[k]) = data_read_size - 20
=============================================================================
