------------------------------ MODULE Address ------------------------------
(***************************************************************************)
(* vl53l8cx_set_i2c_address, on a bus with more than one sensor: all have  *)
(* the same address when they are switched on, and the application gives   *)
(* each one its own, while the others that may have the same are held by   *)
(* their LPn pins.  The host has a platform.address for each sensor.       *)
(***************************************************************************)
EXTENDS Naturals

CONSTANTS Sensors, Addresses,  \* the addresses
          Default              \* VL53L8CX_DEFAULT_I2C_ADDRESS

ASSUME AddressAssumption == Default \in Addresses

VARIABLES
  addressOf,  \* of the sensors
  page,       \* of the sensors: 0 or 2
  lpn,        \* the sensors that take part in the bus
  platform,   \* platform.address of each sensor
  busy,       \* the call: its sensor, its address and the transfers done
  refused,    \* did a transfer of the call fail?
  unsure      \* sensors whose call returned an error  (history)

avars == <<addressOf, page, lpn, platform, busy, refused, unsure>>

Idle == [n |-> 0]

AInit == /\ addressOf = [s \in Sensors |-> Default] /\ page = [s \in Sensors |-> 2]
         /\ lpn = {} /\ platform = [s \in Sensors |-> Default]
         /\ busy = Idle /\ refused = FALSE /\ unsure = {}

\* Who hears a message of the host to s.
Listening(s) == {t \in lpn : addressOf[t] = platform[s]}

\* The application lets a sensor on the bus if none is there that has, for all it
\* knows, the same address; and off it, which it does with one whose call failed
\* before it goes on.
Raise ==
  /\ busy.n = 0 /\ lpn \cap unsure = {}
  /\ \E s \in Sensors \ (lpn \cup unsure) :
       /\ \A t \in lpn : platform[t] # platform[s]
       /\ lpn' = lpn \cup {s}
  /\ UNCHANGED <<addressOf, page, platform, busy, refused, unsure>>

Lower ==
  /\ busy.n = 0
  /\ \E s \in lpn : lpn' = lpn \ {s}
  /\ UNCHANGED <<addressOf, page, platform, busy, refused, unsure>>

\* A sensor that is lost is switched off and on, and both start again.
Restart ==
  /\ busy.n = 0
  /\ \E s \in unsure \ lpn :
       /\ addressOf' = [addressOf EXCEPT ![s] = Default]
       /\ platform' = [platform EXCEPT ![s] = Default]
       /\ page' = [page EXCEPT ![s] = 2]
       /\ unsure' = unsure \ {s}
  /\ UNCHANGED <<lpn, busy, refused>>

\* set_i2c_address, with an address that is not that of another sensor; is_alive is
\* called with the address that the sensor has.
CallAddress ==
  /\ busy.n = 0 /\ lpn \cap unsure = {}
  /\ \E s \in lpn, a \in Addresses :
       /\ \A t \in Sensors \ {s} : a = platform[t] => a = Default /\ t \notin lpn
       /\ busy' = [n |-> 1, of |-> s, to |-> a, alive |-> a = platform[s]]
  /\ refused' = FALSE
  /\ UNCHANGED <<addressOf, page, lpn, platform, unsure>>

\* A byte that is written arrives at S: those who listen, or nobody.  The bus may
\* report an error all the same, and does if nobody listens.
Written(S) ==
  /\ S \in {{}, Listening(busy.of)}
  /\ \E ok \in BOOLEAN : /\ ok => S = Listening(busy.of) /\ S # {}
                        /\ refused' = (refused \/ ~ok)

\* Register 0x7fff of those in S.
SetPage(S, p) ==
  /\ page' = [s \in Sensors |-> IF s \in S THEN p ELSE page[s]]
  /\ UNCHANGED addressOf

\* Register 4, which is the address in page 0.
SetAddress(S) ==
  /\ addressOf' = [s \in Sensors |-> IF s \in S /\ page[s] = 0 THEN busy.to ELSE addressOf[s]]
  /\ UNCHANGED page

FirstPage ==
  /\ busy.n = 1 /\ busy' = [busy EXCEPT !.n = 2]
  /\ \E S \in SUBSET Sensors : Written(S) /\ SetPage(S, 0)
  /\ UNCHANGED <<lpn, platform, unsure>>

\* The address is written at the old one, and the host goes on with the new one
\* whatever comes of it; or the two ids are read.
SecondByte ==
  /\ busy.n = 2 /\ busy' = [busy EXCEPT !.n = 3]
  /\ \E S \in SUBSET Sensors :
       /\ Written(S)
       /\ IF busy.alive THEN UNCHANGED <<addressOf, page>> ELSE SetAddress(S)
  /\ platform' = [platform EXCEPT ![busy.of] = busy.to]
  /\ UNCHANGED <<lpn, unsure>>

\* A mutant: the page is not switched back.
PageLeft == 0

PageAfter == 2

LastPage ==
  /\ busy.n = 3 /\ busy' = Idle
  /\ \E S \in SUBSET Sensors : Written(S) /\ SetPage(S, PageAfter)
  /\ unsure' = IF refused' THEN unsure \cup {busy.of} ELSE unsure
  /\ UNCHANGED <<lpn, platform>>

ANext == Raise \/ Lower \/ Restart \/ CallAddress \/ FirstPage \/ SecondByte \/ LastPage

ASpec == AInit /\ [][ANext]_avars

-----------------------------------------------------------------------------
(* Properties.                                                             *)

\* Between two calls every sensor on the bus whose calls all returned 0 answers at the
\* host's address for it, in the page that the other functions need, and nobody
\* else answers there, whatever happened to the others.
AnswersAlone ==
  busy.n = 0 => \A s \in lpn \ unsure : Listening(s) = {s} /\ page[s] = 2
=============================================================================
