----------------------------- MODULE MCTransfer -----------------------------
\* An instance of Transfer: two sensors, requests of none, one and two chunks,
\* payloads whose chunks differ.
EXTENDS Transfer, TLC

CONSTANTS u, v

Call(d, w, r, k, x, y) ==
  [device |-> d, write |-> w, reg |-> r, n |-> k, data |-> (0 :> x @@ 1 :> y)]

MCRequests ==
  UNION {{Call(d, TRUE, 0, 2, u, v), Call(d, TRUE, 1, 1, u, u),
          Call(d, FALSE, 0, 2, u, u), Call(d, FALSE, 1, 1, v, v),
          Call(d, TRUE, 0, 0, v, u)} : d \in Devices}
=============================================================================
