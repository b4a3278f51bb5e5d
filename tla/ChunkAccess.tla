---------------------------- MODULE ChunkAccess ----------------------------
(***************************************************************************)
(* What a TRANSFER ioctl promises its caller: the request is cut in chunks *)
(* and every chunk goes between the caller's memory and the device in one  *)
(* step, in order.  No intermediate buffer exists here, so nothing of one  *)
(* request can show in another.  A failing chunk ends the request with an  *)
(* error, except that the bus may lose a written chunk without a word.     *)
(***************************************************************************)
EXTENDS Naturals

CONSTANTS Clients, Devices, Requests, NoRequest, Regs, Values, Serialised

VARIABLES dev,   \* the registers of each device, one entry per chunk
          req,   \* each client's request, NoRequest outside a call
          mem,   \* each client's memory: chunk number -> value
          done,  \* chunks transferred so far
          st     \* "out", "busy" or "failed"

vars == <<dev, req, mem, done, st>>

Init == /\ dev \in [Devices -> [Regs -> Values]]
        /\ req = [c \in Clients |-> NoRequest]
        /\ mem = [c \in Clients |-> NoRequest.data]
        /\ done = [c \in Clients |-> 0]
        /\ st = [c \in Clients |-> "out"]

Dev(c) == req[c].device

Free(d) == \A c \in Clients : st[c] # "out" => Dev(c) # d

Begin(c) == /\ st[c] = "out"
            /\ \E r \in Requests : /\ Serialised => Free(r.device)
                                   /\ req' = [req EXCEPT ![c] = r]
                                   /\ mem' = [mem EXCEPT ![c] = r.data]
            /\ st' = [st EXCEPT ![c] = "busy"]
            /\ UNCHANGED <<dev, done>>

More(c) == st[c] = "busy" /\ done[c] < req[c].n

ReadChunk(c) ==
  /\ More(c) /\ ~req[c].write
  /\ mem' = [mem EXCEPT ![c][done[c]] = dev[Dev(c)][req[c].reg + done[c]]]
  /\ done' = [done EXCEPT ![c] = @ + 1]
  /\ UNCHANGED <<dev, req, st>>

WriteChunk(c) ==
  /\ More(c) /\ req[c].write
  /\ dev' = [dev EXCEPT ![Dev(c)][req[c].reg + done[c]] = mem[c][done[c]]]
  /\ done' = [done EXCEPT ![c] = @ + 1]
  /\ UNCHANGED <<req, mem, st>>

LoseChunk(c) ==
  /\ More(c) /\ req[c].write
  /\ done' = [done EXCEPT ![c] = @ + 1]
  /\ UNCHANGED <<dev, req, mem, st>>

Fail(c) == /\ More(c)
           /\ st' = [st EXCEPT ![c] = "failed"]
           /\ UNCHANGED <<dev, req, mem, done>>

Return(c) == /\ st[c] # "out"
             /\ st[c] = "failed" \/ done[c] = req[c].n
             /\ st' = [st EXCEPT ![c] = "out"]
             /\ req' = [req EXCEPT ![c] = NoRequest]
             /\ mem' = [mem EXCEPT ![c] = NoRequest.data]
             /\ done' = [done EXCEPT ![c] = 0]
             /\ UNCHANGED dev

Next == \E c \in Clients : \/ Begin(c) \/ ReadChunk(c) \/ WriteChunk(c)
                           \/ LoseChunk(c) \/ Fail(c) \/ Return(c)

SafeSpec == Init /\ [][Next]_vars

\* Every request ends.
Spec == SafeSpec /\ \A c \in Clients :
                      WF_vars(\/ ReadChunk(c) \/ WriteChunk(c) \/ LoseChunk(c)
                              \/ Fail(c) \/ Return(c))
=============================================================================
