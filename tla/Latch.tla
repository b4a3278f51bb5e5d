------------------------------- MODULE Latch -------------------------------
(***************************************************************************)
(* What ST_TOF_IOCTL_WAIT_FOR_INTERRUPT promises, without the wait queue:  *)
(* a one-bit latch that the interrupt raises.  A waiter is granted only    *)
(* while the latch is up, or is interrupted by a signal, and in both cases *)
(* lowers the latch on its way out.  The fairness says the rest: a waiter  *)
(* in front of a latch that stays up does not wait for ever, and a         *)
(* signalled waiter does not either.                                       *)
(***************************************************************************)
CONSTANT Threads

VARIABLES latch,     \* is an interrupt remembered?
          phase,     \* where each thread is, and what it takes away when it leaves
          signalled  \* has the thread a signal pending?

vars == <<latch, phase, signalled>>

TypeOK == /\ latch \in BOOLEAN
          /\ phase \in [Threads -> {"out", "waiting", "granted", "interrupted"}]
          /\ signalled \in [Threads -> BOOLEAN]

Init == /\ latch = FALSE
        /\ phase = [t \in Threads |-> "out"]
        /\ signalled = [t \in Threads |-> FALSE]

\* The interrupt.
Raise == latch' = TRUE /\ UNCHANGED <<phase, signalled>>

Enter(t) == /\ phase[t] = "out"
            /\ phase' = [phase EXCEPT ![t] = "waiting"]
            /\ UNCHANGED <<latch, signalled>>

Grant(t) == /\ phase[t] = "waiting"
            /\ latch
            /\ phase' = [phase EXCEPT ![t] = "granted"]
            /\ UNCHANGED <<latch, signalled>>

Interrupt(t) == /\ phase[t] = "waiting"
                /\ signalled[t]
                /\ phase' = [phase EXCEPT ![t] = "interrupted"]
                /\ UNCHANGED <<latch, signalled>>

Leave(t) == /\ phase[t] \in {"granted", "interrupted"}
            /\ latch' = FALSE
            /\ phase' = [phase EXCEPT ![t] = "out"]
            /\ signalled' = [signalled EXCEPT ![t] = FALSE]

Signal(t) == /\ phase[t] # "out"
             /\ signalled' = [signalled EXCEPT ![t] = TRUE]
             /\ UNCHANGED <<latch, phase>>

Next == \/ Raise
        \/ \E t \in Threads : \/ Enter(t) \/ Grant(t) \/ Interrupt(t)
                              \/ Leave(t) \/ Signal(t)

SafeSpec == Init /\ [][Next]_vars

Spec == /\ SafeSpec
        /\ \A t \in Threads : /\ WF_vars(Grant(t) \/ Interrupt(t))
                              /\ WF_vars(Leave(t))
=============================================================================
