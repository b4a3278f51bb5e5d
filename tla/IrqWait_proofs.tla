--------------------------- MODULE IrqWait_proofs ---------------------------
(***************************************************************************)
(* Proofs about IrqWait, for any set of waiting threads.  NoLostWakeup is  *)
(* not inductive by itself: that a wake-up cannot be missed rests on which *)
(* program points may leave a thread on the queue, which IInv records.     *)
(***************************************************************************)
EXTENDS IrqWait, TLAPS

\* The driver starts in a state of the invariant.
LEMMA InitIInv == Init => IInv
  BY DEF Init, IInv, TypeOK, NoLostWakeup, QueueClean, Waiting, EINTR

\* The interrupt's own steps keep it.
LEMMA IrqStep == IInv /\ (Edge \/ HandlerSet \/ HandlerWake) => IInv'
<1> SUFFICES ASSUME IInv, Edge \/ HandlerSet \/ HandlerWake PROVE IInv'
  OBVIOUS
<1>1. CASE Edge
  BY <1>1 DEF Edge, IInv, TypeOK, NoLostWakeup, QueueClean
<1>2. CASE HandlerSet
  BY <1>2 DEF HandlerSet, IInv, TypeOK, NoLostWakeup, QueueClean
<1>3. CASE HandlerWake
  BY <1>3 DEF HandlerWake, IInv, TypeOK, NoLostWakeup, QueueClean
<1> QED
  BY <1>1, <1>2, <1>3

\* So does every step of a waiting thread.
LEMMA ThreadStep ==
  ASSUME IInv, NEW t \in Threads, Call(t) \/ Step(t) \/ Signal(t)
  PROVE  IInv'
<1> USE DEF IInv, TypeOK, NoLostWakeup, QueueClean, Waiting, EINTR, Goto
<1>1. CASE Call(t)
  BY <1>1 DEF Call
<1>2. CASE Test(t)
  BY <1>2 DEF Test
<1>3. CASE Prepare(t)
  <2>1. TypeOK'
    BY <1>3 DEF Prepare
  <2>2. NoLostWakeup' /\ QueueClean'
    BY <1>3 DEF Prepare
  <2>3. \A u \in Threads : /\ pc'[u] # "user" /\ ret'[u] = EINTR => signal'[u]
                           /\ pc'[u] = "recheck" /\ ret'[u] = EINTR => u \notin wq'
                           /\ pc'[u] \in {"test", "schedule"} => ret'[u] = 0
    BY <1>3 DEF Prepare
  <2> QED
    BY <2>1, <2>2, <2>3
<1>4. CASE Recheck(t)
  <2>1. CASE intr_ready_flag # 0
    BY <1>4, <2>1 DEF Recheck
  <2>2. CASE intr_ready_flag = 0
    <3>1. /\ pc' = [pc EXCEPT ![t] = IF ret[t] = EINTR THEN "clear" ELSE "schedule"]
          /\ pc[t] = "recheck"
          /\ UNCHANGED <<intr_ready_flag, wq, edge, handler, ret, signal>>
      BY <1>4, <2>2 DEF Recheck
    <3>2. NoLostWakeup'
      BY <2>2, <3>1
    <3>3. ret[t] # EINTR => ret[t] = 0
      OBVIOUS
    <3>4. TypeOK'
      BY <3>1
    <3>5. ret[t] = EINTR => t \notin wq
      BY <3>1
    <3> QED
      BY <3>1, <3>2, <3>3, <3>4, <3>5
  <2> QED
    BY <2>1, <2>2
<1>5. CASE Schedule(t)
  BY <1>5 DEF Schedule
<1>6. CASE Clear(t)
  BY <1>6 DEF Clear
<1>7. CASE Signal(t)
  BY <1>7 DEF Signal
<1> QED
  BY <1>1, <1>2, <1>3, <1>4, <1>5, <1>6, <1>7 DEF Step

\* IInv is inductive.
LEMMA NextIInv == IInv /\ [Next]_vars => IInv'
<1> SUFFICES ASSUME IInv, [Next]_vars PROVE IInv'
  OBVIOUS
<1>1. CASE UNCHANGED vars
  BY <1>1 DEF vars, IInv, TypeOK, NoLostWakeup, QueueClean
<1>2. CASE Next
  BY <1>2, IrqStep, ThreadStep DEF Next
<1> QED
  BY <1>1, <1>2

\* Every reachable state of the driver's wait satisfies the invariant.
THEOREM IrqWaitInvariant == SafeSpec => []IInv
  BY InitIInv, NextIInv, PTL DEF SafeSpec

\* No thread stays asleep while the flag is up and nobody is about to wake it,
\* whatever the number of threads that wait on the device.
THEOREM WakeupNeverLost == SafeSpec => []NoLostWakeup
<1>1. IInv => NoLostWakeup
  BY DEF IInv
<1> QED
  BY <1>1, IrqWaitInvariant, PTL

-----------------------------------------------------------------------------
(* The refinement.                                                         *)

\* The initial state maps to the abstract initial state.
LEMMA AbsInit == Init => Abs!Init
  BY DEF Init, Abs!Init, PhaseOf

\* The interrupt's steps raise the abstract latch or change nothing of it.
LEMMA AbsIrq ==
  ASSUME IInv, Edge \/ HandlerSet \/ HandlerWake
  PROVE  Abs!Next \/ UNCHANGED Abs!vars
<1>1. CASE Edge
  BY <1>1 DEF Edge, Abs!vars, PhaseOf
<1>2. CASE HandlerSet
  BY <1>2 DEF HandlerSet, Abs!Next, Abs!Raise, PhaseOf
<1>3. CASE HandlerWake
  BY <1>3 DEF HandlerWake, Abs!vars, PhaseOf
<1> QED
  BY <1>1, <1>2, <1>3

\* A step that moves one thread's phase moves the abstract phase of that
\* thread alone.
LEMMA PhaseMove ==
  ASSUME NEW t \in Threads, NEW p,
         PhaseOf(t)' = p,
         \A u \in Threads \ {t} : PhaseOf(u)' = PhaseOf(u)
  PROVE  [u \in Threads |-> PhaseOf(u)]'
           = [[u \in Threads |-> PhaseOf(u)] EXCEPT ![t] = p]
  OBVIOUS

\* A thread's step is its abstract step, or stays inside the abstract wait.
LEMMA AbsThread ==
  ASSUME IInv, NEW t \in Threads, Call(t) \/ Step(t) \/ Signal(t)
  PROVE  Abs!Next \/ UNCHANGED Abs!vars
<1> USE DEF IInv, TypeOK, Goto, Waiting, EINTR
<1> DEFINE Same == \A u \in Threads \ {t} : PhaseOf(u)' = PhaseOf(u)
<1>1. CASE Call(t)
  <2>1. PhaseOf(t) = "out" /\ PhaseOf(t)' = "waiting" /\ Same
    BY <1>1 DEF Call, PhaseOf
  <2>2. Abs!Enter(t)
    BY <1>1, <2>1, PhaseMove DEF Call, Abs!Enter
  <2> QED
    BY <2>2 DEF Abs!Next
<1>2. CASE Test(t)
  <2>1. CASE intr_ready_flag # 0
    <3>1. PhaseOf(t) = "waiting" /\ PhaseOf(t)' = "granted" /\ Same
      BY <1>2, <2>1 DEF Test, PhaseOf
    <3>2. Abs!Grant(t)
      BY <1>2, <2>1, <3>1, PhaseMove DEF Test, Abs!Grant
    <3> QED
      BY <3>2 DEF Abs!Next
  <2>2. CASE intr_ready_flag = 0
    <3>1. \A u \in Threads : PhaseOf(u)' = PhaseOf(u)
      BY <1>2, <2>2 DEF Test, PhaseOf
    <3> QED
      BY <1>2, <3>1 DEF Test, Abs!vars
  <2> QED
    BY <2>1, <2>2
<1>3. CASE Prepare(t)
  <2>1. \A u \in Threads : PhaseOf(u)' = PhaseOf(u)
    BY <1>3 DEF Prepare, PhaseOf
  <2> QED
    BY <1>3, <2>1 DEF Prepare, Abs!vars
<1>4. CASE Recheck(t)
  <2>1. CASE intr_ready_flag # 0
    <3>1. PhaseOf(t) = "waiting" /\ PhaseOf(t)' = "granted" /\ Same
      BY <1>4, <2>1 DEF Recheck, PhaseOf
    <3>2. Abs!Grant(t)
      BY <1>4, <2>1, <3>1, PhaseMove DEF Recheck, Abs!Grant
    <3> QED
      BY <3>2 DEF Abs!Next
  <2>2. CASE intr_ready_flag = 0 /\ ret[t] = EINTR
    <3>1. PhaseOf(t) = "waiting" /\ PhaseOf(t)' = "interrupted" /\ Same
      BY <1>4, <2>2 DEF Recheck, PhaseOf
    <3>2. Abs!Interrupt(t)
      BY <1>4, <2>2, <3>1, PhaseMove DEF Recheck, Abs!Interrupt
    <3> QED
      BY <3>2 DEF Abs!Next
  <2>3. CASE intr_ready_flag = 0 /\ ret[t] # EINTR
    <3>1. \A u \in Threads : PhaseOf(u)' = PhaseOf(u)
      BY <1>4, <2>3 DEF Recheck, PhaseOf
    <3> QED
      BY <1>4, <2>3, <3>1 DEF Recheck, Abs!vars
  <2> QED
    BY <2>1, <2>2, <2>3
<1>5. CASE Schedule(t)
  <2>1. \A u \in Threads : PhaseOf(u)' = PhaseOf(u)
    BY <1>5 DEF Schedule, PhaseOf
  <2> QED
    BY <1>5, <2>1 DEF Schedule, Abs!vars
<1>6. CASE Clear(t)
  <2>1. /\ PhaseOf(t) \in {"granted", "interrupted"}
        /\ PhaseOf(t)' = "out"
        /\ Same
    BY <1>6 DEF Clear, PhaseOf
  <2>2. Abs!Leave(t)
    BY <1>6, <2>1, PhaseMove DEF Clear, Abs!Leave
  <2> QED
    BY <2>2 DEF Abs!Next
<1>7. CASE Signal(t)
  <2>1. /\ PhaseOf(t) # "out"
        /\ \A u \in Threads : PhaseOf(u)' = PhaseOf(u)
    BY <1>7 DEF Signal, PhaseOf
  <2>2. Abs!Signal(t)
    BY <1>7, <2>1 DEF Signal, Abs!Signal
  <2> QED
    BY <2>2 DEF Abs!Next
<1> QED
  BY <1>1, <1>2, <1>3, <1>4, <1>5, <1>6, <1>7 DEF Step

\* The ioctl's wait, with its queue, its handler and its two tests of the
\* flag, implements the one-bit latch (the safety part of ImplementsLatch).
THEOREM WaitImplementsLatch == SafeSpec => Abs!SafeSpec
<1>1. IInv /\ [Next]_vars => [Abs!Next]_(Abs!vars)
  <2> SUFFICES ASSUME IInv, [Next]_vars
               PROVE  Abs!Next \/ UNCHANGED Abs!vars
    OBVIOUS
  <2>1. CASE UNCHANGED vars
    BY <2>1 DEF vars, Abs!vars, PhaseOf
  <2>2. CASE Next
    BY <2>2, AbsIrq, AbsThread DEF Next
  <2> QED
    BY <2>1, <2>2
<1> QED
  BY <1>1, AbsInit, IrqWaitInvariant, PTL DEF SafeSpec, Abs!SafeSpec
=============================================================================
