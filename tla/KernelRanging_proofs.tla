------------------------ MODULE KernelRanging_proofs ------------------------
(***************************************************************************)
(* Proofs about KernelRanging, for packets of any number of transfers,     *)
(* counters of any width, any number of frames, with and without faults.   *)
(* The session's and the wait's own invariants hold side by side: a step   *)
(* of the one leaves the other alone, or is a step of it.                  *)
(***************************************************************************)
EXTENDS KernelRanging, Ranging_proofs

\* The proofs about the interrupt and the wait queue, for the one thread of this session.
W == INSTANCE IrqWait_proofs WITH Threads <- {App}, pc <- kpc, ret <- kret

\* W's names are those of K.
LEMMA SameTypes == W!TypeOK <=> K!TypeOK
  BY DEF W!TypeOK, K!TypeOK, W!Waiting, K!Waiting, W!EINTR, K!EINTR

\* So is its invariant,
LEMMA SameInv == W!IInv <=> K!IInv
<1>1. W!NoLostWakeup <=> K!NoLostWakeup
  BY DEF W!NoLostWakeup, K!NoLostWakeup
<1>2. W!QueueClean <=> K!QueueClean
  BY DEF W!QueueClean, K!QueueClean
<1> QED
  BY <1>1, <1>2, SameTypes DEF W!IInv, K!IInv, W!EINTR, K!EINTR

\* and so are its steps.
LEMMA SameNext == [K!Next]_(K!vars) => [W!Next]_(W!vars)
<1>1. K!Edge => W!Edge
  BY DEF K!Edge, W!Edge
<1>2. K!HandlerSet => W!HandlerSet
  BY DEF K!HandlerSet, W!HandlerSet
<1>3. K!HandlerWake => W!HandlerWake
  BY DEF K!HandlerWake, W!HandlerWake
<1>4. \A t \in {App} : K!Call(t) => W!Call(t)
  BY DEF K!Call, W!Call, K!Goto, W!Goto
<1>5. \A t \in {App} : K!Signal(t) => W!Signal(t)
  BY DEF K!Signal, W!Signal
<1>6. \A t \in {App} : K!Step(t) => W!Step(t)
  BY DEF K!Step, W!Step, K!Test, W!Test, K!Prepare, W!Prepare, K!Recheck, W!Recheck,
     K!Schedule, W!Schedule, K!Clear, W!Clear, K!Goto, W!Goto, K!EINTR, W!EINTR
<1> QED
  BY <1>1, <1>2, <1>3, <1>4, <1>5, <1>6 DEF K!Next, W!Next, K!vars, W!vars

\* Every step of the wait queue in the session keeps its invariant.
LEMMA WaitNext ==
  ASSUME K!IInv, [K!Next]_(K!vars)
  PROVE  K!IInv'
<1>1. W!IInv /\ [W!Next]_(W!vars) => W!IInv'
  BY W!NextIInv
<1>2. W!IInv' <=> K!IInv'
  BY SameInv, PTL
<1> QED
  BY <1>1, <1>2, SameInv, SameNext

-----------------------------------------------------------------------------
(* The composition.                                                        *)

\* The application is in the kernel only while a session waits for data.
InWait == ~InUser => pc = "on" /\ ~ready

KInv == WindowInv /\ K!IInv /\ interrupted \in BOOLEAN /\ InWait

\* Each step of the composition is a step of the wait or leaves it alone.
LEMMA WaitSteps == [KNext]_kvars => [K!Next]_(K!vars)
<1> SUFFICES ASSUME [KNext]_kvars PROVE [K!Next]_(K!vars)
  OBVIOUS
<1>1. CASE Measure
  BY <1>1 DEF Measure, K!Next
<1>2. CASE Stopped \/ Call \/ Choice \/ UNCHANGED kvars
  BY <1>2 DEF Stopped, Call, Choice, kvars, kernel, irq, K!vars
<1>3. CASE Interrupt
  BY <1>3 DEF Interrupt, K!Next
<1>4. CASE Signalled
  BY <1>4 DEF Signalled, K!Next
<1>5. CASE Wait
  BY <1>5 DEF Wait, K!Next
<1>6. CASE Waiting
  BY <1>6 DEF Waiting, K!Next, K!Step
<1>7. CASE Return
  BY <1>7 DEF Return, K!Next, K!Step
<1> QED
  BY <1>1, <1>2, <1>3, <1>4, <1>5, <1>6, <1>7 DEF KNext

\* Each step of the composition is a step of the session, leaves it alone, or is the
\* return of the wait, which says whether data is there.
LEMMA SessionSteps ==
  ASSUME K!TypeOK, [KNext]_kvars
  PROVE  \/ [Next]_vars
         \/ /\ Return
            /\ ready' \in BOOLEAN
            /\ UNCHANGED <<sensor, is_auto_stop_enabled, streamcount, head, temp,
                           chunk, pc, status, tries, got>>
<1>1. CASE Measure \/ Stopped
  BY <1>1 DEF Measure, Stopped, Next, Sensor
<1>2. CASE Interrupt \/ Signalled \/ Wait \/ Waiting \/ UNCHANGED kvars
  BY <1>2 DEF Interrupt, Signalled, Wait, Waiting, kvars
<1>3. CASE Return
  BY <1>3 DEF Return
<1>4. CASE Call \/ Choice
  BY <1>4 DEF Call, Choice, Next
<1> QED
  BY <1>1, <1>2, <1>3, <1>4 DEF KNext

\* A packet on its way does not depend on how the host learned of it.
LEMMA PacketKept ==
  ASSUME KInv, [KNext]_kvars
  PROVE  WindowInv'
<1>1. CASE [Next]_vars
  BY <1>1, WindowStep DEF KInv
<1>2. CASE /\ ready' \in BOOLEAN
           /\ UNCHANGED <<sensor, is_auto_stop_enabled, streamcount, head, temp,
                          chunk, pc, status, tries, got>>
  <2>1. TypeOK'
    BY <1>2 DEF KInv, WindowInv, TypeOK, sensor
  <2>2. Frames' = Frames
    BY DEF Frames
  <2> QED
    BY <1>2, <2>1, <2>2 DEF KInv, WindowInv, Order, NoTornResult, sensor
<1>3. K!TypeOK
  BY DEF KInv, K!IInv
<1> QED
  BY <1>1, <1>2, <1>3, SessionSteps

\* A call into the kernel, and back, and nothing else of the application in between.
LEMMA InWaitKept ==
  ASSUME KInv, [KNext]_kvars
  PROVE  InWait' /\ interrupted' \in BOOLEAN
<1>0. /\ kpc[App] \in {"user", "clear", "test", "prepare", "recheck", "schedule"}
      /\ DOMAIN kpc = {App} /\ interrupted \in BOOLEAN /\ InWait
  BY DEF KInv, K!IInv, K!TypeOK, K!Waiting
<1>1. CASE Measure \/ Stopped
  <2>1. pc' = pc /\ ready' = ready /\ kpc' = kpc /\ interrupted' = interrupted
    BY <1>1 DEF Measure, Stopped, Frame, Trigger, Halt, host, K!Edge, kernel, irq
  <2> QED
    BY <1>0, <2>1 DEF InWait, InUser
<1>2. CASE Interrupt \/ Signalled
  <2>1. pc' = pc /\ ready' = ready /\ kpc' = kpc /\ interrupted' = interrupted
    BY <1>2 DEF Interrupt, Signalled, vars, host, K!HandlerSet, K!HandlerWake, K!Signal
  <2> QED
    BY <1>0, <2>1 DEF InWait, InUser
<1>3. CASE Wait
  BY <1>0, <1>3 DEF Wait, vars, host, InWait
<1>4. CASE Waiting
  <2>1. /\ pc' = pc /\ ready' = ready /\ interrupted' = interrupted /\ kpc[App] # "user"
    BY <1>4 DEF Waiting, vars, host, K!Test, K!Prepare, K!Recheck, K!Schedule
  <2> QED
    BY <1>0, <2>1 DEF InWait, InUser
<1>5. CASE Return
  <2>1. kpc' = [kpc EXCEPT ![App] = "user"] /\ interrupted' = (interrupted \/ ~ready')
        /\ ready' = (kret[App] = 0)
    BY <1>5 DEF Return, K!Clear, K!Goto
  <2>2. kpc'[App] = "user"
    BY <1>0, <2>1
  <2>3. interrupted' \in BOOLEAN
    BY <1>0, <2>1
  <2> QED
    BY <2>2, <2>3 DEF InWait, InUser
<1>6. CASE Call \/ Choice
  <2>1. kpc[App] = "user" /\ kpc' = kpc
    BY <1>6 DEF Call, Choice, kernel, irq, InUser
  <2>2. interrupted' \in BOOLEAN
    BY <1>0, <1>6 DEF Call, Choice, kernel
  <2> QED
    BY <2>1, <2>2 DEF InWait, InUser
<1>7. CASE UNCHANGED kvars
  BY <1>0, <1>7 DEF kvars, vars, host, kernel, irq, InWait, InUser
<1> QED
  BY <1>1, <1>2, <1>3, <1>4, <1>5, <1>6, <1>7 DEF KNext

\* The invariant of the composition.
THEOREM CompositionInvariant == KSafeSpec => []KInv
<1>1. KInit => KInv
  <2> SUFFICES ASSUME KInit PROVE KInv
    OBVIOUS
  <2>1. Init => WindowInv
    BY PacketInit DEF PacketInv
  <2>2. K!IInv
    BY DEF KInit, K!Init, K!IInv, K!TypeOK, K!NoLostWakeup, K!QueueClean, K!Waiting, K!EINTR
  <2>3. InWait /\ interrupted \in BOOLEAN
    BY DEF KInit, K!Init, InWait, InUser
  <2> QED
    BY <2>1, <2>2, <2>3 DEF KInit, KInv
<1>2. KInv /\ [KNext]_kvars => KInv'
  <2> SUFFICES ASSUME KInv, [KNext]_kvars PROVE KInv'
    OBVIOUS
  <2>1. K!IInv'
    BY WaitSteps, WaitNext DEF KInv
  <2> QED
    BY <2>1, PacketKept, InWaitKept DEF KInv
<1> QED
  BY <1>1, <1>2, PTL DEF KSafeSpec

\* Every variable of the session and of the wait keeps its type, and the application is
\* in the kernel only while a session waits for data: no call of the session runs, and
\* none ends it, while the wait is going on.
THEOREM CompositionTyped == KSafeSpec => []KTypeOK
<1>1. KInv => KTypeOK
  BY DEF KInv, WindowInv, K!IInv, InWait, KTypeOK
<1> QED
  BY <1>1, CompositionInvariant, PTL

\* The session uses the wait as IrqWait has it, so that what is proved of the ioctl (no
\* lost wake-up, and that it implements the latch) is true in every session.
THEOREM SessionUsesWait == KSafeSpec => K!SafeSpec
<1>1. KInit => K!Init
  BY DEF KInit
<1> QED
  BY <1>1, WaitSteps, PTL DEF KSafeSpec, K!SafeSpec

\* So a session sees the interrupt as a latch of one bit: what its wait returns is what
\* the abstract wait may return, whatever the sensor, the handler and the signals do.
THEOREM SessionSeesLatch == KSafeSpec => W!Abs!SafeSpec
<1>1. K!SafeSpec => W!SafeSpec
  <2>1. K!Init => W!Init
    BY DEF K!Init, W!Init
  <2> QED
    BY <2>1, SameNext, PTL DEF K!SafeSpec, W!SafeSpec
<1>2. W!SafeSpec => W!Abs!SafeSpec
  BY W!WaitImplementsLatch
<1> QED
  BY <1>1, <1>2, SessionUsesWait, PTL

\* A result taken after an interrupt, with status 0, is of one frame, although no stream
\* count is compared and the sensor may replace the packet while it is read.  (After a
\* page select that was lost the window is not there to be read; check_data_ready would
\* see that, the interrupt does not.)
THEOREM InterruptResultsAreWhole == KSafeSpec => [](page = 2 => NoTornResult)
<1>1. KInv => (page = 2 => NoTornResult)
  BY DEF KInv, WindowInv
<1> QED
  BY <1>1, CompositionInvariant, PTL

-----------------------------------------------------------------------------
(* Stopping.                                                               *)

\* The wait does not disturb what a stop has seen.
LEMMA StopKept ==
  ASSUME StopInv, K!TypeOK, [KNext]_kvars
  PROVE  /\ StopInv'
         /\ [pc = "undo" /\ pc' = "off" /\ ~status' /\ tries > 0 /\ page = 0
               => mcu' \notin {"ranging", "stopping"}]_vars
<1>1. CASE [Next]_vars
  BY <1>1, StopStep, StopEnds
<1>2. CASE /\ ready' \in BOOLEAN
           /\ UNCHANGED <<sensor, is_auto_stop_enabled, streamcount, head, temp,
                          chunk, pc, status, tries, got>>
  <2>1. TypeOK'
    BY <1>2 DEF StopInv, TypeOK, sensor
  <2>2. pc' = pc
    BY <1>2
  <2> QED
    BY <1>2, <2>1, <2>2 DEF StopInv, sensor
<1> QED
  BY <1>1, <1>2, SessionSteps

\* A stop that asked, and whose page select was not lost, returns 0 only if the MCU
\* stopped, in sessions that wait for the interrupt too, and whichever signals and
\* interrupts came.
THEOREM InterruptStopIsSeen == KSafeSpec => StopSeen
<1>1. KInit => StopInv
  BY TypeInit DEF KInit, Init, StopInv
<1>2. KInv => K!TypeOK
  BY DEF KInv, K!IInv
<1>3. StopInv /\ K!TypeOK /\ [KNext]_kvars
        => /\ StopInv'
           /\ [pc = "undo" /\ pc' = "off" /\ ~status' /\ tries > 0 /\ page = 0
                 => mcu' \notin {"ranging", "stopping"}]_vars
  BY StopKept
<1> QED
  BY <1>1, <1>2, <1>3, CompositionInvariant, PTL DEF KSafeSpec, StopSeen
=============================================================================
