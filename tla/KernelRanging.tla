--------------------------- MODULE KernelRanging ---------------------------
(***************************************************************************)
(* A ranging session that waits for data in the kernel: the session of     *)
(* Ranging, where VL53L8CX_wait_for_dataready takes the place of           *)
(* check_data_ready, composed with the interrupt and the wait queue of     *)
(* IrqWait.  The interrupt says that some frame was measured, and nobody   *)
(* compares stream counts: the flag and the results window are two views   *)
(* of the sensor that the application reads one after the other.           *)
(***************************************************************************)
EXTENDS Ranging

VARIABLES
  intr_ready_flag, wq, edge, handler, kpc, kret, signal,  \* see IrqWait
  interrupted  \* did a signal end a wait of this session?  (History variable.)

irq == <<intr_ready_flag, wq, edge, handler, kpc, kret, signal>>
kernel == <<irq, interrupted>>

App == "app"

K == INSTANCE IrqWait WITH Threads <- {App}, pc <- kpc, ret <- kret

KInit == Init /\ K!Init /\ interrupted = FALSE

InUser == kpc[App] = "user"

\* A packet is complete: the sensor pulls its INT pin.
Measure == (Frame \/ Trigger) /\ K!Edge /\ UNCHANGED interrupted

Stopped == Halt /\ UNCHANGED kernel

\* The application calls VL53L8CX_wait_for_dataready.
Wait == /\ pc = "on" /\ ~ready
        /\ K!Call(App)
        /\ UNCHANGED <<vars, interrupted>>

\* The interrupt handler, and the waiting application.
Interrupt == (K!HandlerSet \/ K!HandlerWake) /\ UNCHANGED <<vars, interrupted>>

Waiting == /\ K!Test(App) \/ K!Prepare(App) \/ K!Recheck(App) \/ K!Schedule(App)
           /\ UNCHANGED <<vars, interrupted>>

Signalled == K!Signal(App) /\ UNCHANGED <<vars, interrupted>>

\* The ioctl returns: "return 0" if it was interrupted, "return 1" otherwise.
Return == /\ K!Clear(App)
          /\ ready' = (kret[App] = 0)
          /\ interrupted' = (interrupted \/ ~ready')
          /\ UNCHANGED <<sensor, is_auto_stop_enabled, streamcount, head, temp,
                         chunk, pc, status, tries, got>>

\* The application's other calls, as in Ranging, and never inside the wait.
Call == InUser /\ Run /\ UNCHANGED kernel

\* A mutant: a session is ended while its application is in the kernel.
ChoiceAnywhere == /\ SetAutoStop \/ Start \/ Stop
                  /\ interrupted' = FALSE
                  /\ UNCHANGED irq

Choice == /\ InUser
          /\ SetAutoStop \/ Start \/ Stop
          /\ interrupted' = FALSE
          /\ UNCHANGED irq

KNext == \/ Measure \/ Stopped \/ Interrupt \/ Signalled
         \/ Wait \/ Waiting \/ Return \/ Call \/ Choice

kvars == <<vars, kernel>>

KSafeSpec == KInit /\ [][KNext]_kvars

\* As in Ranging and in IrqWait: calls, the loop around the wait and the kernel
\* go on; the sensor and the ends of the session are open.
KSpec == /\ KSafeSpec
         /\ WF_kvars(Interrupt)
         /\ WF_kvars(Wait) /\ WF_kvars(Waiting \/ Return) /\ WF_kvars(Call)

-----------------------------------------------------------------------------
(* Properties.                                                             *)

\* The session and the wait keep to themselves: the application is in the
\* kernel only while a session waits for data.
KTypeOK == /\ TypeOK /\ K!TypeOK /\ interrupted \in BOOLEAN
           /\ ~InUser => pc = "on" /\ ~ready

\* No frame leaves the application asleep behind it: a frame that is measured
\* while the session is on is delivered, or a later one is, although the wait
\* clears the flag after it was woken and so throws interrupts away.  (A wait
\* that a signal ended may have thrown away the only one.)
FrameDelivered ==
  \A k \in 1 .. MaxFrame :
    (window >= k /\ pc = "on")
      ~> (got >= k \/ interrupted \/ pc \in {"off", "ask", "poll", "check"})
=============================================================================
