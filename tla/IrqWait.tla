------------------------------ MODULE IrqWait ------------------------------
(***************************************************************************)
(* The data-ready interrupt of the kernel driver (kernel/stmvl53l8cx.c):   *)
(* the threaded handler that sets intr_ready_flag and wakes the queue, and *)
(* the threads inside ioctl(ST_TOF_IOCTL_WAIT_FOR_INTERRUPT), which sleep  *)
(* on the queue until the flag is set and then clear it.                   *)
(*                                                                         *)
(* The handler takes no lock, and the flag and the queue are two objects:  *)
(* every read, write and wake-up below is a step of its own.               *)
(***************************************************************************)
EXTENDS Naturals

CONSTANT Threads  \* the user threads that may wait on the device

VARIABLES
  intr_ready_flag,  \* drvdata->intr_ready_flag
  wq,               \* threads queued on drvdata->wq
  edge,             \* an edge of the INT pin the handler has not served yet
  handler,          \* "idle", or "wake" between atomic_set and the wake-up
  pc,               \* where each thread is in the ioctl
  ret,              \* what wait_event_interruptible gives it: 0 or EINTR
  signal            \* a signal is pending for the thread

vars == <<intr_ready_flag, wq, edge, handler, pc, ret, signal>>

EINTR == 4

\* Inside wait_event_interruptible; "clear" is the statement that follows it.
Waiting == {"test", "prepare", "recheck", "schedule"}

TypeOK ==
  /\ intr_ready_flag \in {0, 1}
  /\ wq \subseteq Threads
  /\ edge \in BOOLEAN
  /\ handler \in {"idle", "wake"}
  /\ pc \in [Threads -> {"user", "clear"} \cup Waiting]
  /\ ret \in [Threads -> {0, EINTR}]
  /\ signal \in [Threads -> BOOLEAN]

Init ==
  /\ intr_ready_flag = 0
  /\ wq = {}
  /\ edge = FALSE
  /\ handler = "idle"
  /\ pc = [t \in Threads |-> "user"]
  /\ ret = [t \in Threads |-> 0]
  /\ signal = [t \in Threads |-> FALSE]

-----------------------------------------------------------------------------
(* The interrupt.                                                          *)

\* The sensor pulls INT low.  The line is edge triggered: an edge that comes
\* while one is pending is the same edge.
Edge == /\ edge' = TRUE
        /\ UNCHANGED <<intr_ready_flag, wq, handler, pc, ret, signal>>

\* stmvl53l8cx_intr_handler: atomic_set(&intr_ready_flag, 1).
HandlerSet == /\ handler = "idle"
              /\ edge
              /\ edge' = FALSE
              /\ intr_ready_flag' = 1
              /\ handler' = "wake"
              /\ UNCHANGED <<wq, pc, ret, signal>>

\* A mutant: the flag is set, and nobody is woken.
HandlerSilent == /\ handler = "wake"
                 /\ handler' = "idle"
                 /\ UNCHANGED <<intr_ready_flag, wq, edge, pc, ret, signal>>

\* ... then wake_up_interruptible: nobody is queued any more.
HandlerWake == /\ handler = "wake"
               /\ wq' = {}
               /\ handler' = "idle"
               /\ UNCHANGED <<intr_ready_flag, edge, pc, ret, signal>>

-----------------------------------------------------------------------------
(* A thread in the ioctl.                                                  *)

Goto(t, l) == pc' = [pc EXCEPT ![t] = l]

Call(t) == /\ pc[t] = "user"
           /\ Goto(t, "test")
           /\ ret' = [ret EXCEPT ![t] = 0]
           /\ UNCHANGED <<intr_ready_flag, wq, edge, handler, signal>>

\* wait_event_interruptible looks at the condition before it queues.
Test(t) == /\ pc[t] = "test"
           /\ Goto(t, IF intr_ready_flag # 0 THEN "clear" ELSE "prepare")
           /\ UNCHANGED <<intr_ready_flag, wq, edge, handler, ret, signal>>

\* A mutant: wait_event in place of wait_event_interruptible.
PrepareDeaf(t) ==
  /\ pc[t] = "prepare"
  /\ wq' = wq \cup {t}
  /\ Goto(t, "recheck")
  /\ UNCHANGED <<intr_ready_flag, edge, handler, ret, signal>>

\* prepare_to_wait_event: queue the thread, or dequeue it if it must leave.
Prepare(t) ==
  /\ pc[t] = "prepare"
  /\ wq' = IF signal[t] THEN wq \ {t} ELSE wq \cup {t}
  /\ ret' = [ret EXCEPT ![t] = IF signal[t] THEN EINTR ELSE 0]
  /\ Goto(t, "recheck")
  /\ UNCHANGED <<intr_ready_flag, edge, handler, signal>>

\* A mutant: the thread sleeps without looking at the flag again.
RecheckUntested(t) ==
  /\ pc[t] = "recheck"
  /\ Goto(t, IF ret[t] = EINTR THEN "clear" ELSE "schedule")
  /\ UNCHANGED <<intr_ready_flag, wq, edge, handler, ret, signal>>

\* A mutant: the thread leaves without finish_wait.
RecheckQueued(t) ==
  /\ pc[t] = "recheck"
  /\ Goto(t, IF intr_ready_flag # 0 \/ ret[t] = EINTR THEN "clear" ELSE "schedule")
  /\ ret' = [ret EXCEPT ![t] = IF intr_ready_flag # 0 THEN 0 ELSE @]
  /\ UNCHANGED <<intr_ready_flag, wq, edge, handler, signal>>

\* The condition again, now that a wake-up cannot be missed; the flag wins
\* over a signal.
Recheck(t) ==
  /\ pc[t] = "recheck"
  /\ \/ /\ intr_ready_flag # 0
        /\ Goto(t, "clear")
        /\ ret' = [ret EXCEPT ![t] = 0]
        /\ wq' = wq \ {t}
     \/ /\ intr_ready_flag = 0
        /\ Goto(t, IF ret[t] = EINTR THEN "clear" ELSE "schedule")
        /\ UNCHANGED <<ret, wq>>
  /\ UNCHANGED <<intr_ready_flag, edge, handler, signal>>

\* schedule() returns once the thread was woken or has a signal.
Schedule(t) == /\ pc[t] = "schedule"
               /\ t \notin wq \/ signal[t]
               /\ Goto(t, "prepare")
               /\ UNCHANGED <<intr_ready_flag, wq, edge, handler, ret, signal>>

\* A mutant: the flag is left up.
ClearKeeps(t) == /\ pc[t] = "clear"
                 /\ Goto(t, "user")
                 /\ signal' = [signal EXCEPT ![t] = FALSE]
                 /\ UNCHANGED <<intr_ready_flag, wq, edge, handler, ret>>

\* atomic_set(&intr_ready_flag, 0), before ret is looked at, then the return
\* to user space, where a pending signal is delivered.
Clear(t) == /\ pc[t] = "clear"
            /\ intr_ready_flag' = 0
            /\ Goto(t, "user")
            /\ signal' = [signal EXCEPT ![t] = FALSE]
            /\ UNCHANGED <<wq, edge, handler, ret>>

\* A signal sent to a thread that is in the kernel.
Signal(t) == /\ pc[t] # "user"
             /\ ~signal[t]
             /\ signal' = [signal EXCEPT ![t] = TRUE]
             /\ UNCHANGED <<intr_ready_flag, wq, edge, handler, pc, ret>>

Step(t) == Test(t) \/ Prepare(t) \/ Recheck(t) \/ Schedule(t) \/ Clear(t)

Next == \/ Edge \/ HandlerSet \/ HandlerWake
        \/ \E t \in Threads : Call(t) \/ Step(t) \/ Signal(t)

SafeSpec == Init /\ [][Next]_vars

\* The kernel schedules the handler thread and every runnable thread; it
\* promises nothing about the sensor, the callers or the signals.
Fairness == /\ WF_vars(HandlerSet \/ HandlerWake)
            /\ \A t \in Threads : WF_vars(Step(t))

Spec == SafeSpec /\ Fairness

-----------------------------------------------------------------------------
(* Properties.                                                             *)

\* A thread is never left asleep on the queue while the flag is up, unless
\* the handler is just about to wake it: setting the flag before the wake-up
\* and testing the flag after queueing leave no window for a lost wake-up.
NoLostWakeup ==
  intr_ready_flag = 1 /\ handler = "idle"
    => \A t \in Threads : pc[t] = "schedule" => t \notin wq

\* A thread that left wait_event_interruptible is off the queue, so a later
\* wake-up never touches a stale entry.
QueueClean == \A t \in Threads : pc[t] \in {"user", "test", "clear"} => t \notin wq

\* The inductive invariant of the proofs.
IInv ==
  /\ TypeOK
  /\ NoLostWakeup
  /\ QueueClean
  /\ \A t \in Threads : /\ pc[t] # "user" /\ ret[t] = EINTR => signal[t]
                        /\ pc[t] = "recheck" /\ ret[t] = EINTR => t \notin wq
                        /\ pc[t] \in {"test", "schedule"} => ret[t] = 0

\* The abstract view: the latch is the flag, and a thread waits while it is
\* inside wait_event_interruptible.
PhaseOf(t) == IF pc[t] = "user" THEN "out"
              ELSE IF pc[t] # "clear" THEN "waiting"
              ELSE IF ret[t] = 0 THEN "granted"
              ELSE "interrupted"

Abs == INSTANCE Latch WITH
  latch <- intr_ready_flag = 1,
  phase <- [t \in Threads |-> PhaseOf(t)],
  signalled <- signal

\* The ioctl implements the latch: 0 is returned only for an interrupt, EINTR
\* only for a signal and, the fairness included, no interleaving of the handler
\* with the waiters loses a wake-up for ever.
ImplementsLatch == Abs!Spec

\* A signalled waiter returns to user space, whatever the sensor does: a
\* process blocked on a silent sensor can be killed.
SignalServed ==
  \A t \in Threads : (pc[t] \in Waiting /\ signal[t]) ~> (pc[t] = "user")

\* As long as interrupts keep coming, some waiter is let through.  (Which
\* one is not promised: the first to clear the flag may starve the others.)
SomeoneServed ==
  []<>edge => ((\E t \in Threads : pc[t] \in Waiting)
                 ~> (\E t \in Threads : pc[t] = "clear"))
=============================================================================
