\* Two waiters on one device: they share the flag and the queue.
SPECIFICATION Spec
CONSTANT Threads = {t1, t2}
INVARIANT IInv
INVARIANT NoLostWakeup
PROPERTY ImplementsLatch
PROPERTY SignalServed
PROPERTY SomeoneServed
