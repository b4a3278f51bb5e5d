----------------------------- MODULE Lifecycle -----------------------------
(***************************************************************************)
(* The life of the kernel module (kernel/stmvl53l8cx.c): the two drivers   *)
(* it registers, the probe and the removal of its devices, and, at the     *)
(* same time, their interrupt handlers and the programs that open them.    *)
(* What devm_ functions got is given back by the driver core, in the       *)
(* reverse order, after a probe that failed and after a removal.           *)
(*                                                                         *)
(* Nobody pulls a device, or unbinds its driver in sysfs, while a program  *)
(* has it open.                                                            *)
(***************************************************************************)
CONSTANTS
  I2cDevices, SpiDevices,  \* the sensors of the device tree
  WithIrq                  \* those that have irq-gpios

Devices == I2cDevices \cup SpiDevices

ASSUME LifecycleAssumption ==
  I2cDevices \cap SpiDevices = {} /\ WithIrq \subseteq Devices

VARIABLES
  loaded,   \* the module: "out", "i2c" between the two drivers, "in"; "broken"; and,
            \* being unloaded, "spi_off" and "i2c_off"
  drivers,  \* the drivers that are registered
  stage,    \* the next step of each device's probe; "none", "bound" or "release"
  data,     \* is its drvdata allocated?
  queue,    \* is drvdata->wq initialised?
  irq,      \* is its interrupt requested?
  node,     \* is its misc device registered?
  fd,       \* has a program opened it?
  waits,    \* is that program in WAIT_FOR_INTERRUPT?
  handler   \* does its interrupt handler run?

parts == <<data, queue, irq, node>>
users == <<fd, waits, handler>>
lvars == <<loaded, drivers, stage, parts, users>>

None == [d \in Devices |-> FALSE]

LInit == /\ loaded = "out" /\ drivers = {} /\ stage = [d \in Devices |-> "none"]
         /\ data = None /\ queue = None /\ irq = None /\ node = None
         /\ fd = None /\ waits = None /\ handler = None

-----------------------------------------------------------------------------
(* Module init and exit.                                                   *)

AddI2c == /\ loaded = "out" /\ drivers = {}
          /\ loaded' = "i2c" /\ drivers' = {"i2c"}
          /\ UNCHANGED <<stage, parts, users>>

RegisterSpi == /\ loaded = "i2c"
               /\ loaded' = "in" /\ drivers' = {"i2c", "spi"}
               /\ UNCHANGED <<stage, parts, users>>

\* The I2C driver stays registered, and the module is not loaded: what the kernel
\* does with the driver from here on is not modelled, until it is started again.
RegisterSpiFails == /\ loaded = "i2c"
                    /\ loaded' = "broken"
                    /\ UNCHANGED <<drivers, stage, parts, users>>

Reboot ==
  /\ loaded = "broken"
  /\ loaded' = "out" /\ drivers' = {} /\ stage' = [d \in Devices |-> "none"]
  /\ data' = None /\ queue' = None /\ irq' = None /\ node' = None
  /\ fd' = None /\ waits' = None /\ handler' = None

\* A mutant: without the owner of stmvl53l8cx_fops.
Unowned == loaded = "in"

\* The module is in nobody's use: the open files of its fops' owner are counted.
Unused == loaded = "in" /\ \A d \in Devices : ~fd[d]

Unload == /\ Unused
          /\ loaded' = "spi_off"
          /\ UNCHANGED <<drivers, stage, parts, users>>

UnregisterSpi == /\ loaded = "spi_off" /\ \A d \in SpiDevices : stage[d] = "none"
                 /\ loaded' = "i2c_off" /\ drivers' = drivers \ {"spi"}
                 /\ UNCHANGED <<stage, parts, users>>

DeleteI2c == /\ loaded = "i2c_off" /\ \A d \in I2cDevices : stage[d] = "none"
             /\ loaded' = "out" /\ drivers' = {}
             /\ UNCHANGED <<stage, parts, users>>

-----------------------------------------------------------------------------
(* Probe and removal of a device.                                          *)

Goes(d, s) == stage' = [stage EXCEPT ![d] = s]
Set(f, d, b) == [f EXCEPT ![d] = b]

\* Its driver is registered, and not about to be unregistered.
Driven(d) == \/ d \in I2cDevices /\ "i2c" \in drivers /\ loaded # "i2c_off"
             \/ d \in SpiDevices /\ "spi" \in drivers /\ loaded # "spi_off"

Alloc(d) == /\ stage[d] = "none" /\ Driven(d)
            /\ data' = Set(data, d, TRUE) /\ Goes(d, "gpio")
            /\ UNCHANGED <<loaded, drivers, queue, irq, node, users>>

\* stmvl53l8cx_parse_dt: a device without irq-gpios gets NULL, of which PTR_ERR is 0,
\* and the probe goes on without an interrupt.
ParseGpio(d) == /\ stage[d] = "gpio"
                /\ Goes(d, IF d \in WithIrq THEN "queue" ELSE "detect")
                /\ UNCHANGED <<loaded, drivers, parts, users>>

\* A mutant: the queue is initialised at the end of the probe.
InitQueueLate(d) ==
  /\ \/ stage[d] = "queue" /\ Goes(d, "irq") /\ UNCHANGED queue
     \/ stage[d] = "detect" /\ queue' = Set(queue, d, TRUE) /\ UNCHANGED stage
  /\ UNCHANGED <<loaded, drivers, data, irq, node, users>>

InitQueue(d) == /\ stage[d] = "queue"
                /\ queue' = Set(queue, d, TRUE) /\ Goes(d, "irq")
                /\ UNCHANGED <<loaded, drivers, data, irq, node, users>>

RequestIrq(d) == /\ stage[d] = "irq"
                 /\ irq' = Set(irq, d, TRUE) /\ Goes(d, "detect")
                 /\ UNCHANGED <<loaded, drivers, data, queue, node, users>>

Detect(d) == /\ stage[d] = "detect"
             /\ Goes(d, "node")
             /\ UNCHANGED <<loaded, drivers, parts, users>>

\* misc_register; programs can open the device from here on.
RegisterNode(d) == /\ stage[d] = "node"
                   /\ node' = Set(node, d, TRUE) /\ Goes(d, "clientdata")
                   /\ UNCHANGED <<loaded, drivers, data, queue, irq, users>>

SetClientdata(d) == /\ stage[d] = "clientdata"
                    /\ Goes(d, "bound")
                    /\ UNCHANGED <<loaded, drivers, parts, users>>

ProbeFails(d) == /\ stage[d] \in {"gpio", "irq", "detect", "node"}
                 /\ Goes(d, "release")
                 /\ UNCHANGED <<loaded, drivers, parts, users>>

\* The driver is unregistered, and takes leave of its devices.
RemoveDevice(d) ==
  /\ stage[d] = "bound"
  /\ \/ d \in SpiDevices /\ loaded = "spi_off"
     \/ d \in I2cDevices /\ loaded = "i2c_off"
  /\ node' = Set(node, d, FALSE) /\ Goes(d, "release")
  /\ UNCHANGED <<loaded, drivers, data, queue, irq, users>>

\* devm: the interrupt, once its handler has ended, ...
FreeIrq(d) == /\ stage[d] = "release" /\ irq[d] /\ ~handler[d]
              /\ irq' = Set(irq, d, FALSE)
              /\ UNCHANGED <<loaded, drivers, stage, data, queue, node, users>>

\* ... and then the memory.
FreeData(d) == /\ stage[d] = "release" /\ ~irq[d]
               /\ data' = Set(data, d, FALSE) /\ queue' = Set(queue, d, FALSE)
               /\ Goes(d, "none")
               /\ UNCHANGED <<loaded, drivers, irq, node, users>>

-----------------------------------------------------------------------------
(* What happens meanwhile.                                                 *)

HandlerRuns(d) == /\ irq[d] /\ ~handler[d] /\ handler' = Set(handler, d, TRUE)
                  /\ UNCHANGED <<loaded, drivers, stage, parts, fd, waits>>

HandlerEnds(d) == /\ handler[d] /\ handler' = Set(handler, d, FALSE)
                  /\ UNCHANGED <<loaded, drivers, stage, parts, fd, waits>>

\* A module that is being unloaded can no longer be got.
Open(d) == /\ node[d] /\ ~fd[d] /\ loaded \notin {"spi_off", "i2c_off"}
           /\ fd' = Set(fd, d, TRUE)
           /\ UNCHANGED <<loaded, drivers, stage, parts, waits, handler>>

WaitIoctl(d) == /\ fd[d] /\ ~waits[d] /\ waits' = Set(waits, d, TRUE)
                /\ UNCHANGED <<loaded, drivers, stage, parts, fd, handler>>

WaitEnds(d) == /\ waits[d] /\ waits' = Set(waits, d, FALSE)
               /\ UNCHANGED <<loaded, drivers, stage, parts, fd, handler>>

Close(d) == /\ fd[d] /\ ~waits[d] /\ fd' = Set(fd, d, FALSE)
            /\ UNCHANGED <<loaded, drivers, stage, parts, waits, handler>>

Device(d) == \/ Alloc(d) \/ ParseGpio(d) \/ InitQueue(d) \/ RequestIrq(d) \/ Detect(d)
             \/ RegisterNode(d) \/ SetClientdata(d) \/ ProbeFails(d)
             \/ RemoveDevice(d) \/ FreeIrq(d) \/ FreeData(d)
             \/ HandlerRuns(d) \/ HandlerEnds(d) \/ Open(d) \/ WaitIoctl(d) \/ WaitEnds(d)
             \/ Close(d)

LNext == \/ AddI2c \/ RegisterSpi \/ RegisterSpiFails \/ Reboot
         \/ Unload \/ UnregisterSpi \/ DeleteI2c
         \/ loaded # "broken" /\ \E d \in Devices : Device(d)

LSpec == LInit /\ [][LNext]_lvars

-----------------------------------------------------------------------------
(* Properties.                                                             *)

\* Nothing is used that is not there yet or is gone: a handler runs on allocated data
\* with an initialised queue, a program that waits has a queue and an interrupt to
\* be woken by, an open file has its device, and when the module is out nobody is in
\* its code and no driver refers to it.
UsedIsThere ==
  /\ \A d \in Devices : /\ handler[d] => data[d] /\ queue[d]
                        /\ waits[d] => queue[d] /\ irq[d]
                        /\ fd[d] => data[d] /\ node[d]
  /\ loaded = "out" => /\ drivers = {}
                       /\ \A d \in Devices : stage[d] = "none" /\ ~fd[d] /\ ~handler[d]

\* "failed to request interrupt GPIO": without its interrupt a device is not to be
\* bound, so that a program can wait on every device it can open.  One without
\* irq-gpios is bound all the same, and has a queue that nobody initialised.
WaitHasQueue == \A d \in Devices : waits[d] => queue[d]
=============================================================================
