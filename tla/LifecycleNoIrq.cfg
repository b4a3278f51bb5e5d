\* The device of the SPI bus has no irq-gpios.
SPECIFICATION LSpec
CONSTANTS
  I2cDevices = {i}
  SpiDevices = {s}
  WithIrq = {i}
INVARIANT WaitHasQueue
