\* 160 MHz, both sets of waits, both polarities. At 115200 baud the first two
\* latencies are too short for the waits. The later first
\* interrupt is too late for the first byte at 115200 baud.
CONSTANTS
    CpuFreq = 160000000
    BaudRates = {9600, 115200}
    Inverses = {FALSE, TRUE}
    Values = {0, 1, 85, 128, 254, 255}
    FirstLatency = {600, 1800}
    Latency = {200, 600, 900, 1050, 1200}
    TxExtra = {0, 20}
    RxExtra = {0, 20}
    Gaps = {0, 60}
SPECIFICATION Spec
INVARIANTS TypeOK NoGarble
PROPERTIES SampleInSlot EveryFrameHeard
