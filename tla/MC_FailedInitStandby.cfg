CONSTANTS
    InitRegs <- MCPowerOnRegs
    RawSamples <- MCRawSamples
    Faults = TRUE
SPECIFICATION Spec
INVARIANT FailedInitStandby
\* A failed adxl345_device_init panics probe, after which nothing calls the device.
CHECK_DEADLOCK FALSE
