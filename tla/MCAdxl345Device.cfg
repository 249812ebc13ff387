\* The register protocol with transaction failures, from three register files.
CONSTANTS
    InitRegs <- MCInitRegs
    RawSamples <- MCRawSamples
    Faults = TRUE
SPECIFICATION Spec
INVARIANTS
    TypeOK
    ConfigApplied
    PowerContract
    IInv
PROPERTIES
    CallsRefined
    DecodeExact
\* A failed adxl345_device_init panics probe, after which nothing calls the device.
CHECK_DEADLOCK FALSE
