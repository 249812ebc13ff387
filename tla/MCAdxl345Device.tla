-------------------------- MODULE MCAdxl345Device --------------------------
(* Model-checking instance of the register model. *)
EXTENDS Adxl345DeviceProofs, TLC

\* Register files the driver may find: the power-on defaults (BW_RATE 0x0A),
\* what another driver may leave (measuring with the Link bit, low power at
\* 100 Hz, left-justified data, interrupts routed to INT2, FIFO in stream
\* mode), and every bit set.
MCInitRegs ==
    { [POWER_CTL |-> 0, INT_ENABLE |-> 0, BW_RATE |-> 10,
       DATA_FORMAT |-> 0, INT_MAP |-> 0, FIFO_CTL |-> 0],
      [POWER_CTL |-> 40, INT_ENABLE |-> 128, BW_RATE |-> 26,
       DATA_FORMAT |-> 4, INT_MAP |-> 255, FIFO_CTL |-> 159],
      [r \in Regs |-> 255] }

\* The power-on register file alone: the device starts in standby.
MCPowerOnRegs ==
    { [POWER_CTL |-> 0, INT_ENABLE |-> 0, BW_RATE |-> 10,
       DATA_FORMAT |-> 0, INT_MAP |-> 0, FIFO_CTL |-> 0] }

\* Raw readings: at rest, both ends of the 13-bit range with a negative
\* value whose high byte is 0xFF, and small values of both signs.
MCRawSamples ==
    { [x |-> 0, y |-> 0, z |-> 0],
      [x |-> -4096, y |-> 4095, z |-> -1],
      [x |-> 1, y |-> -256, z |-> 255] }
=============================================================================
