\* A BRINGUP at index 0 stored under a PATH without "bringup": generate_manifest accepts it and generate_fw raises UnboundLocalError.
CONSTANTS
  Configs <- BupPathConfigs
  Miscs <- PlainMiscs
  Maps <- AlignedMaps
  SegNames = {"ICCM", "sram"}
  WriteFails = FALSE
  ExitFlushFails = FALSE
SPECIFICATION Spec
INVARIANT AcceptedLayoutStitched
