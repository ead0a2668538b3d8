\* Refused module lists leave an empty output file.
CONSTANTS
  Configs <- ValidConfigs
  Miscs <- PlainMiscs
  Maps <- AlignedMaps
  SegNames = {"ICCM", "sram"}
  WriteFails = FALSE
  ExitFlushFails = FALSE
SPECIFICATION Spec
INVARIANT NoOutputOnReject
