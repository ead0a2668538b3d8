\* A 0x48000-byte ICCM with a 0x30000-byte DCCM needs 8 granules but passes map_check.
CONSTANTS
  Configs <- ValidConfigs
  Miscs <- PlainMiscs
  Maps <- UnalignedMaps
  SegNames = {"ICCM", "sram"}
  WriteFails = FALSE
  ExitFlushFails = FALSE
SPECIFICATION Spec
INVARIANT CcmBudgetEnforced
