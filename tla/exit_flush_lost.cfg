\* The flush when f_out is finalized fails: the run exits normally and the stored checksum matches a file without the last module.
CONSTANTS
  Configs <- TwoModuleConfigs
  Miscs <- PlainMiscs
  Maps <- AlignedMaps
  SegNames = {"ICCM", "sram"}
  WriteFails = FALSE
  ExitFlushFails = TRUE
SPECIFICATION Spec
INVARIANT VerifiedImageComplete
