\* A run of the tool on well-formed and refused module lists implements StitchSpec.
CONSTANTS
  Configs <- ValidConfigs
  Miscs <- EdgeMiscs
  Maps <- AlignedMaps
  SegNames = {"ICCM", "sram"}
  WriteFails = TRUE
  ExitFlushFails = FALSE
SPECIFICATION Spec
INVARIANT TypeOK
PROPERTY StitchRefinement
