\* On every input, including empty binaries, a bringup whose PATH lacks 'bringup', a map without _vector_table, failing writes and a failing final flush, no truncate cuts into checksummed bytes.
CONSTANTS
  Configs <- AllConfigs
  Miscs <- EdgeMiscs
  Maps <- LayoutMaps
  SegNames = {"ICCM", "sram"}
  WriteFails = TRUE
  ExitFlushFails = TRUE
SPECIFICATION Spec
INVARIANT ChecksumNeverContradicted
