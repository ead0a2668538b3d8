\* An empty module binary between the bringup and a nonempty module: generate_manifest accepts the list, and the bringup lands 32 bytes before its code_offset.
CONSTANTS
  Configs <- ZeroSizeConfigs
  Miscs <- PlainMiscs
  Maps <- AlignedMaps
  SegNames = {"ICCM", "sram"}
  WriteFails = FALSE
  ExitFlushFails = FALSE
SPECIFICATION Spec
INVARIANT AcceptedLayoutStitched
