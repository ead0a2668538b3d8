\* A failed objcopy leaves seg_start.txt naming a region with no fresh binary.
SPECIFICATION Spec
CONSTANTS
  Maps <- PlainMaps
  Elfs <- OrderedElfs
INVARIANT
  FragmentsMatchTable
