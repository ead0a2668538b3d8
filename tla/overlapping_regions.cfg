\* A segment inside two overlapping regions is extracted twice.
SPECIFICATION Spec
CONSTANTS
  Maps <- OverlapMaps
  Elfs <- OrderedElfs
INVARIANT
  SegmentInOneRegion
