\* zephyr_image_parse.py on every map (zero-length, aliased, overlapping regions) and on dumps whose section lines stay aligned, with readelf and objcopy able to fail or be missing.
SPECIFICATION Spec
CONSTANTS
  Maps <- AllMaps
  Elfs <- AlignedElfs
INVARIANT
  TypeOK
  RegionTableWellFormed
  EverySegmentExtracted
