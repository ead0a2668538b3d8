------------------------------ MODULE MapCheck ------------------------------
(***************************************************************************)
(* Region-limit checker: map_check() of pse_image_tool.py.  It scans the   *)
(* linker map zephyr.map line by line for the ICCM and DCCM region lines   *)
(* and the _vector_table symbol (where it stops), turns the two lengths    *)
(* into 64KB granules, and exits the process when they need more than 7.   *)
(* A map line is a record [kind, val]: an ICCM or DCCM region line with    *)
(* its length, the _vector_table line with its address, or any other line.*)
(***************************************************************************)
EXTENDS Integers, Sequences, PseFormat

VARIABLES
  pc,         \* program counter of the (single-threaded) tool
  mapLines,   \* the lines of fragments/zephyr.map
  ln,         \* index of the next line the scan reads
  iccmLen,    \* iccm_length
  dccmLen,    \* dccm_length
  entry,      \* entry_point; -1 while unbound
  iccmLimit,  \* Image_Info.iccm_limit
  vectorTbl   \* Image_Info.vector_tbl

mapVars == <<mapLines, ln, iccmLen, dccmLen, entry, iccmLimit, vectorTbl>>

(* The line read, classified as iccm_re, dccm_re and the _vector_table    *)
(* search classify it.                                                     *)
Line == mapLines[ln]

Scanning == pc = "map_check" /\ ln <= Len(mapLines)

(* The line matches iccm_re: remember the ICCM length, go on.              *)
MapMatchIccm ==
  /\ Scanning /\ Line.kind = "ICCM"
  /\ iccmLen' = Line.val
  /\ ln' = ln + 1
  /\ UNCHANGED <<pc, mapLines, dccmLen, entry, iccmLimit, vectorTbl>>

(* The line matches dccm_re: remember the DCCM length, go on.              *)
MapMatchDccm ==
  /\ Scanning /\ Line.kind = "DCCM"
  /\ dccmLen' = Line.val
  /\ ln' = ln + 1
  /\ UNCHANGED <<pc, mapLines, iccmLen, entry, iccmLimit, vectorTbl>>

(* The line holds _vector_table: take its address and stop the scan.       *)
MapMatchVector ==
  /\ Scanning /\ Line.kind = "VEC"
  /\ entry' = Line.val
  /\ ln' = Len(mapLines) + 1
  /\ UNCHANGED <<pc, mapLines, iccmLen, dccmLen, iccmLimit, vectorTbl>>

MapSkipLine ==
  /\ Scanning /\ Line.kind = "OTHER"
  /\ ln' = ln + 1
  /\ UNCHANGED <<pc, mapLines, iccmLen, dccmLen, entry, iccmLimit, vectorTbl>>

Scanned == pc = "map_check" /\ ln > Len(mapLines)

(* More granules than the hardware has: os._exit(1).                       *)
MapExceedsBudget ==
  /\ Scanned
  /\ Granules(iccmLen) + Granules(dccmLen) > CCM_GRANULES
  /\ pc' = "exited"
  /\ UNCHANGED mapVars

(* Within budget: record the ICCM granules and the vector table address.   *)
MapWithinBudget ==
  /\ Scanned
  /\ Granules(iccmLen) + Granules(dccmLen) <= CCM_GRANULES
  /\ entry # -1
  /\ iccmLimit' = Granules(iccmLen)
  /\ vectorTbl' = entry
  /\ pc' = "seg_info"
  /\ UNCHANGED <<mapLines, ln, iccmLen, dccmLen, entry>>

(* Within budget, but no _vector_table line was found: reading the unbound *)
(* entry_point raises UnboundLocalError.                                   *)
MapNoVector ==
  /\ Scanned
  /\ Granules(iccmLen) + Granules(dccmLen) <= CCM_GRANULES
  /\ entry = -1
  /\ pc' = "crashed"
  /\ UNCHANGED mapVars

Next ==
  \/ MapMatchIccm \/ MapMatchDccm \/ MapMatchVector \/ MapSkipLine
  \/ MapExceedsBudget \/ MapWithinBudget \/ MapNoVector

=============================================================================
