--------------------------- MODULE ZephyrImageParse ---------------------------
(***************************************************************************)
(* Segment map deriver: zephyr_image_parse.py.  It reads the memory        *)
(* regions of zephyr.map, runs readelf -l on zephyr.elf, reads the program *)
(* headers and the section-to-segment lines of that dump, folds every      *)
(* segment into the regions that cover it, and for each region writes a   *)
(* "name 0xstart" line to seg_start.txt and runs objcopy to extract the    *)
(* region's sections into fragments/<name>.bin.                            *)
(*                                                                         *)
(* Inputs: Maps, the region declarations of possible zephyr.map files (in *)
(* file order; other lines never match memory_re), and Elfs, the program  *)
(* headers of possible zephyr.elf files.  A program header is             *)
(* [phy, fsz, secs]: its PhysAddr, its FileSiz, and whether readelf lists  *)
(* any section for it (a segment without sections prints an empty mapping  *)
(* line, which map_re does not match).  A section list is abstracted to   *)
(* the index of the segment it belongs to.                                 *)
(***************************************************************************)
EXTENDS Integers, Sequences, FiniteSets
LOCAL SE == INSTANCE SequencesExt

CONSTANTS Maps, Elfs

VARIABLES
  pc,
  regions,    \* the region lines of zephyr.map
  segs,       \* the program headers of zephyr.elf
  mi,         \* index of the next map line
  memory,     \* memory: [name, origin, length] in file order
  dump,       \* the lines readelf wrote to segments.txt
  di,         \* index of the next line of segments.txt
  fsize,      \* fsize
  phyAddr,    \* phy_addr
  sections,   \* sections: one entry per matched mapping line
  n,          \* the fold's loop index (1-based; the code's n is n - 1)
  binDic,     \* bin_dic and bin_start_dic, in insertion order:
              \*   [name, sel (sequence of section lists), start]
  wi,         \* index of the next key of bin_dic to write
  segStart,   \* lines written to seg_start.txt: [name, start]
  frag        \* fragments/<name>.bin: [st, sel], st in {"absent","stale","new"}

zpVars == <<pc, regions, segs, mi, memory, dump, di, fsize, phyAddr, sections, n,
            binDic, wi, segStart, frag>>

(* The state each phase of the script works on.                            *)
mapVars   == <<regions, segs, mi, memory>>
dumpVars  == <<dump, di, fsize, phyAddr, sections>>
foldVars  == <<n, binDic>>
writeVars == <<wi, segStart, frag>>

L2SRAM   == "L2SRAM"
Absent   == [st |-> "absent", sel |-> <<>>]
Stale    == [st |-> "stale", sel |-> <<>>]

(* bin_dic key of a region: 'sram' for L2SRAM, else the region's name.    *)
OutBin(name) == IF name = L2SRAM THEN "sram" ELSE name

(* key.lower(), on the region names memory_re can match.                   *)
Lower == [x \in {"ICCM", "DCCM", "SRAM", "AON", "sram"} |->
            CASE x = "ICCM" -> "iccm" [] x = "DCCM" -> "dccm"
              [] x = "AON" -> "aon" [] OTHER -> "sram"]

(* The fragment files a run can touch: fragments/<key.lower()>.bin.        *)
FragNames == UNION {{Lower[OutBin(r.name)] : r \in SE!ToSet(m)} : m \in Maps}

(* A program header line, as ph_re reads it: PhyAddr and FileSiz.         *)
PhLine(h) == [kind |-> "ph", phy |-> h.phy, fsz |-> h.fsz, sel |-> 0]

(* A section-to-segment mapping line of segment j that map_re matches     *)
(* (after rstrip, a line without section names does not match).           *)
MapLine(j) == [kind |-> "sec", phy |-> 0, fsz |-> 0, sel |-> j]

(* readelf -l: all program header lines, then the section-to-segment       *)
(* mapping, one line per header.                                           *)
DumpOf(s) ==
  [j \in 1..Len(s) |-> PhLine(s[j])]
  \o SE!FoldLeft(LAMBDA acc, j : IF s[j].secs THEN Append(acc, MapLine(j))
                                              ELSE acc,
                 <<>>, [j \in 1..Len(s) |-> j])

Init ==
  /\ regions \in Maps /\ segs \in Elfs
  /\ pc = "map" /\ mi = 1 /\ memory = <<>>
  /\ dump = <<>> /\ di = 1 /\ fsize = <<>> /\ phyAddr = <<>> /\ sections = <<>>
  /\ n = 2 /\ binDic = <<>> /\ wi = 1 /\ segStart = <<>>
  /\ frag \in [FragNames -> {Absent, Stale}]

-----------------------------------------------------------------------------
(* The memory-region loop over zephyr.map.                                 *)
InMap == pc = "map" /\ mi <= Len(regions)
R     == regions[mi]

(* Mutant: regions deduplicated by name instead of origin.                 *)
KnownByName(r) == \E k \in 1..Len(memory) : memory[k].name = r.name

(* A region already in memory at the same origin.                          *)
Known(r) == \E k \in 1..Len(memory) : memory[k].origin = r.origin

ZpRegionZero ==
  /\ InMap /\ R.length = 0
  /\ mi' = mi + 1
  /\ UNCHANGED <<pc, regions, segs, memory,
                 dumpVars, foldVars, writeVars>>

ZpRegionDup ==
  /\ InMap /\ R.length # 0 /\ Known(R)
  /\ mi' = mi + 1
  /\ UNCHANGED <<pc, regions, segs, memory,
                 dumpVars, foldVars, writeVars>>

ZpRegionAdd ==
  /\ InMap /\ R.length # 0 /\ ~Known(R)
  /\ memory' = Append(memory, R)
  /\ mi' = mi + 1
  /\ UNCHANGED <<pc, regions, segs,
                 dumpVars, foldVars, writeVars>>

(* readelf -l writes segments.txt.                                         *)
ZpReadelf ==
  /\ pc = "map" /\ mi > Len(regions)
  /\ dump' = DumpOf(segs)
  /\ pc' = "dump"
  /\ UNCHANGED <<mapVars, di, fsize, phyAddr, sections, foldVars, writeVars>>

(* readelf exits with an error (an unreadable or truncated zephyr.elf): it *)
(* writes only to stderr, Result is never looked at, and the scan reads   *)
(* the empty segments.txt that open(..., 'w+') left.                        *)
ZpReadelfFails ==
  /\ pc = "map" /\ mi > Len(regions)
  /\ dump' = <<>>
  /\ pc' = "dump"
  /\ UNCHANGED <<mapVars, di, fsize, phyAddr, sections, foldVars, writeVars>>

(* ZEPHYR_SDK_INSTALL_DIR unset (None + str raises TypeError) or readelf  *)
(* not found (Popen raises FileNotFoundError).                             *)
ZpToolchainMissing ==
  /\ pc = "map" /\ mi > Len(regions)
  /\ pc' = "crashed"
  /\ UNCHANGED <<mapVars, dumpVars, foldVars, writeVars>>

-----------------------------------------------------------------------------
(* The scan of segments.txt.                                               *)
InDump == pc = "dump" /\ di <= Len(dump)
D      == dump[di]

(* Mutant: the program header's size kept, its address dropped.           *)
ZpDumpHeaderNoPhy ==
  /\ InDump /\ D.kind = "ph"
  /\ fsize' = Append(fsize, D.fsz)
  /\ di' = di + 1
  /\ UNCHANGED <<pc, dump, phyAddr, sections, mapVars, foldVars, writeVars>>

ZpDumpHeader ==
  /\ InDump /\ D.kind = "ph"
  /\ fsize' = Append(fsize, D.fsz)
  /\ phyAddr' = Append(phyAddr, D.phy)
  /\ di' = di + 1
  /\ UNCHANGED <<pc, dump, sections,
                 mapVars, foldVars, writeVars>>

ZpDumpSections ==
  /\ InDump /\ D.kind = "sec"
  /\ sections' = Append(sections, D.sel)
  /\ di' = di + 1
  /\ UNCHANGED <<pc, dump, fsize, phyAddr,
                 mapVars, foldVars, writeVars>>

ZpDumpDone ==
  /\ pc = "dump" /\ di > Len(dump)
  /\ pc' = "fold"
  /\ UNCHANGED <<mapVars, dumpVars, foldVars, writeVars>>

-----------------------------------------------------------------------------
(* The fold: for n in range(1, len(fsize)).                                *)
InFold == pc = "fold" /\ n <= Len(fsize)

(* The region's range [origin, origin+length) contains the segment.       *)
Covers(it, phy, fsz) ==
  phy >= it.origin /\ phy + fsz <= it.origin + it.length

(* The regions covering segment n, in memory order (no break).             *)
Covering == SelectSeq(memory, LAMBDA it : Covers(it, phyAddr[n], fsize[n]))

(* Mutant: bin_dic[out_bin] = sections[n], the earlier lists dropped.     *)
AddToOverwrite(bins, key, sel, start) ==
  LET k == SE!SelectInSeq(bins, LAMBDA b : b.name = key) IN
  IF k # 0 THEN [bins EXCEPT ![k].sel = <<sel>>]
  ELSE Append(bins, [name |-> key, sel |-> <<sel>>, start |-> start])

(* bin_dic[out_bin] += sections[n], or a new key with its start address.  *)
AddTo(bins, key, sel, start) ==
  LET k == SE!SelectInSeq(bins, LAMBDA b : b.name = key) IN
  IF k # 0 THEN [bins EXCEPT ![k].sel = Append(@, sel)]
  ELSE Append(bins, [name |-> key, sel |-> <<sel>>, start |-> start])

ZpFoldSkipZero ==
  /\ InFold /\ fsize[n] = 0
  /\ n' = n + 1
  /\ UNCHANGED <<pc, binDic,
                 mapVars, dumpVars, writeVars>>

ZpFoldSegment ==
  /\ InFold /\ fsize[n] # 0
  /\ Covering # <<>> => n <= Len(sections)
  /\ binDic' = SE!FoldLeft(LAMBDA b, it : AddTo(b, OutBin(it.name),
                                               sections[n], phyAddr[n]),
                           binDic, Covering)
  /\ n' = n + 1
  /\ UNCHANGED <<pc, mapVars, dumpVars, writeVars>>

(* sections[n] past the end of sections: IndexError.                       *)
ZpFoldNoSections ==
  /\ InFold /\ fsize[n] # 0
  /\ Covering # <<>> /\ n > Len(sections)
  /\ pc' = "crashed"
  /\ UNCHANGED <<mapVars, dumpVars, foldVars, writeVars>>

ZpFoldDone ==
  /\ pc = "fold" /\ n > Len(fsize)
  /\ pc' = "write"
  /\ UNCHANGED <<mapVars, dumpVars, foldVars, writeVars>>

-----------------------------------------------------------------------------
(* for key in bin_dic.keys(): the seg_start.txt line, then objcopy, whose *)
(* result is never looked at.                                              *)
InWrite == pc = "write" /\ wi <= Len(binDic)

ZpObjcopy ==
  /\ InWrite
  /\ segStart' = Append(segStart, [name |-> binDic[wi].name,
                                   start |-> binDic[wi].start])
  /\ frag' = [frag EXCEPT ![Lower[binDic[wi].name]] =
                [st |-> "new", sel |-> binDic[wi].sel]]
  /\ wi' = wi + 1
  /\ UNCHANGED <<pc, mapVars, dumpVars, foldVars>>

ZpObjcopyFails ==
  /\ InWrite
  /\ segStart' = Append(segStart, [name |-> binDic[wi].name,
                                   start |-> binDic[wi].start])
  /\ wi' = wi + 1
  /\ UNCHANGED <<pc, frag,
                 mapVars, dumpVars, foldVars>>

(* The SDK has readelf but no objcopy: Popen raises FileNotFoundError on  *)
(* the first key, after its seg_start.txt line was written (the file is   *)
(* flushed when the interpreter exits).                                    *)
ZpObjcopyMissing ==
  /\ InWrite /\ wi = 1
  /\ segStart' = Append(segStart, [name |-> binDic[wi].name,
                                   start |-> binDic[wi].start])
  /\ pc' = "crashed"
  /\ UNCHANGED <<wi, frag, mapVars, dumpVars, foldVars>>

(* ls -l ./fragments/ and exit.                                            *)
ZpDone ==
  /\ pc = "write" /\ wi > Len(binDic)
  /\ pc' = "done"
  /\ UNCHANGED <<mapVars, dumpVars, foldVars, writeVars>>

(* The process has ended.                                                  *)
Halted == pc \in {"done", "crashed"} /\ UNCHANGED zpVars

Next ==
  \/ ZpRegionZero \/ ZpRegionDup \/ ZpRegionAdd
  \/ ZpReadelf \/ ZpReadelfFails \/ ZpToolchainMissing
  \/ ZpDumpHeader \/ ZpDumpSections \/ ZpDumpDone
  \/ ZpFoldSkipZero \/ ZpFoldSegment \/ ZpFoldNoSections \/ ZpFoldDone
  \/ ZpObjcopy \/ ZpObjcopyFails \/ ZpObjcopyMissing \/ ZpDone
  \/ Halted

Spec == Init /\ [][Next]_zpVars

-----------------------------------------------------------------------------
(* Type invariant.                                                         *)
Region  == [name : STRING, origin : Nat, length : Nat]
TypeOK ==
  /\ pc \in {"map", "dump", "fold", "write", "done", "crashed"}
  /\ memory \in Seq(Region)
  /\ dump \in {<<>>, DumpOf(segs)}
  /\ Len(fsize) = Len(phyAddr) /\ sections \in Seq(1..Len(segs))
  /\ binDic \in Seq([name : STRING, sel : Seq(1..Len(segs)), start : Nat])
  /\ frag \in [FragNames -> [st : {"absent", "stale", "new"},
                             sel : Seq(1..Len(segs))]]

(* The region table (spec 2, MemoryRegion): no zero-length region, no two *)
(* regions at one origin, and each region kept is the first nonzero       *)
(* declaration of its origin in zephyr.map.                                *)
RegionTableWellFormed ==
  /\ \A k \in 1..Len(memory) : memory[k].length # 0
  /\ \A k, l \in 1..Len(memory) : k # l => memory[k].origin # memory[l].origin
  /\ \A j \in 1..mi - 1 :
       regions[j].length # 0 =>
         \E k \in 1..Len(memory) :
           /\ memory[k].origin = regions[j].origin
           /\ \E i \in 1..j : memory[k] = regions[i]

(* Spec 4.1: when the fold is over, every byte of a nonzero segment read *)
(* from segments.txt that lies in a region is extracted: it lies in a      *)
(* segment whose sections are in some region's selector list.  The fold   *)
(* starts at header 1 and never files header 0 itself, and it appends to  *)
(* a key's list once per segment, so this rests on what the linker puts   *)
(* in header 0 and on every later segment reaching its key.                *)
EverySegmentExtracted ==
  pc \in {"write", "done"} =>
    \A i \in 1..Len(fsize) :
      (fsize[i] > 0 /\ \E r \in SE!ToSet(memory) :
                          Covers(r, phyAddr[i], fsize[i]))
        => \E k \in 1..Len(binDic) : \E j \in SE!ToSet(binDic[k].sel) :
             /\ segs[j].phy <= phyAddr[i]
             /\ phyAddr[i] + fsize[i] <= segs[j].phy + segs[j].fsz

(* Spec 4.1 ("the first region whose address range fully contains it"):   *)
(* no segment's sections are extracted into two region binaries.          *)
SegmentInOneRegion ==
  \A j \in 1..Len(segs) :
    Cardinality({k \in 1..Len(binDic) : j \in SE!ToSet(binDic[k].sel)}) <= 1

(* Spec 6 (extraction failures must be fatal): when the script ends       *)
(* normally, every region in seg_start.txt has a binary freshly extracted *)
(* with exactly that region's sections.                                    *)
FragmentsMatchTable ==
  pc = "done" =>
    \A k \in 1..Len(segStart) :
      frag[Lower[segStart[k].name]] = [st |-> "new", sel |-> binDic[k].sel]

=============================================================================
