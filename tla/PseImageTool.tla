----------------------------- MODULE PseImageTool -----------------------------
(***************************************************************************)
(* One run of pse_image_tool.py: main() calls map_check, get_seg_info,     *)
(* load_config and generate_manifest, opens the output file when the      *)
(* layout is accepted, and calls generate_fw.  The components are the      *)
(* modules MapCheck, ConfigLoader, ManifestLayout and ImageWriter; they    *)
(* share the program counter and the image information.  The inputs (the  *)
(* XML module list with the binaries' sizes, and the linker map) are      *)
(* chosen in Init from the sets of possible inputs Configs and Maps.       *)
(***************************************************************************)
EXTENDS Integers, Sequences, PseFormat, OutputFile

CONSTANTS
  Configs,    \* possible <MODULE> lists: sequences of [path, name, ld, file]
  Miscs,      \* possible values of the <MISC> element
  Maps,       \* possible zephyr.map contents: sequences of [kind, val]
  SegNames,   \* region names in seg_start.txt
  WriteFails,    \* whether writes to the output file may raise OSError
  ExitFlushFails \* whether the flush when f_out is finalized may fail

VARIABLES
  pc, config, miscXml, mapLines,
  ln, iccmLen, dccmLen, entry,          \* map_check
  iccmLimit, vectorTbl, miscOption,     \* Image_Info
  segTbl, ci, lastName, mods, count,    \* get_seg_info, load_config
  mi, curOff, bupFound,                 \* generate_manifest
  wi, header, curSize, bupSize, crcOver, out,  \* generate_fw
  buffered                                     \* f_out's buffer

vars == <<pc, config, miscXml, mapLines, ln, iccmLen, dccmLen, entry,
          iccmLimit, vectorTbl, miscOption, segTbl, ci, lastName, mods,
          count, mi, curOff, bupFound, wi, header, curSize, bupSize,
          crcOver, out, buffered>>

Map    == INSTANCE MapCheck
Loader == INSTANCE ConfigLoader
Layout == INSTANCE ManifestLayout
Writer == INSTANCE ImageWriter

Terminal == {"done", "rejected", "exited", "crashed", "io_failed"}

Init ==
  /\ config \in Configs
  /\ miscXml \in Miscs
  /\ mapLines \in Maps
  /\ pc = "map_check"
  /\ ln = 1 /\ iccmLen = 0 /\ dccmLen = 0 /\ entry = -1
  /\ iccmLimit = 0 /\ vectorTbl = 0 /\ miscOption = 0
  /\ segTbl = {} /\ ci = 1 /\ lastName = Unbound /\ mods = <<>> /\ count = 0
  /\ mi = 1 /\ curOff = HEADER_SIZE /\ bupFound = FALSE
  /\ wi = 1 /\ header = <<>> /\ curSize = 0 /\ bupSize = -1
  /\ crcOver = <<>> /\ out = NoFile /\ buffered = 0

(* The state the pipeline's own steps leave alone.                         *)
MainFrame == UNCHANGED <<config, miscXml, mapLines, ln, iccmLen, dccmLen,
                         entry, iccmLimit, vectorTbl, miscOption, segTbl, ci,
                         lastName, mods, count, mi, curOff, bupFound, wi,
                         header, curSize, bupSize, crcOver, buffered>>

(* generate_manifest found the bringup at index 0: open(output, 'wb').    *)
MainOpenOutput ==
  /\ Layout!ManifestDone /\ bupFound
  /\ out' = EmptyFile
  /\ pc' = "fw_start"
  /\ MainFrame

(* "bringup.bin is not found or template xml corrupted": no output.      *)
MainNoBringup ==
  /\ Layout!ManifestDone /\ ~bupFound
  /\ pc' = "rejected"
  /\ MainFrame /\ UNCHANGED out

(* generate_fw has returned.  "f_out.close" names the method without      *)
(* calling it, so the file is closed, and its buffer flushed, only when    *)
(* the file object is finalized as main returns.                           *)
MainExit ==
  /\ pc = "returned"
  /\ pc' = "done"
  /\ MainFrame /\ UNCHANGED out

(* That flush fails.  An exception in a finalizer is reported as           *)
(* "Exception ignored" and the process still exits with status 0; the     *)
(* buffered bytes, or some of them, never reach the file.                  *)
MainExitFlushFails ==
  /\ ExitFlushFails /\ pc = "returned" /\ buffered > 0
  /\ \E kept \in {0, buffered \div 2} :
       out' = [out EXCEPT !.data = Prefix(@, Size(@) - buffered + kept)]
  /\ pc' = "done"
  /\ MainFrame

(* The process has ended.                                                  *)
Halted == pc \in Terminal /\ UNCHANGED vars

(* What each component leaves alone.                                       *)
MapFrame    == UNCHANGED <<config, miscXml, miscOption, segTbl, ci, lastName,
                           mods, count, mi, curOff, bupFound, wi, header,
                           curSize, bupSize, crcOver, out, buffered>>
LoaderFrame == UNCHANGED <<mapLines, ln, iccmLen, dccmLen, entry, iccmLimit,
                           vectorTbl, mi, curOff, bupFound, wi, header,
                           curSize, bupSize, crcOver, out, buffered>>
LayoutFrame == UNCHANGED <<config, miscXml, miscOption, mapLines, ln, iccmLen,
                           dccmLen, entry, iccmLimit, vectorTbl, segTbl, ci,
                           lastName, wi, header, curSize, bupSize, crcOver,
                           out, buffered>>
WriterFrame == UNCHANGED <<config, miscXml, miscOption, mapLines, ln, iccmLen,
                           dccmLen, entry, iccmLimit, vectorTbl, segTbl, ci,
                           lastName, mods, count, mi, curOff, bupFound>>

Next ==
  \/ Map!MapMatchIccm /\ MapFrame
  \/ Map!MapMatchDccm /\ MapFrame
  \/ Map!MapMatchVector /\ MapFrame
  \/ Map!MapSkipLine /\ MapFrame
  \/ Map!MapExceedsBudget /\ MapFrame
  \/ Map!MapWithinBudget /\ MapFrame
  \/ Map!MapNoVector /\ MapFrame
  \/ Loader!ReadSegInfo /\ LoaderFrame
  \/ Loader!LoadMisc /\ LoaderFrame
  \/ Loader!LoadModule /\ LoaderFrame
  \/ Loader!LoadConfigDone /\ LoaderFrame
  \/ Layout!ManifestEntry /\ LayoutFrame
  \/ MainOpenOutput
  \/ MainNoBringup
  \/ Writer!FwTooMany /\ WriterFrame
  \/ Writer!FwStart /\ WriterFrame
  \/ Writer!FwHeaderBup /\ WriterFrame
  \/ Writer!FwHeaderPackError /\ WriterFrame
  \/ Writer!FwBadTable /\ WriterFrame
  \/ Writer!FwHeaderEntry /\ WriterFrame
  \/ Writer!FwHeaderUnbound /\ WriterFrame
  \/ Writer!FwHeaderSkip /\ WriterFrame
  \/ Writer!FwHeaderCrcBup /\ WriterFrame
  \/ Writer!FwHeaderWriteFails /\ WriterFrame
  \/ Writer!FwHeaderNeverBound /\ WriterFrame
  \/ Writer!FwWriteModule /\ WriterFrame
  \/ Writer!FwWriteModuleFails /\ WriterFrame
  \/ Writer!FwSkipBup /\ WriterFrame
  \/ Writer!FwDone /\ WriterFrame
  \/ MainExit
  \/ MainExitFlushFails
  \/ Halted

Spec == Init /\ [][Next]_vars

-----------------------------------------------------------------------------
(* Type invariant.                                                         *)
Elem == [path : {BupPath, OtherPath}, name : STRING, ld : BOOLEAN, file : Nat]

TypeOK ==
  /\ pc \in Terminal \cup {"map_check", "seg_info", "parse_config",
                           "load_config", "gen_manifest", "fw_start",
                           "fw_header", "fw_modules", "returned"}
  /\ iccmLimit \in 0..CCM_GRANULES
  /\ mods \in Seq([name : STRING, path : {BupPath, OtherPath},
                   load : STRING, file : Nat, size : Nat, off : Nat])
  /\ count \in Nat /\ curOff >= HEADER_SIZE /\ bupFound \in BOOLEAN
  /\ bupSize \in Int /\ curSize \in 0..HEADER_SIZE
  /\ out.exists \in BOOLEAN /\ buffered \in 0..BUFFER_SIZE
  /\ \A i \in DOMAIN out.data : out.data[i].len > 0
  /\ \A i \in 1..Len(out.data) - 1 : ~Continues(out.data[i], out.data[i + 1])

-----------------------------------------------------------------------------
(* The abstract run the program should implement.  Its inputs are the     *)
(* configuration and what the map declares; its status and output are     *)
(* observed only once the process has ended.                               *)
MapVal(kind) == LET ls == {mapLines[i] : i \in DOMAIN mapLines}
                IN (CHOOSE l \in ls : l.kind = kind).val

MapCcm == [iccm |-> MapVal("ICCM"), dccm |-> MapVal("DCCM"), vec |-> MapVal("VEC")]

Abstract == INSTANCE StitchSpec WITH
  misc   <- miscXml,
  ccm    <- MapCcm,
  status <- CASE pc = "done" -> "done"
              [] pc = "io_failed" -> "failed"
              [] pc \in Terminal \ {"done"} -> "stopped"
              [] OTHER -> "running",
  out    <- IF pc \in Terminal
            THEN out
            ELSE NoFile

(* Every run of the tool is a run of StitchSpec: on a valid configuration  *)
(* the output file is exactly the specified image, checksum included, or, *)
(* after a failed write, the start of that image; otherwise the run stops  *)
(* without an image.                                                       *)
StitchRefinement == Abstract!Spec

-----------------------------------------------------------------------------
(* A reader's check of an output file: the first four bytes are a CRC32  *)
(* (StoredCovers: the bytes it was computed over), and the bytes after it *)
(* that it covers, the header and as many bringup bytes as the header's   *)
(* bringup size says, are all there and are those bytes.                  *)
HasStoredCrc(d)  == Size(d) >= CRC_BYTES
                    /\ Normalized(Prefix(d, CRC_BYTES))[1].src.k = "crc"
StoredCovers(d)  == Normalized(Prefix(d, CRC_BYTES))[1].src.val
CoveredPresent(d) == Size(d) >= CRC_BYTES + Size(StoredCovers(d))
CoveredBytes(d)  == Normalized(Bytes(d, CRC_BYTES, CRC_BYTES + Size(StoredCovers(d))))

StoredChecksumMatches(d) ==
  HasStoredCrc(d) /\ CoveredPresent(d) /\ CoveredBytes(d) = StoredCovers(d)

(* generate_fw writes the CRC32 of the header and the bringup prefix, then *)
(* places every later module by truncating the file to its code_offset.   *)
(* A checksum in the file is never contradicted: at every step, on every  *)
(* input and whichever write, truncate or final flush fails, a file that  *)
(* holds a stored checksum and all the bytes it covers holds exactly the  *)
(* bytes it was computed over.  A failure can leave the file too short to *)
(* verify, but no truncate may cut into checksummed bytes and extend the  *)
(* file past them again.                                                   *)
ChecksumNeverContradicted ==
  out.exists /\ HasStoredCrc(out.data) /\ CoveredPresent(out.data) =>
    CoveredBytes(out.data) = StoredCovers(out.data)

(* Spec 7: I/O errors are fatal, and a caller verifies the stored          *)
(* checksum before trusting an output file.  So when the tool exits with   *)
(* status 0 and the stored checksum of its output matches, the output is  *)
(* the specified image.                                                    *)
VerifiedImageComplete ==
  pc = "done" /\ out.exists /\ StoredChecksumMatches(out.data) =>
    out.data = Abstract!ExpectedImage(config, miscXml, MapCcm)

-----------------------------------------------------------------------------
(* map_check: once the run goes past the map check, ICCM and DCCM fit in   *)
(* the 7 granules the hardware has, counting granules as the spec does     *)
(* (ceil(length / 0x10000)), and the ICCM limit put in the header is that  *)
(* count for the ICCM.                                                     *)
CcmBudgetEnforced ==
  pc \notin {"map_check", "exited"} =>
    /\ GranulesRef(MapVal("ICCM")) + GranulesRef(MapVal("DCCM")) <= CCM_GRANULES
    /\ iccmLimit = GranulesRef(MapVal("ICCM"))

(* A module list the tool refuses leaves no output file behind.            *)
NoOutputOnReject ==
  pc \in {"rejected", "exited"} => ~out.exists

(* A layout generate_manifest accepts (BRINGUP at index 0) and generate_fw *)
(* does not refuse is stitched: generate_fw does not raise an exception,  *)
(* and when it is done every module of nonzero size, bringup included,    *)
(* has its bytes in the output file at the code_offset its manifest entry *)
(* gives.                                                                  *)
AcceptedLayoutStitched ==
  pc \in Terminal \ {"rejected", "io_failed"} /\ bupFound =>
    /\ pc = "done"
    /\ \A k \in 1..count :
         mods[k].size > 0 => HoldsAt(out.data, mods[k].off, ModSrc(k), mods[k].size)

(* load_config: a module's load address is replaced only by the region     *)
(* start named by that module's own COMP_NAME.                             *)
LoadFromOwnName ==
  \A k \in 1..Len(mods) : mods[k].load = Abstract!Load(config[k])

=============================================================================
