----------------------------- MODULE ImageWriter -----------------------------
(***************************************************************************)
(* Image writer: generate_fw() of pse_image_tool.py, applied to the output *)
(* file main() has opened.  It refuses more than 16 modules, builds the    *)
(* header bytes (header_data) module by module, pads them, checksums them  *)
(* together with the bringup prefix, writes checksum, header and bringup,  *)
(* and then places every other module by truncating the file to the        *)
(* module's code_offset and appending the module's bytes.                  *)
(*                                                                         *)
(* header_data is unbound until the bringup module is met; the empty       *)
(* sequence stands for that, and bupSize = -1 for an unbound n_bringup_sz. *)
(* The checksum is represented by the bytes it was computed over.          *)
(* With WriteFails, any write may raise; generate_fw does not catch it,    *)
(* so the process ends ("io_failed") with what was written so far.         *)
(***************************************************************************)
EXTENDS Integers, Sequences, PseFormat, OutputFile
LOCAL SE == INSTANCE SequencesExt

CONSTANT WriteFails  \* whether a write to the output file may raise OSError

VARIABLES
  pc,
  mods,       \* Image_Info.module_info, with sizes and offsets
  count,      \* Image_Info.module_count
  iccmLimit,  \* Image_Info.iccm_limit
  vectorTbl,  \* Image_Info.vector_tbl
  miscOption, \* Image_Info.misc_option
  wi,         \* loop index, 1-based
  header,     \* header_data
  curSize,    \* cur_size
  bupSize,    \* n_bringup_sz
  crcOver,    \* crc_val, as the bytes it covers
  out,        \* the output file, as generate_fw has written it
  buffered    \* how many of its last bytes are still in f_output's buffer

writerVars == <<wi, header, curSize, bupSize, crcOver, out, buffered>>

(* More than 16 modules: print an error and return.                        *)
FwTooMany ==
  /\ pc = "fw_start" /\ count > MAX_MODULES
  /\ pc' = "rejected"
  /\ UNCHANGED writerVars

(* Mutant: the module limit checked one too late.                         *)
FwStartOffByOne ==
  /\ pc = "fw_start" /\ count <= MAX_MODULES + 1
  /\ pc' = "fw_header"
  /\ wi' = 1 /\ curSize' = 0
  /\ UNCHANGED <<header, bupSize, crcOver, out, buffered>>

FwStart ==
  /\ pc = "fw_start" /\ count <= MAX_MODULES
  /\ pc' = "fw_header"
  /\ wi' = 1 /\ curSize' = 0
  /\ UNCHANGED <<header, bupSize, crcOver, out, buffered>>

InHeaderLoop == pc = "fw_header" /\ wi <= count
M == mods[wi]

(* The PATH contains "bringup" at index 0: start header_data.              *)
FwHeaderBup ==
  /\ InHeaderLoop /\ M.path = BupPath /\ wi = 1
  /\ PackFits(miscOption)
  /\ header' = <<Extent(HdrSrc(vectorTbl, miscOption, M.file, count, iccmLimit),
                        0, HEADER_DATA_BYTES)>>
  /\ bupSize' = M.file
  /\ curSize' = curSize + MAN_ENTRY_BYTES
  /\ wi' = wi + 1
  /\ UNCHANGED <<pc, crcOver, out, buffered>>

(* The same branch with a misc_option outside 0..0xFFFF: struct.pack      *)
(* raises struct.error.                                                    *)
FwHeaderPackError ==
  /\ InHeaderLoop /\ M.path = BupPath /\ wi = 1
  /\ ~PackFits(miscOption)
  /\ pc' = "crashed"
  /\ UNCHANGED writerVars

(* The PATH contains "bringup" at another index: "Bad image table".       *)
FwBadTable ==
  /\ InHeaderLoop /\ M.path = BupPath /\ wi # 1
  /\ pc' = "rejected"
  /\ UNCHANGED writerVars

(* Any other module of nonzero size: append its manifest entry.            *)
FwHeaderEntry ==
  /\ InHeaderLoop /\ M.path # BupPath /\ M.size > 0
  /\ header # <<>>
  /\ header' = Appended(header,
                 Extent(ManSrc(wi, M.load, M.off, M.size), 0, MAN_ENTRY_BYTES))
  /\ curSize' = curSize + MAN_ENTRY_BYTES
  /\ wi' = wi + 1
  /\ UNCHANGED <<pc, bupSize, crcOver, out, buffered>>

(* "header_data +=" before header_data is bound: UnboundLocalError.        *)
FwHeaderUnbound ==
  /\ InHeaderLoop /\ M.path # BupPath /\ M.size > 0
  /\ header = <<>>
  /\ pc' = "crashed"
  /\ UNCHANGED writerVars

(* A module of size 0: no entry, but cur_size still grows.                 *)
FwHeaderSkip ==
  /\ InHeaderLoop /\ M.path # BupPath /\ M.size = 0
  /\ curSize' = curSize + MAN_ENTRY_BYTES
  /\ wi' = wi + 1
  /\ UNCHANGED <<pc, header, bupSize, crcOver, out, buffered>>

HeaderBuilt == pc = "fw_header" /\ wi > count

(* The for-else: zero entries while cur_size < HEADER_SIZE.                *)
PadEntries == IF curSize < HEADER_SIZE
              THEN (HEADER_SIZE - curSize) \div MAN_ENTRY_BYTES ELSE 0

(* The padding loop and the checksum, over the padded header and the      *)
(* first min(n_bringup_sz, 0x3000) bringup bytes.                          *)
PaddedHeader == Appended(header, Zeros(MAN_ENTRY_BYTES * PadEntries))
BupPrefix    == IF bupSize > BUP_1ST_STAGE_SIZE THEN BUP_1ST_STAGE_SIZE ELSE bupSize
CrcOf        == Normalized(Appended(PaddedHeader, Extent(ModSrc(1), 0, BupPrefix)))

(* The f_output.write calls: checksum, header, checksummed bringup prefix, *)
(* and the rest of the bringup when it is longer than 0x3000 bytes.        *)
HeaderWrites ==
  << <<Extent(CrcSrc(CrcOf), 0, CRC_BYTES)>>,
     PaddedHeader,
     <<Extent(ModSrc(1), 0, BupPrefix)>> >>
  \o IF bupSize > BUP_1ST_STAGE_SIZE
     THEN << <<Extent(ModSrc(1), BupPrefix, bupSize - BupPrefix)>> >>
     ELSE <<>>

(* The first j writes applied to the file.                                 *)
HeaderWritten(d, j) == Concat(d, SE!FlattenSeq(SubSeq(HeaderWrites, 1, j)))

FwHeaderCrcBup ==
  /\ HeaderBuilt /\ header # <<>>
  /\ header' = PaddedHeader
  /\ curSize' = curSize + MAN_ENTRY_BYTES * PadEntries
  /\ crcOver' = CrcOf
  /\ out' = [out EXCEPT !.data = HeaderWritten(@, Len(HeaderWrites))]
  /\ buffered' = BufferedAfterWrites(buffered, HeaderWrites)
  /\ wi' = 1
  /\ pc' = "fw_modules"
  /\ UNCHANGED <<bupSize>>

(* One of these writes raises (disk full, device error): the writes     *)
(* before it are in the file, and the OSError ends the process.            *)
FwHeaderWriteFails ==
  /\ WriteFails /\ HeaderBuilt /\ header # <<>>
  /\ \E j \in 0..Len(HeaderWrites) - 1 : out' = [out EXCEPT !.data = HeaderWritten(@, j)]
  /\ pc' = "io_failed"
  /\ UNCHANGED <<wi, header, curSize, bupSize, crcOver, buffered>>

(* header_data never bound: the padding or the crc32 call raises.          *)
FwHeaderNeverBound ==
  /\ HeaderBuilt /\ header = <<>>
  /\ pc' = "crashed"
  /\ UNCHANGED writerVars

InModuleLoop == pc = "fw_modules" /\ wi <= count

(* truncate(code_offset), which flushes the buffer, seek to the end,       *)
(* append the module's bytes.                                              *)
FwWriteModule ==
  /\ InModuleLoop /\ M.name # BUP_NAME
  /\ out' = [out EXCEPT !.data =
               Appended(Truncated(@, M.off), Extent(ModSrc(wi), 0, M.size))]
  /\ buffered' = BufferedAfter(0, M.size)
  /\ wi' = wi + 1
  /\ UNCHANGED <<pc, header, curSize, bupSize, crcOver>>

(* The placement of module wi raises: the flush in truncate fails and the *)
(* buffered bytes are lost, or truncate fails after it, or open() of the   *)
(* binary fails after the truncate, or the write stops after part of the   *)
(* module's bytes.                                                         *)
FailedPlacements(d) ==
  {Prefix(d, Size(d) - buffered), d} \cup {Appended(Truncated(d, M.off), Extent(ModSrc(wi), 0, w)) :
            w \in {0, M.size \div 2}}

FwWriteModuleFails ==
  /\ WriteFails /\ InModuleLoop /\ M.name # BUP_NAME
  /\ \E d \in FailedPlacements(out.data) : out' = [out EXCEPT !.data = d]
  /\ pc' = "io_failed"
  /\ UNCHANGED <<wi, header, curSize, bupSize, crcOver, buffered>>

(* A module named BRINGUP is not written again.                            *)
FwSkipBup ==
  /\ InModuleLoop /\ M.name = BUP_NAME
  /\ wi' = wi + 1
  /\ UNCHANGED <<pc, header, curSize, bupSize, crcOver, out, buffered>>

(* generate_fw returns to main.                                            *)
FwDone ==
  /\ pc = "fw_modules" /\ wi > count
  /\ pc' = "returned"
  /\ UNCHANGED writerVars

Next ==
  \/ FwTooMany \/ FwStart
  \/ FwHeaderBup \/ FwHeaderPackError \/ FwBadTable \/ FwHeaderEntry \/ FwHeaderUnbound
  \/ FwHeaderSkip \/ FwHeaderCrcBup \/ FwHeaderWriteFails \/ FwHeaderNeverBound
  \/ FwWriteModule \/ FwWriteModuleFails \/ FwSkipBup \/ FwDone

=============================================================================
