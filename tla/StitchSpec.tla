----------------------------- MODULE StitchSpec -----------------------------
(***************************************************************************)
(* What one stitching run promises (spec sections 3, 4 and 7): given the   *)
(* module configuration with its option bitfield, and the ICCM/DCCM       *)
(* lengths and vector table address found in the linker map, either the  *)
(* configuration is valid and the                                          *)
(* output file becomes exactly the image below (or, after an I/O error,   *)
(* its first bytes), or the run stops with no                              *)
(* output file (or an empty one).  The image is                            *)
(*   CRC32 | header | manifest entries | zeros | bringup | gap | module ...*)
(* where checksum and header fill HEADER_SIZE bytes, module k sits at the  *)
(* offset the pad rule gives it, and the CRC32 covers the header and the   *)
(* first min(bringup size, 0x3000) bringup bytes.                          *)
(***************************************************************************)
EXTENDS Integers, Sequences, PseFormat, OutputFile
LOCAL SE == INSTANCE SequencesExt

CONSTANT SegNames   \* region names of the region-start table

VARIABLES
  config,   \* the <MODULE> elements
  misc,     \* the miscellaneous option bitfield of the configuration
  ccm,      \* [iccm |-> length, dccm |-> length, vec |-> vector address]
  status,   \* "running", "done", "failed" or "stopped"
  out       \* the output file

vars == <<config, misc, ccm, status, out>>

(* Offsets of the spec's layout: 512, then previous offset + pad(size).    *)
Offsets(cfg) ==
  LET off[k \in 1..Len(cfg)] ==
        IF k = 1 THEN HEADER_SIZE ELSE off[k - 1] + PadRef(cfg[k - 1].file)
  IN off

(* Load address: the region start named by the module's own COMP_NAME     *)
(* when LOAD_ADDR is configured and the table has that name.              *)
Load(e) ==
  IF ~e.ld THEN "def" ELSE IF e.name \in SegNames THEN e.name ELSE "cfg"

(* Spec 4.4: the control word holds the option bitfield in its upper half, *)
(* so the bitfield has 16 bits.                                            *)
MiscRepresentable(m) == m \in 0..(2^16 - 1)

Valid(cfg, m, c) ==
  /\ MiscRepresentable(m)
  /\ Len(cfg) \in 1..MAX_MODULES
  /\ cfg[1].name = BUP_NAME
  /\ \A k \in 2..Len(cfg) : cfg[k].name # BUP_NAME /\ cfg[k].path # BupPath
  /\ GranulesRef(c.iccm) + GranulesRef(c.dccm) <= CCM_GRANULES

ExpectedImage(cfg, m, c) ==
  LET n       == Len(cfg)
      off     == Offsets(cfg)
      B       == cfg[1].file
      listed  == SelectSeq([j \in 1..n - 1 |-> j + 1],
                              LAMBDA k : cfg[k].file > 0)
      entries == [j \in 1..Len(listed) |->
                    LET k == listed[j] IN
                    Extent(ManSrc(k, Load(cfg[k]), off[k], cfg[k].file),
                           0, MAN_ENTRY_BYTES)]
      hdr     == <<Extent(HdrSrc(c.vec, m, B, n, GranulesRef(c.iccm)),
                          0, HEADER_DATA_BYTES)>>
                 \o entries
                 \o <<Zeros(HEADER_SIZE - CRC_BYTES - HEADER_DATA_BYTES
                            - MAN_ENTRY_BYTES * Len(entries))>>
      modules == SE!FlattenSeq([j \in 1..n - 1 |->
                    LET k == j + 1 IN
                    <<Zeros(off[k] - off[k - 1] - cfg[k - 1].file),
                      Extent(ModSrc(k), 0, cfg[k].file)>>])
      body    == hdr \o <<Extent(ModSrc(1), 0, B)>> \o modules
      prefix  == IF B > BUP_1ST_STAGE_SIZE THEN BUP_1ST_STAGE_SIZE ELSE B
      crc     == Normalized(Prefix(Normalized(body),
                                   HEADER_SIZE - CRC_BYTES + prefix))
  IN Normalized(<<Extent(CrcSrc(crc), 0, CRC_BYTES)>> \o body)

Init == status = "running" /\ out = NoFile

(* A valid configuration: the image is written.                            *)
Stitch ==
  /\ status = "running" /\ Valid(config, misc, ccm)
  /\ status' = "done"
  /\ out' = [exists |-> TRUE, data |-> ExpectedImage(config, misc, ccm)]
  /\ UNCHANGED <<config, misc, ccm>>

(* Anything else: a fatal diagnostic, and no image.                        *)
Stop ==
  /\ status = "running" /\ ~Valid(config, misc, ccm)
  /\ status' = "stopped"
  /\ out' \in {NoFile, EmptyFile}
  /\ UNCHANGED <<config, misc, ccm>>

(* The first bytes of img, fewer than all of them.                        *)
IncompleteImage(d, img) ==
  Size(d) < Size(img) /\ Normalized(Prefix(img, Size(d))) = d

(* Spec 7: an I/O error while a valid configuration is stitched ends the  *)
(* run with an incomplete output file, which is the start of the image.   *)
Fail ==
  /\ status = "running" /\ Valid(config, misc, ccm)
  /\ status' = "failed"
  /\ out'.exists
  /\ IncompleteImage(out'.data, ExpectedImage(config, misc, ccm))
  /\ UNCHANGED <<config, misc, ccm>>

Next == Stitch \/ Fail \/ Stop

Spec == Init /\ [][Next]_vars

=============================================================================
