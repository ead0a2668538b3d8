----------------------------- MODULE PseFormat -----------------------------
(***************************************************************************)
(* Constants and pure arithmetic of the PSE firmware image format, as      *)
(* fixed in src/tools/pse_image_tool/pse_image_tool.py, and the pieces of  *)
(* an image, each described by where its bytes come from.                  *)
(***************************************************************************)
EXTENDS Integers, Sequences, Bitwise

HEADER_SIZE        == 512      \* 0x200: offset of the bringup module
MAN_ENTRY_BYTES    == 32       \* struct "4s4s6I"
HEADER_DATA_BYTES  == 28       \* struct "I" + "HH" + "5I"
CRC_BYTES          == 4        \* struct "I" of the CRC32
BUP_1ST_STAGE_SIZE == 12288    \* 0x3000: checksummed bringup prefix
MAX_MODULES        == 16
CCM_GRANULES       == 7        \* ICCM + DCCM granules the hardware has

BUP_NAME == "BRINGUP"          \* comp_name of the bringup module
DEF_NAME == "XXX"              \* PSE_MAN_DEF_COMP_NAME
NoName   == "none"             \* a <MODULE> without a COMP_NAME element
Unbound  == "unbound"          \* a Python local not yet assigned

(* Whether a module's PATH contains the substring "bringup".               *)
BupPath   == "bringup"
OtherPath == "other"

(***************************************************************************)
(* A byte source: every run of bytes in the header or the output file is  *)
(* an extent of one source.  k is the kind; mod the module index (1-based, *)
(* 0 when not a module); val what the bytes encode.                        *)
(***************************************************************************)
Src(k, m, v) == [k |-> k, mod |-> m, val |-> v]
ZeroSrc      == Src("zero", 0, <<>>)
HdrSrc(vec, misc, bupSz, cnt, iccm) ==
  Src("hdr", 0, <<vec, misc, bupSz, cnt - 1, iccm>>)
ManSrc(m, load, off, sz)      == Src("man", m, <<load, off, sz>>)
ModSrc(m)                     == Src("mod", m, <<>>)
CrcSrc(covered)               == Src("crc", 0, covered)

Extent(s, o, l) == [src |-> s, off |-> o, len |-> l]
Zeros(n)        == Extent(ZeroSrc, 0, n)

(* struct.pack("5I", ...) accepts the header fields: misc_option and      *)
(* last_dword = (count - 1) | iccm_limit << 8 | misc_option << 16 must lie *)
(* in 0..2^32 - 1.  count - 1 < 16 and iccm_limit <= 7 stay in the low 16  *)
(* bits, so this holds exactly when misc_option is in 0..2^16 - 1.         *)
PackFits(misc) == 0 <= misc /\ misc < 65536

(* Mutant: the low nibble rounded down without the extra 16 bytes.        *)
NextOffsetRoundDown(curOff, moduleSz) ==
  curOff + (moduleSz - (moduleSz & 15))

(* Rounding of generate_manifest: the next module's offset.  The code's    *)
(* "& 0xfffffff0" clears the low nibble; binaries are far below 2^31      *)
(* bytes (TLC's integer range), where that is a subtraction of "& 0xf".   *)
NextOffset(curOff, moduleSz) ==
  IF (moduleSz & 15) # 0
  THEN curOff + 16 + (moduleSz - (moduleSz & 15))
  ELSE curOff + moduleSz

(* ICCM/DCCM granule count as map_check computes it from a length.        *)
Granules(len) ==
  shiftR(IF (len & 65535) > 0 THEN len + 1 ELSE len, 16)

(* The spec's granule count: ceil(length / 0x10000).                       *)
GranulesRef(len) == (len + 65535) \div 65536

(* The spec's pad rule for offsets (spec 4.3), in plain arithmetic.        *)
PadRef(x) == IF (x % 16) # 0 THEN 16 + (x - (x % 16)) ELSE x

=============================================================================
