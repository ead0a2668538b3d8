------------------------- MODULE MC_ZephyrImageParse -------------------------
(***************************************************************************)
(* Inputs of zephyr_image_parse.py for TLC: memory regions of zephyr.map   *)
(* and program headers of zephyr.elf.  Addresses follow the PSE layout    *)
(* (ICCM at 0, DCCM at 0x20000000, L2SRAM at 0x60000000); sizes sit on    *)
(* both sides of a region's end.                                           *)
(***************************************************************************)
EXTENDS ZephyrImageParse

Reg(nm, o, l)    == [name |-> nm, origin |-> o, length |-> l]
Seg(p, f, s)     == [phy |-> p, fsz |-> f, secs |-> s]

ICCM   == Reg("ICCM", 0, 262144)                 \* 0x40000
DCCM   == Reg("DCCM", 536870912, 196608)         \* 0x20000000, 0x30000
L2     == Reg("L2SRAM", 1610612736, 524288)      \* 0x60000000, 0x80000
AonNil == Reg("AON", 1879048192, 0)              \* zero length: dropped
Alias  == Reg("SRAM", 1610612736, 524288)        \* L2SRAM's origin again
Wide   == Reg("SRAM", 2048, 1048576)             \* overlaps ICCM

(* A plain map; one with a zero-length and an aliased region; one whose   *)
(* regions overlap.                                                        *)
PlainMap   == <<ICCM, DCCM, L2>>
DupMap     == <<ICCM, AonNil, DCCM, L2, Alias>>
OverlapMap == <<ICCM, Wide, DCCM>>

(* Program headers.  arm-zephyr-eabi-ld emits the PT_ARM_EXIDX header    *)
(* (.ARM.exidx) first; it lies inside the first LOAD segment, the         *)
(* vector table and text in ICCM at 0.  Then a segment crossing ICCM's    *)
(* end and an empty .bss segment.                                          *)
Exidx   == Seg(3840, 8, TRUE)                    \* 0xF00, inside Text
Text    == Seg(0, 4096, TRUE)
Rodata  == Seg(4096, 512, TRUE)
Ramfunc == Seg(8192, 256, TRUE)                  \* a second ICCM segment
Cross   == Seg(261632, 1024, TRUE)                \* 0x3FE00 + 0x400 > 0x40000
Data    == Seg(536870912, 256, TRUE)
Bss     == Seg(536871168, 0, TRUE)
Sram    == Seg(1610612736, 2048, TRUE)
NoSecs  == Seg(0, 0, FALSE)                       \* no section listed

OrderedElf   == <<Exidx, Text, Rodata, Ramfunc, Data, Bss, Sram>>
CrossElf     == <<Exidx, Text, Cross, Data, Sram>>
UnorderedElf == <<Exidx, Data, Rodata, Text, Sram>>
TailShiftElf == <<Exidx, Text, Rodata, NoSecs, Sram>>
ShiftedElf   == <<Exidx, Text, Rodata, NoSecs, Data, Sram>>

(* Dumps on which no section list is filed under the wrong segment: one   *)
(* mapping line per program header, or a header without sections placed  *)
(* so that the shift only reaches the last segment (IndexError).           *)
AlignedElfs == {OrderedElf, CrossElf, UnorderedElf, TailShiftElf}
AllMaps     == {PlainMap, DupMap, OverlapMap}

(* Single inputs, for the runs that show one behaviour.                    *)
PlainMaps     == {PlainMap}
OverlapMaps   == {OverlapMap}
OrderedElfs   == {OrderedElf}

=============================================================================
