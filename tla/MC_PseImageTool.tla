--------------------------- MODULE MC_PseImageTool ---------------------------
(***************************************************************************)
(* Inputs for model checking PseImageTool.  Sizes are picked around the   *)
(* boundaries the code branches on: bringup sizes on both sides of the     *)
(* 0x3000 checksummed prefix and with a zero and a nonzero low nibble;     *)
(* module sizes 0x1F and 0x20 (low nibble set / clear) and 0; region       *)
(* lengths on and off a 64KB boundary.                                     *)
(***************************************************************************)
EXTENDS PseImageTool

Bup(sz)              == [path |-> BupPath, name |-> BUP_NAME, ld |-> FALSE, file |-> sz]
Mod(p, nm, ld, sz)   == [path |-> p, name |-> nm, ld |-> ld, file |-> sz]

BupSizes   == {12287, 12288, 12289}     \* 0x2FFF, 0x3000, 0x3001
ModSizes   == {31, 32}                  \* 0x1F, 0x20
ModNames   == {"ICCM", "SRAM"}

Others(sizes) == {Mod(p, nm, ld, sz) : p \in {BupPath, OtherPath},
                                       nm \in ModNames, ld \in BOOLEAN,
                                       sz \in sizes}

(* Seventeen modules: more than the 16 the header can describe.            *)
TooMany == [k \in 1..17 |-> IF k = 1 THEN Bup(12288)
                            ELSE Mod(OtherPath, "SRAM", FALSE, 32)]

(* Well-formed lists of up to four modules, and lists generate_manifest   *)
(* or generate_fw must refuse.                                             *)
ValidConfigs ==
  {<<Bup(b)>> : b \in BupSizes}
  \cup {<<Bup(b), o>> : b \in BupSizes, o \in Others(ModSizes)}
  \cup {<<Bup(b), o1, o2>> : b \in BupSizes, o1 \in Others(ModSizes),
                             o2 \in Others(ModSizes)}
  \cup {<<Bup(12289), o1, o2, o3>> : o1, o2, o3 \in Others({31})}
  \cup {<<Mod(OtherPath, "ICCM", FALSE, 32), Bup(12288)>>, TooMany}

(* Also lists with empty binaries and a bringup whose PATH lacks          *)
(* "bringup".                                                              *)
AllConfigs ==
  ValidConfigs
  \cup {<<Bup(12288), Mod(OtherPath, "SRAM", TRUE, 0), Mod(OtherPath, "ICCM", TRUE, 32)>>,
        <<Mod(OtherPath, BUP_NAME, FALSE, 12288), Mod(OtherPath, "SRAM", FALSE, 32)>>,
        <<Mod(OtherPath, BUP_NAME, FALSE, 0)>>,
        <<Bup(0), Mod(OtherPath, "SRAM", FALSE, 31)>>}

(* A module without COMP_NAME after one whose name is a region.           *)
StaleNameConfigs ==
  {<<Bup(12288), Mod(OtherPath, "ICCM", TRUE, 32), Mod(OtherPath, NoName, TRUE, 32)>>}

(* A module of size 0 between the bringup and a module of nonzero size.  *)
ZeroSizeConfigs ==
  {<<Bup(12288), Mod(OtherPath, "SRAM", FALSE, 0), Mod(OtherPath, "ICCM", FALSE, 32)>>}

(* A BRINGUP at index 0 whose PATH lacks "bringup".                        *)
BupPathConfigs ==
  {<<Mod(OtherPath, BUP_NAME, FALSE, 12288), Mod(OtherPath, "SRAM", FALSE, 32)>>}

(* A bringup and one module: the module is placed after the checksummed    *)
(* part of the file.                                                       *)
TwoModuleConfigs == {<<Bup(12287), Mod(OtherPath, "SRAM", FALSE, 32)>>}

(* MISC: the largest value the control word's upper half holds, and the   *)
(* first one it does not (struct.pack raises).                             *)
EdgeMiscs  == {65535, 65536}
PlainMiscs == {0}

MapOf(il, dl) == <<[kind |-> "ICCM", val |-> il], [kind |-> "DCCM", val |-> dl],
                   [kind |-> "OTHER", val |-> 0], [kind |-> "VEC", val |-> 96]>>

(* 4 + 3 granules, 5 + 3 granules (over budget), 0x4FFFF + 0x20000.        *)
AlignedMaps   == {MapOf(262144, 196608), MapOf(327680, 196608),
                  MapOf(327679, 131072)}
(* 0x48000 needs 5 granules; with DCCM 0x30000 that is 8.                  *)
UnalignedMaps == {MapOf(294912, 196608)}

(* A map without the _vector_table symbol.                                 *)
NoVectorMap == SubSeq(MapOf(262144, 196608), 1, 3)
LayoutMaps  == AlignedMaps \cup {NoVectorMap}

=============================================================================
