---------------------------- MODULE ConfigLoader ----------------------------
(***************************************************************************)
(* get_seg_info() and load_config() of pse_image_tool.py: read the        *)
(* region-start table fragments/seg_start.txt, then build one Module_Info  *)
(* per <MODULE> element of the XML configuration.  A configuration element *)
(* is a record [path, name, ld, file]: whether its PATH contains "bringup",*)
(* its COMP_NAME (NoName when absent), whether it has a LOAD_ADDR, and the *)
(* size of the binary on disk.  Flags, vendor, debug and trace levels are  *)
(* copied unchanged and are left out.  A load address is "def" (the       *)
(* default 0), "cfg" (the LOAD_ADDR text), or the name of the             *)
(* seg_start.txt entry whose start address replaced it.                    *)
(***************************************************************************)
EXTENDS Integers, Sequences, PseFormat

CONSTANT SegNames   \* region names listed in seg_start.txt

VARIABLES
  pc,
  config,     \* the <MODULE> elements, in document order
  miscXml,    \* the integer value of the <MISC> element
  miscOption, \* Image_Info.misc_option
  segTbl,     \* the region-start table as read by get_seg_info
  ci,         \* index of the next <MODULE> element
  lastName,   \* the loop variable comp_name; it outlives its loop
  mods,       \* modules_array / Image_Info.module_info
  count       \* Image_Info.module_count

cfgVars == <<config, miscXml, miscOption, segTbl, ci, lastName, mods, count>>

(* get_seg_info: one entry per line of seg_start.txt.                      *)
ReadSegInfo ==
  /\ pc = "seg_info"
  /\ segTbl' = SegNames
  /\ pc' = "parse_config"
  /\ UNCHANGED <<config, miscXml, miscOption, ci, lastName, mods, count>>

(* load_config before its module loop: the output path and                 *)
(* misc_option = int(MISC).                                                *)
LoadMisc ==
  /\ pc = "parse_config"
  /\ miscOption' = miscXml
  /\ pc' = "load_config"
  /\ UNCHANGED <<config, miscXml, segTbl, ci, lastName, mods, count>>

(* The comp_name the LOAD_ADDR loop compares: this element's COMP_NAME, or *)
(* whatever the variable still holds from an earlier element.             *)
CompNameVar(e) == IF e.name # NoName THEN e.name ELSE lastName

LoadAddress(e) ==
  IF ~e.ld THEN "def"
  ELSE IF CompNameVar(e) \in segTbl THEN CompNameVar(e)
  ELSE "cfg"

(* Module_Info(PSE_Manifest(PSE_MAN_DEF_...), path): the default name,    *)
(* load address 0, code offset 0 and module size 0.                        *)
NewModule(e) == [name |-> DEF_NAME, path |-> e.path, load |-> "def",
                 file |-> e.file, size |-> 0, off |-> 0]

(* One iteration of "for module in modules".                               *)
LoadModule ==
  /\ pc = "load_config" /\ ci <= Len(config)
  /\ LET e == config[ci] IN
       /\ e.ld => CompNameVar(e) # Unbound
       /\ mods' = Append(mods,
                    [NewModule(e) EXCEPT
                       !.name = IF e.name # NoName THEN e.name ELSE @,
                       !.load = LoadAddress(e)])
       /\ lastName' = CompNameVar(e)
  /\ ci' = ci + 1
  /\ UNCHANGED <<pc, config, miscXml, miscOption, segTbl, count>>

LoadConfigDone ==
  /\ pc = "load_config" /\ ci > Len(config)
  /\ count' = Len(config)
  /\ pc' = "gen_manifest"
  /\ UNCHANGED <<config, miscXml, miscOption, segTbl, ci, lastName, mods>>

Next == ReadSegInfo \/ LoadMisc \/ LoadModule \/ LoadConfigDone

=============================================================================
