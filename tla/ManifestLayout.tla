--------------------------- MODULE ManifestLayout ---------------------------
(***************************************************************************)
(* Layout builder: generate_manifest() of pse_image_tool.py.  For each     *)
(* module in order it takes the size of the binary on disk as module_size, *)
(* gives the module the current offset as code_offset, and advances the   *)
(* offset by the size rounded with NextOffset.  It reports whether a      *)
(* module named BRINGUP sits at index 0.                                   *)
(***************************************************************************)
EXTENDS Integers, Sequences, PseFormat

VARIABLES
  pc,
  mods,       \* Image_Info.module_info
  count,      \* Image_Info.module_count
  mi,         \* loop index, 1-based (the code's i is mi - 1)
  curOff,     \* cur_off
  bupFound    \* bBupFound

layoutVars == <<mods, count, mi, curOff, bupFound>>

(* One iteration of "for i in range(image_info.module_count)".             *)
ManifestEntry ==
  /\ pc = "gen_manifest" /\ mi <= count
  /\ LET sz == mods[mi].file IN
       /\ mods' = [mods EXCEPT ![mi].size = sz, ![mi].off = curOff]
       /\ curOff' = NextOffset(curOff, sz)
  /\ bupFound' = (bupFound \/ (mods[mi].name = BUP_NAME /\ mi = 1))
  /\ mi' = mi + 1
  /\ UNCHANGED <<pc, count>>

(* The loop is over: main() reads the returned bBupFound.                 *)
ManifestDone == pc = "gen_manifest" /\ mi > count

Next == ManifestEntry

=============================================================================
