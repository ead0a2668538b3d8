# TLA+ models of the PSE firmware image tools

These TLA+ modules model the PSE firmware image tools in `src/tools` and
check them with TLC. The modules cover `pse_image_tool.py` (the stitcher),
`zephyr_image_parse.py` (the segment extractor) and `azure_credentials.py`
(the device credential generator). Every action is translated from the Python source. The
natural-language spec (`spec.md`) is used only for the abstract specification
and the reference definitions that the code is checked against.

## 1. Inventory

### Components and their state

| Component | Source | State it keeps | Operations |
|---|---|---|---|
| Segment Map Deriver | `zephyr_image_parse.py` (whole script) | `memory` (regions, deduplicated by origin, zero lengths dropped), `fsize`/`phy_addr` (program headers), `sections` (section lists per header line), `bin_dic`/`bin_start_dic` (region → selectors, start) | scan map, run readelf, scan dump, fold segments into regions, write `seg_start.txt`, one `objcopy` per region |
| Region-Limit Checker | `map_check` | `iccm_length`, `dccm_length`, `entry_point`; result `iccm_limit`, `vector_tbl` | scan `zephyr.map` line by line, round to 64KB granules, `os._exit(1)` over 7 |
| Configuration loader | `get_seg_info`, `load_config` | `seg_info_arr`, `modules_array`, the loop variable `comp_name`, `module_count` | read `seg_start.txt`, one step per `<MODULE>`, LOAD_ADDR override |
| Manifest/Layout Builder | `generate_manifest` | `cur_off`, `bBupFound`, `module_size`/`code_offset` per module | one step per module |
| Image Writer | `generate_fw` | `header_data`, `cur_size`, `n_bringup_sz`, `crc_val`, the output file and the bytes its buffer holds | limit check, header loop, padding, CRC, bringup write, per-module truncate/seek/append; any write may raise |
| Pipeline | `main` | the order of the calls, the output file handle | open output only when the layout is accepted; `f_out.close` is never called, so the file is flushed when it is finalized |
| Credential generator | `azure_credentials.py` | `result`, `data` of the polling loop | PUT registration, poll while `assigning`, build SAS token |

### How they interact

The tools communicate through files, one after the other. `zephyr_image_parse.py`
writes `fragments/seg_start.txt` and the `*.bin` region fragments. In
`pse_image_tool.py`, `main` then runs `map_check` on `zephyr.map`,
`get_seg_info` on `seg_start.txt`, and `load_config` on the XML. The loader puts
the region start into a module's load address when the region's name equals the
module's COMP_NAME. Next come `generate_manifest` and `generate_fw`. The last
two share the `Image_Info` object and its module list, and they mutate it in
place. Nothing runs concurrently. What makes the stitcher hard is that it is a
long sequence of steps over shared mutable state:

* three different tests decide which module is the bringup;
* loop variables outlive their loops;
* a header counter and the header bytes can disagree;
* the output file is created before the last checks can refuse the input;
* the placement of each module relies on truncate/extend file semantics and on
  the rounding always being at least the size of the previous module;
* the file is never closed explicitly, so the last bytes written reach the disk
  only when the file object is finalized, where errors are swallowed.
  When a write fails, the run leaves the part of the image written so far, with
  the checksum already in place.

The credential generator is a client of a remote service: it polls with no timeout.

### What makes each component correct

* Region-Limit Checker: ICCM + DCCM need at most 7 granules, counted as
  ceil(len/64KB), and the ICCM limit in the header is the ICCM's count.
* Loader: each module's load address comes from its own name.
* Layout: the offsets follow the spec's rule, and modules never overlap.
* Writer: the header region is HEADER_SIZE bytes. Every module is at its
  code_offset. The checksum covers the header and the bringup prefix. A refused
  list leaves no output file.
* Pipeline: the run refines `StitchSpec`, so the image is exact, or there is
  no image, or a write failed, was reported, and left the start of the image.
  An exit with status 0 and a matching checksum means the image is complete.
* Segment deriver: each segment is placed in exactly one region, and the
  region start is the lowest address.
* Credentials: the polling ends, and no credentials are produced after an error.

## 2. Modules

| Module | Models | Notes |
|---|---|---|
| `PseFormat` | constants of the format, `NextOffset` (rounding of `generate_manifest`), `Granules` (of `map_check`), byte sources | also the spec's references `PadRef`, `GranulesRef` |
| `OutputFile` | file-system semantics the writer relies on | a file is a sequence of extents (source, offset, length), normalised by merging; `Truncated` cuts or zero-extends like `file.truncate`; `BufferedAfter` is how many bytes CPython's `BufferedWriter` holds after a write |
| `MapCheck` | `map_check` | one action per kind of map line, then the budget decision; a map without `_vector_table` raises `UnboundLocalError` (`MapNoVector`) |
| `ConfigLoader` | `get_seg_info`, `load_config` | `lastName` is the `comp_name` loop variable |
| `ManifestLayout` | `generate_manifest` | one action per loop iteration |
| `ImageWriter` | `generate_fw` | one action per branch of the header loop; padding, CRC and bringup writes are one straight-line action; one action per placement iteration; `UnboundLocalError` paths go to `pc = "crashed"`. With the constant `WriteFails`, `FwHeaderWriteFails` and `FwWriteModuleFails` raise OSError at any write, truncate or open, and the run ends (`pc = "io_failed"`) with what was written. |
| `PseImageTool` | `main` composing the four components | `INSTANCE`s each component on the shared variables. `MainExit` is the finalizer's flush as `main` returns. With `ExitFlushFails`, `MainExitFlushFails` is that flush failing with the exception ignored. |
| `StitchSpec` | abstract specification from spec §3, §4, §7 | the run ends with the exact image (`Stitch`), or with no output or an empty one (`Stop`). After a reported I/O error it ends with a strict prefix of the image (`Fail`, spec §7: "no (or an incomplete) output artifact"). |
| `MC_PseImageTool` | the inputs for TLC | module lists, maps |
| `ZephyrImageParse` | all of `zephyr_image_parse.py` | four phases, each a loop with one action per branch: the region scan of `zephyr.map`, the scan of the readelf dump, the fold of segments into regions, and one step per region that writes `seg_start.txt` and runs objcopy. readelf may fail and leave an empty dump (`ZpReadelfFails`). objcopy succeeds, fails unchecked (`ZpObjcopyFails`), or is missing and raises on the first region (`ZpObjcopyMissing`). An unset `ZEPHYR_SDK_INSTALL_DIR` or a missing readelf is a crash (`ZpToolchainMissing`). |
| `MC_ZephyrImageParse` | the inputs for TLC | region tables and program-header lists |
| `AzureCredentials` | all of `azure_credentials.py` | `main` and the polling loop of `_retrieve_hostname`, one action per step, with the SAS tokens of `_generate_sas_token`. The provisioning service is the environment. `ServiceAnswers` answers the pending request. `ServiceAnswersNotJson` gives an error body that `json.loads` cannot parse, so the script raises. An ok answer without `registrationState` makes `.get("assignedHub")` raise (`AzPollNoState`). `ServiceResolves` moves the registration from assigning to assigned or failed. |
| `MC_AzureCredentials` | the inputs for TLC | two hubs, `len(sys.argv)` in {2, 4} |

In `ZephyrImageParse`, a program header is reduced to its physical address,
its file size, and whether readelf lists sections for it. A section list is
reduced to the index of its line in the dump. This keeps the code's matching
of sections to headers by position, which is where it goes wrong. `binDic`
holds `bin_dic` and `bin_start_dic` together, in insertion order. A fragment
file is absent, stale (left from an earlier build), or new with the selectors
it was extracted with.

In `AzureCredentials`, time is whole seconds since the registration token was
made, and it is kept at 30 once the token has expired. A request takes 0 or 1
seconds. An answer is either `Refused` (any HTTP error: throttling, 401, 5xx)
or the registration state at the time of the answer. A hostname is the hub
itself. A SAS token is the resource it names (`sr=`) and its expiry (`se=`):
the expiry passed in, or the default of a millennium when none is. The
service refuses a request once the token it carries has expired. The
registration token gets its 30 seconds from `_retrieve_hostname`, so the model
reads the expiry from the token the code built.

Data abstraction. A map line is reduced to its kind (ICCM, DCCM,
`_vector_table`, other) and the one number the code reads from it. A module
element is reduced to four things: whether its PATH contains `bringup`, its
COMP_NAME, whether it has LOAD_ADDR, and its size on disk. File contents are
extents that name where the bytes come from:

* the header fields, as `<<vector, misc, bup size, count-1, iccm limit>>` (the
  control word is injective in these three while `misc` fits in 16 bits);
* a manifest entry, as `<<load, offset, size>>`;
* module k's bytes;
* zeros;
* the CRC, represented by the bytes it covers.

Two CRCs are equal exactly when they cover the same bytes. A load address is
"def" (default 0), "cfg" (the LOAD_ADDR text), or the name of the region
whose start replaced it. Flags, vendor, debug and trace levels are copied
through unchanged and are not modelled.

## 3. Runs

The stitcher runs use `MC_PseImageTool`. The abstract spec is checked as the property
`StitchRefinement == Abstract!Spec`, under a refinement mapping:

* `status` is read from `pc`;
* `out` is the output file once the process has ended (the writer keeps its
  extents merged, which `TypeOK` checks, so no normalisation is needed);
* `ccm` is what the map declares.

| Run | Module | Expect | Properties | What it shows |
|---|---|---|---|---|
| `stitch_valid` | MC_PseImageTool | pass | TypeOK, StitchRefinement | The inputs: lists of 1–4 nonempty modules; refused lists (17 modules, bringup not first, a later PATH with `bringup`); 64KB-aligned regions, including one over budget; MISC 0xFFFF or 0x10000; `WriteFails` on. Each run does one of three things. It produces the specified image byte for byte, checksum included. Or a write raises and the file is a strict prefix of that image. Or it stops with no image or an empty one. |
| `layout_all_inputs` | MC_PseImageTool | pass | ChecksumNeverContradicted | On every input, including empty binaries, a bringup stored under another file name and a map without `_vector_table`, with both fault switches on: a file that holds a stored CRC32 and all the bytes it covers holds exactly the bytes it was computed over. No module placement truncates into checksummed bytes, and no failed write, truncate, open or final flush leaves a checksum that verifies over other bytes. A failure can only leave the file too short to verify. This run also reaches the writer's crash paths. |
| `ccm_budget_unaligned` | MC_PseImageTool | violation | CcmBudgetEnforced | ICCM 0x48000 plus DCCM 0x30000 needs 8 granules, but `map_check` counts 7 and writes an ICCM limit of 4. |
| `zero_size_module` | MC_PseImageTool | violation | AcceptedLayoutStitched | An empty module between the bringup and a nonempty one is accepted by `generate_manifest`. It shortens the header by 32 bytes, so the bringup lands at 480 instead of 512, and the run exits normally. |
| `bringup_path_crash` | MC_PseImageTool | violation | AcceptedLayoutStitched | A BRINGUP at index 0 whose PATH lacks `bringup` is accepted by `generate_manifest`, and `generate_fw` raises UnboundLocalError (line 231) after the output file was created. |
| `reject_leaves_file` | MC_PseImageTool | violation | NoOutputOnReject | Refusal comes after `open(output, 'wb')`, so the output file is left empty. |
| `exit_flush_lost` | MC_PseImageTool | violation | VerifiedImageComplete | A bringup plus one 32-byte module, with `ExitFlushFails` on. The module's bytes are still buffered when `main` returns, and the finalizer's flush fails. The process exits with status 0. The file lacks the module, and its stored CRC32 still matches. |
| `zephyr_inputs` | MC_ZephyrImageParse | pass | TypeOK, RegionTableWellFormed, EverySegmentExtracted | On maps with zero-length, aliased and overlapping regions, on dumps whose section lines stay aligned with the program headers, and whatever readelf, objcopy and the SDK do. The region table has no zero-length region and no repeated origin, and it keeps the first declaration of each origin. Once the fold is over, every nonzero segment read from the dump that lies in a region lies inside a segment whose sections are filed under a region key. The fold starts at header 1; header 0 is the EXIDX header, inside the first LOAD segment, so its bytes are still extracted. |
| `overlapping_regions` | MC_ZephyrImageParse | violation | SegmentInOneRegion | The fold has no `break`, so a segment inside two overlapping regions is extracted into both binaries. |
| `objcopy_unchecked` | MC_ZephyrImageParse | violation | FragmentsMatchTable | A failed objcopy still leaves the region in `seg_start.txt`, while its binary is missing or left from an earlier build. |
| `azure_polling` | MC_AzureCredentials | pass | TypeOK, Termination | If every HTTP request returns, the script ends, normally or on an exception, even if the service never resolves the registration, because the 30-second registration token expires. |
| `azure_error_credentials` | MC_AzureCredentials | violation | CredentialsOnlyForAssignedHub | An HTTP error or a failed registration ends the loop, and `main` still prints credentials built on the hostname None. |

Checked but not run. The behaviours below are stated as properties. TLC finds
each one violated on the named input. They have no run of their own because
each is close to one of the runs above:

* `LoadFromOwnName` with `StaleNameConfigs`: a module without COMP_NAME takes
  the previous module's region start (`load_config`, line 144).
* `EverySegmentExtracted` with `ShiftedElf`: a LOAD header with no section
  shifts every later section list onto the wrong segment, because sections are
  matched by line index, and the data segment is then not extracted.
  arm-zephyr-eabi-ld lists a section for every LOAD segment, and a
  `GNU_STACK` header is skipped by both `ph_re` and `map_re`, so the checked
  dumps keep the lines aligned.

Bounds, and why they are enough. The code branches on the following, and the
inputs sit on both sides of each:

* the low nibble of a size: 0x1F vs 0x20, 0x2FFF vs 0x3000;
* the bringup size against 0x3000: 0x2FFF, 0x3000, 0x3001;
* the low 16 bits of a region length: 0x40000, 0x4FFFF, 0x48000;
* the granule sum against 7: 7 vs 8;
* the module count against 16: 1–4 and 17;
* MISC against the 16 bits of the control word's upper half: 0xFFFF and 0x10000
  (`struct.pack` raises on the second);
* whether a PATH contains `bringup`;
* whether COMP_NAME and LOAD_ADDR are present;
* whether the name is in the region table.

No step depends on more than the previous module, so four modules cover
every pair of neighbours, and a failure before, between and after them. The real sizes are kept, not scaled down. The
header layout depends on the exact 4 + 28 + 32·k byte counts.

For the segment extractor, the inputs are the following. The real PSE
addresses are kept.

* Region tables: a plain one; one with a zero-length region and a second name
  at L2SRAM's origin; one whose second region overlaps ICCM.
* Program-header lists, each led by the EXIDX header that arm-zephyr-eabi-ld
  emits first, lying inside the first LOAD segment: text, rodata, a second ICCM segment, data, an empty
  .bss and an L2SRAM segment, in linker order; a segment crossing ICCM's end; the data segment
  first; a header with no sections before the last segment (IndexError).

Each branch of the script is taken on these inputs: zero or duplicate or new
region; header or section line; empty or nonempty segment; zero, one or two
covering regions; first or later segment of a region; readelf success or
failure; objcopy success, failure or absence. Four segments already give one region two segments, an uncovered
segment and a shifted section list.

For the credential generator, the token expiry of 30 seconds is kept. With
0 or 1 seconds per request and 1 second of sleep, a run polls up to about 30
times before every answer is refused, so the model reaches both ends of the
loop. Two hubs are enough to tell an assigned hub from another one.

Fault model. Two constants switch on failures of the output file: a disk that
fills up, a device error, a module binary that cannot be opened.

* `WriteFails`: every write, truncate (which flushes first) and open of a
  module binary in `generate_fw` may raise OSError. Nothing catches it, so
  the run ends with the file as far as it got. After a failed flush, that is
  without the bytes that were buffered.
* `ExitFlushFails`: the flush done by the file object's finalizer may fail.

A failed write leaves either nothing of the failed call or half of it. These
two cases stand for any cut: the properties only ask whether the file is a
prefix of the image, and up to which piece. The buffer follows CPython's
`BufferedWriter`:

* a write that fits is only buffered;
* otherwise the buffer is flushed;
* data larger than the buffer is then written straight through.

The module sizes of the inputs are far below the 8 KiB buffer, and the bringup
is above it. So what is buffered at the exit is exactly the last module. Where
the bringup is the last piece, it is the bringup's tail past 0x3000.

Fairness and deadlock. The stitcher and the segment extractor are single
sequential processes, so no liveness property is stated for them. Termination is by construction: every loop
runs over a finite list. Halted states stutter (`Halted`), so deadlock checking
stays on and catches any non-terminal state with no successor.

The credential generator has one liveness property, `Termination`. The
specification assumes only weak fairness of the script's own steps, which
means the process is not stopped. That every HTTP request returns with some
answer is not a fairness condition of the specification: `requests.put` and
`requests.get` are called without a timeout (lines 94 and 102), so it is an
assumption about the network. `Termination` carries it as its hypothesis,
`WF_vars(ServiceAnswers) => <>(pc \in {"done", "crashed"})`, and says nothing
of a request that never returns. The
answer may be any answer. No fairness is assumed for `ServiceResolves`, so the
service may keep the registration "assigning" forever. The loop still ends
because every request made after the registration token expires is refused,
and a refusal ends the loop.

## 4. Divergences between spec and code

* The spec says the prologue is 4 + 512 bytes. In the code, checksum plus
  header is HEADER_SIZE = 512 bytes (4 + 28 + 15·32), and the bringup is at
  offset 0x200. That agrees with its code_offset, and `StitchSpec` follows the
  code here.
* The spec puts the option bitfield in the upper half of the control word and
  says nothing of larger values. `StitchSpec` counts a MISC beyond 16 bits as
  an invalid configuration. The code raises `struct.error` after the output
  file exists, which leaves it empty. That is a stop the abstract spec allows.
* Spec §4.1 says every segment goes into the first region that contains it.
  The code files a segment under every region that contains it
  (`overlapping_regions`). It also never files program header 0; with
  arm-zephyr-eabi-ld that is the EXIDX header, whose bytes lie in the first
  LOAD segment and are extracted with it (`zephyr_inputs`).
* Spec §6 says extraction failures are fatal. The code never looks at
  objcopy's result (`objcopy_unchecked`).
* `_retrieve_hostname` returns None on an error, and `main` turns that into
  credentials (`azure_error_credentials`).
* Spec §7 says I/O errors are fatal and tells callers to verify the stored
  checksum before trusting a non-empty output. The code never calls
  `f_out.close()`, so a failure of the final flush is swallowed and the exit
  status is 0 (`exit_flush_lost`). The checksum cannot make up for it: it
  covers only the header and the first 0x3000 bringup bytes. A file cut
  anywhere after those bytes still verifies, after a reported failure as well.
  `StitchSpec` allows that prefix only with a failure status.

## 5. Not modelled (yet), and why

* Console output (`list_all_member`, progress prints, `ls -l`, the error
  messages of the credential generator): it only prints.
* XML parsing, hex parsing of text, and the `4s` truncation of names are
  conversions of data that no property distinguishes.
* A first `<MODULE>` with LOAD_ADDR and no COMP_NAME would raise UnboundLocalError in
  `load_config`. A map whose `_vector_table` line comes before the region lines
  is also left out: GNU ld writes the Memory Configuration before any symbol.
  No real linker map or configuration is laid out like that.
  The model's guards keep these inputs out, and the input sets do not contain them.
* I/O failures outside `generate_fw` are left out:
  * `open(output, 'wb')` failing, which leaves no file, or the previous one
    untouched;
  * `os.path.getsize` of a missing binary in `generate_manifest`, which raises
    before the output is opened.

  The flush that the finalizer retries after an exception is not modelled
  either: a failed run is already allowed any prefix. A MISC that is not a decimal integer (`ValueError` in
  `int()`) is left out: the input sets are integers.
* The SAS token's HMAC signature, its base64 and URL encoding, and the
  `&skn=registration` suffix: no property depends on them. The token keeps its
  resource and its expiry.

## 6. Plan

Done: the stitcher with its refinement of `StitchSpec`, the segment extractor,
and the credential generator with its liveness property.

Also done: I/O failures of the writer and of the exit flush,
with the partial image they leave, and inputs of up to four modules.

Next:
1. An abstract `SegmentMapSpec` of spec §4.1 for `ZephyrImageParse` to refine.
   Also a composition with `PseImageTool` through `seg_start.txt`, so that a
   failed objcopy becomes a missing or stale module binary.
