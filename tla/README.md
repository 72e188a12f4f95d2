# LamBoot in TLA+

A TLA+ development of LamBoot, the UEFI boot loader of this repository
(`src/lamboot-core`). It models what the loader does to persistent state
(NVRAM variables, files on the ESP), how it decides what to boot, and what it
records about it, across boots, failing firmware calls and power loss; how it
finds partitions and entries; how its menu reacts; and how it loads an image
into memory. TLC checks every model on small instances; TLAPS proves the main
safety properties for every value of the constants.

## The system and its parts

LamBoot is one sequential program that firmware starts at power-on. What makes
it hard is not threads but what survives it: it can lose power between any two
firmware calls, most firmware calls can fail, and the next boot starts from
whatever the last one left. `run_bootloader` (`main.rs`) runs these phases:

1. assess boot health in NVRAM (`health.rs`);
2. detect the Secure Boot posture (`secure.rs`, `sb_classify_pure.rs`), read
   SMBIOS, fw_cfg, ACPI and firmware quirks;
3. mount the ESP, open the trust log and the boot log, load `policy.toml`;
4. load legacy filesystem drivers (`drivers.rs`), scan partitions and mount
   ext4, btrfs, XFS, exFAT, ZFS, LVM and media volumes;
5. discover, de-duplicate and sort entries (`discovery.rs`, `bls*.rs`), install
   a `Boot####` entry (`boot_entry.rs`), run preflight checks;
6. loop: choose an entry (fallback, menu, recovery), write `boot.json`, count
   the attempt of a BLS entry, and boot it (`boot.rs`); a tool comes back to the
   menu, anything else ends the program.

Every write to the ESP goes through `EspWriter` (`fs_writer.rs`,
`fs_backend_fat.rs`); every read goes through a volume's cache (`fs.rs`).

## Modules

| module | models | state |
|---|---|---|
| `BootHealth` | `health.rs`, Phases 0 and 8 and the end of the loop in `main.rs` | the NVRAM variables, the phase of this boot, the computed counter, two histories of boots |
| `CrashCounter` | abstract specification of boot health | how many boots are unfinished, whether this one is charged, the verdict |
| `EspWriter` | `fs_writer.rs`, `fs_backend_fat.rs`, the cache of `fs.rs` | files, cache, the running method and its next firmware call |
| `BootCounting` | `decrement_boot_count` (`bls.rs`) and its caller, over `EspWriter` | the volume, the selected entry, `LoaderBootCountPath` |
| `TrustLog` | `trust_log.rs`, `trust_log_pure.rs` | pending and committed events, the lines of the file |
| `BootAttempt` | `boot.rs`, `secure.rs`, the routes and the reports, over `TrustLog` | posture, ShimLock, the selected image, `VerifiedBytes`, `boot.json`, PCR 4, what was started |
| `BootLoop` | the menu loop of `main.rs`, the choice of a default in `policy.rs`, `gui.rs`, `console.rs` | entries, policy, mounted volumes, the selection and who made it |
| `SelfInstall` | `boot_entry.rs`, `boot_entry_pure.rs` | `Boot####`, `BootOrder`, the chosen slot, what the function returned |
| `BootLogs` | `bootlog.rs`, the breadcrumbs of `diag.rs` | the buffers, `boot.log`, the breadcrumbs in `audit.log` |
| `Mounting` | Phase 6 of `main.rs`, `partitions.rs`, `partition_classify_pure.rs` | the firmware's handles and who holds them, partitions found, volumes |
| `Discovery` | `discovery.rs`, `discovery_pure.rs`, `bls.rs`, `bls_parse.rs`, `autodiscovery.rs` | the volumes' contents, the entries found so far |
| `Preflight` | `preflight.rs`, over `Discovery` | the mark of each entry |
| `Versions` | `version_compare` (`bls_parse.rs`) | two strings, two positions, the verdict |
| `Menu` | `gui.rs`, `console.rs`, `input.rs` | devices and what they hold, selection, view, countdown, what is on the screen |
| `PeImage` | `pe_loader_pure.rs`, `load_pe` of `pe_loader.rs` | the file, where the load is, the pages, what was read and relocated |
| `ImageLoad` | `security_override.rs`, `initrd.rs`, the rest of `pe_loader.rs`, `drivers.rs`, over `PeImage` | hooks, installed interfaces and the memory behind them, the image in hand |
| `BlockSource` | `block_source.rs`, `fs_backend_fat_ro.rs`, `read_limit_pure.rs` | the medium, the cursor, the request and the bytes it has got |
| `Induction` | induction on numbers and sequences, folds, first and last element | lemmas only |
| `BootAttemptProofs`, `BootCountingProofs` (with `EspWriter`), `KeptStateProofs` (`SelfInstall`, `TrustLog`, `BootLogs`, `BootHealth`), `ImageProofs` (`BlockSource`, `PeImage`, `ImageLoad`), `SessionProofs` (`BootLoop`, `Menu`), `MountingProofs` (`Mounting`), `StartupProofs` (`Discovery`, `Preflight`) | theorems about the modules named | |
| `MC*` | instances for TLC | |

Definitions keep the names of the functions they model. Definitions that start
with "Seeded defect" in their comment are not part of the models: each one is a
plausible mistake, put in the place of the real definition to see that a
property notices it.

**BootHealth.** One action per `SetVariable`, so `Reset` (power loss) can come
between any two. `NewGeneration` is a snapshot restored or a clone started: the
hypervisor reports another generation id. `FlakyWrites` names the variables
whose write may be lost. The OS-side marker service is external.

**EspWriter.** A method is the sequence of firmware calls it makes: a rename
reads the old file, deletes and creates the new one, writes it chunk by chunk
and deletes the old one. Every call may fail (`Failing`) and `PowerLoss` may
come after any. The cache is the LRU list with its byte count; invalidation
happens where the code does it, after the write. `dirty` is a history: the
targets of failed methods, until a method on them succeeds.

**BootCounting** composes the boot loop's counting step with `EspWriter`: a
file name is an id, the tries left and the tries done; the menu lists whatever
files parse, torn ones included.

**TrustLog** is both a specification of its own and the part `BootAttempt`
extends: every record and flush of the boot path is a step on the same log.
An append that fails half-way leaves a prefix of its lines. A prefix that ends
inside a line is not told apart from one that ends before it.

**BootAttempt.** An image is what decides its fate: its kind, whether shim and
the firmware db accept it, whether the native loader can load it. A machine is
Secure Boot on or off, `native_pe`, and the `conout_fat_coupling` quirk.
ShimLock may vanish whenever a started image returns. The chainload path's
`chainload_measured` has the name `kernel_measured` here; the PCR 12 records,
and the text of records are left out; breadcrumbs are in `BootLogs`.

**BootLoop.** Entry ids are numbers in the order of `version_compare`. `TimeUp`
is the end of a countdown in either menu; `MenuFails` the graphical menu's
error. `boot_entry` is one step with the outcomes `BootAttempt` gives it.

**SelfInstall.** The scan, the write of `Boot####` and the write of
`BootOrder` are separate steps with power loss between them. Either write may be
refused and any read may fail, which the code cannot tell from a free slot.
Between boots the operating system adds, removes and reorders entries.

**BootLogs.** `boot.log` is written through line by line up to its cap, then
buffered and flushed at each selection. Breadcrumbs are appended one by one, or
collected in a bounded buffer where `conout_fat_coupling` is set. The module
relies on `EspWriter` for what a failed write may leave.

**Mounting.** The handle database is the shared resource: to open BlockIO
exclusively takes the firmware's driver off a partition, and a native volume
keeps it open. Every loop of Phase 6 is an action per partition, with the
superblock probe inside it. A file system is its signatures and whether it is
sound.

**Discovery** goes through the scanners in the code's order. A path is a
directory and a file name, and each scanner writes it with its own separator,
which decides what `dedup_entries` compares (`ExtractFilename`). Directory
listings arrive in any order; the sort is insertion from the right, as the library's
`sort_by` does it on short lists, and a comparison is the set of pairs in it.
**Preflight** continues with the entries found and, beside
its own look-ups, has those the boot path makes later. **Versions** has the
comparison loop of `version_compare` and, apart from it, the order meant,
defined on the words of a version.

**Menu.** Places are in pixels, so hit test and scrolling are the code's
arithmetic. Time is what the loop counts, one frame for each poll that finds
nothing. A report of a device may arrive at any moment and stays until it is
polled; `poll` asks the devices in the code's order. `shown` is what was last
drawn. `touchedAt` is a history: the frame of the user's first key press or
click, whatever the program made of it.

**PeImage.** A file is its header fields and the words of its relocation
directory; every interval that is read or written is kept, so that "inside the
file" and "inside the image" are statements about all of them. Sums are of
32-bit fields in 64 bits and do not wrap.

**ImageLoad** follows drivers and selections of one power-on. Interfaces
LamBoot installed and heap objects they point at carry the number of the attempt
that made them, so that what a dropped handle leaves behind can be told from
what the current attempt installed. The kernel calls back at any time while it
runs.

**BlockSource.** The byte at address `p` of a medium is `p`, so a buffer shows
where its bytes came from. `HalfWord` stands for 2^63; checked, saturating and
wrapping operations are those of the code.

The modules meet in the loop: `Mounting` and `Discovery` give `BootLoop` its
entries and volumes, `Menu` its choice, `BootCounting` counts, `BootAttempt`
boots with what `ImageLoad` lends to the firmware, `BootHealth` judges
afterwards. They share variables only through `EXTENDS` (`BootCounting` on
`EspWriter`, `BootAttempt` on `TrustLog`, `Preflight` on `Discovery`,
`ImageLoad` on `PeImage`), because the code passes nothing else between them
than lists of volumes and entries, the selected entry and the result of
`boot_entry`. `OverrideVerdict` is the link from `ImageLoad` to what
`BootAttempt` assumes of LoadImage.

The five MC modules put several components in one run. `MCWrites`, `MCStored`,
`MCSession`, `MCImage` and `MCStartup` have a variable (`place`, `store`,
`looking`, `part`) that is chosen in the initial state and names the component that moves; the others rest.
The components of one module have no state in common, so nothing is lost by not
interleaving them: a property reads the variables of one component only.

## What the runs check

Runs that pass:

| run | properties | what it shows |
|---|---|---|
| `writes_all` (NVRAM) | `NoFalseCrashLoop`, `CrashLoopEngages` | when writes of the state and of the generation id may be lost, crash-loop handling never starts with fewer than `crash_threshold` failures; once writes are kept, a machine that keeps failing keeps ending up in it |
| (volume) | `CacheSound`, `OkMeansDone`, `TrueAppendKeepsLog` | under failing calls and power loss, the cache's byte count is exact, only the target of a failed method may be stale in it, Ok means done, and a positional append never damages what was there |
| `stored_all` (entries) | `EntryNeverLost`, `TriesNeverGrow`, `AttemptCounted`, `BlessTargetIsRunning` | interrupted or failed decrements never lose an entry or give it tries back; a boot in which no call failed is counted, whatever earlier ones left, and the OS blesses the entry it runs from |
| (trust log) | `SeqIdentifiesEvent` | a gap in the numbers is exactly a lost event |
| (other logs) | `LogsComplete` | `boot.log` has one boot's lines in order; no breadcrumb is written twice, and when no write failed all that found room are on the ESP when an image starts |
| (NVRAM) | `NeverDuplicated`, `OrphanOnlyIfCut`, `InstalledEventually` | LamBoot is in one `Boot####` at most and is there in the end; an entry outside `BootOrder` is the trace of a cut write |
| `session_all` (loop) | `CrashLoopChoice`, `EndsUnattended` | in a crash loop the operator's fallback order is respected, and recovery takes a sound entry when the menu fails and when its countdown ends (by id, see below); once nobody picks entries the machine leaves the loop |
| (menu) | `SelectionShown`, `ChosenAsShown`, `TimeoutOnlyUntouched`, `AutoBoots` | however keys and pointers alternate, the selection is an existing tile, the picture is the one a repaint would give, the view follows the selection (but for the left key, see below), and what is clicked is what is drawn there; a countdown boots only if no key was pressed and no click made before its last frame, and it does boot |
| `image_all` (loader) | `TouchesOnlyItsOwn`, `PagesFreedOnce`, `RelocatedAsListed` | whatever the headers say, the loader stays inside the file and the image, relocates exactly what is listed, and frees its pages once on every error path |
| (boots) | `HooksGivenBack`, `FindsItsOwnInitrd` | what is lent to the firmware is taken back on every path, the second boot of a power-on included |
| (reads) | `BytesAsAsked` | aligned reads return the bytes asked for, up to the end of the medium and of the word |
| (attempts) | `Authorised`, `HonestRecords`, `AuditBeforeStart`, `HonestReport` | what is started is accepted by shim or db, the log that says so is truthful and on the ESP before it runs, and `boot.json` is wrong in two ways only: it may say native of an image the firmware loads, and shim of one verified after ShimLock was gone |
| `startup_all` (health) | `ImplementsCrashCounter` | with snapshots, clones and power loss between any two writes, the NVRAM protocol implements `CrashCounter` |
| (mounting) | `BootVolumeSafe`, `OneHolder`, `NothingMissed` | the passes over the partitions do not hang on the boot volume, but for the exception below; a file system has one reader, and a partition that is held belongs to a mounted volume; when nothing fails, every sound native file system is read and every LVM label tried |
| (discovery) | `MenuOrdered`, `EntriesSound`, `KernelOnce`, `MarksWhatBoots` | where all or none of the entries have a version the menu's order does not depend on directory order; a file is offered once, as far as dedup_entries can tell, and with its own initrd and volume, and a preflight mark is about the file that boots |
| (versions) | `VersionOrder`, `ComparisonEnds` | the loop computes the order meant, which is a total order, and ends |

Some of these are conjunctions of named parts, each with its own comment in the
module (`MenuOrdered`, `EntriesSound`, `LogsComplete` and others). Properties
that are proved below for every instance are not all checked in a run as well:
`TypeOK`, `NoMissedCrash`, `LinesInOrder`, `StartedOnce`, `NoDanglingOrder`,
`CreatedIsFirst`, `OthersUntouched`, `EntryIsCode`, `OverrideVerdict`,
`InitrdTwoPhase`, `InitrdAlive`, `CursorFollows`, `BoundedRounds` and
`InsideMedia` are proved only.

Runs that end in a violation show where the code does not do what a comment or
a document of the repository says; `PROJECT.json` quotes the line for each.

| run | property | what the code does |
|---|---|---|
| `health_returned` | `OnlySuccessIsMarked` | a natively started image that returns an error is marked as a success |
| `loop_volume` | `SourceVolumeRight` | after a tool, entries may refer to the wrong volume |
| `image_alive` | `LoadedImageAlive` | dropping a native image that never started frees the struct of a protocol that stays installed |
| `preflight_blocks` | `PreflightNeverBlocks` | a PE header at the end of the bytes read makes the header check panic before the menu |
| `kernel_listed_twice` | `KernelListedOnce` | a UKI that a `.conf` file also names is listed twice: the paths of `glob` have slashes, and the key is cut at backslashes |
| `fallback_is_lamboot` | `FallbackIsNotLamBoot` | a copy of LamBoot at the fallback path is offered when LamBoot was started from elsewhere: the hash of the relocated image is never that of the file |
| `posture_disagrees` | `PostureAgrees` | once ShimLock has vanished `boot.json` says shim_mok and the kernel is verified as direct |

Smaller differences between comments and code, met while modelling. The models
do what the code does; no run is spent on them.

- The first boot of a clone leaves the state at Fresh (`health.rs:157`), so its
  crash is not counted. `NoMissedCrash` is about metal for this reason.
- `is_crash_loop` reads the stored counter, while the message of `main.rs:1155`
  prints the computed one. They differ when the counter's write was lost.
- A write that fails returns before the cache is invalidated
  (`fs_writer.rs:84`). `CacheHonest`, a part of `CacheSound`, makes this exception precise.
- When the delete of an overwrite fails (`fs_backend_fat.rs:402`), the old tail
  stays behind an Ok. `OkMeansDone` is checked without that failure.
- The boot log's append (`bootlog.rs:109`) rewrites the file, so power loss can
  lose earlier lines; only `true_append` has `TrueAppendKeepsLog`.
- `entry+3.conf` becomes `entry+2.conf`, without DONE (`bls.rs:260`).
- The trust log is appended to, not truncated, on each boot (`trust_log.rs:91`).
- `native_pe = "always"` is honoured without shim (`boot_route_pure.rs:62`);
  `Authorised` excludes it.
- An ISO on the ESP makes the ESP's backend shared and unwritable
  (`boot.rs:215`); `AuditBeforeStart` excludes it.
- Two flushes ignore `conout_fat_coupling` (`boot.rs:1360`, `main.rs:1428`).
- In a crash loop the recovery default is looked up by id, which two entries may
  share (`main.rs:1209`): the countdown then boots the first entry of that id,
  which may be a broken one although the recovery pick is not (against
  `main.rs:1199` and 1475). `CountdownSound`, a part of `CrashLoopChoice`, asks
  for the id only. The text menu's countdown may boot a tool
  (`console.rs:75`); after a tool the countdown starts again (`main.rs:1437`).
- After a hash mismatch the firmware loads the same bytes (`boot.rs:938`, against
  `boot.rs:1190`); a refused kernel ends the program (`main.rs:1452`, against
  `boot.rs:1105`).
- The non-volatile `LoaderBootCountPath` outlives the boot it was about
  (`health.rs:234`, against `SECURITY-GUIDE.md:161`).
- The override is on while a driver runs, not only while it is loaded
  (`drivers.rs:226` to 238, against `security_override.rs:53`).
- Where only some entries have a version, newest first does not hold and the
  order may depend on the directory (`bls_parse.rs:299`, against `bls.rs:207`);
  `BlsOrderDeterministic` is about all or none.
- The kernels of all distro directories are called `vmlinuz`, so
  `dedup_entries` keeps that of the first directory only (`discovery.rs:660`).
  `policy.toml`'s patterns see a path as its scanner spells it
  (`policy.rs:231`).
- An uninstall refused when an initrd is dropped (`initrd.rs:154`) would leave
  the firmware a pointer to freed memory; `DropInitrd` has both succeed.
- A key pressed in the last frame of a countdown comes too late: time is looked
  at before `poll` (`gui.rs:412`). `TimeoutOnlyUntouched` names this case.
- Two entries of one id with different contents are not both listed when they
  boot the same kernel name (`discovery.rs:158`, against `discovery.rs:74`), and
  a kernel is looked for on all volumes, not on its entry's (`boot.rs:747`,
  against `bls.rs:39`).
- A probe takes the firmware's driver off a volume mounted from it
  (`partitions.rs:401`, against 213); a boot volume with another partition type
  is probed (against `main.rs:776`, `partitions.rs:86`). `BootVolumeSafe` names
  this exception.
- Skipped MBR partitions come back as opaque ones (`partitions.rs:90`).
- A refused write of `BootOrder` still returns `Created` (`boot_entry.rs:216`,
  against 64); `CreatedIsFirst` names this exception.
- A full breadcrumb buffer drops the late lines and keeps short ones that still
  fit (`diag.rs:97`), so the trail is not a prefix; it is written once per
  handoff, not once per boot (`diag.rs:105`).
- The flush of `boot.log` ignores the 64 KB cap (`bootlog.rs:72`, against
  `ARCHITECTURE.md:269`); if the first write of a boot fails, the log of the
  boot before stays.
- The countdown advances on quiet polls only (`gui.rs:540`, against
  `USER-GUIDE.md:150`), the text menu leaves it on the screen after Esc, and timeouts near
  2^32 ms wrap. Going back to the left column can leave the selection out of
  view (`gui.rs:454`), which `SelectionShown` excepts; the right column does not scroll
  (`ARCHITECTURE.md:277`).

### Bounds

- `BootHealth`: `CounterMax` is 5 or 6 instead of 255 and `CrashThreshold` 3, so
  that counting up to the threshold, past it, and saturating all happen;
  two generation ids suffice for "the stored one" and "another", and machines
  without one are among the initial states.
- `EspWriter`: two paths (source and target of a rename), files of at most three
  chunks (whole, torn, empty), a cache of two chunks, so that one file evicts
  another and a third is too large to be cached. One range is read, the whole
  file; partial ranges are other keys of the same list.
- `BootCounting`: one entry of three tries (first, middle, last), an entry file
  of two chunks (a torn one that parses, and one that does not).
- `TrustLog`: four events and two boots: a flush of several events after a
  flush that failed, and a file with lines of another boot.
- `BootLogs`: caps of three units and lines of one or two, so that a line fits,
  just fits and does not; three lines, two boots, one failing write.
- `SelfInstall`: slots 0 to 3, the last one outside the scan; two faults (a
  write cut and a later misread) and two edits by the operating system.
- `BootAttempt`: two selections (a tool that takes ShimLock with it, then a
  kernel) of every image that differs in what the code looks at; one power-on,
  since nothing but the log outlives it and `stored_all` covers that.
- `BootLoop`: two other volumes (the least that can be swapped), two entries
  and a tool, every combination of pattern, default, timeout and fallback order.
- `Menu`: a screen that shows one of three systems, so that it scrolls; a tablet,
  a mouse and two keyboards; points in a tile, at its edge and in the other
  column; three reports in all, in any order and at any time; seconds of 40 ms
  so that several frames fall in one.
- `PeImage`: about 4900 files around one good one, each field at the last value
  that is admitted and the first that is not, and relocation directories of up
  to two blocks; `WordBase` 1024 because TLC's integers have 32 bits.
- `ImageLoad`: one driver and two selections (`MaxSelections`; the second finds what the first
  left), one refused installation.
- `BlockSource`: words of five bits; media that end before, at and behind the
  largest number, block sizes that divide the word and that do not, requests
  of length 0, within a block, across blocks and past the end.
- `Mounting`: two or three partitions of every kind the loops tell apart, one
  failing call.
- `Discovery`: an ESP and one other volume, up to three `.conf` files each in
  any order, with every combination the sort and the filters tell apart.
- `Versions`: all pairs of strings up to two characters over a digit, zero, two
  letters, a dot, a tilde and a character that does not count, and strings of
  three over zero, one and a letter.

Deadlock checking is off where the program really ends (hand-off, exit, the
end of a load or a comparison) or where a bound on events, boots, reports or
faults ends the run.

### Fairness

- `writes_all` assumes `SF(CheckCrashLoop)`: a loader that gets to the
  crash-loop check again and again is not cut off exactly there each time. No
  boot is assumed to happen; the property is about machines that do keep
  booting.
- The other liveness properties assume weak fairness of the loader's own steps:
  it is one sequential program that does not stop by itself. In `BootLoop` that
  is `Progress` (a countdown ends, a started image hands over or returns), in
  `Menu` `MenuSteps` (poll, draw, count), in `SelfInstall` `BootSteps`, and in
  `Versions` the steps of the comparison. `PeSpec` states the same of a load,
  and no run or theorem depends on it.
  Nothing is assumed of the user, of the operating system or of a failure;
  faults, edits and reports are bounded, so they stop in the end. The bound matters: a
  pointer that reports for ever keeps `poll` from the keyboards
  (`input.rs:257`) and the countdown from advancing (`gui.rs:540`).

## What is proved

TLAPS checks these for every value of the constants that satisfies the named
assumptions of the modules. The assumptions say what the constants are (a set
of natural numbers, a sequence of records) and, where the code relies on it,
what the program's inputs satisfy: `LoopAssumption` that an entry's volume is
mounted and that tools come from the ESP, `DevicesAssumption` the order in which
`input.rs` collects devices, `MenuAssumption` that the default is one of the
entries, `MountAssumption` which type bytes and signatures a partition can have,
`DisksAssumption` that listings are lists, that the directories below `/EFI` have
different names and that no file has an empty one.
TLC evaluates all of them on the instances of the runs.

| theorem | statement | argument |
|---|---|---|
| `KeptStateProofs!TypeCorrect` | `Spec => []TypeOK` of `BootHealth` | directly inductive, one step per action |
| `NoFalseCrashLoopHolds` | no false crash loop, with a counter whose writes are not lost | `CountBound`: the stored counter never overtakes the boots begun, and is one short of them until this boot is charged. Without that distinction a power loss between the two writes would break the induction |
| `NoMissedCrashHolds` | no missed crash on metal, without lost writes | `CountKeepsUp`: the dual bound, from the boots that reached the menu |
| `Refinement` | `Spec => Abstract!Spec` | `HealthInv` says in which phases the stored state and counter may disagree; every step is then a step of `CrashCounter` or a stutter |
| `NeverDuplicatedHolds`, `NoDanglingOrderHolds`, `OrphanOnlyIfCutHolds`, `CreatedIsFirstHolds`, `OthersUntouchedHolds` | the NVRAM entries, for every number of slots, faults and edits | `InstallInv`: between the scan and the write the chosen slot is free and no slot is LamBoot's, unless a read failed; LamBoot's entry always lies within the scan; between the two writes the entry is not listed |
| `SeqIdentifiesEventHolds`, `LinesInOrderHolds` | numbering and order of the trust log | `LogInv`: the lines of this boot have increasing numbers below `Len(committed)`, and each carries the committed event of its number; appending any prefix of the pending lines keeps it |
| `LogsCompleteHolds` | `boot.log` and the breadcrumbs, for any caps and number of lines, boots and failed writes | `LogsInv`: the buffer has this boot's lines from the first on, no file has a line of a later boot or a higher number, breadcrumbs in the file were left before those that wait, and without a failed write each one is dropped for lack of room, waiting, or in the file |
| `BootCountingProofs!OkMeansDoneHolds` | what Ok of an `EspWriter` method means, on volumes where the delete of an overwrite works (the code ignores that failure) | `WorkInv`: at each firmware call of a running method, what the target holds already and what is still to come |
| `TrueAppendKeepsLogHolds` | an append in place keeps what was there | directly, one step per call |
| `CacheSoundHolds` | the cache's accounts, keys and contents | `CacheInv`: every cached range is what the file holds, except on the suspect paths: targets of failed methods and of the method that is running, which invalidates last. Lemmas: the byte count is a sum over the list, and eviction, insertion and removal keep it |
| `EntryNeverLostHolds`, `TriesNeverGrowHolds` | every entry keeps a complete file, and no step gives it tries back | `CountInv`: every file is missing or a prefix of a complete one, the target of a running copy is never the leading file, and for each id some complete file leads (has the most tries); the leading file only goes once a complete successor is there |
| `AttemptCountedHolds`, `BlessTargetIsRunningHolds` | a boot without failures is counted, and the OS blesses the file it runs from | `AttemptInv`: a rename that returned ended in ok or err, ok means that the file moved, and a hand-off without an error had that rename |
| `BootAttemptProofs!AuthorisedHolds` | only images shim or db accepts are started, with Secure Boot on and `native_pe` not `always` | `PostureSound`: with Secure Boot on no failed read makes the posture Disabled; `SeenSound`: when control is at the load step, a posture of ActiveWithShim means ShimLock accepted this image. The native route is taken only then, and the firmware checks by itself |
| `StartedOnceHolds`, `HonestReportHolds` | one start per selection; `boot.json` errs in one direction only | `OnceInv`: until its image is started, all starts are of earlier selections; `ReportInv`: what was reported and concluded about the image at each place of the boot path |
| `AuditBeforeStartHolds` | when an image runs, all that was recorded is in the file | `AuditInv`: without failed writes the file is a copy of what was flushed, and an image runs with nothing left to flush. Each action is first shown to record some set of events in one of three ways |
| `HonestRecordsHolds` | the records are true, and a start has exactly one | `RecordsInv`: nothing is said of later selections, nothing of this one's load until its image is started, and it comes to verification and loading only measured, or logged as not |
| `ImageProofs!TouchesOnlyItsOwnHolds`, `EntryIsCodeHolds`, `PagesFreedOnceHolds` | the loader, for every file | `PeInv`: behind the validator the file is one it admits, inside a relocation block its size was checked, and the place in the code says whether pages are held |
| `RelocatedAsListedHolds` | the fixups made are the ones listed | `RelocInv`: what was applied is what the directory lists before the current block and entry. The list is a recursive function; lemmas show that the blocks it reaches are those the loop visits, in order and apart |
| `HooksGivenBackHolds`, `OverrideVerdictHolds` | the hooks, for any number of drivers and boots | `HookInv`: guard and flag agree, are set exactly in the guarded scopes, and say whose functions the protocols hold |
| `FindsItsOwnInitrdHolds`, `InitrdAliveHolds`, `InitrdTwoPhaseHolds` | the initrd, for any number of boots and sizes | `LendInv`: only the attempt that holds a handle has both interfaces of a provider installed, and what is installed is allocated; `ReplyInv`: an answer is about this attempt's initrd |
| `BytesAsAskedHolds`, `CursorFollowsHolds`, `BoundedRoundsHolds`, `InsideMediaHolds` | reads, for every word size, medium and request | `SourceInv`: while a buffer is filled, the cursor is the offset plus what arrived, and each round brought a byte; lemmas on the rounding to blocks |
| `SessionProofs!CrashLoopChoiceHolds` | the choice in a crash loop, for every list of entries and policy | `LoopInv`: entries and policy do not change and the entry that is booted was chosen from them; lemmas on the three searches through the list, and that what the menu is given as default, an id without a pattern, is looked up to an entry of that id |
| `SelectionShownHolds`, `ChosenAsShownHolds`, `TimeoutOnlyUntouchedHolds` | the menus, for every screen, list, timeout and order of reports | `MenuInv`: where the loop waits, what is shown has the selection, scroll offset and view of the state; the countdown is the frames counted, modulo the word. `TouchInv`: a key press or click of an earlier frame has either stopped the countdown or is a key that waits behind devices `poll` asks first, and then no frame ends. For the view, one lemma per kind of step that `adjust_scroll`, or a hit inside the drawn rows, leaves the selection in view. The places at which tiles are drawn and hit are shown to agree by arithmetic on rows |
| `MountingProofs!BootVolumeSafeHolds` | probing hangs only the machine of the known exception | `ListInv`: before discovery only `mount_esp` holds a file system, and what is listed was classified or carries none |
| `OneHolderHolds` | one readable volume for a file system, BlockIO held under a mounted volume or not at all | `HoldInv`: what each loop has passed and what it has still before it, with the members of a pool held together; `ScanInv`: the same while volumes are only read |
| `NothingMissedHolds` | when nothing fails, no pass takes away what a later one would mount | `MissInv`: a sound file system that is not readable yet is free and in front of the loop that mounts it |
| `StartupProofs!MenuOrderedHolds` | the order of the menu, for all contents of the volumes | `BlsInv`: the BLS entries found so far are those of the volumes passed, volume after volume, each volume's sorted; a lemma for each comparison that it is a strict weak order where it is used, and that insertion finds the one sorted list when it decides between any two entries. De-duplication keeps part of a sorted list |
| `EntriesSoundHolds`, `KernelOnceHolds` | what an entry stands for, and that each file is there once | `MenuInv`: each entry found by a scanner has its file on its volume and a key that fits its path (`KeyFits`), and those of `.conf` files stand before all others, so the first of a key, which `dedup_entries` keeps, is one of them if any is; `KeyTells`: two entries have one key just when they are about one file |
| `MarksWhatBootsHolds` | preflight looks at the file that boots | `MarksInv`: marks and checked files go together, entry by entry. The two look-ups, preflight's over all volumes and the boot path's, are shown to find the same file for a Linux entry and for what lies on the ESP |

tlapm cannot instantiate the library's induction theorems, whose parameter is an
operator. `Induction` goes around this: from the theorem that every non-empty
set of numbers has a least element it proves induction over a set (a set that
has 0 and with `n` also `n + 1` holds all numbers), and from that what the
recursive functions of the models and the left folds of the community modules
compute, by showing that they satisfy their equations. For this the helpers of
the proved modules are recursive functions and not `RECURSIVE` operators, and the
sort of `Discovery` takes a set of pairs and not an operator: tlapm can unfold
neither `SelectSeq` nor a fold over a `LAMBDA`.

Only model-checked:

- liveness (`CrashLoopEngages`, `InstalledEventually`, `EndsUnattended`,
  `AutoBoots`, `ComparisonEnds`), which is outside the prover;
- `VersionOrder`, which compares the loop with an order defined by `RECURSIVE`
  operators on the words of a version. That this order is transitive, zeros
  against letters included, takes an induction on three versions at once.

## What is not modelled

`PROJECT.json` lists every part with its reason. In short:

- The filesystem and LVM backends are adapters around external crates; their
  reads are `BlockSource`'s and their mounting is in `Mounting`.
- Platform look-ups (ACPI, SMBIOS, fw_cfg, quirks) read once and change nothing.
- Parsing of `policy.toml`, of ISO recipes and of a UKI's os-release is text
  work without state; the models have the values that come out. Among it,
  `parse_os_release` slices a lone quote character from 1 to 0 (`uki.rs:232`).
- Drawing of pixels other than the places of the tiles.
- PCR 12: the command line is measured in `main.rs:1331` and again in the boot
  path; what the register must hold is fixed by no code or comment.
- The installer, the kernel hooks and the host tools are programs of the running
  system. They meet the loader through files and variables, which the models
  allow in every state the loader may find.
- The diagnostic modules are separate programs that appear as tools.
