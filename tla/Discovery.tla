------------------------------ MODULE Discovery ------------------------------
(***************************************************************************)
(* discover_all_entries (discovery.rs) with the scan of one volume (bls.rs)*)
(* the parser and the sort of BLS entries (bls_parse.rs) and the search    *)
(* for an initrd (autodiscovery.rs): from what lies on the mounted volumes *)
(* to the list of entries the menu shows.                                  *)
(*                                                                         *)
(* Ids, keys and versions are numbers, compared as the code compares the   *)
(* strings (Versions models version_compare); None stands for an absent    *)
(* one.  A path is <<directory, file name>>, a kernel's file name is its   *)
(* version, and case is left out.  Volume 0 is the ESP.                    *)
(***************************************************************************)
EXTENDS Integers, Sequences, FiniteSets, FiniteSetsExt, Functions

CONSTANTS
  Disks,      \* what may lie on the volumes: see Disk below
  GrubVars,   \* tokens that start with $
  ArchNames,  \* kernel versions "linux" and "linux-...": Arch Linux
  ArchBase    \* "linux"

VARIABLES
  disk,       \* the volumes' contents
  dpc,        \* the phase of discover_all_entries
  vol,        \* the volume the loop has reached
  allBls,     \* all_bls
  entries,    \* entries
  split,      \* cohort_split
  events,     \* kinds and files of trust log events recorded
  candidates  \* history: the entries before dedup_entries

discVars == <<disk, dpc, vol, allBls, entries, split, events, candidates>>

None == -1
NoPath == <<>>
Unsplit == <<>>

\* disk.volumes[i]: the .conf files of /loader/entries in directory order, the
\* initrd files, the ISO files; disk.esp: what the ESP-only scanners look for;
\* disk.policy: denied paths, iso_enabled, iso_optical_enabled, modules_enabled,
\* bls_ignore_sort_key.  A path is denied as the scanner spells it.
Volumes == disk.volumes
Esp == disk.esp
Policy == disk.policy
Allowed(path) == path \notin Policy.denied

IsSeq(s) == s \in Seq(Range(s))

\* Files are listed in some order; ids, keys and versions are numbers; the
\* directories below /EFI have different names; no file has the empty path.
ASSUME DisksAssumption ==
  \A d \in Disks :
    /\ IsSeq(d.volumes) /\ IsSeq(d.optical)
    /\ IsSeq(d.esp.ukis) /\ IsSeq(d.esp.dirs) /\ IsSeq(d.esp.tools)
    /\ \A i \in DOMAIN d.volumes :
         LET v == d.volumes[i]
         IN  /\ IsSeq(v.confs) /\ IsSeq(v.isos) /\ NoPath \notin v.files
             /\ \A j \in DOMAIN v.confs :
                  LET c == v.confs[j]
                  IN  /\ c.file.base \in Nat /\ IsSeq(c.lines)
                      /\ \A k \in DOMAIN c.lines :
                           c.lines[k][1] \in {"version", "machine-id", "sort-key"} =>
                             c.lines[k][2] \in Nat
    /\ \A i \in DOMAIN d.esp.dirs :
         /\ d.esp.dirs[i].rank \in Nat
         /\ \A j \in DOMAIN d.esp.dirs : d.esp.dirs[i].rank = d.esp.dirs[j].rank => i = j

DiscInit ==
  /\ disk \in Disks
  /\ dpc = "bls" /\ vol = 1
  /\ allBls = <<>> /\ entries = <<>> /\ split = Unsplit
  /\ events = {} /\ candidates = <<>>
-----------------------------------------------------------------------------
(* Lists *)

\* The elements of s at the places in I, in their order.
Keep(s, I) ==
  LET upTo[n \in 0 .. Len(s)] ==
        IF n = 0 THEN <<>>
        ELSE IF n \in I THEN Append(upTo[n - 1], s[n]) ELSE upTo[n - 1]
  IN  upTo[Len(s)]

\* sort_by, which for short lists is insertion from the right: an element moves
\* left past those it is less than.  "less" has the pairs of elements of which
\* the first is less.
Insert(s, e, less) ==
  LET k == Max({0} \cup {i \in DOMAIN s : <<e, s[i]>> \notin less})
  IN  SubSeq(s, 1, k) \o <<e>> \o SubSeq(s, k + 1, Len(s))

SortBy(s, less) ==
  LET sorted[n \in 0 .. Len(s)] == IF n = 0 THEN <<>> ELSE Insert(sorted[n - 1], s[n], less)
  IN  sorted[Len(s)]

Pairs(s) == Range(s) \X Range(s)
-----------------------------------------------------------------------------
(* One .conf file *)

\* The value of the last line with a key; lines are <<key, value>>.
Field(lines, key, absent) ==
  LET at == {k \in DOMAIN lines : lines[k][1] = key}
  IN  IF at = {} THEN absent ELSE lines[Max(at)][2]

\* All values of a key, in order.
Values(lines, key) ==
  LET with == Keep(lines, {k \in DOMAIN lines : lines[k][1] = key})
  IN  [k \in DOMAIN with |-> with[k][2]]

\* BlsEntry::parse, with the counter of the file name; "home" is stamped by the
\* scan.  A counter "+<left>" without "-<done>" means none done yet.
Parse(conf, home) ==
  LET v(key) == Field(conf.lines, key, None)
  IN  [file |-> conf.file, id |-> conf.file.base, tries |-> conf.file.tries,
       version |-> v("version"), machine |-> v("machine-id"), sortKey |-> v("sort-key"),
       linux |-> Field(conf.lines, "linux", NoPath), efi |-> Field(conf.lines, "efi", NoPath),
       arch |-> Field(conf.lines, "architecture", "any"),
       initrd |-> Values(conf.lines, "initrd"), options |-> Values(conf.lines, "options"),
       home |-> home]

Valid(e) == e.linux # NoPath \/ e.efi # NoPath

\* find_initrd: microcode first, then the first pattern that exists.  An initrd
\* file is <<directory, kind, version>>.
FindInitrd(kernel, files) ==
  LET dir == kernel[1]
      ver == kernel[2]
      ucodes == <<<<dir, "intel-ucode", "">>, <<dir, "amd-ucode", "">>>>
      patterns ==
        <<<<dir, "initramfs", ver>>, <<dir, "initrd.img", ver>>, <<dir, "initrd", ver>>,
          <<dir, "fallback", ver>>, <<"boot", "initramfs", ver>>,
          <<"boot", "initrd.img", ver>>, <<"boot", "initrd", ver>>,
          <<"root", "initramfs", ver>>, <<"root", "initrd.img", ver>>>>
        \o IF ver \in ArchNames THEN <<<<dir, "initramfs", ArchBase>>>> ELSE <<>>
      first(s) == LET there == {k \in DOMAIN s : s[k] \in files}
                  IN  IF there = {} THEN <<>> ELSE <<s[Min(there)]>>
  IN  first(ucodes) \o first(patterns)

WithInitrd(e, files) ==
  IF e.initrd = <<>> /\ e.linux # NoPath
  THEN [e EXCEPT !.initrd = FindInitrd(e.linux, files)] ELSE e
-----------------------------------------------------------------------------
(* The order of BLS entries *)

Less == -1
Equal == 0
Greater == 1
Cmp(x, y) == IF x < y THEN Less ELSE IF x > y THEN Greater ELSE Equal

\* cmp_opt_str: an absent value sorts last.
CmpOpt(x, y) ==
  IF x = None /\ y = None THEN Equal
  ELSE IF x = None THEN Greater ELSE IF y = None THEN Less ELSE Cmp(x, y)

\* The second comparison is looked at when the first does not decide.
Then(c, d) == IF c # Equal THEN c ELSE d

Bad(e) == e.tries = 0
YesFirst(p, q) == IF p = q THEN Equal ELSE IF p THEN Less ELSE Greater

\* Seeded defect: nothing decides between entries that tie.
CmpIdTies(x, y) == Equal

\* The filename fallback: descending between versioned entries, else ascending.
CmpId(x, y) == IF x.version # None /\ y.version # None THEN Cmp(y.id, x.id) ELSE Cmp(x.id, y.id)

\* Descending.  An absent version is the empty string, below all others.
CmpVersion(x, y) == Cmp(y.version, x.version)

CmpIgnoringSortKey(x, y) ==
  Then(CmpOpt(x.machine, y.machine),
       IF x.version # None /\ y.version # None THEN CmpVersion(x, y) ELSE Equal)

CmpBySortKey(x, y) ==
  Then(YesFirst(x.sortKey # None, y.sortKey # None),
       IF x.sortKey # None /\ y.sortKey # None
       THEN Then(Cmp(x.sortKey, y.sortKey), Then(CmpOpt(x.machine, y.machine), CmpVersion(x, y)))
       ELSE Equal)

BlsSortCompare(x, y) ==
  Then(YesFirst(~Bad(x), ~Bad(y)),
       Then(IF Policy.ignoreSortKey THEN CmpIgnoringSortKey(x, y) ELSE CmpBySortKey(x, y),
            CmpId(x, y)))

SortBls(s) == SortBy(s, {p \in Pairs(s) : BlsSortCompare(p[1], p[2]) = Less})
-----------------------------------------------------------------------------
(* The scan of a volume *)

\* The parsed entries of a directory that pass the filters of
\* scan_volume_for_bls, in directory order.
Accepted(confs, files, home) ==
  LET taken(c) == LET e == Parse(c, home)
                  IN  /\ c.named /\ c.readable
                      /\ Valid(e) /\ e.arch # "foreign"
                      /\ e.linux # NoPath => Allowed(e.linux)
      native == Keep(confs, {k \in DOMAIN confs : taken(confs[k])})
  IN  [k \in DOMAIN native |-> WithInitrd(Parse(native[k], home), files)]

ScanVolumeForBls(v, home) == SortBls(Accepted(v.confs, v.initrds, home))

ScanEvents(v) ==
  LET named == {v.confs[k] : k \in {j \in DOMAIN v.confs : v.confs[j].named}}
  IN  {<<"bls_entry_read_failed", c.file>> : c \in {d \in named : ~d.readable}}
      \cup {<<"bls_entry_invalid", c.file>> :
              c \in {d \in named : d.readable /\ ~Valid(Parse(d, 0))}}

\* Seeded defect: every entry is taken to be the ESP's.
ScanBlsOnEsp ==
  /\ dpc = "bls" /\ vol <= Len(Volumes)
  /\ allBls' = allBls \o ScanVolumeForBls(Volumes[vol], 0)
  /\ events' = events \cup ScanEvents(Volumes[vol])
  /\ vol' = vol + 1
  /\ UNCHANGED <<disk, dpc, entries, split, candidates>>

ScanBls ==
  /\ dpc = "bls" /\ vol <= Len(Volumes)
  /\ allBls' = allBls \o ScanVolumeForBls(Volumes[vol], vol - 1)
  /\ events' = events \cup ScanEvents(Volumes[vol])
  /\ vol' = vol + 1
  /\ UNCHANGED <<disk, dpc, entries, split, candidates>>

ScanBlsDone ==
  /\ dpc = "bls" /\ vol > Len(Volumes)
  /\ dpc' = "dedup"
  /\ UNCHANGED <<disk, vol, allBls, entries, split, events, candidates>>
-----------------------------------------------------------------------------
(* From BLS entries to menu entries *)

\* PartialEq for BlsEntry: everything but where it was found.
SameContent(x, y) == [x EXCEPT !.home = 0] = [y EXCEPT !.home = 0]

\* dedup_bls_entries: an entry is compared with the first kept one of its file
\* name, which is the first of that name, and dropped when it is a copy.
DedupBlsEntries(s) ==
  LET first(k) == Min({i \in DOMAIN s : s[i].file = s[k].file})
  IN  Keep(s, {k \in DOMAIN s : first(k) = k \/ ~SameContent(s[first(k)], s[k])})

\* detect_cohort_split: the first machine id, in order, with entries both with
\* and without a sort-key, and the newest version without.
CohortOf(s, m, keyed) ==
  {k \in DOMAIN s : s[k].machine = m /\ (s[k].sortKey # None) = keyed}

DetectCohortSplit(s) ==
  LET mixed == {m \in {s[k].machine : k \in DOMAIN s} \ {None} :
                  CohortOf(s, m, TRUE) # {} /\ CohortOf(s, m, FALSE) # {}}
      m == Min(mixed)
  IN  IF mixed = {} THEN Unsplit
      ELSE <<Cardinality(CohortOf(s, m, TRUE)), Cardinality(CohortOf(s, m, FALSE)),
             Max({s[k].version : k \in CohortOf(s, m, FALSE)})>>

NotGrub(s) == Keep(s, {k \in DOMAIN s : s[k] \notin GrubVars})

\* extract_filename and extract_filename_lower cut at backslashes only: a path
\* written with slashes stays whole.
ExtractFilename(path, separator) ==
  IF separator = "backslash" THEN <<"name", path[2]>> ELSE <<"path", path>>

\* A menu entry.  key is what dedup_entries compares: the file name as it is
\* extracted, or a disc's label.
MenuEntry(id, kind, path, key, home) ==
  [id |-> id, kind |-> kind, path |-> path, key |-> key, home |-> home,
   file |-> <<>>, initrd |-> <<>>, options |-> <<>>]

\* to_boot_entry: efi before linux.  The parser wrote both with backslashes.
ToBootEntry(e) ==
  IF e.efi # NoPath
  THEN [MenuEntry(<<"bls", e.id>>, "Chainload", e.efi, ExtractFilename(e.efi, "backslash"), e.home)
          EXCEPT !.file = <<e.file>>]
  ELSE [MenuEntry(<<"bls", e.id>>, "LinuxLegacy", e.linux, ExtractFilename(e.linux, "backslash"), e.home)
          EXCEPT !.file = <<e.file>>, !.initrd = NotGrub(e.initrd), !.options = NotGrub(e.options)]

DedupBls ==
  /\ dpc = "dedup"
  /\ LET kept == DedupBlsEntries(allBls)
     IN  /\ allBls' = kept
         /\ split' = DetectCohortSplit(kept)
         /\ entries' = [k \in DOMAIN kept |-> ToBootEntry(kept[k])]
         /\ events' = events
              \cup {<<"bls_duplicate_filename", kept[k].file>> :
                      k \in {j \in DOMAIN kept : \E i \in 1 .. j - 1 : kept[i].file = kept[j].file}}
              \cup IF split' = Unsplit THEN {} ELSE {<<"cohort_split_detected", split'>>}
  /\ dpc' = "iso" /\ vol' = 1
  /\ UNCHANGED <<disk, candidates>>
-----------------------------------------------------------------------------
(* The other scanners *)

\* discover_iso_files, one volume at a time.
DiscoverIso ==
  /\ dpc = "iso" /\ Policy.isoEnabled /\ vol <= Len(Volumes)
  /\ LET isos == Volumes[vol].isos
     IN  entries' = entries \o
           [k \in DOMAIN isos |->
              MenuEntry(<<"iso", isos[k]>>, "IsoFile", isos[k],
                        ExtractFilename(isos[k], "slash"), vol - 1)]
  /\ vol' = vol + 1
  /\ UNCHANGED <<disk, dpc, allBls, split, events, candidates>>

DiscoverIsoDone ==
  /\ dpc = "iso" /\ (Policy.isoEnabled => vol > Len(Volumes))
  /\ dpc' = "optical"
  /\ UNCHANGED <<disk, vol, allBls, entries, split, events, candidates>>

DiscoverOptical ==
  /\ dpc = "optical"
  /\ LET labels == IF Policy.opticalEnabled THEN disk.optical ELSE <<>>
     IN  /\ entries' = entries \o
              [k \in DOMAIN labels |->
                 MenuEntry(<<"optical", labels[k]>>, "IsoOptical", NoPath,
                           <<"optical", labels[k]>>, 0)]
         /\ events' = events \cup {<<"iso_optical_discovered", labels[k]>> : k \in DOMAIN labels}
  /\ dpc' = IF Volumes = <<>> THEN "unique" ELSE "esp"
  /\ UNCHANGED <<disk, vol, allBls, split, candidates>>

\* What is looked for on the ESP at a path written with backslashes, and what
\* Volume::glob finds there.
EspEntry(id, kind, path) == MenuEntry(id, kind, path, ExtractFilename(path, "backslash"), 0)
GlobEntry(id, kind, path) == MenuEntry(id, kind, path, ExtractFilename(path, "slash"), 0)

DiscoverWindows ==
  LET path == <<"microsoft", "bootmgfw">>
  IN  IF Esp.windows /\ Allowed(path) THEN <<EspEntry(<<"windows">>, "Chainload", path)>> ELSE <<>>

\* Newest first; the id counts the images in directory order.
DiscoverLinuxUki ==
  LET shown == Keep(Esp.ukis, {k \in DOMAIN Esp.ukis : Allowed(Esp.ukis[k].path)})
      numbered == [k \in DOMAIN shown |-> [uki |-> shown[k], n |-> k - 1]]
      sorted == SortBy(numbered, {p \in Pairs(numbered) : p[1].uki.version > p[2].uki.version})
  IN  [k \in DOMAIN sorted |->
         [GlobEntry(<<"uki", sorted[k].n>>, "Uki", sorted[k].uki.path)
            EXCEPT !.options = sorted[k].uki.cmdline]]

\* What one entry of /EFI contributes: known files are skipped, a directory
\* <name>-<uuid> has its kernel and the previous one beside it.
DirStyleEntries(d) ==
  LET linux(n, name, there) ==
        [EspEntry(<<"sdboot", d.rank, n>>, "LinuxLegacy", <<d.name, name>>)
           EXCEPT !.initrd = IF there THEN <<<<d.name, name, "">>>> ELSE <<>>,
                  !.options = d.cmdline]
  IN  IF \/ d.kind \in {"Regular", "Symlink"} \/ ~d.uuid
         \/ ~d.kernel \/ ~Allowed(<<d.name, "vmlinuz">>)
         \/ d.cmdline = <<>> /\ ~d.initrd
      THEN <<>>
      ELSE <<linux(0, "vmlinuz", d.initrd)>>
           \o IF d.prev /\ Allowed(<<d.name, "vmlinuz-previous">>)
              THEN <<linux(1, "vmlinuz-previous", d.prevInitrd)>> ELSE <<>>

\* discover_systemd_boot_dir_style: what all of them contribute, sorted by id.
AllDirEntries(dirs) ==
  LET upTo[n \in 0 .. Len(dirs)] ==
        IF n = 0 THEN <<>> ELSE upTo[n - 1] \o DirStyleEntries(dirs[n])
  IN  upTo[Len(dirs)]

DirStyle(dirs) ==
  LET all == AllDirEntries(dirs)
  IN  SortBy(all, {p \in Pairs(all) : \/ p[1].id[2] < p[2].id[2]
                                      \/ p[1].id[2] = p[2].id[2] /\ p[1].id[3] < p[2].id[3]})

\* The self-loop guards: neither booted from the fallback path, nor is the hash
\* of the file there that of the running image.  selfImage is <<what memory holds
\* of LamBoot>>, which the firmware has relocated, or <<>> when that is not known.
OffersFallback == ~Esp.bootedFallback /\ Esp.selfImage # <<Esp.fallbackFile>>

DiscoverOtherLoaders ==
  LET paths == <<<<"grub", "grubx64">>, <<"refind", "refind_x64">>, <<"boot", "bootx64">>>>
      shown == Keep(paths, {k \in DOMAIN paths :
                            /\ paths[k][1] \in Esp.loaders /\ Allowed(paths[k])
                            /\ paths[k][1] = "boot" => OffersFallback})
  IN  [k \in DOMAIN shown |-> EspEntry(<<shown[k][1]>>, "Chainload", shown[k])]

DiscoverTools ==
  LET shown == IF Policy.modulesEnabled
               THEN Keep(Esp.tools, {k \in DOMAIN Esp.tools : Allowed(Esp.tools[k])}) ELSE <<>>
  IN  [k \in DOMAIN shown |->
         GlobEntry(<<"tool", ExtractFilename(shown[k], "slash")>>, "Chainload", shown[k])]

ScanEsp ==
  /\ dpc = "esp"
  /\ entries' = entries \o DiscoverWindows \o DiscoverLinuxUki \o DirStyle(Esp.dirs)
                        \o DiscoverOtherLoaders \o DiscoverTools
  /\ dpc' = "unique"
  /\ UNCHANGED <<disk, vol, allBls, split, events, candidates>>

\* Seeded defect: entries are compared by path, as two copies of a kernel differ.
DedupByPath(s) == Keep(s, {k \in DOMAIN s : \A i \in 1 .. k - 1 : s[i].path # s[k].path})

\* dedup_entries: the first entry of each key stays.
DedupEntries(s) == Keep(s, {k \in DOMAIN s : \A i \in 1 .. k - 1 : s[i].key # s[k].key})

Unique ==
  /\ dpc = "unique"
  /\ candidates' = entries
  /\ entries' = DedupEntries(entries)
  /\ dpc' = "menu"
  /\ UNCHANGED <<disk, vol, allBls, split, events>>

DiscNext ==
  ScanBls \/ ScanBlsDone \/ DedupBls \/ DiscoverIso \/ DiscoverIsoDone \/ DiscoverOptical
  \/ ScanEsp \/ Unique

DiscSpec == DiscInit /\ [][DiscNext]_discVars
-----------------------------------------------------------------------------
(* Properties *)

InMenu == dpc = "menu"
Orders(s) == {[k \in DOMAIN s |-> s[p[k]]] : p \in Bijection(DOMAIN s, DOMAIN s)}
AcceptedOn(i) == Accepted(Volumes[i].confs, Volumes[i].initrds, i - 1)

\* Entries with and without a version are not compared by one rule.
Uniform(s) ==
  \/ \A k \in DOMAIN s : s[k].version # None
  \/ \A k \in DOMAIN s : s[k].version = None
  \/ ~Policy.ignoreSortKey /\ \A k \in DOMAIN s : s[k].sortKey # None

\* The menu's order of a volume's BLS entries does not depend on the order of
\* the directory, when the entries' ids differ and all of them, or none, carry
\* a version: the comparison is then an order and the sort finds it.
BlsOrderDeterministic ==
  vol = 1 /\ dpc = "bls" =>
    \A i \in DOMAIN Volumes :
      LET s == AcceptedOn(i)
      IN  Uniform(s) /\ IsInjective([k \in DOMAIN s |-> <<s[k].id, Bad(s[k])>>]) =>
            \A t \in Orders(s) : SortBls(t) = SortBls(s)

\* No entry of a volume that has run out of tries stands before one that has
\* not, whatever else the entries say ("Bad entries sort last").
BadLast ==
  \A i, j \in DOMAIN allBls :
    dpc = "bls" /\ i < j /\ allBls[i].home = allBls[j].home /\ Bad(allBls[i]) => Bad(allBls[j])

\* With bls_ignore_sort_key the good versioned entries of one machine on one
\* volume form "a single version-descending bucket" (bls.rs:207).
NewestFirst ==
  \A i, j \in DOMAIN allBls :
    LET x == allBls[i]
        y == allBls[j]
    IN  Policy.ignoreSortKey /\ i < j /\ x.home = y.home /\ x.machine = y.machine
        /\ ~Bad(x) /\ ~Bad(y) /\ x.version # None /\ y.version # None
          => x.version >= y.version

\* The same, when every entry of the volume has a version.
NewestFirstIfVersioned ==
  (\A k \in DOMAIN allBls : allBls[k].version # None) => NewestFirst

\* The menu's order of distro directories does not depend on the order in which
\* the file system lists them (Bug 25).
DirOrderDeterministic == dpc = "esp" => \A t \in Orders(Esp.dirs) : DirStyle(t) = DirStyle(Esp.dirs)

\* The files Volume::glob found: UKIs, tools and ISOs.
Globbed(e) == e.kind \in {"Uki", "IsoFile"} \/ e.id[1] = "tool"

\* Both entries are about one file, as far as dedup_entries can tell: the same
\* file name where the paths have backslashes, the same path among the globbed.
SameFile(x, y) ==
  /\ x.kind # "IsoOptical" /\ y.kind # "IsoOptical"
  /\ Globbed(x) = Globbed(y)
  /\ IF Globbed(x) THEN x.path = y.path ELSE x.path[2] = y.path[2]

\* A kernel or loader found several times is listed just once, and as its BLS
\* entry when it has one: only that entry's tries are counted down.  A UKI, a
\* tool or an ISO is never taken for one of another directory.  That a UKI and
\* a BLS entry of it both stay is what KernelListedOnce shows.
KernelOnce ==
  InMenu => \A k \in DOMAIN candidates :
    LET c == candidates[k]
        listed == {j \in DOMAIN entries : SameFile(entries[j], c)}
    IN  c.kind # "IsoOptical" =>
          /\ \E j \in listed : listed = {j}
          /\ c.file # <<>> => \A j \in listed : entries[j].file # <<>>

\* "the same kernel discovered from ESP (`\EFI\Linux\vmlinuz-6.19.9...`) and
\* from /boot via ext4 driver (`\vmlinuz-6.19.9...`) is recognized as one entry"
\* (discovery.rs:289): no kernel's file name is in the menu twice.
KernelListedOnce ==
  InMenu => \A i, j \in DOMAIN entries :
    LET kernel(e) == e.kind \in {"Uki", "LinuxLegacy"} \/ e.file # <<>>
    IN  kernel(entries[i]) /\ kernel(entries[j]) /\ entries[i].path[2] = entries[j].path[2]
          => i = j

\* source_volume_index names the volume that holds an entry's .conf file, or
\* its ISO, after all the lists were joined and entries dropped.
SourceVolumeHolds ==
  InMenu => \A k \in DOMAIN entries :
    LET e == entries[k]
        v == Volumes[e.home + 1]
    IN  /\ e.file # <<>> => \E j \in DOMAIN v.confs :
             /\ v.confs[j].file = e.file[1]
             /\ e.path \in {Field(v.confs[j].lines, "efi", NoPath),
                            Field(v.confs[j].lines, "linux", NoPath)}
        /\ e.kind = "IsoFile" => e.path \in Range(v.isos)

\* An initrd found without being named belongs to the entry's kernel and lies
\* on the entry's volume.  The exception is an Arch kernel flavour without an
\* initramfs of its own, which is given the one of the "linux" kernel.
FitsKernel(f, kernel, files) ==
  /\ f \in files
  /\ \/ f[3] \in {"", kernel[2]}
     \/ kernel[2] \in ArchNames /\ <<kernel[1], "initramfs", kernel[2]>> \notin files

InitrdFitsKernel ==
  \A k \in DOMAIN allBls :
    LET e == allBls[k]
        v == Volumes[e.home + 1]
    IN  \E i \in DOMAIN v.confs :
          LET named == Values(v.confs[i].lines, "initrd")
          IN  /\ v.confs[i].file = e.file
              /\ \/ e.initrd = named
                 \/ named = <<>> /\ \A j \in DOMAIN e.initrd : FitsKernel(e.initrd[j], e.linux, v.initrds)

\* Discovery can "recognize and skip the synthetic "EFI Fallback" entry when
\* `\EFI\BOOT\BOOTX64.EFI` is itself a copy of LamBoot" (main.rs:982): the
\* menu does not offer a copy of the file LamBoot was loaded from.
FallbackIsNotLamBoot ==
  InMenu => \A k \in DOMAIN entries :
    entries[k].id = <<"boot">> => Esp.fallbackFile # Esp.selfFile

\* The order in which the menu lists entries is one of the entries, not of the
\* directories they were read from: bad ones last, newer ones first
\* (bls_sort_compare, discover_systemd_boot_dir_style).
MenuOrdered ==
  BlsOrderDeterministic /\ BadLast /\ NewestFirstIfVersioned /\ DirOrderDeterministic

\* An entry boots what it stands for: its volume has its files, and an initrd
\* that was searched for is its kernel's (discover_all_entries, find_initrd).
EntriesSound == SourceVolumeHolds /\ InitrdFitsKernel
=============================================================================
