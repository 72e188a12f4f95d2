------------------------------ MODULE MCStartup ------------------------------
(* Before the menu: the assessment of the boots so far, mounting the          *)
(* partitions of a machine, discovering and checking the entries of a set of  *)
(* volumes, and the comparison of versions that orders them.  "part" is the   *)
(* one that runs; the others rest.                                            *)
EXTENDS BootHealth, Preflight, Mounting, Versions

CONSTANTS g1, g2

VARIABLE part

TwoIds == {g1, g2}
NoFlaky == {}
-----------------------------------------------------------------------------
(* Machines: a partition is a plain GPT one but for what is named *)

Plain ==
  [table |-> "gpt", type |-> "other", sfs |-> FALSE, serves |-> TRUE, logical |-> TRUE,
   sigs |-> {}, sound |-> {}, pool |-> 0, lvs |-> [n \in {} |-> n]]
Formatted(p, s) == [p EXCEPT !.sigs = s, !.sound = s]
FirmwareFat(p) == [Formatted(p, {"fat"}) EXCEPT !.sfs = TRUE]

EspParts ==
  {FirmwareFat([Plain EXCEPT !.type = "esp"]), FirmwareFat([Plain EXCEPT !.table = "none"]),
   FirmwareFat([Plain EXCEPT !.table = "mbr", !.type = "efi"])}
\* Booted from a FAT partition of another type.
MistypedEsps == {FirmwareFat([Plain EXCEPT !.table = "mbr", !.type = "fat32"]), FirmwareFat(Plain)}

Xb == [Plain EXCEPT !.type = "xbootldr"]
Zfs == [Formatted(Plain, {"zfs"}) EXCEPT !.pool = 1]
Lv(s, ok) == [sigs |-> s, sound |-> IF ok THEN s ELSE {}]
Pv == [Formatted(Plain, {"lvm"}) EXCEPT !.lvs =
         [n \in {"root", "system"} |-> Lv({"ext4"}, n = "system")]]
IsoPv == [Formatted(Plain, {"lvm"}) EXCEPT !.lvs = [n \in {"root"} |-> Lv({"iso"}, TRUE)]]

\* Partitions that meet each other in the shared passes, ...
Meeting ==
  {Formatted(Plain, {s}) : s \in {"ext4", "btrfs", "iso"}} \cup
  {FirmwareFat(Plain), FirmwareFat(Xb), Formatted(Xb, {"fat"}), Zfs, [Zfs EXCEPT !.sound = {}],
   [Formatted(Plain, {"ext4"}) EXCEPT !.sfs = TRUE], Pv, IsoPv,
   [Pv EXCEPT !.table = "none"], [Plain EXCEPT !.table = "none", !.logical = FALSE]}

\* ... and all kinds, one at a time beside the ESP.
Kinds ==
  Meeting \cup
  {Formatted(Plain, {s}) : s \in {"xfs", "exfat", "f2fs"}} \cup
  {Formatted([Plain EXCEPT !.type = "root"], {"ext4"}), [Plain EXCEPT !.sigs = {"ext4"}],
   Formatted(Plain, {"ext4", "iso"}), Formatted(Plain, {"ext4", "lvm"}),
   [Plain EXCEPT !.sigs = {"ext4", "iso"}, !.sound = {"iso"}],
   [FirmwareFat(Xb) EXCEPT !.serves = FALSE], Formatted(Xb, {"ext4"}),
   [FirmwareFat(Xb) EXCEPT !.sound = {}], [Zfs EXCEPT !.pool = 2],
   [Formatted(Plain, {"ext4"}) EXCEPT !.sfs = TRUE, !.table = "none"],
   [Pv EXCEPT !.table = "mbr", !.type = "linux"],
   [Plain EXCEPT !.table = "mbr", !.type = "extended"],
   [Formatted(Plain, {"xfs"}) EXCEPT !.table = "none"]}

MCMachines ==
  {[parts |-> <<e, p, q>>, boot |-> 1, byDriver |-> d] :
     e \in EspParts, p \in Meeting, q \in Meeting, d \in BOOLEAN}
  \cup {[parts |-> <<p, e>>, boot |-> 2, byDriver |-> d] :
          e \in EspParts \cup MistypedEsps, p \in Kinds, d \in BOOLEAN}

MCLvNames == <<"root", "system">>
-----------------------------------------------------------------------------
(* Volumes: .conf files with and without sort-key and version, counted, of    *)
(* the same name, unreadable, of another architecture *)

Conf(base, tries, lines) ==
  [file |-> [base |-> base, tries |-> tries], lines |-> lines, named |-> TRUE, readable |-> TRUE]
Linux(dir, name) == <<"linux", <<dir, name>>>>

Confs == <<
  Conf(1, None, <<Linux("boot", "k7"), <<"machine-id", 1>>, <<"version", 5>>>>),
  Conf(2, None, <<Linux("root", "linux"), <<"machine-id", 1>>>>),
  Conf(3, None, <<Linux("root", "linux-lts"), <<"machine-id", 1>>,
                  <<"version", 6>>, <<"version", 7>>>>),
  Conf(4, 0, <<Linux("root", "k7"), <<"machine-id", 1>>, <<"sort-key", 2>>, <<"version", 8>>,
               <<"initrd", <<"root", "initramfs", "linux">>>>>>),
  Conf(1, 2, <<<<"efi", <<"linux", "k7">>>>, <<"sort-key", 1>>, <<"version", 4>>>>),
  [Conf(5, None, <<Linux("root", "k7")>>) EXCEPT !.readable = FALSE],
  Conf(6, None, <<<<"title", 1>>>>),
  Conf(7, None, <<Linux("root", "k7"), <<"architecture", "foreign">>>>)>>

\* A file of the same name with other contents.
Edited(c) == [c EXCEPT !.lines = @ \o <<<<"options", "$grub">>, <<"options", "ro">>>>]

Arrangements(S, n) == {s \in UNION {[1 .. k -> S] : k \in 0 .. n} : IsInjective(s)}
EspConfs == Arrangements({Confs[1], Confs[2], Confs[3], Confs[4]}, 3)
              \cup {<<Confs[5], Confs[6], Confs[1]>>}
RootConfs == Arrangements({Confs[1], Edited(Confs[1]), Confs[4]}, 2)
               \cup {<<Confs[7], Confs[8], Confs[5]>>, <<Confs[3]>>}

Vol(confs, initrds, isos, files) ==
  [confs |-> confs, initrds |-> initrds, isos |-> isos, files |-> files]

DistroDir(n, lists) ==
  [name |-> <<"d1", "d2", "d3", "d4">>[n], rank |-> n,
   kind |-> IF lists THEN "Other" ELSE "Directory", uuid |-> TRUE, kernel |-> TRUE,
   initrd |-> lists, prev |-> TRUE, prevInitrd |-> FALSE, cmdline |-> <<"ro">>]

FullEsp ==
  [windows |-> TRUE,
   ukis |-> <<[path |-> <<"linux", "k7">>, version |-> 7, cmdline |-> <<>>],
              [path |-> <<"linux", "k10">>, version |-> 9, cmdline |-> <<"ro">>]>>,
   dirs |-> <<DistroDir(2, TRUE), DistroDir(1, FALSE),
              [DistroDir(3, FALSE) EXCEPT !.cmdline = <<>>],
              [DistroDir(4, FALSE) EXCEPT !.kind = "Regular"]>>,
   loaders |-> {"grub", "boot"}, tools |-> <<<<"tools", "shell">>>>,
   bootedFallback |-> FALSE, fallbackFile |-> "another loader", selfFile |-> "lamboot",
   selfImage |-> <<"lamboot, relocated">>]
\* LamBoot itself is the fallback loader: booted from there, or a copy of it, with
\* the running image relocated, as it is in the file, or unknown.
BareEsp == [FullEsp EXCEPT !.windows = FALSE, !.dirs = <<>>]
SelfEsp == [BareEsp EXCEPT !.fallbackFile = "lamboot"]
SelfEsps == {[SelfEsp EXCEPT !.bootedFallback = TRUE]} \cup
            {[SelfEsp EXCEPT !.selfImage = m] : m \in {<<"lamboot, relocated">>, <<"lamboot">>, <<>>}}

EspFiles ==
  {<<"microsoft", "bootmgfw">>, <<"linux", "k7">>, <<"grub", "grubx64">>,
   <<"boot", "bootx64">>, <<"tools", "shell">>, <<"d1", "vmlinuz">>, <<"d2", "vmlinuz">>,
   <<"d1", "vmlinuz-previous">>, <<"d2", "vmlinuz-previous">>}
RootFiles ==
  {{<<"boot", "k7">>},
   {<<"boot", "linux">>, <<"root", "linux-lts">>, <<"root", "k7">>, <<"isos", "a.iso">>}}
EspInitrds == {<<"d2", "vmlinuz", "">>}
InitrdFiles == {{}, {<<"root", "initramfs", "linux">>, <<"root", "amd-ucode", "">>}}

GoodHeader ==
  [at |-> <<0, NoPath>>, len |-> 256, mz |-> TRUE, peOffset |-> 128, signature |-> TRUE,
   native |-> TRUE, shim |-> TRUE, db |-> FALSE]
\* The header of one kernel: elsewhere in the file, or of another architecture.
OddHeader(offset, native) ==
  [GoodHeader EXCEPT !.at = <<2, <<"root", "k7">>>>, !.peOffset = offset, !.native = native]

Pol(all) ==
  [denied |-> {<<"linux", "k10">>}, isoEnabled |-> all, opticalEnabled |-> all,
   modulesEnabled |-> all, ignoreSortKey |-> all]

Disk(vols, espLike, odd, all, posture) ==
  [volumes |-> vols, esp |-> espLike, good |-> GoodHeader, odd |-> odd, policy |-> Pol(all),
   optical |-> <<3>>, secureBoot |-> posture]

MCDisks ==
  {Disk(<<Vol(c, EspInitrds, <<>>, EspFiles), Vol(r, i, <<<<"isos", "a.iso">>>>, f)>>, FullEsp,
        OddHeader(128, FALSE), all, IF all THEN "ActiveWithShim" ELSE "Active") :
     c \in EspConfs, r \in RootConfs, i \in InitrdFiles, f \in RootFiles, all \in BOOLEAN}
  \cup {Disk(<<Vol(<<>>, {}, <<>>, EspFiles)>>, e, OddHeader(250, all), all, "Disabled") :
          e \in SelfEsps, all \in BOOLEAN}
  \cup {Disk(<<Vol(<<>>, EspInitrds, <<>>, EspFiles), Vol(<<Confs[4]>>, {}, <<>>, f)>>, FullEsp,
             OddHeader(o, FALSE), all, "Disabled") :
          f \in RootFiles, all \in BOOLEAN, o \in {250, 252, 300}}
-----------------------------------------------------------------------------
(* Versions: all strings of up to two characters, and some of three *)

MCVersions ==
  UNION {[1 .. n -> {"0", "1", "a", "B", ".", "~", "+"}] : n \in 0 .. 2}
  \cup [1 .. 3 -> {"0", "1", "a"}]
  \cup {<<"-">>, <<"^">>, <<"a", "-">>, <<"1", "^">>}
-----------------------------------------------------------------------------
MountRests ==
  /\ machine = [parts |-> <<FirmwareFat(Plain)>>, boot |-> 1, byDriver |-> FALSE]
  /\ mpc = "done" /\ at = 1 /\ sfs = {} /\ sfsHeld = {} /\ blkHeld = {} /\ found = <<>>
  /\ pools = [g \in {} |-> {}] /\ volumes = <<>> /\ mounted = <<>> /\ pvs = {}
  /\ answers = {} /\ mfaults = 0

DiscoveryRests ==
  /\ disk = Disk(<<>>, BareEsp, GoodHeader, FALSE, "Disabled")
  /\ dpc = "menu" /\ vol = 1 /\ allBls = <<>> /\ entries = <<>> /\ split = Unsplit
  /\ events = {} /\ candidates = <<>> /\ marks = <<>> /\ checked = <<>> /\ panicked = FALSE

VersionsRest == a = <<"1">> /\ b = <<>> /\ ai = 1 /\ bi = 1 /\ verdict = "Greater"

HealthRests == Init /\ genid = NoGenId

StartupInit ==
  \/ part = "health" /\ Init /\ MountRests /\ DiscoveryRests /\ VersionsRest
  \/ part = "mount" /\ MountInit /\ HealthRests /\ DiscoveryRests /\ VersionsRest
  \/ part = "discover" /\ PreflightInit /\ HealthRests /\ MountRests /\ VersionsRest
  \/ part = "compare" /\ VersionInit /\ HealthRests /\ MountRests /\ DiscoveryRests

Compares ==
  part = "compare" /\ VersionNext /\ UNCHANGED <<vars, mountVars, preflightVars, part>>

StartupNext ==
  \/ part = "health" /\ Next /\ UNCHANGED <<mountVars, preflightVars, versionVars, part>>
  \/ part = "mount" /\ MountNext /\ UNCHANGED <<vars, preflightVars, versionVars, part>>
  \/ part = "discover" /\ PreflightNext /\ UNCHANGED <<vars, mountVars, versionVars, part>>
  \/ Compares

StartupSpec ==
  /\ StartupInit
  /\ [][StartupNext]_<<vars, mountVars, preflightVars, versionVars, part>>
  /\ WF_versionVars(Compares)
=============================================================================
