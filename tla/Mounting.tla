------------------------------ MODULE Mounting ------------------------------
(***************************************************************************)
(* Phase 6 of main.rs: which partitions become volumes.  The firmware's    *)
(* FAT volumes are taken first (fs.rs, enumerate_volumes), the partitions  *)
(* are listed from three sources (partitions.rs), and one loop per file    *)
(* system then probes every one of them and mounts what it recognises.     *)
(* The loops share one resource, the handle database: BlockIO is opened    *)
(* exclusively to probe, which takes the firmware's own driver off the     *)
(* partition, and stays open as long as a native backend lives.            *)
(***************************************************************************)
EXTENDS Integers, Sequences

CONSTANTS
  Machines,        \* the machines considered, see MountInit
  LvNames,         \* LV_NAME_CANDIDATES
  MaxIndex,        \* u32::MAX, the index of the XBOOTLDR volume
  MaxMountFaults   \* bound: opens and reads that fail once

\* The type codes of the two tables differ.  The firmware has no driver for an
\* LVM partition ("no fs driver was ever attached to a raw LVM partition",
\* partitions.rs), an exFAT boot sector is no FAT one, and the bytes of a sound
\* FAT file system are no other one's.
ASSUME MountAssumption ==
  /\ \A m \in Machines :
       /\ m.parts \in Seq({m.parts[p] : p \in DOMAIN m.parts})
       /\ m.boot \in DOMAIN m.parts /\ m.byDriver \in BOOLEAN
       /\ \A p \in DOMAIN m.parts :
            /\ m.parts[p].pool \in Nat
            /\ m.parts[p].table = "gpt" => m.parts[p].type # "efi"
            /\ m.parts[p].table = "mbr" => m.parts[p].type # "esp"
            /\ m.parts[p].sfs => "lvm" \notin m.parts[p].sigs
            /\ ~({"fat", "exfat"} \subseteq m.parts[p].sigs)
            /\ "fat" \in m.parts[p].sound => m.parts[p].sound = {"fat"}
  /\ LvNames \in Seq({LvNames[i] : i \in DOMAIN LvNames})
  /\ \A i \in DOMAIN LvNames : LvNames[i] \notin {"", "unknown"}

VARIABLES
  machine,  \* the partitions, in the order the firmware lists them
  mpc,      \* the loop main.rs is in
  at,       \* the element the loop has reached
  sfs,      \* partitions whose handle carries SimpleFileSystem
  sfsHeld,  \* partitions whose SimpleFileSystem is open exclusively
  blkHeld,  \* partitions whose BlockIO is open exclusively
  found,    \* discovered_partitions
  pools,    \* by_pool: the members of each ZFS pool
  volumes,  \* extra_volumes
  mounted,  \* the volume_mounted records of the trust log
  pvs,      \* partitions probe_lvm_pv was called on
  answers,  \* the volumes that could be read when discovery scanned them
  mfaults   \* opens and reads that failed once

mountVars == <<machine, mpc, at, sfs, sfsHeld, blkHeld, found, pools, volumes,
               mounted, pvs, answers, mfaults>>

Parts == DOMAIN machine.parts
Part(p) == machine.parts[p]

\* A partition: the table it is in and its type there ("none": the firmware
\* installs no PartitionInfo), whether the handle carries SimpleFileSystem and
\* open_volume works, whether it is a logical partition, the signatures on it,
\* those whose file system is sound, the pool of a ZFS member, and the logical
\* volumes of an LVM one.  LamBoot runs from machine.boot.
MountInit ==
  /\ machine \in Machines
  /\ mpc = "esp" /\ at = 1
  /\ sfs = {p \in Parts : Part(p).sfs}
  /\ sfsHeld = {} /\ blkHeld = {}
  /\ found = <<>> /\ pools = [g \in {} |-> {}]
  /\ volumes = <<>> /\ mounted = <<>>
  /\ pvs = {} /\ answers = {} /\ mfaults = 0

\* mount_esp, and the reads of the ESP before phase 6 that leave the handle of
\* its FatBackend open (fs_backend_fat.rs, sfs_mut).
MountEsp ==
  /\ mpc = "esp" /\ machine.boot \in sfs
  /\ sfsHeld' = sfsHeld \cup {machine.boot}
  /\ mpc' = "enumerate"
  /\ UNCHANGED <<machine, at, sfs, blkHeld, found, pools, volumes, mounted, pvs,
                 answers, mfaults>>

\* The firmware: OpenProtocol.  An exclusive open fails while another one is
\* held.  On BlockIO it first takes the partition's driver off the handle, and
\* with it SimpleFileSystem; when that is in use the machine hangs
\* (partitions.rs, the comments at ESP_PARTITION_TYPE and line 592).
Hangs(p) == machine.byDriver /\ p \in sfs /\ p \in sfsHeld
Detached(p) == IF machine.byDriver /\ p \notin blkHeld THEN sfs \ {p} ELSE sfs

Volume(p, via, lv, n) == [part |-> p, via |-> via, lv |-> lv, index |-> n]

\* index: (extra_volumes.len() as u32) + 1.
IndexAfter(n) == n + 1

Push(v) == volumes' = Append(volumes, v)
PushAudited(v) == Push(v) /\ mounted' = Append(mounted, v.index)
-----------------------------------------------------------------------------
(* Listing: the firmware's volumes, then the partitions *)

\* enumerate_fat_volumes: every SimpleFileSystem handle that can be opened
\* exclusively and whose open_volume works.
Enumerate ==
  /\ mpc = "enumerate" /\ at <= Len(machine.parts)
  /\ at' = at + 1
  /\ IF at \in sfs \ sfsHeld /\ Part(at).serves
     THEN Push(Volume(at, "fat", "", IndexAfter(Len(volumes))))
     ELSE volumes' = volumes
  /\ UNCHANGED <<machine, mpc, sfs, sfsHeld, blkHeld, found, pools, mounted, pvs,
                 answers, mfaults>>

\* Seeded defect: the ESP is kept like any other partition.
ClassifyGptAll(type) == IF type \in {"root", "xbootldr"} THEN type ELSE "opaque"

\* classify_gpt_partition; "skip" is None.
ClassifyGpt(type) ==
  CASE type = "esp" -> "skip"
    [] type \in {"root", "xbootldr"} -> type
    [] OTHER -> "opaque"

\* classify_mbr_partition, mbr_os_type_is_mountable.
ClassifyMbr(type) ==
  IF type \in {"empty", "extended", "protective", "efi"} THEN "skip" ELSE "opaque"

Classify(p) ==
  CASE Part(p).table = "gpt" -> ClassifyGpt(Part(p).type)
    [] Part(p).table = "mbr" -> ClassifyMbr(Part(p).type)
    [] OTHER -> "skip"

\* scan_discoverable_partitions, sources 1 and 2: PartitionInfo handles.
ScanInfo ==
  /\ mpc = "info" /\ at <= Len(machine.parts)
  /\ at' = at + 1
  /\ found' = IF Classify(at) = "skip" THEN found
              ELSE Append(found, [part |-> at, role |-> Classify(at)])
  /\ UNCHANGED <<machine, mpc, sfs, sfsHeld, blkHeld, pools, volumes, mounted, pvs,
                 answers, mfaults>>

Seen == {found[i].part : i \in DOMAIN found}

\* scan_block_io_logical_partitions_without_fs: GetProtocol disturbs nobody.
BlockIoOnly(p) == Part(p).logical /\ p \notin sfs

\* Source 3.
ScanBlockIo ==
  /\ mpc = "blockio" /\ at <= Len(machine.parts)
  /\ at' = at + 1
  /\ found' = IF BlockIoOnly(at) /\ at \notin Seen
              THEN Append(found, [part |-> at, role |-> "opaque"]) ELSE found
  /\ UNCHANGED <<machine, mpc, sfs, sfsHeld, blkHeld, pools, volumes, mounted, pvs,
                 answers, mfaults>>
-----------------------------------------------------------------------------
(* The mount loops *)

FirstIn(order, sigs) ==
  IF \E i \in DOMAIN order : order[i] \in sigs
  THEN order[CHOOSE i \in DOMAIN order :
               order[i] \in sigs /\ \A j \in 1 .. i - 1 : order[j] \notin sigs]
  ELSE "unknown"

\* probe_superblock, once BlockIO is open.
ProbeSuperblock(p) ==
  FirstIn(<<"ext4", "btrfs", "xfs", "exfat", "f2fs", "zfs">>, Part(p).sigs)

\* probe_source_superblock and probe_udf_anchor, over a partition or a volume.
ProbeSource(sigs) ==
  FirstIn(<<"ext4", "btrfs", "xfs", "erofs", "iso", "cramfs", "romfs", "squashfs",
            "fat", "udf">>, sigs)

Here(phase) == mpc = phase /\ at <= Len(found) /\ ~ Hangs(found[at].part)

\* The first pass over the partitions only logs what it finds.
ProbeAll ==
  /\ Here("probe") /\ at' = at + 1
  /\ sfs' = Detached(found[at].part)
  /\ UNCHANGED <<machine, mpc, sfsHeld, blkHeld, found, pools, volumes, mounted, pvs,
                 answers, mfaults>>

\* Seeded defect: the loop ends at the first partition it mounts.
MountNativeOnce(fs) ==
  LET p == found[at].part
      mounts == p \notin blkHeld /\ ProbeSuperblock(p) = fs /\ fs \in Part(p).sound
  IN  /\ Here(fs) /\ at' = IF mounts THEN Len(found) + 1 ELSE at + 1
      /\ sfs' = Detached(p)
      /\ blkHeld' = IF mounts THEN blkHeld \cup {p} ELSE blkHeld
      /\ IF mounts THEN PushAudited(Volume(p, fs, "", IndexAfter(Len(volumes))))
                   ELSE UNCHANGED <<volumes, mounted>>
      /\ UNCHANGED <<machine, mpc, sfsHeld, found, pools, pvs, answers, mfaults>>

\* The body of a native loop: probe, open, mount.  BlockIO stays open with the
\* backend.
MountNative(fs) ==
  LET p == found[at].part
      mounts == p \notin blkHeld /\ ProbeSuperblock(p) = fs /\ fs \in Part(p).sound
  IN  /\ Here(fs) /\ at' = at + 1
      /\ sfs' = Detached(p)
      /\ blkHeld' = IF mounts THEN blkHeld \cup {p} ELSE blkHeld
      /\ IF mounts THEN PushAudited(Volume(p, fs, "", IndexAfter(Len(volumes))))
                   ELSE UNCHANGED <<volumes, mounted>>
      /\ UNCHANGED <<machine, mpc, sfsHeld, found, pools, pvs, answers, mfaults>>

MountExt4 == MountNative("ext4")
MountBtrfs == MountNative("btrfs")
MountXfs == MountNative("xfs")
MountExFat == MountNative("exfat")

\* The first partition of that type, if there is one.
Xbootldr ==
  {i \in DOMAIN found : /\ found[i].role = "xbootldr"
                        /\ \A j \in 1 .. i - 1 : found[j].role # "xbootldr"}

\* firmware_fat_readable.
FirmwareFatReadable(p) == p \in sfs \ sfsHeld /\ Part(p).serves

\* Seeded defect: the native reader is tried first.
XbootldrNativeFirst(p) ==
  IF "fat" \in Part(p).sound THEN "fatro"
  ELSE IF FirmwareFatReadable(p) THEN "fat" ELSE "none"

\* The two tiers of mount_xbootldr.  FatRo opens BlockIO with GetProtocol.
XbootldrBackend(p) ==
  IF FirmwareFatReadable(p) THEN "fat"
  ELSE IF "fat" \in Part(p).sound THEN "fatro" ELSE "none"

MountXbootldr ==
  /\ mpc = "xbootldr" /\ mpc' = "ext4" /\ at' = 1
  /\ \/ \E i \in Xbootldr :
          LET p == found[i].part
          IN  /\ XbootldrBackend(p) # "none"
              /\ PushAudited(Volume(p, XbootldrBackend(p), "", MaxIndex))
     \/ /\ \A i \in Xbootldr : XbootldrBackend(found[i].part) = "none"
        /\ UNCHANGED <<volumes, mounted>>
  /\ UNCHANGED <<machine, sfs, sfsHeld, blkHeld, found, pools, pvs, answers, mfaults>>

\* peek_pool_id, and by_pool.entry(..).push(member): the member's BlockIO is
\* held from here; it is dropped when the peek fails.
PeekZfs(p) ==
  IF "zfs" \notin Part(p).sound THEN UNCHANGED <<blkHeld, pools>>
  ELSE /\ blkHeld' = blkHeld \cup {p}
       /\ pools' = [g \in DOMAIN pools \cup {Part(p).pool} |->
                      (IF g \in DOMAIN pools THEN pools[g] ELSE <<>>)
                      \o (IF g = Part(p).pool THEN <<p>> ELSE <<>>)]

GatherZfs ==
  LET p == found[at].part
  IN  /\ Here("zfs") /\ at' = at + 1
      /\ sfs' = Detached(p)
      /\ IF p \notin blkHeld /\ ProbeSuperblock(p) = "zfs"
         THEN PeekZfs(p) ELSE UNCHANGED <<blkHeld, pools>>
      /\ UNCHANGED <<machine, mpc, sfsHeld, found, volumes, mounted, pvs, answers, mfaults>>

\* mount_pool, external: one volume per dataset, or an error that drops the
\* members.  Every volume names the partition of the first member.
ImportPool ==
  /\ mpc = "import"
  /\ \E g \in DOMAIN pools, datasets \in {<<>>, <<"a">>, <<"a", "b">>} :
       /\ \A h \in DOMAIN pools : g <= h
       /\ pools' = [h \in DOMAIN pools \ {g} |-> pools[h]]
       /\ LET v(i) == Volume(pools[g][1], "zfs", datasets[i], IndexAfter(Len(volumes) + i - 1))
              new == [i \in DOMAIN datasets |-> v(i)]
          IN  /\ volumes' = volumes \o new
              /\ mounted' = mounted \o [i \in DOMAIN new |-> new[i].index]
       /\ blkHeld' = IF datasets # <<>> THEN blkHeld
                     ELSE blkHeld \ {pools[g][i] : i \in DOMAIN pools[g]}
  /\ UNCHANGED <<machine, mpc, at, sfs, sfsHeld, found, pvs, answers, mfaults>>

Media == {"erofs", "iso", "cramfs", "romfs", "squashfs", "udf"}

\* BlockIoSource::open, dispatch_media_fs_over_source and mount_lamfold.
MediaMounts(p) ==
  /\ p \notin blkHeld
  /\ ProbeSource(Part(p).sigs) \in Media
  /\ ProbeSource(Part(p).sigs) \in Part(p).sound

MountMedia ==
  LET p == found[at].part
  IN  /\ Here("media") /\ at' = at + 1
      /\ sfs' = Detached(p)
      /\ blkHeld' = IF MediaMounts(p) THEN blkHeld \cup {p} ELSE blkHeld
      /\ IF MediaMounts(p)
         THEN PushAudited(Volume(p, "media", "", IndexAfter(Len(volumes))))
         ELSE UNCHANGED <<volumes, mounted>>
      /\ UNCHANGED <<machine, mpc, sfsHeld, found, pools, pvs, answers, mfaults>>
-----------------------------------------------------------------------------
(* Logical volumes *)

\* scan_block_io_partitions_for_lvm.
BlockIoPvs ==
  LET upTo[p \in 0 .. Len(machine.parts)] ==
        IF p = 0 THEN <<>>
        ELSE IF Part(p).logical /\ "lvm" \in Part(p).sigs
        THEN Append(upTo[p - 1], p) ELSE upTo[p - 1]
  IN  upTo[Len(machine.parts)]

\* lvm_candidate_handles.
Candidates ==
  IF found = <<>> THEN BlockIoPvs ELSE [i \in DOMAIN found |-> found[i].part]

\* OpenedLv::open and open_lvm_lv_backend for one name.
LvMounts(p, name) ==
  LET lv == Part(p).lvs[name]
  IN  ProbeSource(lv.sigs) \in {"ext4", "btrfs", "xfs", "fat"} \cap lv.sound

\* The names are tried in order and the first that mounts ends the search.
MountLvm ==
  LET p == Candidates[at]
      name == FirstIn(LvNames, {n \in DOMAIN Part(p).lvs : LvMounts(p, n)})
      mounts == p \notin blkHeld /\ "lvm" \in Part(p).sigs /\ name # "unknown"
  IN  /\ mpc = "lvm" /\ at <= Len(Candidates) /\ ~ Hangs(p)
      /\ at' = at + 1
      /\ pvs' = pvs \cup {p}
      /\ sfs' = Detached(p)
      /\ blkHeld' = IF mounts THEN blkHeld \cup {p} ELSE blkHeld
      /\ IF mounts THEN PushAudited(Volume(p, "lvm", name, IndexAfter(Len(volumes))))
                   ELSE UNCHANGED <<volumes, mounted>>
      /\ UNCHANGED <<machine, mpc, sfsHeld, found, pools, answers, mfaults>>
-----------------------------------------------------------------------------
(* Discovery reads every volume once; a FatBackend opens SimpleFileSystem at *)
(* its first read and keeps it.                                              *)

CanRead(v) == v.via = "fat" => v.part \in sfs \ sfsHeld

ReadVolume ==
  /\ mpc = "scan" /\ at <= Len(volumes)
  /\ at' = at + 1
  /\ LET v == volumes[at]
     IN  /\ answers' = IF CanRead(v) THEN answers \cup {at} ELSE answers
         /\ sfsHeld' = IF CanRead(v) /\ v.via = "fat" THEN sfsHeld \cup {v.part} ELSE sfsHeld
  /\ UNCHANGED <<machine, mpc, sfs, blkHeld, found, pools, volumes, mounted, pvs, mfaults>>

Loops == <<"enumerate", "info", "blockio", "probe", "xbootldr", "ext4", "btrfs", "xfs",
           "exfat", "zfs", "import", "media", "lvm", "scan", "done">>
Probing == {"probe", "ext4", "btrfs", "xfs", "exfat", "zfs", "media", "lvm"}

\* What the loop runs over.
Over == CASE mpc \in {"enumerate", "info", "blockio"} -> Parts
          [] mpc = "lvm" -> DOMAIN Candidates
          [] mpc = "scan" -> DOMAIN volumes
          [] mpc \in Probing \ {"lvm"} -> DOMAIN found
          [] OTHER -> {}

LoopEnds ==
  /\ mpc \notin {"esp", "xbootldr", "done", "hung"} /\ at \notin Over
  /\ mpc = "import" => DOMAIN pools = {}
  /\ LET i == CHOOSE i \in DOMAIN Loops : Loops[i] = mpc IN mpc' = Loops[i + 1]
  /\ at' = 1
  /\ UNCHANGED <<machine, sfs, sfsHeld, blkHeld, found, pools, volumes, mounted, pvs,
                 answers, mfaults>>

\* A call in the body fails, before or after BlockIO was opened: the body ends.
BodyFails ==
  /\ mpc \in Probing \cup {"enumerate", "info", "blockio"} /\ at \in Over
  /\ mfaults < MaxMountFaults /\ mfaults' = mfaults + 1
  /\ at' = at + 1
  /\ IF mpc \in Probing
     THEN LET p == IF mpc = "lvm" THEN Candidates[at] ELSE found[at].part
          IN  ~ Hangs(p) /\ sfs' \in {sfs, Detached(p)}
     ELSE sfs' = sfs
  /\ UNCHANGED <<machine, mpc, sfsHeld, blkHeld, found, pools, volumes, mounted, pvs, answers>>

\* Taking the driver off a partition whose files are in use.
Hang ==
  /\ mpc \in Probing /\ at \in Over
  /\ Hangs(IF mpc = "lvm" THEN Candidates[at] ELSE found[at].part)
  /\ mpc' = "hung"
  /\ UNCHANGED <<machine, at, sfs, sfsHeld, blkHeld, found, pools, volumes, mounted, pvs,
                 answers, mfaults>>

MountNext ==
  \/ MountEsp \/ Enumerate \/ ScanInfo \/ ScanBlockIo \/ ProbeAll \/ MountXbootldr
  \/ MountExt4 \/ MountBtrfs \/ MountXfs \/ MountExFat
  \/ GatherZfs \/ ImportPool \/ MountMedia \/ MountLvm \/ ReadVolume
  \/ LoopEnds \/ BodyFails \/ Hang

MountSpec == MountInit /\ [][MountNext]_mountVars
-----------------------------------------------------------------------------
(* Properties *)

\* Probing hangs the machine only when LamBoot was started from a partition the
\* table describes as something other than an EFI system partition: one that
\* is typed as such, or has no PartitionInfo at all, is never opened
\* exclusively while mount_esp holds it, whatever fails on the way.
BootVolumeSafe ==
  mpc = "hung" => Part(machine.boot).table # "none"
                  /\ Part(machine.boot).type \notin {"esp", "efi"}

\* Seven passes over the same partitions, and the firmware's driver besides,
\* give a FAT, native or media file system at most one volume that can be read,
\* so that nothing on it is listed twice.  (A legacy driver that serves a
\* native file system without a hold on BlockIO is the exception.)
OneReader ==
  \A i, j \in answers :
    /\ i # j /\ volumes[i].part = volumes[j].part /\ volumes[i].lv = volumes[j].lv
    => /\ ~ machine.byDriver
       /\ {volumes[i].via, volumes[j].via} \cap {"fat"} # {}
       /\ ProbeSource(Part(volumes[i].part).sigs) # "fat"

\* What probe_superblock, and failing that the media loop, recognises on a
\* listed partition.
Recognised(p) ==
  IF ProbeSuperblock(p) # "unknown" THEN ProbeSuperblock(p) ELSE ProbeSource(Part(p).sigs)

\* When nothing fails, every listed partition with a sound file system of a
\* kind LamBoot reads natively ends up readable: no earlier loop takes it away
\* from the one that mounts it, and the driver it was taken from is replaced.
NativeIsRead ==
  mpc = "done" /\ mfaults = 0 =>
    \A p \in Seen :
      Recognised(p) \in ({"ext4", "btrfs", "xfs", "exfat"} \cup Media) \cap Part(p).sound =>
        \E i \in answers : volumes[i].part = p

\* BlockIO is still held only under a volume that was mounted; a mount that
\* failed half way has let its partition go, so that later loops can have it.
HoldsAccounted ==
  mpc \in {"media", "lvm", "scan", "done"} =>
    \A p \in blkHeld : \E i \in DOMAIN volumes :
      \/ volumes[i].part = p
      \/ volumes[i].via = "zfs" /\ Part(volumes[i].part).pool = Part(p).pool

\* When nothing fails, every partition with an LVM label is tried, whatever the
\* firmware says about it, unless the firmware itself serves a file system on
\* it.
EveryPvTried ==
  mpc = "done" /\ mfaults = 0 =>
    \A p \in Parts : Part(p).logical /\ ~ Part(p).sfs /\ "lvm" \in Part(p).sigs => p \in pvs

\* The passes of Phase 6 stay out of each other's way: a file system has one
\* reader, and a partition is held by a mounted volume or not at all.
OneHolder == OneReader /\ HoldsAccounted

\* No pass takes away what a later one would mount: file systems read natively
\* are mounted and LVM partitions are tried (main.rs 443-972).
NothingMissed == NativeIsRead /\ EveryPvTried
=============================================================================
