--------------------------- MODULE MountingProofs ---------------------------
(***************************************************************************)
(* Phase 6 is safe and mounts what it should: probing never hangs a        *)
(* machine started from an EFI system partition, the passes stay out of    *)
(* each other's way, and none takes away what a later one would mount.     *)
(*                                                                         *)
(* Four invariants, each resting on those before: what has been listed     *)
(* (ListInv), which volume a held partition is under (HoldInv), who reads  *)
(* a partition (ScanInv), and what the loops that have ended have done     *)
(* (MissInv).                                                              *)
(***************************************************************************)
EXTENDS Mounting, Induction
-----------------------------------------------------------------------------
(* What has been listed *)

Natives == {"ext4", "btrfs", "xfs", "exfat"}
Vias == Natives \cup {"fat", "fatro", "zfs", "media", "lvm"}

Found == [part : Parts, role : {"root", "xbootldr", "opaque"}]
Vols ==
  [part : Parts, via : Vias, lv : {"", "a", "b"} \cup {LvNames[i] : i \in DOMAIN LvNames},
   index : Nat \cup {MaxIndex}]

Phases ==
  {"esp", "enumerate", "info", "blockio", "probe", "xbootldr", "ext4", "btrfs", "xfs",
   "exfat", "zfs", "import", "media", "lvm", "scan", "done", "hung"}

MountTyped ==
  /\ machine \in Machines /\ mpc \in Phases /\ at \in Nat \ {0}
  /\ sfs \subseteq {p \in Parts : Part(p).sfs}
  /\ sfsHeld \subseteq Parts /\ blkHeld \subseteq Parts
  /\ found \in Seq(Found) /\ volumes \in Seq(Vols)
  /\ \A g \in DOMAIN pools : g \in Nat /\ pools[g] \in Seq(Parts) /\ pools[g] # <<>>
  /\ mfaults \in Nat

\* Before discovery reads the volumes only mount_esp holds a SimpleFileSystem;
\* what is listed was classified or carries none.
ListInv ==
  /\ MountTyped
  /\ mpc \notin {"scan", "done"} => sfsHeld \subseteq {machine.boot}
  /\ \A i \in DOMAIN found : Classify(found[i].part) # "skip" \/ found[i].part \notin sfs
  /\ BootVolumeSafe

\* The partitions whose pool is not yet imported.
Members == {p \in Parts : \E g \in DOMAIN pools : \E i \in DOMAIN pools[g] : pools[g][i] = p}
-----------------------------------------------------------------------------
(* The machine, the probes and the order of the loops *)

\* The partitions are numbered from 1, and are as MountAssumption says.
LEMMA MachineFacts ==
  ASSUME machine \in Machines
  PROVE  /\ Len(machine.parts) \in Nat /\ Parts = 1 .. Len(machine.parts)
         /\ machine.boot \in Parts /\ machine.byDriver \in BOOLEAN
         /\ \A p \in Parts :
              /\ Part(p).pool \in Nat
              /\ Part(p).table = "gpt" => Part(p).type # "efi"
              /\ Part(p).table = "mbr" => Part(p).type # "esp"
              /\ Part(p).sfs => "lvm" \notin Part(p).sigs
              /\ ~({"fat", "exfat"} \subseteq Part(p).sigs)
              /\ "fat" \in Part(p).sound => Part(p).sound = {"fat"}
<1>1. machine.parts \in Seq({machine.parts[p] : p \in DOMAIN machine.parts})
  BY MountAssumption, Zenon
<1>2. Len(machine.parts) \in Nat /\ Parts = 1 .. Len(machine.parts)
  BY <1>1, LenProperties DEF Parts
<1> QED
  BY <1>2, MountAssumption, Zenon DEF Parts, Part

\* The first place of an order whose name is in a set.
FirstAt(order, S, k) ==
  /\ k \in DOMAIN order /\ order[k] \in S /\ FirstIn(order, S) = order[k]
  /\ \A j \in 1 .. k - 1 : order[j] \notin S

\* FirstIn returns the first match.
LEMMA FirstFound ==
  ASSUME NEW order, NEW n \in Nat, DOMAIN order = 1 .. n, NEW S,
         \E i \in DOMAIN order : order[i] \in S
  PROVE  \E k \in 1 .. n : FirstAt(order, S, k)
<1> DEFINE T == {i \in 1 .. n : order[i] \in S}
           Is(k) == order[k] \in S /\ \A j \in 1 .. k - 1 : order[j] \notin S
           first == CHOOSE k \in DOMAIN order : Is(k)
<1>1. T \subseteq Nat /\ T # {}
  OBVIOUS
<1>2. PICK x \in T : \A y \in T : x <= y
  <2> HIDE DEF T
  <2> QED
    BY <1>1, LeastNat, Zenon
<1>3. x \in DOMAIN order /\ Is(x)
  BY <1>2
<1>4. first \in DOMAIN order /\ Is(first)
  <2> HIDE DEF Is
  <2> QED
    BY <1>3, Zenon
<1>5. FirstIn(order, S) = order[first]
  BY DEF FirstIn
<1> HIDE DEF first
<1> QED
  BY <1>4, <1>5 DEF FirstAt

\* Without a match FirstIn returns "unknown".
LEMMA FirstNone ==
  ASSUME NEW order, NEW S, ~ \E i \in DOMAIN order : order[i] \in S
  PROVE  FirstIn(order, S) = "unknown"
BY Zenon DEF FirstIn

\* What probe_superblock answers.
LEMMA SuperblockFacts ==
  ASSUME NEW p
  PROVE  /\ ProbeSuperblock(p) \in {"ext4", "btrfs", "xfs", "exfat", "f2fs", "zfs", "unknown"}
         /\ ProbeSuperblock(p) # "unknown" => ProbeSuperblock(p) \in Part(p).sigs
         /\ ProbeSuperblock(p) = "unknown" =>
              {"ext4", "btrfs", "xfs", "exfat", "f2fs", "zfs"} \cap Part(p).sigs = {}
<1> DEFINE order == <<"ext4", "btrfs", "xfs", "exfat", "f2fs", "zfs">>
           S == Part(p).sigs
<1>1. /\ DOMAIN order = 1 .. 6 /\ order[1] = "ext4" /\ order[2] = "btrfs" /\ order[3] = "xfs"
      /\ order[4] = "exfat" /\ order[5] = "f2fs" /\ order[6] = "zfs"
  OBVIOUS
<1>2. \A k \in 1 .. 6 : order[k] \in {"ext4", "btrfs", "xfs", "exfat", "f2fs", "zfs"}
  <2>1. \A k \in 1 .. 6 : k \in {1, 2, 3, 4, 5, 6}
    OBVIOUS
  <2> HIDE DEF order
  <2> QED
    BY <1>1, <2>1
<1>3. ProbeSuperblock(p) = FirstIn(order, S)
  BY DEF ProbeSuperblock
<1> HIDE DEF order, S
<1>4. CASE \E i \in DOMAIN order : order[i] \in S
  <2>1. PICK k \in 1 .. 6 : FirstAt(order, S, k)
    <3>1. 6 \in Nat
      OBVIOUS
    <3> QED
      BY <1>1, <1>4, <3>1, FirstFound, Zenon
  <2>2. FirstIn(order, S) = order[k] /\ order[k] \in S
    BY <2>1 DEF FirstAt
  <2>3. FirstIn(order, S) \in {"ext4", "btrfs", "xfs", "exfat", "f2fs", "zfs"}
    BY <1>2, <2>2
  <2> QED
    BY <1>3, <2>2, <2>3 DEF S
<1>5. CASE ~ \E i \in DOMAIN order : order[i] \in S
  <2>1. FirstIn(order, S) = "unknown"
    BY <1>5, FirstNone
  <2>2. \A i \in {1, 2, 3, 4, 5, 6} : order[i] \notin S
    BY <1>1, <1>5
  <2>3. {"ext4", "btrfs", "xfs", "exfat", "f2fs", "zfs"} \cap S = {}
    BY <1>1, <2>2
  <2> QED
    BY <1>3, <2>1, <2>3 DEF S
<1> QED
  BY <1>4, <1>5

\* What probe_source_superblock answers.
LEMMA SourceFacts ==
  ASSUME NEW S
  PROVE  /\ ProbeSource(S) # "unknown" => ProbeSource(S) \in S
         /\ ProbeSource(S) = "fat" => {"ext4", "btrfs", "xfs"} \cap S = {}
<1> DEFINE order == <<"ext4", "btrfs", "xfs", "erofs", "iso", "cramfs", "romfs", "squashfs",
                      "fat", "udf">>
<1>1. /\ DOMAIN order = 1 .. 10 /\ order[1] = "ext4" /\ order[2] = "btrfs" /\ order[3] = "xfs"
      /\ order[4] = "erofs" /\ order[5] = "iso" /\ order[6] = "cramfs" /\ order[7] = "romfs"
      /\ order[8] = "squashfs" /\ order[9] = "fat" /\ order[10] = "udf"
  OBVIOUS
<1>2. ProbeSource(S) = FirstIn(order, S)
  BY DEF ProbeSource
<1> HIDE DEF order
<1>3. CASE \E i \in DOMAIN order : order[i] \in S
  <2>1. PICK k \in 1 .. 10 : FirstAt(order, S, k)
    <3>1. 10 \in Nat
      OBVIOUS
    <3> QED
      BY <1>1, <1>3, <3>1, FirstFound, Zenon
  <2>2. FirstIn(order, S) = order[k] /\ order[k] \in S /\ \A j \in 1 .. k - 1 : order[j] \notin S
    BY <2>1 DEF FirstAt
  <2>3. ASSUME order[k] = "fat" PROVE k = 9
    <3>1. k \in {1, 2, 3, 4, 5, 6, 7, 8, 9, 10}
      OBVIOUS
    <3> QED
      BY <1>1, <2>3, <3>1
  <2>4. ASSUME order[k] = "fat" PROVE {"ext4", "btrfs", "xfs"} \cap S = {}
    <3>1. 1 \in 1 .. k - 1 /\ 2 \in 1 .. k - 1 /\ 3 \in 1 .. k - 1
      BY <2>3, <2>4
    <3>2. order[1] \notin S /\ order[2] \notin S /\ order[3] \notin S
      BY <2>2, <3>1
    <3> QED
      BY <1>1, <3>2
  <2> QED
    BY <1>2, <2>2, <2>4
<1>4. CASE ~ \E i \in DOMAIN order : order[i] \in S
  <2>1. FirstIn(order, S) = "unknown"
    BY <1>4, FirstNone
  <2> QED
    BY <1>2, <2>1
<1> QED
  BY <1>3, <1>4

\* A logical volume that is mounted has one of the names tried.
LEMMA LvNameFacts ==
  ASSUME NEW S, FirstIn(LvNames, S) # "unknown"
  PROVE  /\ FirstIn(LvNames, S) \in {LvNames[i] : i \in DOMAIN LvNames}
         /\ FirstIn(LvNames, S) # ""
<1>1. Len(LvNames) \in Nat /\ DOMAIN LvNames = 1 .. Len(LvNames)
  BY MountAssumption, LenProperties, Zenon
<1>2. \E i \in DOMAIN LvNames : LvNames[i] \in S
  BY FirstNone
<1>3. PICK k \in 1 .. Len(LvNames) : FirstAt(LvNames, S, k)
  BY <1>1, <1>2, FirstFound
<1>4. FirstIn(LvNames, S) = LvNames[k] /\ k \in DOMAIN LvNames
  BY <1>3 DEF FirstAt
<1> QED
  BY <1>4, MountAssumption, Zenon

\* Partitions with an LVM label.
Labelled == {p \in Parts : "lvm" \in Part(p).sigs}

\* scan_block_io_partitions_for_lvm returns such partitions.
LEMMA BlockIoPvsFacts ==
  ASSUME machine \in Machines
  PROVE  BlockIoPvs \in Seq(Labelled)
<1> DEFINE n == Len(machine.parts)
           R == Seq(Labelled)
           value(r, p) == IF Part(p).logical /\ "lvm" \in Part(p).sigs THEN Append(r, p) ELSE r
           step == [x \in R \X (1 .. n) |-> value(x[1], x[2])]
           Is(u) == u = [p \in 0 .. n |->
                           IF p = 0 THEN <<>>
                           ELSE IF Part(p).logical /\ "lvm" \in Part(p).sigs
                           THEN Append(u[p - 1], p) ELSE u[p - 1]]
           up == CHOOSE u : Is(u)
<1>1. n \in Nat /\ Parts = 1 .. n
  BY MachineFacts
<1>2. <<>> \in R
  BY EmptySeq
<1>3. \A r \in R, p \in 1 .. n : value(r, p) \in R
  <2> TAKE r \in R, p \in 1 .. n
  <2>1. CASE Part(p).logical /\ "lvm" \in Part(p).sigs
    <3>1. p \in Labelled
      BY <1>1, <2>1 DEF Labelled
    <3> QED
      BY <2>1, <3>1, AppendProperties
  <2> QED
    BY <2>1
<1>4. step \in [R \X (1 .. n) -> R] /\ \A r \in R, p \in 1 .. n : step[<<r, p>>] = value(r, p)
  <2> HIDE DEF value, R, n
  <2>1. \A x \in R \X (1 .. n) : value(x[1], x[2]) \in R
    BY <1>3
  <2>2. step \in [R \X (1 .. n) -> R]
    BY <2>1
  <2>3. \A r \in R, p \in 1 .. n :
          <<r, p>> \in R \X (1 .. n) /\ <<r, p>>[1] = r /\ <<r, p>>[2] = p
    OBVIOUS
  <2> QED
    BY <2>2, <2>3
<1>5. PICK g : Continues(g, n, R, <<>>, step)
  <2> HIDE DEF step, R, n
  <2> QED
    BY <1>1, <1>2, <1>4, RecursionExists, Zenon
<1>6. /\ g \in [0 .. n -> R] /\ g[0] = <<>>
      /\ \A p \in 1 .. n : g[p] = value(g[p - 1], p)
  <2>1. \A p \in 1 .. n : p - 1 \in 0 .. n
    BY <1>1
  <2> HIDE DEF step, R, value, n
  <2> QED
    BY <1>4, <1>5, <2>1, Zenon DEF Continues
<1>7. Is(g)
  <2> DEFINE e(p) == IF p = 0 THEN <<>> ELSE value(g[p - 1], p)
  <2>1. \A p \in 0 .. n : p # 0 => p \in 1 .. n
    BY <1>1
  <2>2. \A p \in 0 .. n : g[p] = e(p)
    <3> HIDE DEF value, R, n
    <3> QED
      BY <1>6, <2>1
  <2>3. g = [p \in 0 .. n |-> e(p)]
    <3> HIDE DEF e, R, n
    <3> QED
      BY <1>6, <2>2
  <2> QED
    BY <2>3, Zenon
<1>8. Is(up)
  <2> HIDE DEF Is
  <2> QED
    BY <1>7, Zenon
<1>9. BlockIoPvs = up[n]
  BY DEF BlockIoPvs
<1> HIDE DEF up
<1>10. up[0] = <<>> /\ \A p \in 1 .. n : up[p] = value(up[p - 1], p)
  <2> DEFINE e(p) == IF p = 0 THEN <<>> ELSE value(up[p - 1], p)
  <2>1. up = [p \in 0 .. n |-> e(p)]
    BY <1>8, Zenon
  <2>2. 0 \in 0 .. n /\ \A p \in 1 .. n : p \in 0 .. n /\ p # 0
    BY <1>1
  <2>3. \A p \in 0 .. n : up[p] = e(p)
    <3> HIDE DEF e, n
    <3> QED
      BY <2>1
  <2> HIDE DEF value, n
  <2> QED
    BY <2>2, <2>3
<1>11. Obeys(up, n, R, <<>>, step)
  <2> HIDE DEF step, R, value, n
  <2> QED
    BY <1>4, <1>10 DEF Obeys
<1>12. \A p \in 0 .. n : up[p] \in R
  <2> HIDE DEF step, R, n
  <2> QED
    BY <1>1, <1>2, <1>4, <1>11, RecursionUnique, Zenon
<1> QED
  BY <1>1, <1>9, <1>12

\* What the LVM pass looks at: what was listed, or labelled partitions.
LEMMA CandidatesFacts ==
  ASSUME MountTyped
  PROVE  /\ DOMAIN Candidates = 1 .. Len(Candidates) /\ Len(Candidates) \in Nat
         /\ \A i \in DOMAIN Candidates : Candidates[i] \in Parts
         /\ found # <<>> => /\ Len(Candidates) = Len(found)
                            /\ \A i \in DOMAIN found : Candidates[i] = found[i].part
         /\ found = <<>> => \A i \in DOMAIN Candidates : Candidates[i] \in Labelled
<1>1. /\ Len(found) \in Nat /\ DOMAIN found = 1 .. Len(found)
      /\ \A i \in DOMAIN found : found[i] \in Found
  BY LenProperties, ElementOfSeq DEF MountTyped
<1>2. \A i \in DOMAIN found : found[i].part \in Parts
  BY <1>1 DEF Found
<1>3. CASE found = <<>>
  <2>1. Candidates = BlockIoPvs /\ BlockIoPvs \in Seq(Labelled)
    BY <1>3, BlockIoPvsFacts DEF Candidates, MountTyped
  <2> HIDE DEF Candidates
  <2>2. /\ Len(Candidates) \in Nat /\ DOMAIN Candidates = 1 .. Len(Candidates)
        /\ \A i \in DOMAIN Candidates : Candidates[i] \in Labelled
    BY <2>1, LenProperties, ElementOfSeq
  <2> QED
    BY <1>3, <2>2 DEF Labelled
<1>4. CASE found # <<>>
  <2>1. Candidates = [i \in 1 .. Len(found) |-> found[i].part]
    BY <1>1, <1>4 DEF Candidates
  <2> HIDE DEF Candidates
  <2>2. DOMAIN Candidates = 1 .. Len(found)
    BY <2>1
  <2>3. Candidates \in Seq(Parts)
    <3>1. Candidates \in [1 .. Len(found) -> Parts]
      BY <1>1, <1>2, <2>1
    <3> QED
      BY <1>1, <3>1, SeqDef
  <2>4. Len(Candidates) = Len(found) /\ DOMAIN Candidates = 1 .. Len(Candidates)
    <3>1. Len(Candidates) \in Nat /\ DOMAIN Candidates = 1 .. Len(Candidates)
      BY <2>3, LenProperties
    <3> QED
      BY <1>1, <2>2, <3>1, SMT
  <2> QED
    BY <1>1, <1>2, <1>4, <2>1, <2>4
<1> QED
  BY <1>3, <1>4

\* The order of the loops.
Follows(l, k) ==
  \/ l = "enumerate" /\ k = "info"
  \/ l = "info" /\ k = "blockio"
  \/ l = "blockio" /\ k = "probe"
  \/ l = "probe" /\ k = "xbootldr"
  \/ l = "ext4" /\ k = "btrfs"
  \/ l = "btrfs" /\ k = "xfs"
  \/ l = "xfs" /\ k = "exfat"
  \/ l = "exfat" /\ k = "zfs"
  \/ l = "zfs" /\ k = "import"
  \/ l = "import" /\ k = "media"
  \/ l = "media" /\ k = "lvm"
  \/ l = "lvm" /\ k = "scan"
  \/ l = "scan" /\ k = "done"

\* The names of the loops.
LEMMA LoopNames ==
  /\ DOMAIN Loops = 1 .. 15
  /\ Loops[1] = "enumerate" /\ Loops[2] = "info" /\ Loops[3] = "blockio" /\ Loops[4] = "probe"
  /\ Loops[5] = "xbootldr" /\ Loops[6] = "ext4" /\ Loops[7] = "btrfs" /\ Loops[8] = "xfs"
  /\ Loops[9] = "exfat" /\ Loops[10] = "zfs" /\ Loops[11] = "import" /\ Loops[12] = "media"
  /\ Loops[13] = "lvm" /\ Loops[14] = "scan" /\ Loops[15] = "done"
BY DEF Loops

\* A loop that ends is followed by the next one.
LEMMA LoopOrder ==
  ASSUME MountTyped, LoopEnds
  PROVE  Follows(mpc, mpc')
<1> DEFINE i == CHOOSE i \in DOMAIN Loops : Loops[i] = mpc
<1>1. \E k \in DOMAIN Loops : Loops[k] = mpc
  <2>1. 1 \in 1 .. 15 /\ 2 \in 1 .. 15 /\ 3 \in 1 .. 15 /\ 4 \in 1 .. 15 /\ 6 \in 1 .. 15
        /\ 7 \in 1 .. 15 /\ 8 \in 1 .. 15 /\ 9 \in 1 .. 15 /\ 10 \in 1 .. 15 /\ 11 \in 1 .. 15
        /\ 12 \in 1 .. 15 /\ 13 \in 1 .. 15 /\ 14 \in 1 .. 15
    OBVIOUS
  <2>2. mpc \in {"enumerate", "info", "blockio", "probe", "ext4", "btrfs", "xfs", "exfat",
                 "zfs", "import", "media", "lvm", "scan"}
    BY DEF LoopEnds, MountTyped, Phases
  <2>3. CASE mpc \in {"enumerate", "info", "blockio", "probe"}
    BY <2>1, <2>3, LoopNames, Zenon
  <2>4. CASE mpc \in {"ext4", "btrfs", "xfs", "exfat"}
    BY <2>1, <2>4, LoopNames, Zenon
  <2>5. CASE mpc \in {"zfs", "import", "media", "lvm", "scan"}
    BY <2>1, <2>5, LoopNames, Zenon
  <2> QED
    BY <2>2, <2>3, <2>4, <2>5, Zenon
<1>2. i \in DOMAIN Loops /\ Loops[i] = mpc
  BY <1>1, Zenon
<1>3. mpc' = Loops[i + 1] /\ mpc # "xbootldr" /\ mpc # "done"
  BY DEF LoopEnds
<1> HIDE DEF i
<1>4. i \in {1, 2, 3, 4, 5, 6, 7, 8, 9, 10, 11, 12, 13, 14, 15}
  BY <1>2, LoopNames
<1>5. CASE i \in {1, 2, 3, 4, 5}
  BY <1>2, <1>3, <1>5, LoopNames DEF Follows
<1>6. CASE i \in {6, 7, 8, 9, 10}
  BY <1>2, <1>3, <1>6, LoopNames DEF Follows
<1>7. CASE i \in {11, 12, 13, 14, 15}
  BY <1>2, <1>3, <1>7, LoopNames DEF Follows
<1> QED
  BY <1>4, <1>5, <1>6, <1>7

\* A loop ends when its elements are dealt with.
LEMMA LoopDone ==
  ASSUME MountTyped, at \notin Over
  PROVE  /\ mpc = "blockio" => \A p \in Parts : p < at
         /\ mpc \in Natives \cup {"media"} => \A i \in DOMAIN found : i < at
         /\ mpc = "lvm" => \A i \in DOMAIN found : i < at
         /\ mpc = "scan" => \A i \in DOMAIN volumes : i < at
<1>1. /\ at \in Nat \ {0} /\ Len(machine.parts) \in Nat /\ Parts = 1 .. Len(machine.parts)
      /\ Len(found) \in Nat /\ DOMAIN found = 1 .. Len(found)
      /\ Len(volumes) \in Nat /\ DOMAIN volumes = 1 .. Len(volumes)
  BY MachineFacts, LenProperties DEF MountTyped
<1>2. CASE mpc = "blockio"
  <2>1. Over = Parts
    BY <1>2 DEF Over, Probing
  <2>2. \A p \in Parts : p < at
    BY <1>1, <2>1
  <2>3. mpc \notin Natives \cup {"media", "lvm", "scan"}
    BY <1>2 DEF Natives
  <2> QED
    BY <2>2, <2>3
<1>3. CASE mpc \in Natives \cup {"media"}
  <2>1. mpc \in {"ext4", "btrfs", "xfs", "exfat", "media"}
    BY <1>3 DEF Natives
  <2>2. Over = DOMAIN found
    BY <2>1 DEF Over, Probing
  <2>3. \A i \in DOMAIN found : i < at
    BY <1>1, <2>2
  <2> QED
    BY <2>1, <2>3
<1>4. CASE mpc = "lvm"
  <2>1. Over = DOMAIN Candidates
    BY <1>4 DEF Over, Probing
  <2>2. found # <<>> => DOMAIN Candidates = 1 .. Len(found)
    BY CandidatesFacts
  <2>3. found = <<>> => DOMAIN found = {}
    BY <1>1
  <2> QED
    BY <1>1, <1>4, <2>1, <2>2, <2>3 DEF Natives
<1>5. CASE mpc = "scan"
  <2>1. Over = DOMAIN volumes
    BY <1>5 DEF Over, Probing
  <2> QED
    BY <1>1, <1>5, <2>1 DEF Natives
<1> QED
  BY <1>2, <1>3, <1>4, <1>5
-----------------------------------------------------------------------------
(* ListInv *)

\* The machine stays the same.
LEMMA SameMachine ==
  ASSUME machine' = machine
  PROVE  /\ Parts' = Parts /\ Found' = Found /\ Vols' = Vols
         /\ \A p : Part(p)' = Part(p)
         /\ \A p : Classify(p)' = Classify(p)
         /\ \A p : ProbeSuperblock(p)' = ProbeSuperblock(p)
BY DEF Parts, Found, Vols, Part, Classify, ProbeSuperblock

\* What a step has to show about the types.
LEMMA TypedKept ==
  ASSUME MountTyped, machine' = machine, mpc' \in Phases, at' \in Nat \ {0}, sfs' \subseteq sfs,
         sfsHeld' \subseteq Parts, blkHeld' \subseteq Parts, found' \in Seq(Found),
         volumes' \in Seq(Vols), mfaults' \in Nat,
         \A g \in DOMAIN pools' : g \in Nat /\ pools'[g] \in Seq(Parts) /\ pools'[g] # <<>>
  PROVE  MountTyped'
<1>1. Parts' = Parts /\ Found' = Found /\ Vols' = Vols /\ \A p : Part(p)' = Part(p)
  BY SameMachine
<1>2. sfs' \subseteq {p \in Parts : Part(p).sfs}'
  BY <1>1 DEF MountTyped
<1> QED
  BY <1>1, <1>2 DEF MountTyped

\* Where nothing is listed, and no hold is taken.
LEMMA ListKept ==
  ASSUME ListInv, MountTyped', machine' = machine, sfs' \subseteq sfs, found' = found,
         mpc' # "hung",
         mpc' \notin {"scan", "done"} => mpc \notin {"scan", "done"} /\ sfsHeld' = sfsHeld
  PROVE  ListInv'
<1>1. (\A i \in DOMAIN found : Classify(found[i].part) # "skip" \/ found[i].part \notin sfs)'
  <2>1. \A i \in DOMAIN found : Classify(found[i].part) # "skip" \/ found[i].part \notin sfs'
    BY DEF ListInv
  <2> QED
    BY <2>1 DEF Classify, Part
<1> QED
  BY <1>1 DEF ListInv, BootVolumeSafe

\* A partition is taken from its driver, or not.
LEMMA DetachedFacts ==
  ASSUME NEW p
  PROVE  Detached(p) \subseteq sfs /\ (machine.byDriver /\ p \notin blkHeld => p \notin Detached(p))
BY DEF Detached

\* The elements of the two lists.
LEMMA ElementFacts ==
  ASSUME MountTyped
  PROVE  /\ Len(found) \in Nat /\ DOMAIN found = 1 .. Len(found)
         /\ \A i \in DOMAIN found : found[i] \in Found /\ found[i].part \in Parts
         /\ Len(volumes) \in Nat /\ DOMAIN volumes = 1 .. Len(volumes)
         /\ \A i \in DOMAIN volumes : volumes[i] \in Vols /\ volumes[i].part \in Parts
<1>1. /\ Len(found) \in Nat /\ DOMAIN found = 1 .. Len(found)
      /\ Len(volumes) \in Nat /\ DOMAIN volumes = 1 .. Len(volumes)
      /\ \A i \in DOMAIN found : found[i] \in Found
      /\ \A i \in DOMAIN volumes : volumes[i] \in Vols
  BY LenProperties, ElementOfSeq DEF MountTyped
<1> QED
  BY <1>1, Zenon DEF Found, Vols

\* What is counted is counted from 1.
LEMMA IndexFacts ==
  ASSUME MountTyped
  PROVE  /\ at \in Nat \ {0} /\ mpc \in Phases
         /\ DOMAIN found \subseteq Nat \ {0} /\ DOMAIN volumes \subseteq Nat \ {0}
         /\ Parts \subseteq Nat \ {0}
<1>1. at \in Nat \ {0} /\ mpc \in Phases /\ machine \in Machines
  BY DEF MountTyped
<1>2. Parts \subseteq Nat \ {0}
  BY <1>1, MachineFacts
<1>3. DOMAIN found \subseteq Nat \ {0} /\ DOMAIN volumes \subseteq Nat \ {0}
  BY ElementFacts
<1> QED
  BY <1>1, <1>2, <1>3

\* t is s with e at the end.
OneMore(t, s, e, S) ==
  /\ t \in Seq(S) /\ Len(t) = Len(s) + 1
  /\ \A i \in 1 .. Len(s) : t[i] = s[i]
  /\ t[Len(s) + 1] = e

\* Append adds one element at the end.
LEMMA AppendFacts ==
  ASSUME NEW S, NEW s \in Seq(S), NEW e \in S, NEW t, t = Append(s, e)
  PROVE  OneMore(t, s, e, S)
BY AppendProperties DEF OneMore

\* The volumes after one more.
Longer(v) ==
  /\ volumes' \in Seq(Vols) /\ Len(volumes') = Len(volumes) + 1
  /\ DOMAIN volumes' = 1 .. Len(volumes) + 1
  /\ \A i \in DOMAIN volumes : volumes'[i] = volumes[i]
  /\ volumes'[Len(volumes) + 1] = v

\* The fields of a volume.
IsVolume(v, p, via, lv) == v \in Vols /\ v.part = p /\ v.via = via /\ v.lv = lv

\* Volume makes one.
LEMMA VolumeFacts ==
  ASSUME NEW p \in Parts, NEW via \in Vias,
         NEW lv \in {"", "a", "b"} \cup {LvNames[i] : i \in DOMAIN LvNames},
         NEW n \in Nat \cup {MaxIndex}
  PROVE  IsVolume(Volume(p, via, lv, n), p, via, lv)
BY Zenon DEF Volume, Vols, IsVolume

\* A volume is added at the end.
LEMMA PushFacts ==
  ASSUME MountTyped, NEW p \in Parts, NEW via \in Vias,
         NEW lv \in {"", "a", "b"} \cup {LvNames[i] : i \in DOMAIN LvNames},
         NEW n \in Nat \cup {MaxIndex}, Push(Volume(p, via, lv, n))
  PROVE  Longer(Volume(p, via, lv, n))
<1> DEFINE v == Volume(p, via, lv, n)
<1>1. v \in Vols
  BY Zenon DEF Volume, Vols
<1>2. volumes \in Seq(Vols) /\ volumes' = Append(volumes, v)
  BY Zenon DEF MountTyped, Push
<1>3. Len(volumes) \in Nat /\ DOMAIN volumes = 1 .. Len(volumes)
  BY ElementFacts, Zenon
<1> HIDE DEF v
<1>4. /\ volumes' \in Seq(Vols) /\ Len(volumes') = Len(volumes) + 1
      /\ \A i \in 1 .. Len(volumes) : volumes'[i] = volumes[i]
      /\ volumes'[Len(volumes) + 1] = v
  <2>1. OneMore(volumes', volumes, v, Vols)
    BY <1>1, <1>2, AppendFacts, Zenon
  <2> QED
    BY <2>1, Zenon DEF OneMore
<1>5. DOMAIN volumes' = 1 .. Len(volumes')
  BY <1>4, LenProperties, Zenon
<1>6. Longer(v)
  BY <1>3, <1>4, <1>5, Zenon DEF Longer
<1> QED
  BY <1>6, Zenon DEF v

\* The body of a mount loop at partition p, whether or not it mounts it.
Pass(p, via, lv, mounts) ==
  /\ p \in Parts /\ mounts \in BOOLEAN
  /\ mpc' = mpc /\ at' = at + 1 /\ sfs' = Detached(p)
  /\ UNCHANGED <<machine, sfsHeld, found, pools, answers, mfaults>>
  /\ IF mounts THEN /\ p \notin blkHeld /\ blkHeld' = blkHeld \cup {p}
                    /\ Longer(Volume(p, via, lv, Len(volumes) + 1))
     ELSE blkHeld' = blkHeld /\ volumes' = volumes

\* Where a loop over the partitions is.
LEMMA HereFacts ==
  ASSUME MountTyped, NEW phase, Here(phase)
  PROVE  mpc = phase /\ at \in DOMAIN found /\ found[at].part \in Parts
<1>1. mpc = phase /\ at <= Len(found) /\ at \in Nat \ {0}
  BY DEF Here, MountTyped
<1>2. at \in DOMAIN found
  BY <1>1, ElementFacts
<1> QED
  BY <1>1, <1>2, ElementFacts

\* A place is an index.
LEMMA PlaceIsIndex == \A k \in Nat : k + 1 \in Nat \cup {MaxIndex}
OBVIOUS

\* A pushed volume is counted by its place.
LEMMA PassFacts ==
  ASSUME MountTyped, NEW p \in Parts, NEW via \in Vias, NEW lv, NEW mounts \in BOOLEAN,
         mounts => lv \in {"", "a", "b"} \cup {LvNames[i] : i \in DOMAIN LvNames},
         mounts => p \notin blkHeld,
         mpc' = mpc, at' = at + 1, sfs' = Detached(p),
         UNCHANGED <<machine, sfsHeld, found, pools, answers, mfaults>>,
         blkHeld' = IF mounts THEN blkHeld \cup {p} ELSE blkHeld,
         IF mounts THEN PushAudited(Volume(p, via, lv, IndexAfter(Len(volumes))))
                   ELSE UNCHANGED <<volumes, mounted>>
  PROVE  Pass(p, via, lv, mounts)
<1>1. CASE mounts
  <2>1. Len(volumes) \in Nat
    BY ElementFacts, Zenon
  <2>2. Len(volumes) + 1 \in Nat \cup {MaxIndex}
    BY <2>1, PlaceIsIndex, Zenon
  <2>3. Push(Volume(p, via, lv, Len(volumes) + 1))
    BY <1>1, Zenon DEF PushAudited, IndexAfter
  <2> DEFINE n == Len(volumes) + 1
  <2>4. Longer(Volume(p, via, lv, n))
    <3>1. Push(Volume(p, via, lv, n)) /\ n \in Nat \cup {MaxIndex}
      BY <2>2, <2>3, Zenon
    <3>2. lv \in {"", "a", "b"} \cup {LvNames[i] : i \in DOMAIN LvNames}
      BY <1>1, Zenon
    <3> HIDE DEF n
    <3> QED
      BY <3>1, <3>2, PushFacts, Zenon
  <2>5. p \notin blkHeld /\ blkHeld' = blkHeld \cup {p}
    BY <1>1, Zenon
  <2> QED
    BY <1>1, <2>4, <2>5, Zenon DEF Pass
<1>2. CASE ~mounts
  BY <1>2, Zenon DEF Pass
<1> QED
  BY <1>1, <1>2, Zenon

\* Whether a native loop, and the LVM loop, mounts a partition.
NativeMounts(p, fs) == p \notin blkHeld /\ ProbeSuperblock(p) = fs /\ fs \in Part(p).sound
LvName(p) == FirstIn(LvNames, {n \in DOMAIN Part(p).lvs : LvMounts(p, n)})
LvmMounts(p) == p \notin blkHeld /\ "lvm" \in Part(p).sigs /\ LvName(p) # "unknown"

\* The native loops are passes.
LEMMA NativePass ==
  ASSUME MountTyped, NEW fs \in Natives, MountNative(fs)
  PROVE  /\ mpc = fs /\ at \in DOMAIN found
         /\ Pass(found[at].part, fs, "", NativeMounts(found[at].part, fs))
<1>1. mpc = fs /\ at \in DOMAIN found /\ found[at].part \in Parts
  <2>1. Here(fs)
    BY Zenon DEF MountNative
  <2> QED
    BY <2>1, HereFacts
<1>2. fs \in Vias /\ NativeMounts(found[at].part, fs) \in BOOLEAN
  BY DEF Vias, NativeMounts
<1> DEFINE p == found[at].part
           mounts == NativeMounts(p, fs)
<1>3. /\ mpc' = mpc /\ at' = at + 1 /\ sfs' = Detached(p)
      /\ UNCHANGED <<machine, sfsHeld, found, pools, answers, mfaults>>
      /\ blkHeld' = IF mounts THEN blkHeld \cup {p} ELSE blkHeld
      /\ IF mounts THEN PushAudited(Volume(p, fs, "", IndexAfter(Len(volumes))))
                   ELSE UNCHANGED <<volumes, mounted>>
  BY Zenon DEF MountNative, NativeMounts
<1>4. mounts => p \notin blkHeld
  BY DEF NativeMounts
<1>5. p \in Parts /\ mounts \in BOOLEAN
  BY <1>1, <1>2
<1> HIDE DEF p, mounts
<1>6. Pass(p, fs, "", mounts)
  BY <1>2, <1>3, <1>4, <1>5, PassFacts, Zenon
<1> QED
  BY <1>1, <1>6, Zenon DEF p, mounts

\* The media loop is one.
LEMMA MediaPass ==
  ASSUME MountTyped, MountMedia
  PROVE  /\ mpc = "media" /\ at \in DOMAIN found
         /\ Pass(found[at].part, "media", "", MediaMounts(found[at].part))
<1>1. mpc = "media" /\ at \in DOMAIN found /\ found[at].part \in Parts
  <2>1. Here("media")
    BY Zenon DEF MountMedia
  <2> QED
    BY <2>1, HereFacts
<1>2. "media" \in Vias /\ MediaMounts(found[at].part) \in BOOLEAN
  BY DEF Vias, MediaMounts
<1> DEFINE p == found[at].part
           mounts == MediaMounts(p)
<1>3. /\ mpc' = mpc /\ at' = at + 1 /\ sfs' = Detached(p)
      /\ UNCHANGED <<machine, sfsHeld, found, pools, answers, mfaults>>
      /\ blkHeld' = IF mounts THEN blkHeld \cup {p} ELSE blkHeld
      /\ IF mounts THEN PushAudited(Volume(p, "media", "", IndexAfter(Len(volumes))))
                   ELSE UNCHANGED <<volumes, mounted>>
  BY Zenon DEF MountMedia
<1>4. mounts => p \notin blkHeld
  BY DEF MediaMounts
<1>5. p \in Parts /\ mounts \in BOOLEAN
  BY <1>1, <1>2
<1> HIDE DEF p, mounts
<1>6. Pass(p, "media", "", mounts)
  BY <1>2, <1>3, <1>4, <1>5, PassFacts, Zenon
<1> QED
  BY <1>1, <1>6, Zenon DEF p, mounts

\* And so is the LVM loop.
LEMMA LvmPass ==
  ASSUME MountTyped, MountLvm
  PROVE  /\ mpc = "lvm" /\ at \in DOMAIN Candidates
         /\ Pass(Candidates[at], "lvm", LvName(Candidates[at]), LvmMounts(Candidates[at]))
<1>1. mpc = "lvm" /\ at \in DOMAIN Candidates /\ Candidates[at] \in Parts
  BY CandidatesFacts DEF MountLvm, MountTyped
<1>2. "lvm" \in Vias /\ LvmMounts(Candidates[at]) \in BOOLEAN
  BY DEF Vias, LvmMounts
<1> DEFINE p == Candidates[at]
           lv == LvName(p)
           mounts == LvmMounts(p)
<1>3. /\ mpc' = mpc /\ at' = at + 1 /\ sfs' = Detached(p)
      /\ UNCHANGED <<machine, sfsHeld, found, pools, answers, mfaults>>
      /\ blkHeld' = IF mounts THEN blkHeld \cup {p} ELSE blkHeld
      /\ IF mounts THEN PushAudited(Volume(p, "lvm", lv, IndexAfter(Len(volumes))))
                   ELSE UNCHANGED <<volumes, mounted>>
  BY DEF MountLvm, LvName, LvmMounts
<1>4. mounts => p \notin blkHeld
  BY DEF LvmMounts
<1>5. mounts => lv \in {"", "a", "b"} \cup {LvNames[i] : i \in DOMAIN LvNames}
  BY LvNameFacts, Zenon DEF LvmMounts, LvName
<1>6. p \in Parts /\ mounts \in BOOLEAN
  BY <1>1, <1>2
<1> HIDE DEF p, lv, mounts
<1>7. Pass(p, "lvm", lv, mounts)
  BY <1>2, <1>3, <1>4, <1>5, <1>6, PassFacts, Zenon
<1> QED
  BY <1>1, <1>7 DEF p, lv, mounts

\* The names mount_pool gives the first n datasets.
DatasetName(i) == IF i = 1 THEN "a" ELSE "b"

\* n datasets of pool g are mounted.
Imports(g, n) ==
  /\ mpc = "import" /\ g \in DOMAIN pools /\ n \in 0 .. 2
  /\ pools' = [h \in DOMAIN pools \ {g} |-> pools[h]]
  /\ volumes' \in Seq(Vols) /\ DOMAIN volumes' = 1 .. Len(volumes) + n
  /\ \A i \in DOMAIN volumes : volumes'[i] = volumes[i]
  /\ \A i \in 1 .. n : /\ volumes'[Len(volumes) + i].part = pools[g][1]
                       /\ volumes'[Len(volumes) + i].via = "zfs"
                       /\ volumes'[Len(volumes) + i].lv = DatasetName(i)
  /\ blkHeld' = IF n # 0 THEN blkHeld ELSE blkHeld \ {pools[g][i] : i \in DOMAIN pools[g]}
  /\ UNCHANGED <<machine, mpc, at, sfs, sfsHeld, found, pvs, answers, mfaults>>

\* t is s with u after it.
Joined(t, s, u, S) ==
  /\ t \in Seq(S) /\ Len(t) = Len(s) + Len(u)
  /\ \A i \in 1 .. Len(s) : t[i] = s[i]
  /\ \A i \in 1 .. Len(u) : t[Len(s) + i] = u[i]

\* Concatenation, place by place.
LEMMA ConcatFacts ==
  ASSUME NEW S, NEW s \in Seq(S), NEW u \in Seq(S), NEW t, t = s \o u
  PROVE  Joined(t, s, u, S)
<1>1. t \in Seq(S) /\ Len(t) = Len(s) + Len(u)
  BY ConcatProperties
<1>2. \A i \in 1 .. Len(s) + Len(u) : t[i] = IF i <= Len(s) THEN s[i] ELSE u[i - Len(s)]
  BY ConcatProperties
<1>3. Len(s) \in Nat /\ Len(u) \in Nat
  BY LenProperties
<1>4. \A i \in 1 .. Len(s) : t[i] = s[i]
  <2>1. \A i \in 1 .. Len(s) : i \in 1 .. Len(s) + Len(u) /\ i <= Len(s)
    BY <1>3
  <2> QED
    BY <1>2, <2>1, Zenon
<1>5. \A i \in 1 .. Len(u) : t[Len(s) + i] = u[i]
  <2> TAKE i \in 1 .. Len(u)
  <2>1. /\ Len(s) + i \in 1 .. Len(s) + Len(u) /\ ~(Len(s) + i <= Len(s))
        /\ (Len(s) + i) - Len(s) = i
    BY <1>3
  <2>2. t[Len(s) + i] = u[(Len(s) + i) - Len(s)]
    BY <1>2, <2>1, Zenon
  <2> QED
    BY <2>1, <2>2, Zenon
<1> QED
  BY <1>1, <1>4, <1>5 DEF Joined

\* Importing a pool adds its datasets.
LEMMA ImportFacts ==
  ASSUME MountTyped, ImportPool
  PROVE  \E g \in DOMAIN pools : \E n \in 0 .. 2 : Imports(g, n)
<1>1. PICK g \in DOMAIN pools, datasets \in {<<>>, <<"a">>, <<"a", "b">>} :
        /\ pools' = [h \in DOMAIN pools \ {g} |-> pools[h]]
        /\ volumes' = volumes \o
             [i \in DOMAIN datasets |->
                Volume(pools[g][1], "zfs", datasets[i], IndexAfter(Len(volumes) + i - 1))]
        /\ blkHeld' = IF datasets # <<>> THEN blkHeld
                      ELSE blkHeld \ {pools[g][i] : i \in DOMAIN pools[g]}
  BY Zenon DEF ImportPool
<1>2. mpc = "import" /\ UNCHANGED <<machine, mpc, at, sfs, sfsHeld, found, pvs, answers, mfaults>>
  BY DEF ImportPool
<1> DEFINE new == [i \in DOMAIN datasets |->
                     Volume(pools[g][1], "zfs", datasets[i], IndexAfter(Len(volumes) + i - 1))]
<1>3. PICK n \in 0 .. 2 :
        /\ DOMAIN datasets = 1 .. n /\ (n = 0 <=> datasets = <<>>)
        /\ \A i \in 1 .. n : datasets[i] = DatasetName(i) /\ datasets[i] \in {"a", "b"}
  <2>1. CASE datasets = <<>>
    <3>1. 0 \in 0 .. 2 /\ DOMAIN datasets = 1 .. 0
      BY <2>1
    <3> QED
      BY <2>1, <3>1
  <2>2. CASE datasets = <<"a">>
    <3>1. 1 \in 0 .. 2 /\ DOMAIN datasets = 1 .. 1 /\ datasets # <<>> /\ datasets[1] = "a"
      BY <2>2
    <3>2. \A i \in 1 .. 1 : i = 1
      OBVIOUS
    <3>3. \A i \in 1 .. 1 : datasets[i] = DatasetName(i) /\ datasets[i] \in {"a", "b"}
      BY <3>1, <3>2 DEF DatasetName
    <3> QED
      BY <3>1, <3>3
  <2>3. CASE datasets = <<"a", "b">>
    <3>1. /\ 2 \in 0 .. 2 /\ DOMAIN datasets = 1 .. 2 /\ datasets # <<>>
          /\ datasets[1] = "a" /\ datasets[2] = "b"
      BY <2>3
    <3>2. \A i \in 1 .. 2 : i = 1 \/ i = 2
      OBVIOUS
    <3>3. \A i \in 1 .. 2 : datasets[i] = DatasetName(i) /\ datasets[i] \in {"a", "b"}
      BY <3>1, <3>2 DEF DatasetName
    <3> QED
      BY <3>1, <3>3
  <2> QED
    BY <2>1, <2>2, <2>3
<1>4. /\ Len(volumes) \in Nat /\ DOMAIN volumes = 1 .. Len(volumes) /\ volumes \in Seq(Vols)
      /\ pools[g][1] \in Parts
  <2>1. pools[g] \in Seq(Parts) /\ pools[g] # <<>>
    BY <1>1 DEF MountTyped
  <2>2. Len(pools[g]) \in Nat /\ Len(pools[g]) # 0
    BY <2>1, EmptySeq, LenProperties
  <2>3. 1 \in 1 .. Len(pools[g])
    BY <2>2
  <2> QED
    BY <2>1, <2>3, ElementFacts, ElementOfSeq DEF MountTyped
<1>5. \A i \in 1 .. n : IndexAfter(Len(volumes) + i - 1) \in Nat \cup {MaxIndex}
  <2>1. \A i \in 1 .. n : Len(volumes) + i - 1 \in Nat
    BY <1>3, <1>4
  <2> QED
    BY <2>1, PlaceIsIndex DEF IndexAfter
<1>6. \A i \in 1 .. n :
        /\ new[i] \in Vols /\ new[i].part = pools[g][1] /\ new[i].via = "zfs"
        /\ new[i].lv = DatasetName(i)
  <2> SUFFICES ASSUME NEW i \in 1 .. n
               PROVE  /\ new[i] \in Vols /\ new[i].part = pools[g][1] /\ new[i].via = "zfs"
                      /\ new[i].lv = DatasetName(i)
    BY Zenon
  <2>1. new[i] = Volume(pools[g][1], "zfs", datasets[i], IndexAfter(Len(volumes) + i - 1))
    BY <1>3
  <2>2. datasets[i] \in {"a", "b"} /\ datasets[i] = DatasetName(i)
    BY <1>3
  <2>3. IndexAfter(Len(volumes) + i - 1) \in Nat \cup {MaxIndex} /\ "zfs" \in Vias
    BY <1>5, Zenon DEF Vias
  <2> DEFINE k == IndexAfter(Len(volumes) + i - 1)
  <2>4. k \in Nat \cup {MaxIndex} /\ new[i] = Volume(pools[g][1], "zfs", datasets[i], k)
    BY <2>1, <2>3
  <2>5. datasets[i] \in {"", "a", "b"} \cup {LvNames[j] : j \in DOMAIN LvNames}
    BY <2>2, Zenon
  <2> HIDE DEF new, k
  <2>6. IsVolume(Volume(pools[g][1], "zfs", datasets[i], k), pools[g][1], "zfs", datasets[i])
    BY <1>4, <2>3, <2>4, <2>5, VolumeFacts, Zenon
  <2> QED
    BY <2>2, <2>4, <2>6, Zenon DEF IsVolume
<1>7. new \in Seq(Vols) /\ Len(new) = n
  <2>1. DOMAIN new = 1 .. n /\ new = [i \in 1 .. n |-> new[i]]
    BY <1>3
  <2> HIDE DEF new
  <2>2. new \in [1 .. n -> Vols] /\ n \in Nat
    BY <1>3, <1>6, <2>1
  <2>3. new \in Seq(Vols)
    BY <2>2, SeqDef
  <2>4. Len(new) \in Nat /\ DOMAIN new = 1 .. Len(new)
    BY <2>3, LenProperties
  <2> QED
    BY <2>1, <2>2, <2>3, <2>4, SMT
<1>8. volumes' = volumes \o new
  BY <1>1
<1> HIDE DEF new
<1>9. Joined(volumes', volumes, new, Vols)
  BY <1>4, <1>7, <1>8, ConcatFacts, Zenon
<1>10. /\ volumes' \in Seq(Vols) /\ Len(volumes') = Len(volumes) + n
       /\ \A i \in DOMAIN volumes : volumes'[i] = volumes[i]
       /\ \A i \in 1 .. n : volumes'[Len(volumes) + i] = new[i]
  BY <1>4, <1>7, <1>9 DEF Joined
<1>11. DOMAIN volumes' = 1 .. Len(volumes) + n
  BY <1>10, LenProperties
<1>12. blkHeld' = IF n # 0 THEN blkHeld ELSE blkHeld \ {pools[g][i] : i \in DOMAIN pools[g]}
  BY <1>1, <1>3, Zenon
<1>13. Imports(g, n)
  BY <1>1, <1>2, <1>6, <1>10, <1>11, <1>12, Zenon DEF Imports
<1> QED
  BY <1>13

\* A member of a pool is gathered; every gathered one stays in its pool.
Gathers(p) ==
  /\ p \in Parts /\ p \notin blkHeld /\ ProbeSuperblock(p) = "zfs"
  /\ blkHeld' = blkHeld \cup {p}
  /\ \A h \in DOMAIN pools' : h \in Nat /\ pools'[h] \in Seq(Parts) /\ pools'[h] # <<>>
  /\ \A h \in DOMAIN pools' : \A i \in DOMAIN pools'[h] :
       \/ h \in DOMAIN pools /\ \E j \in DOMAIN pools[h] : pools[h][j] = pools'[h][i]
       \/ h = Part(p).pool /\ pools'[h][i] = p
  /\ Members' = Members \cup {p}

\* peek_pool_id adds the member to its pool.
LEMMA PeekFacts ==
  ASSUME MountTyped, NEW p \in Parts, p \notin blkHeld, ProbeSuperblock(p) = "zfs",
         PeekZfs(p), machine' = machine
  PROVE  Gathers(p) \/ UNCHANGED <<blkHeld, pools>>
<1> DEFINE g == Part(p).pool
           X(h) == IF h \in DOMAIN pools THEN pools[h] ELSE <<>>
           Y(h) == IF h = g THEN <<p>> ELSE <<>>
<1> SUFFICES ASSUME "zfs" \in Part(p).sound PROVE Gathers(p)
  BY Zenon DEF PeekZfs
<1>1. blkHeld' = blkHeld \cup {p} /\ pools' = [h \in DOMAIN pools \cup {g} |-> X(h) \o Y(h)]
  BY Zenon DEF PeekZfs
<1>2. g \in Nat
  BY MachineFacts DEF MountTyped
<1>3. <<>> \in Seq(Parts) /\ <<p>> \in Seq(Parts) /\ Len(<<>>) = 0 /\ Len(<<p>>) = 1 /\ <<p>>[1] = p
  BY EmptySeq
<1>4. \A h \in DOMAIN pools : h \in Nat /\ pools[h] \in Seq(Parts) /\ pools[h] # <<>>
  BY DEF MountTyped
<1>5. \A h : X(h) \in Seq(Parts) /\ Y(h) \in Seq(Parts)
  <2> HIDE DEF g
  <2> QED
    BY <1>3, <1>4, Zenon
<1>6. DOMAIN pools' = DOMAIN pools \cup {g} /\ \A h \in DOMAIN pools' : pools'[h] = X(h) \o Y(h)
  <2> DEFINE Z(h) == X(h) \o Y(h)
  <2>1. pools' = [h \in DOMAIN pools \cup {g} |-> Z(h)]
    BY <1>1
  <2> HIDE DEF Z, g
  <2>2. DOMAIN pools' = DOMAIN pools \cup {g} /\ \A h \in DOMAIN pools' : pools'[h] = Z(h)
    BY <2>1
  <2> QED
    BY <2>2, Zenon DEF Z
<1>7. \A h : (h \in DOMAIN pools => X(h) = pools[h]) /\ (h \notin DOMAIN pools => X(h) = <<>>)
  OBVIOUS
<1>8. Y(g) = <<p>> /\ \A h : h # g => Y(h) = <<>>
  OBVIOUS
<1> HIDE DEF g, X, Y
<1>9. \A h \in DOMAIN pools' : Joined(pools'[h], X(h), Y(h), Parts)
  <2> TAKE h \in DOMAIN pools'
  <2>1. X(h) \in Seq(Parts) /\ Y(h) \in Seq(Parts) /\ pools'[h] = X(h) \o Y(h)
    BY <1>5, <1>6
  <2> QED
    BY <2>1, ConcatFacts, Zenon
<1>10. \A h : /\ Len(X(h)) \in Nat /\ DOMAIN X(h) = 1 .. Len(X(h))
              /\ Len(Y(h)) \in Nat /\ DOMAIN Y(h) = 1 .. Len(Y(h))
  BY <1>5, LenProperties
<1>11. \A h \in DOMAIN pools' :
         /\ pools'[h] \in Seq(Parts) /\ Len(pools'[h]) = Len(X(h)) + Len(Y(h))
         /\ DOMAIN pools'[h] = 1 .. Len(X(h)) + Len(Y(h))
         /\ \A i \in 1 .. Len(X(h)) : pools'[h][i] = X(h)[i]
         /\ \A i \in 1 .. Len(Y(h)) : pools'[h][Len(X(h)) + i] = Y(h)[i]
  <2> TAKE h \in DOMAIN pools'
  <2>1. /\ pools'[h] \in Seq(Parts) /\ Len(pools'[h]) = Len(X(h)) + Len(Y(h))
        /\ \A i \in 1 .. Len(X(h)) : pools'[h][i] = X(h)[i]
        /\ \A i \in 1 .. Len(Y(h)) : pools'[h][Len(X(h)) + i] = Y(h)[i]
    BY <1>9 DEF Joined
  <2>2. DOMAIN pools'[h] = 1 .. Len(pools'[h])
    BY <2>1, LenProperties
  <2> QED
    BY <2>1, <2>2, Zenon
<1>12. ASSUME NEW h \in DOMAIN pools'
       PROVE  h \in Nat /\ pools'[h] \in Seq(Parts) /\ pools'[h] # <<>>
  <2>1. h \in Nat
    BY <1>2, <1>4, <1>6
  <2>2. Len(X(h)) + Len(Y(h)) # 0
    <3>1. CASE h = g
      <4>1. Len(Y(h)) = 1
        BY <1>3, <1>8, <3>1
      <4> QED
        BY <1>10, <4>1
    <3>2. CASE h # g
      <4>1. h \in DOMAIN pools /\ X(h) = pools[h]
        BY <1>6, <1>7, <3>2
      <4>2. Len(X(h)) # 0
        BY <1>4, <1>5, <4>1, EmptySeq
      <4> QED
        BY <1>10, <4>2
    <3> QED
      BY <3>1, <3>2
  <2>3. pools'[h] # <<>>
    BY <1>3, <1>11, <2>2
  <2> QED
    BY <1>11, <2>1, <2>3
<1>13. ASSUME NEW h \in DOMAIN pools', NEW i \in DOMAIN pools'[h]
       PROVE  \/ h \in DOMAIN pools /\ \E j \in DOMAIN pools[h] : pools[h][j] = pools'[h][i]
              \/ h = g /\ pools'[h][i] = p
  <2>1. i \in 1 .. Len(X(h)) + Len(Y(h)) /\ Len(X(h)) \in Nat /\ Len(Y(h)) \in Nat
    BY <1>10, <1>11
  <2>2. CASE i \in 1 .. Len(X(h))
    <3>1. h \in DOMAIN pools
      <4>1. ASSUME h \notin DOMAIN pools PROVE FALSE
        <5>1. Len(X(h)) = 0
          BY <1>3, <1>7, <4>1
        <5> QED
          BY <2>2, <5>1
      <4> QED
        BY <4>1
    <3>2. i \in DOMAIN pools[h] /\ pools[h][i] = pools'[h][i]
      BY <1>7, <1>10, <1>11, <2>2, <3>1
    <3> QED
      BY <3>1, <3>2
  <2>3. CASE i \notin 1 .. Len(X(h))
    <3>1. i - Len(X(h)) \in 1 .. Len(Y(h)) /\ Len(X(h)) + (i - Len(X(h))) = i
      BY <2>1, <2>3
    <3>2. h = g
      <4>1. ASSUME h # g PROVE FALSE
        <5>1. Len(Y(h)) = 0
          BY <1>3, <1>8, <4>1
        <5> QED
          BY <3>1, <5>1
      <4> QED
        BY <4>1
    <3>3. Y(h) = <<p>> /\ Len(Y(h)) = 1
      BY <1>3, <1>8, <3>2, Zenon
    <3>4. i - Len(X(h)) = 1
      BY <2>1, <3>1, <3>3
    <3>5. pools'[h][i] = Y(h)[1]
      BY <1>11, <3>1, <3>4, Zenon
    <3> QED
      BY <1>3, <3>2, <3>3, <3>5
  <2> QED
    BY <2>2, <2>3
<1>14. Parts' = Parts
  BY SameMachine
<1>15. Members' \subseteq Members \cup {p}
  BY <1>13, <1>14 DEF Members
<1>16. Members \subseteq Members'
  <2> SUFFICES ASSUME NEW q \in Parts, NEW h \in DOMAIN pools, NEW i \in DOMAIN pools[h],
                      pools[h][i] = q
               PROVE  q \in Members'
    BY DEF Members
  <2>1. h \in DOMAIN pools' /\ X(h) = pools[h] /\ i \in 1 .. Len(X(h))
    BY <1>6, <1>7, <1>10
  <2>2. pools'[h][i] = q
    BY <1>11, <2>1
  <2>3. i \in DOMAIN pools'[h]
    BY <1>10, <1>11, <2>1
  <2> QED
    BY <1>14, <2>1, <2>2, <2>3 DEF Members
<1>17. p \in Members'
  <2>1. g \in DOMAIN pools' /\ Len(Y(g)) = 1 /\ Y(g)[1] = p
    BY <1>3, <1>6, <1>8
  <2>2. 1 \in 1 .. Len(Y(g)) /\ Len(X(g)) + 1 \in 1 .. Len(X(g)) + Len(Y(g))
    BY <1>10, <2>1
  <2>3. Len(X(g)) + 1 \in DOMAIN pools'[g] /\ pools'[g][Len(X(g)) + 1] = p
    BY <1>11, <2>1, <2>2, Zenon
  <2> QED
    BY <1>14, <2>1, <2>3 DEF Members
<1>18. blkHeld' = blkHeld \cup {p} /\ Members' = Members \cup {p}
  BY <1>1, <1>15, <1>16, <1>17, Zenon
<1>19. \A h \in DOMAIN pools' : h \in Nat /\ pools'[h] \in Seq(Parts) /\ pools'[h] # <<>>
  BY <1>12, Zenon
<1>20. \A h \in DOMAIN pools' : \A i \in DOMAIN pools'[h] :
         \/ h \in DOMAIN pools /\ \E j \in DOMAIN pools[h] : pools[h][j] = pools'[h][i]
         \/ h = Part(p).pool /\ pools'[h][i] = p
  BY <1>13, Zenon DEF g
<1> QED
  BY <1>18, <1>19, <1>20, Zenon DEF Gathers

\* The body of a mount loop keeps what is listed.
LEMMA PassList ==
  ASSUME ListInv, NEW p, NEW via, NEW lv, NEW mounts, Pass(p, via, lv, mounts),
         mpc \notin {"scan", "done", "hung"}
  PROVE  ListInv'
<1>1. sfs' \subseteq sfs /\ at' \in Nat \ {0} /\ MountTyped
  BY DetachedFacts DEF Pass, ListInv, MountTyped
<1>2. volumes' \in Seq(Vols) /\ blkHeld' \subseteq Parts
  BY Zenon DEF Pass, Longer, ListInv, MountTyped
<1>3. /\ machine' = machine /\ mpc' = mpc /\ sfsHeld' = sfsHeld /\ found' = found
      /\ pools' = pools /\ mfaults' = mfaults
  BY DEF Pass
<1>4. MountTyped'
  <2>1. mpc' \in Phases /\ sfsHeld' \subseteq Parts /\ found' \in Seq(Found) /\ mfaults' \in Nat
    BY <1>3 DEF ListInv, MountTyped
  <2>2. \A g \in DOMAIN pools' : g \in Nat /\ pools'[g] \in Seq(Parts) /\ pools'[g] # <<>>
    BY <1>3 DEF ListInv, MountTyped
  <2> QED
    BY <1>1, <1>2, <1>3, <2>1, <2>2, TypedKept
<1> QED
  BY <1>1, <1>3, <1>4, ListKept

\* The boot volume is held, or a partition listed.
LEMMA EspList == ASSUME ListInv, MountEsp PROVE ListInv'
<1>1. /\ mpc' = "enumerate" /\ sfsHeld' = sfsHeld \cup {machine.boot} /\ mpc = "esp"
      /\ UNCHANGED <<machine, at, sfs, blkHeld, found, pools, volumes, mfaults>>
  BY DEF MountEsp
<1>2. machine.boot \in Parts /\ MountTyped
  BY MachineFacts DEF ListInv, MountTyped
<1>3. MountTyped'
  <2>1. mpc' \in Phases
    BY <1>1 DEF Phases
  <2>2. /\ at' \in Nat \ {0} /\ sfs' \subseteq sfs /\ sfsHeld' \subseteq Parts
        /\ blkHeld' \subseteq Parts /\ found' \in Seq(Found) /\ volumes' \in Seq(Vols)
        /\ mfaults' \in Nat
        /\ \A g \in DOMAIN pools' : g \in Nat /\ pools'[g] \in Seq(Parts) /\ pools'[g] # <<>>
    BY <1>1, <1>2 DEF MountTyped
  <2> QED
    BY <1>1, <1>2, <2>1, <2>2, TypedKept, Zenon
<1>4. sfsHeld' \subseteq {machine.boot}
  BY <1>1 DEF ListInv
<1>5. (\A i \in DOMAIN found : Classify(found[i].part) # "skip" \/ found[i].part \notin sfs)'
  BY <1>1 DEF ListInv, Classify, Part
<1> QED
  BY <1>1, <1>3, <1>4, <1>5 DEF ListInv, BootVolumeSafe

\* enumerate_fat_volumes adds the firmware's volumes.
LEMMA EnumerateFacts ==
  ASSUME MountTyped, Enumerate
  PROVE  /\ mpc = "enumerate" /\ mpc' = mpc /\ at' = at + 1
         /\ UNCHANGED <<machine, sfs, sfsHeld, blkHeld, found, pools, answers, mfaults, pvs>>
         /\ \/ volumes' = volumes
            \/ /\ at \in Parts /\ FirmwareFatReadable(at)
               /\ Longer(Volume(at, "fat", "", Len(volumes) + 1))
<1>1. /\ mpc = "enumerate" /\ mpc' = mpc /\ at' = at + 1
      /\ UNCHANGED <<machine, sfs, sfsHeld, blkHeld, found, pools, answers, mfaults, pvs>>
  BY Zenon DEF Enumerate
<1>2. CASE at \in sfs \ sfsHeld /\ Part(at).serves
  <2> DEFINE n == Len(volumes) + 1
  <2>1. at \in Parts /\ n \in Nat \cup {MaxIndex}
    BY <1>2, ElementFacts, PlaceIsIndex DEF MountTyped
  <2>2. Push(Volume(at, "fat", "", n)) /\ "fat" \in Vias
    BY <1>2, Zenon DEF Enumerate, IndexAfter, Vias
  <2> HIDE DEF n
  <2>3. Longer(Volume(at, "fat", "", n))
    BY <2>1, <2>2, PushFacts, Zenon
  <2> QED
    BY <1>1, <1>2, <2>1, <2>3, Zenon DEF n, FirmwareFatReadable
<1>3. CASE ~(at \in sfs \ sfsHeld /\ Part(at).serves)
  BY <1>1, <1>3, Zenon DEF Enumerate
<1> QED
  BY <1>2, <1>3, Zenon

\* Listing them lists no partition.
LEMMA EnumerateList == ASSUME ListInv, Enumerate PROVE ListInv'
<1>1. MountTyped
  BY DEF ListInv
<1>2. /\ mpc = "enumerate" /\ mpc' = mpc /\ at' = at + 1 /\ machine' = machine /\ sfs' = sfs
      /\ sfsHeld' = sfsHeld /\ blkHeld' = blkHeld /\ found' = found /\ pools' = pools
      /\ mfaults' = mfaults /\ volumes' \in Seq(Vols)
  BY <1>1, EnumerateFacts, Zenon DEF Longer, MountTyped
<1>3. MountTyped'
  <2>1. /\ mpc' \in Phases /\ at' \in Nat \ {0} /\ sfs' \subseteq sfs /\ sfsHeld' \subseteq Parts
        /\ blkHeld' \subseteq Parts /\ found' \in Seq(Found) /\ mfaults' \in Nat
        /\ \A g \in DOMAIN pools' : g \in Nat /\ pools'[g] \in Seq(Parts) /\ pools'[g] # <<>>
    BY <1>1, <1>2 DEF MountTyped
  <2> QED
    BY <1>1, <1>2, <2>1, TypedKept
<1> QED
  BY <1>2, <1>3, ListKept

\* found after one more.
Listed(p, role) ==
  /\ found' \in Seq(Found) /\ Len(found') = Len(found) + 1
  /\ DOMAIN found' = 1 .. Len(found) + 1
  /\ \A i \in DOMAIN found : found'[i] = found[i]
  /\ found'[Len(found) + 1] = [part |-> p, role |-> role]

\* A partition is listed at the end.
LEMMA ListedFacts ==
  ASSUME MountTyped, NEW p \in Parts, NEW role \in {"root", "xbootldr", "opaque"},
         found' = Append(found, [part |-> p, role |-> role])
  PROVE  Listed(p, role)
<1> DEFINE f == [part |-> p, role |-> role]
<1>1. f \in Found /\ found \in Seq(Found) /\ found' = Append(found, f)
  BY DEF Found, MountTyped
<1>2. Len(found) \in Nat /\ DOMAIN found = 1 .. Len(found)
  BY ElementFacts, Zenon
<1> HIDE DEF f
<1>3. OneMore(found', found, f, Found)
  BY <1>1, AppendFacts, Zenon
<1>4. /\ found' \in Seq(Found) /\ Len(found') = Len(found) + 1
      /\ \A i \in DOMAIN found : found'[i] = found[i]
      /\ found'[Len(found) + 1] = f
  BY <1>2, <1>3, Zenon DEF OneMore
<1>5. DOMAIN found' = 1 .. Len(found) + 1
  BY <1>4, LenProperties, Zenon
<1> QED
  BY <1>4, <1>5 DEF Listed, f

\* Both scans list the partition they are at, if it is one to list.
Lists ==
  /\ mpc \in {"info", "blockio"} /\ mpc' = mpc /\ at' = at + 1 /\ at \in Parts
  /\ UNCHANGED <<machine, sfs, sfsHeld, blkHeld, pools, volumes, pvs, answers, mfaults>>
  /\ \/ found' = found
     \/ \E role \in {"root", "xbootldr", "opaque"} :
          Listed(at, role) /\ (Classify(at) # "skip" \/ at \notin sfs)

\* The scans do so.
LEMMA ScanFacts ==
  ASSUME MountTyped, ScanInfo \/ ScanBlockIo
  PROVE  /\ Lists
         /\ mpc = "blockio" /\ BlockIoOnly(at) => at \in Seen \/ Listed(at, "opaque")
<1>1. at \in Parts
  <2>1. at <= Len(machine.parts) /\ at \in Nat \ {0}
    BY Zenon DEF ScanInfo, ScanBlockIo, MountTyped
  <2> QED
    BY <2>1, MachineFacts DEF MountTyped
<1>2. CASE ScanInfo
  <2>1. /\ mpc = "info" /\ mpc' = mpc /\ at' = at + 1
        /\ UNCHANGED <<machine, sfs, sfsHeld, blkHeld, pools, volumes, pvs, answers, mfaults>>
    BY <1>2, Zenon DEF ScanInfo
  <2>2. CASE Classify(at) = "skip"
    BY <1>1, <1>2, <2>1, <2>2, Zenon DEF ScanInfo, Lists
  <2>3. CASE Classify(at) # "skip"
    <3>1. Classify(at) \in {"root", "xbootldr", "opaque"}
      BY <2>3 DEF Classify, ClassifyGpt, ClassifyMbr
    <3>2. found' = Append(found, [part |-> at, role |-> Classify(at)])
      BY <1>2, <2>3, Zenon DEF ScanInfo
    <3>3. Listed(at, Classify(at))
      BY <1>1, <3>1, <3>2, ListedFacts, Zenon
    <3> QED
      BY <1>1, <2>1, <2>3, <3>1, <3>3, Zenon DEF Lists
  <2> QED
    BY <2>2, <2>3
<1>3. CASE ScanBlockIo
  <2>1. /\ mpc = "blockio" /\ mpc' = mpc /\ at' = at + 1
        /\ UNCHANGED <<machine, sfs, sfsHeld, blkHeld, pools, volumes, pvs, answers, mfaults>>
    BY <1>3, Zenon DEF ScanBlockIo
  <2>2. CASE BlockIoOnly(at) /\ at \notin Seen
    <3>1. found' = Append(found, [part |-> at, role |-> "opaque"]) /\ at \notin sfs
      BY <1>3, <2>2, Zenon DEF ScanBlockIo, BlockIoOnly
    <3>2. Listed(at, "opaque")
      BY <1>1, <3>1, ListedFacts, Zenon
    <3> QED
      BY <1>1, <2>1, <3>1, <3>2, Zenon DEF Lists
  <2>3. CASE ~(BlockIoOnly(at) /\ at \notin Seen)
    <3>1. found' = found
      BY <1>3, <2>3, Zenon DEF ScanBlockIo
    <3> QED
      BY <1>1, <2>1, <2>3, <3>1, Zenon DEF Lists
  <2> QED
    BY <2>2, <2>3
<1> QED
  BY <1>2, <1>3

\* What the scans list was classified, or carries no SimpleFileSystem.
LEMMA ScanList == ASSUME ListInv, Lists PROVE ListInv'
<1>1. MountTyped
  BY DEF ListInv
<1>2. /\ machine' = machine /\ mpc' = mpc /\ at' = at + 1 /\ sfs' = sfs /\ sfsHeld' = sfsHeld
      /\ blkHeld' = blkHeld /\ pools' = pools /\ volumes' = volumes /\ mfaults' = mfaults
      /\ mpc \in {"info", "blockio"}
  BY Zenon DEF Lists
<1>3. found' \in Seq(Found)
  BY <1>1, Zenon DEF Lists, Listed, MountTyped
<1>4. MountTyped'
  <2>1. /\ mpc' \in Phases /\ at' \in Nat \ {0} /\ sfs' \subseteq sfs /\ sfsHeld' \subseteq Parts
        /\ blkHeld' \subseteq Parts /\ volumes' \in Seq(Vols) /\ mfaults' \in Nat
        /\ \A g \in DOMAIN pools' : g \in Nat /\ pools'[g] \in Seq(Parts) /\ pools'[g] # <<>>
    BY <1>1, <1>2 DEF MountTyped
  <2> QED
    BY <1>1, <1>2, <1>3, <2>1, TypedKept, Zenon
<1>5. CASE found' = found
  BY <1>2, <1>4, <1>5, ListKept
<1>6. CASE found' # found
  <2>1. PICK role \in {"root", "xbootldr", "opaque"} :
          Listed(at, role) /\ (Classify(at) # "skip" \/ at \notin sfs)
    BY <1>6, Zenon DEF Lists
  <2>2. \A i \in DOMAIN found : Classify(found[i].part) # "skip" \/ found[i].part \notin sfs
    BY DEF ListInv
  <2>3. /\ Len(found) \in Nat /\ DOMAIN found = 1 .. Len(found)
        /\ DOMAIN found' = 1 .. Len(found) + 1
        /\ \A i \in DOMAIN found : found'[i] = found[i]
        /\ found'[Len(found) + 1] = [part |-> at, role |-> role]
    BY <1>1, <2>1, ElementFacts, Zenon DEF Listed
  <2>4. \A i \in DOMAIN found' : Classify(found'[i].part) # "skip" \/ found'[i].part \notin sfs
    <3> TAKE i \in DOMAIN found'
    <3>1. CASE i \in DOMAIN found
      BY <2>2, <2>3, <3>1, Zenon
    <3>2. CASE i = Len(found) + 1
      <4>1. found'[i].part = at
        BY <2>3, <3>2
      <4> QED
        BY <2>1, <4>1, Zenon
    <3>3. i \in DOMAIN found \/ i = Len(found) + 1
      BY <2>3
    <3> QED
      BY <3>1, <3>2, <3>3, Zenon
  <2>5. (\A i \in DOMAIN found : Classify(found[i].part) # "skip" \/ found[i].part \notin sfs)'
    BY <1>2, <2>4, Zenon DEF Classify, Part
  <2>6. sfsHeld' \subseteq {machine'.boot} /\ mpc' \notin {"scan", "done", "hung"}
    BY <1>2, Zenon DEF ListInv
  <2> QED
    BY <1>4, <2>5, <2>6, Zenon DEF ListInv, BootVolumeSafe
<1> QED
  BY <1>5, <1>6

\* A pass that mounts nothing: the first one, and a body that fails.
Looks ==
  /\ mpc' = mpc /\ at' = at + 1 /\ sfs' \subseteq sfs
  /\ mpc \notin {"scan", "done", "hung"}
  /\ UNCHANGED <<machine, sfsHeld, blkHeld, found, pools, volumes, answers, pvs>>
  /\ mfaults' \in {mfaults, mfaults + 1}

\* The first pass is one, and a failing body is one.
LEMMA LooksFacts ==
  ASSUME ProbeAll \/ BodyFails
  PROVE  /\ Looks
         /\ ProbeAll => mpc = "probe" /\ mfaults' = mfaults
         /\ BodyFails => mfaults' = mfaults + 1
<1>1. CASE ProbeAll
  <2>1. /\ mpc = "probe" /\ mpc' = mpc /\ at' = at + 1 /\ sfs' = Detached(found[at].part)
        /\ UNCHANGED <<machine, sfsHeld, blkHeld, found, pools, volumes, answers, pvs, mfaults>>
    BY <1>1, Zenon DEF ProbeAll, Here
  <2>2. ~BodyFails \/ mfaults' = mfaults + 1
    BY Zenon DEF BodyFails
  <2> QED
    BY <2>1, <2>2, DetachedFacts, Zenon DEF Looks
<1>2. CASE BodyFails
  <2>1. /\ mpc \in Probing \cup {"enumerate", "info", "blockio"} /\ at' = at + 1
        /\ mfaults' = mfaults + 1
        /\ UNCHANGED <<machine, mpc, sfsHeld, blkHeld, found, pools, volumes, answers, pvs>>
    BY <1>2, Zenon DEF BodyFails
  <2>2. sfs' \subseteq sfs
    <3>1. CASE mpc \in Probing
      <4> DEFINE p == IF mpc = "lvm" THEN Candidates[at] ELSE found[at].part
      <4>1. sfs' \in {sfs, Detached(p)}
        BY <1>2, <3>1, Zenon DEF BodyFails
      <4> HIDE DEF p
      <4> QED
        BY <4>1, DetachedFacts
    <3>2. CASE mpc \notin Probing
      BY <1>2, <3>2, Zenon DEF BodyFails
    <3> QED
      BY <3>1, <3>2
  <2>3. ~ProbeAll \/ (mpc = "probe" /\ mfaults' = mfaults)
    BY Zenon DEF ProbeAll, Here
  <2>4. mpc \notin {"scan", "done", "hung"}
    BY <2>1 DEF Probing
  <2>5. Looks
    BY <2>1, <2>2, <2>4, Zenon DEF Looks
  <2> QED
    BY <2>1, <2>3, <2>5, Zenon
<1> QED
  BY <1>1, <1>2

\* Looking lists nothing.
LEMMA LooksList == ASSUME ListInv, Looks PROVE ListInv'
<1>1. MountTyped
  BY DEF ListInv
<1>2. /\ mpc' = mpc /\ at' = at + 1 /\ sfs' \subseteq sfs /\ machine' = machine
      /\ sfsHeld' = sfsHeld /\ blkHeld' = blkHeld /\ found' = found /\ pools' = pools
      /\ volumes' = volumes /\ mfaults' \in {mfaults, mfaults + 1}
      /\ mpc \notin {"scan", "done", "hung"}
  BY Zenon DEF Looks
<1>3. MountTyped'
  <2>1. /\ mpc' \in Phases /\ at' \in Nat \ {0} /\ sfsHeld' \subseteq Parts
        /\ blkHeld' \subseteq Parts /\ volumes' \in Seq(Vols) /\ found' \in Seq(Found)
        /\ \A g \in DOMAIN pools' : g \in Nat /\ pools'[g] \in Seq(Parts) /\ pools'[g] # <<>>
    BY <1>1, <1>2 DEF MountTyped
  <2>2. mfaults' \in Nat
    BY <1>1, <1>2 DEF MountTyped
  <2> QED
    BY <1>1, <1>2, <2>1, <2>2, TypedKept, Zenon
<1> QED
  BY <1>2, <1>3, ListKept

\* mount_xbootldr adds a volume, or nothing.
LEMMA XbootldrFacts ==
  ASSUME MountTyped, MountXbootldr
  PROVE  /\ mpc = "xbootldr" /\ mpc' = "ext4" /\ at' = 1
         /\ UNCHANGED <<machine, sfs, sfsHeld, blkHeld, found, pools, pvs, answers, mfaults>>
         /\ \/ volumes' = volumes
            \/ \E p \in Parts :
                 /\ XbootldrBackend(p) \in {"fat", "fatro"}
                 /\ Longer(Volume(p, XbootldrBackend(p), "", MaxIndex))
<1>1. /\ mpc = "xbootldr" /\ mpc' = "ext4" /\ at' = 1
      /\ UNCHANGED <<machine, sfs, sfsHeld, blkHeld, found, pools, pvs, answers, mfaults>>
  BY Zenon DEF MountXbootldr
<1>2. CASE \E i \in Xbootldr :
             LET p == found[i].part
             IN  /\ XbootldrBackend(p) # "none"
                 /\ PushAudited(Volume(p, XbootldrBackend(p), "", MaxIndex))
  <2>1. PICK i \in Xbootldr :
          /\ XbootldrBackend(found[i].part) # "none"
          /\ PushAudited(Volume(found[i].part, XbootldrBackend(found[i].part), "", MaxIndex))
    BY <1>2, Zenon
  <2> DEFINE p == found[i].part
             via == XbootldrBackend(p)
  <2>2. p \in Parts
    BY ElementFacts, Zenon DEF Xbootldr
  <2>3. via \in {"fat", "fatro"} /\ via \in Vias
    BY <2>1, Zenon DEF XbootldrBackend, Vias
  <2>4. Push(Volume(p, via, "", MaxIndex)) /\ MaxIndex \in Nat \cup {MaxIndex}
    BY <2>1, Zenon DEF PushAudited
  <2>5. Longer(Volume(p, via, "", MaxIndex))
    <3> HIDE DEF p, via
    <3> QED
      BY <2>2, <2>3, <2>4, PushFacts, Zenon
  <2> QED
    BY <1>1, <2>2, <2>3, <2>5, Zenon
<1>3. CASE volumes' = volumes
  BY <1>1, <1>3, Zenon
<1> QED
  BY <1>2, <1>3, Zenon DEF MountXbootldr

\* Mounting it lists nothing.
LEMMA XbootldrList == ASSUME ListInv, MountXbootldr PROVE ListInv'
<1>1. MountTyped
  BY DEF ListInv
<1>2. /\ mpc = "xbootldr" /\ mpc' = "ext4" /\ at' = 1 /\ machine' = machine /\ sfs' = sfs
      /\ sfsHeld' = sfsHeld /\ blkHeld' = blkHeld /\ found' = found /\ pools' = pools
      /\ mfaults' = mfaults /\ volumes' \in Seq(Vols)
  BY <1>1, XbootldrFacts, Zenon DEF Longer, MountTyped
<1>3. MountTyped'
  <2>1. mpc' \in Phases /\ at' \in Nat \ {0}
    BY <1>2 DEF Phases
  <2>2. /\ sfs' \subseteq sfs /\ sfsHeld' \subseteq Parts
        /\ blkHeld' \subseteq Parts /\ found' \in Seq(Found) /\ mfaults' \in Nat
        /\ \A g \in DOMAIN pools' : g \in Nat /\ pools'[g] \in Seq(Parts) /\ pools'[g] # <<>>
    BY <1>1, <1>2, Zenon DEF MountTyped
  <2> QED
    BY <1>1, <1>2, <2>1, <2>2, TypedKept, Zenon
<1> QED
  BY <1>2, <1>3, ListKept, Zenon

\* The ZFS loop gathers the partition it is at, or lets it go.
LEMMA GatherFacts ==
  ASSUME MountTyped, GatherZfs
  PROVE  /\ mpc = "zfs" /\ mpc' = mpc /\ at' = at + 1 /\ at \in DOMAIN found
         /\ found[at].part \in Parts /\ sfs' = Detached(found[at].part)
         /\ UNCHANGED <<machine, sfsHeld, found, volumes, pvs, answers, mfaults>>
         /\ Gathers(found[at].part) \/ (blkHeld' = blkHeld /\ pools' = pools)
<1> DEFINE p == found[at].part
<1>1. mpc = "zfs" /\ at \in DOMAIN found /\ p \in Parts
  <2>1. Here("zfs")
    BY Zenon DEF GatherZfs
  <2> QED
    BY <2>1, HereFacts, Zenon
<1>2. /\ mpc' = mpc /\ at' = at + 1 /\ sfs' = Detached(p)
      /\ UNCHANGED <<machine, sfsHeld, found, volumes, pvs, answers, mfaults>>
  BY Zenon DEF GatherZfs
<1>3. CASE p \notin blkHeld /\ ProbeSuperblock(p) = "zfs"
  <2>1. PeekZfs(p) /\ machine' = machine
    BY <1>3, Zenon DEF GatherZfs
  <2> HIDE DEF p
  <2>2. Gathers(p) \/ UNCHANGED <<blkHeld, pools>>
    BY <1>1, <1>3, <2>1, PeekFacts, Zenon
  <2>3. UNCHANGED <<blkHeld, pools>> => blkHeld' = blkHeld /\ pools' = pools
    OBVIOUS
  <2> QED
    BY <1>1, <1>2, <2>2, <2>3, Zenon DEF p
<1>4. CASE ~(p \notin blkHeld /\ ProbeSuperblock(p) = "zfs")
  <2>1. blkHeld' = blkHeld /\ pools' = pools
    BY <1>4, Zenon DEF GatherZfs
  <2> QED
    BY <1>1, <1>2, <2>1, Zenon
<1> QED
  BY <1>3, <1>4, Zenon

\* Gathering lists nothing.
LEMMA GatherList == ASSUME ListInv, GatherZfs PROVE ListInv'
<1>1. MountTyped
  BY DEF ListInv
<1>2. /\ mpc = "zfs" /\ mpc' = mpc /\ at' = at + 1 /\ sfs' \subseteq sfs /\ machine' = machine
      /\ sfsHeld' = sfsHeld /\ found' = found /\ volumes' = volumes /\ mfaults' = mfaults
  BY <1>1, GatherFacts, DetachedFacts, Zenon
<1>3. /\ blkHeld' \subseteq Parts
      /\ \A g \in DOMAIN pools' : g \in Nat /\ pools'[g] \in Seq(Parts) /\ pools'[g] # <<>>
  <2>1. CASE Gathers(found[at].part)
    BY <1>1, <2>1, Zenon DEF Gathers, MountTyped
  <2>2. CASE blkHeld' = blkHeld /\ pools' = pools
    BY <1>1, <2>2, Zenon DEF MountTyped
  <2> QED
    BY <1>1, <2>1, <2>2, GatherFacts, Zenon
<1>4. MountTyped'
  <2>1. /\ mpc' \in Phases /\ at' \in Nat \ {0} /\ sfsHeld' \subseteq Parts
        /\ found' \in Seq(Found) /\ volumes' \in Seq(Vols) /\ mfaults' \in Nat
    BY <1>1, <1>2 DEF MountTyped
  <2> QED
    BY <1>1, <1>2, <1>3, <2>1, TypedKept, Zenon
<1> QED
  BY <1>2, <1>4, ListKept, Zenon

\* Nor does importing.
LEMMA ImportList == ASSUME ListInv, ImportPool PROVE ListInv'
<1>1. MountTyped
  BY DEF ListInv
<1>2. PICK g \in DOMAIN pools : \E n \in 0 .. 2 : Imports(g, n)
  BY <1>1, ImportFacts
<1>3. PICK n \in 0 .. 2 : Imports(g, n)
  BY <1>2
<1>4. /\ mpc = "import" /\ mpc' = mpc /\ at' = at /\ sfs' = sfs /\ machine' = machine
      /\ sfsHeld' = sfsHeld /\ found' = found /\ volumes' \in Seq(Vols) /\ mfaults' = mfaults
      /\ pools' = [h \in DOMAIN pools \ {g} |-> pools[h]] /\ blkHeld' \subseteq blkHeld
  BY <1>3, Zenon DEF Imports
<1>5. MountTyped'
  <2>1. /\ mpc' \in Phases /\ at' \in Nat \ {0} /\ sfsHeld' \subseteq Parts /\ sfs' \subseteq sfs
        /\ found' \in Seq(Found) /\ mfaults' \in Nat /\ blkHeld' \subseteq Parts
    BY <1>1, <1>4, Zenon DEF MountTyped
  <2>2. \A h \in DOMAIN pools' : h \in Nat /\ pools'[h] \in Seq(Parts) /\ pools'[h] # <<>>
    BY <1>1, <1>4, Zenon DEF MountTyped
  <2> QED
    BY <1>1, <1>4, <2>1, <2>2, TypedKept, Zenon
<1> QED
  BY <1>4, <1>5, ListKept, Zenon

\* Discovery reads a volume.
LEMMA ReadList == ASSUME ListInv, ReadVolume PROVE ListInv'
<1>1. MountTyped
  BY DEF ListInv
<1>2. /\ mpc = "scan" /\ mpc' = mpc /\ at' = at + 1 /\ at <= Len(volumes)
      /\ UNCHANGED <<machine, sfs, blkHeld, found, pools, volumes, mfaults>>
      /\ sfsHeld' = IF CanRead(volumes[at]) /\ volumes[at].via = "fat"
                    THEN sfsHeld \cup {volumes[at].part} ELSE sfsHeld
  BY Zenon DEF ReadVolume
<1>3. at \in DOMAIN volumes
  <2>1. at \in Nat \ {0}
    BY <1>1, Zenon DEF MountTyped
  <2> QED
    BY <1>1, <1>2, <2>1, ElementFacts
<1>4. MountTyped'
  <2>1. sfsHeld' \subseteq Parts
    BY <1>1, <1>2, <1>3, ElementFacts, Zenon DEF MountTyped
  <2>2. /\ mpc' \in Phases /\ at' \in Nat \ {0} /\ sfs' \subseteq sfs /\ blkHeld' \subseteq Parts
        /\ found' \in Seq(Found) /\ volumes' \in Seq(Vols) /\ mfaults' \in Nat
        /\ \A g \in DOMAIN pools' : g \in Nat /\ pools'[g] \in Seq(Parts) /\ pools'[g] # <<>>
    BY <1>1, <1>2 DEF MountTyped
  <2> QED
    BY <1>1, <1>2, <2>1, <2>2, TypedKept, Zenon
<1> QED
  BY <1>2, <1>4, ListKept, Zenon

\* A loop ends.
LEMMA EndList == ASSUME ListInv, LoopEnds PROVE ListInv'
<1>1. MountTyped
  BY DEF ListInv
<1>2. /\ at' = 1
      /\ UNCHANGED <<machine, sfs, sfsHeld, blkHeld, found, pools, volumes, mfaults>>
  BY Zenon DEF LoopEnds
<1>3. Follows(mpc, mpc')
  BY <1>1, LoopOrder
<1>4. /\ mpc' \in Phases /\ mpc' # "hung"
      /\ mpc' \notin {"scan", "done"} => mpc \notin {"scan", "done"}
  BY <1>3 DEF Follows, Phases
<1>5. MountTyped'
  <2>1. /\ at' \in Nat \ {0} /\ sfs' \subseteq sfs /\ blkHeld' \subseteq Parts
        /\ sfsHeld' \subseteq Parts
        /\ found' \in Seq(Found) /\ volumes' \in Seq(Vols) /\ mfaults' \in Nat
        /\ \A g \in DOMAIN pools' : g \in Nat /\ pools'[g] \in Seq(Parts) /\ pools'[g] # <<>>
    BY <1>1, <1>2 DEF MountTyped
  <2> QED
    BY <1>1, <1>2, <1>4, <2>1, TypedKept, Zenon
<1> QED
  BY <1>2, <1>4, <1>5, ListKept

\* The partition of a probing pass.
LEMMA HangFacts ==
  ASSUME MountTyped, Hang
  PROVE  \/ \E i \in DOMAIN found : Hangs(found[i].part)
         \/ \E p \in Labelled : Hangs(p)
<1>1. mpc \in Probing /\ at \in Over
  BY Zenon DEF Hang
<1>2. CASE mpc = "lvm"
  <2>1. at \in DOMAIN Candidates /\ Hangs(Candidates[at])
    BY <1>1, <1>2 DEF Hang, Over, Probing
  <2>2. CASE found = <<>>
    BY <2>1, <2>2, CandidatesFacts, Zenon
  <2>3. CASE found # <<>>
    <3>1. at \in DOMAIN found /\ Candidates[at] = found[at].part
      BY <2>1, <2>3, CandidatesFacts, ElementFacts, Zenon
    <3> QED
      BY <2>1, <3>1, Zenon
  <2> QED
    BY <2>2, <2>3, Zenon
<1>3. CASE mpc # "lvm"
  <2>1. at \in DOMAIN found /\ Hangs(found[at].part)
    BY <1>1, <1>3 DEF Hang, Over, Probing
  <2> QED
    BY <2>1, Zenon
<1> QED
  BY <1>2, <1>3, Zenon

\* A machine hangs only on a boot partition of another type.
LEMMA HangList == ASSUME ListInv, Hang PROVE ListInv'
<1>1. MountTyped /\ mpc \in Probing
  BY Zenon DEF ListInv, Hang
<1>2. /\ mpc' = "hung"
      /\ UNCHANGED <<machine, at, sfs, sfsHeld, blkHeld, found, pools, volumes, mfaults>>
  BY Zenon DEF Hang
<1>3. MountTyped'
  <2>1. mpc' \in Phases
    BY <1>2, Zenon DEF Phases
  <2>2. /\ at' \in Nat \ {0} /\ sfs' \subseteq sfs /\ blkHeld' \subseteq Parts
        /\ sfsHeld' \subseteq Parts
        /\ found' \in Seq(Found) /\ volumes' \in Seq(Vols) /\ mfaults' \in Nat
        /\ \A g \in DOMAIN pools' : g \in Nat /\ pools'[g] \in Seq(Parts) /\ pools'[g] # <<>>
    BY <1>1, <1>2, Zenon DEF MountTyped
  <2> QED
    BY <1>1, <1>2, <2>1, <2>2, TypedKept, Zenon
<1>4. \A p : Hangs(p) => p = machine.boot /\ p \in sfs
  <2>1. sfsHeld \subseteq {machine.boot}
    BY <1>1 DEF ListInv, Probing
  <2> QED
    BY <2>1, Zenon DEF Hangs
<1>5. /\ machine.boot \in Parts
      /\ Part(machine.boot).table = "gpt" => Part(machine.boot).type # "efi"
      /\ Part(machine.boot).table = "mbr" => Part(machine.boot).type # "esp"
      /\ Part(machine.boot).sfs => "lvm" \notin Part(machine.boot).sigs
      /\ machine.boot \in sfs => Part(machine.boot).sfs
  BY <1>1, MachineFacts, Zenon DEF MountTyped
<1>6. ~ \E p \in Labelled : Hangs(p)
  BY <1>4, <1>5, Zenon DEF Labelled
<1>7. Classify(machine.boot) # "skip"
  BY <1>1, <1>4, <1>6, HangFacts, Zenon DEF ListInv
<1>8. Part(machine.boot).table # "none" /\ Part(machine.boot).type \notin {"esp", "efi"}
  BY <1>5, <1>7 DEF Classify, ClassifyGpt, ClassifyMbr
<1>9. BootVolumeSafe'
  BY <1>2, <1>8, Zenon DEF BootVolumeSafe, Part
<1>10. sfsHeld' \subseteq {machine'.boot}
  BY <1>1, <1>2, Zenon DEF ListInv, Probing
<1>11. (\A i \in DOMAIN found : Classify(found[i].part) # "skip" \/ found[i].part \notin sfs)'
  BY <1>2, Zenon DEF ListInv, Classify, Part
<1> QED
  BY <1>2, <1>3, <1>9, <1>10, <1>11, Zenon DEF ListInv

\* ListInv holds at the start.
LEMMA ListInit == MountInit => ListInv
<1> SUFFICES ASSUME MountInit PROVE ListInv
  OBVIOUS
<1>1. MountTyped
  <2>1. mpc \in Phases /\ at \in Nat \ {0} /\ mfaults \in Nat
    BY DEF MountInit, Phases
  <2>2. found \in Seq(Found) /\ volumes \in Seq(Vols)
    BY EmptySeq, Zenon DEF MountInit
  <2>3. DOMAIN pools = {}
    BY Zenon DEF MountInit
  <2> QED
    BY <2>1, <2>2, <2>3, Zenon DEF MountInit, MountTyped
<1>2. DOMAIN found = {} /\ mpc = "esp" /\ sfsHeld = {}
  BY EmptySeq DEF MountInit
<1> QED
  BY <1>1, <1>2, Zenon DEF ListInv, BootVolumeSafe

\* The native loops.
LEMMA NativeCases ==
  ASSUME MountExt4 \/ MountBtrfs \/ MountXfs \/ MountExFat
  PROVE  \E fs \in Natives : MountNative(fs)
BY DEF MountExt4, MountBtrfs, MountXfs, MountExFat, Natives

\* ListInv is kept by every step.
LEMMA ListStep == ListInv /\ [MountNext]_mountVars => ListInv'
<1> SUFFICES ASSUME ListInv, [MountNext]_mountVars PROVE ListInv'
  OBVIOUS
<1>1. MountTyped
  BY DEF ListInv
<1>2. CASE MountEsp
  BY <1>2, EspList
<1>3. CASE Enumerate
  BY <1>3, EnumerateList
<1>4. CASE ScanInfo \/ ScanBlockIo
  BY <1>1, <1>4, ScanFacts, ScanList
<1>5. CASE ProbeAll \/ BodyFails
  BY <1>5, LooksFacts, LooksList
<1>6. CASE MountXbootldr
  BY <1>6, XbootldrList
<1>7. CASE MountExt4 \/ MountBtrfs \/ MountXfs \/ MountExFat
  <2>1. PICK fs \in Natives : MountNative(fs)
    BY <1>7, NativeCases
  <2>2. mpc = fs /\ Pass(found[at].part, fs, "", NativeMounts(found[at].part, fs))
    BY <1>1, <2>1, NativePass, Zenon
  <2>3. mpc \notin {"scan", "done", "hung"}
    BY <2>2, Zenon DEF Natives
  <2> QED
    BY <2>2, <2>3, PassList, Zenon
<1>8. CASE GatherZfs
  BY <1>8, GatherList
<1>9. CASE ImportPool
  BY <1>9, ImportList
<1>10. CASE MountMedia
  <2>1. mpc = "media" /\ Pass(found[at].part, "media", "", MediaMounts(found[at].part))
    BY <1>1, <1>10, MediaPass, Zenon
  <2> QED
    BY <2>1, PassList, Zenon
<1>11. CASE MountLvm
  <2>1. /\ mpc = "lvm"
        /\ Pass(Candidates[at], "lvm", LvName(Candidates[at]), LvmMounts(Candidates[at]))
    BY <1>1, <1>11, LvmPass, Zenon
  <2> QED
    BY <2>1, PassList, Zenon
<1>12. CASE ReadVolume
  BY <1>12, ReadList
<1>13. CASE LoopEnds
  BY <1>13, EndList
<1>14. CASE Hang
  BY <1>14, HangList
<1>15. CASE UNCHANGED mountVars
  BY <1>15, Zenon DEF mountVars, ListInv, MountTyped, BootVolumeSafe, Parts, Part, Found, Vols,
     Classify
<1> QED
  BY <1>2, <1>3, <1>4, <1>5, <1>6, <1>7, <1>8, <1>9, <1>10, <1>11, <1>12, <1>13, <1>14, <1>15,
     Zenon DEF MountNext

\* ListInv is an invariant.
LEMMA ListInvHolds == MountSpec => []ListInv
BY ListInit, ListStep, PTL DEF MountSpec

\* Probing hangs the machine only when it was started from a partition its
\* table describes as something other than an EFI system partition
\* (partitions.rs, classify_gpt_partition and classify_mbr_partition).
THEOREM BootVolumeSafeHolds == MountSpec => []BootVolumeSafe
<1>1. ListInv => BootVolumeSafe
  BY DEF ListInv
<1> QED
  BY <1>1, ListInvHolds, PTL
-----------------------------------------------------------------------------
(* Who can read a partition *)

\* The partitions the firmware's own driver could read now.
Free == {p \in Parts : FirmwareFatReadable(p)}

\* ProbeSuperblock, on machine m.
Superblock(m, p) ==
  FirstIn(<<"ext4", "btrfs", "xfs", "exfat", "f2fs", "zfs">>, m.parts[p].sigs)

\* Every via but the two FAT readers needs BlockIO.
Holding(v) == v.via \notin {"fat", "fatro"}

\* What mounting a volume took, and what is still so: a partition read by the
\* built-in FAT reader is not free, one with a holding volume is held.
Backed(m, v, free, held) ==
  /\ v.via = "fat" => m.parts[v.part].serves
  /\ v.via = "fatro" => "fat" \in m.parts[v.part].sound /\ v.part \notin free
  /\ v.via \in Natives => Superblock(m, v.part) = v.via /\ v.via \in m.parts[v.part].sound
  /\ v.via = "media" =>
       ProbeSource(m.parts[v.part].sigs) \in Media \cap m.parts[v.part].sound
  /\ v.via \in {"zfs", "lvm"} <=> v.lv # ""
  /\ Holding(v) => v.part \in held

Overlap(v, w) == v.part = w.part /\ v.lv = w.lv

\* Of two volumes over the same bytes one is the firmware's.
Apart(vs) ==
  \A i, j \in DOMAIN vs : i # j /\ Overlap(vs[i], vs[j]) => "fat" \in {vs[i].via, vs[j].via}

\* A held partition is under a volume, or is a member of a pool.
Accounted(m, p, vs, members) ==
  \/ p \in members
  \/ \E i \in DOMAIN vs :
       /\ Holding(vs[i])
       /\ \/ vs[i].part = p
          \/ vs[i].via = "zfs" /\ m.parts[vs[i].part].pool = m.parts[p].pool

\* The members of a pool belong to it, and are held.
PoolsSound(m, ps, held) ==
  \A g \in DOMAIN ps : \A i \in DOMAIN ps[g] : m.parts[ps[g][i]].pool = g /\ ps[g][i] \in held

Early == {"esp", "enumerate", "info", "blockio", "probe", "xbootldr"}

HoldInv ==
  /\ \A i \in DOMAIN volumes : Backed(machine, volumes[i], Free, blkHeld \ Members)
  /\ Apart(volumes)
  /\ mpc \in Early => \A i \in DOMAIN volumes : volumes[i].via = "fat"
  /\ machine.byDriver => blkHeld \cap sfs = {}
  /\ PoolsSound(machine, pools, blkHeld)
  /\ mpc \notin {"zfs", "import", "hung"} => DOMAIN pools = {}
  /\ \A p \in blkHeld : Accounted(machine, p, volumes, Members)

\* While discovery reads the volumes.
ScanInv ==
  /\ answers \subseteq DOMAIN volumes
  /\ mpc \notin {"scan", "done"} => answers = {}
  /\ mpc = "scan" => \A i \in answers : i < at
  /\ \A i \in answers : volumes[i].via = "fat" =>
       /\ volumes[i].part \in sfs \cap sfsHeld
       /\ \A j \in DOMAIN volumes :
            volumes[j].via = "fatro" => volumes[j].part # volumes[i].part
  /\ OneReader
-----------------------------------------------------------------------------
(* What the loops that have ended have done *)

\* The loops after each loop.
AfterScan == {"done"}
AfterLvm == {"scan"} \cup AfterScan
AfterMedia == {"lvm"} \cup AfterLvm
AfterExFat == {"zfs", "import", "media"} \cup AfterMedia
AfterXfs == {"exfat"} \cup AfterExFat
AfterBtrfs == {"xfs"} \cup AfterXfs
AfterExt4 == {"btrfs"} \cup AfterBtrfs
AfterBlockIo == {"probe", "xbootldr", "ext4"} \cup AfterExt4
Later(l) ==
  CASE l = "blockio" -> AfterBlockIo [] l = "ext4" -> AfterExt4 [] l = "btrfs" -> AfterBtrfs
    [] l = "xfs" -> AfterXfs [] l = "exfat" -> AfterExFat [] l = "media" -> AfterMedia
    [] l = "lvm" -> AfterLvm [] l = "scan" -> AfterScan

\* Loop l has dealt with its element i when loop pc has reached element k.
Past(pc, k, l, i) == pc \in Later(l) \/ (pc = l /\ i < k)

\* The partition holds what the loop mounts.
Due(m, p, l) ==
  IF l = "media" THEN /\ Superblock(m, p) = "unknown"
                      /\ ProbeSource(m.parts[p].sigs) \in Media \cap m.parts[p].sound
  ELSE Superblock(m, p) = l /\ l \in m.parts[p].sound

Served(vs, p) == \E k \in DOMAIN vs : Holding(vs[k]) /\ vs[k].part = p

NeedsTrying(m, p) == m.parts[p].logical /\ ~ m.parts[p].sfs /\ "lvm" \in m.parts[p].sigs

MissInv ==
  /\ \A p \in blkHeld : Superblock(machine, p) = "zfs" \/ Served(volumes, p)
  /\ mfaults = 0 =>
       /\ \A l \in Natives \cup {"media"}, i \in DOMAIN found :
            Due(machine, found[i].part, l) /\ Past(mpc, at, l, i) =>
              Served(volumes, found[i].part)
       /\ \A k \in DOMAIN volumes :
            Holding(volumes[k]) /\ Past(mpc, at, "scan", k) => k \in answers
       /\ \A p \in Parts :
            NeedsTrying(machine, p) /\ Past(mpc, at, "blockio", p) => p \in Seen
       /\ \A i \in DOMAIN found : Past(mpc, at, "lvm", i) => found[i].part \in pvs
-----------------------------------------------------------------------------
(* HoldInv *)

\* ProbeSuperblock reads the machine.
LEMMA SuperblockIs == \A p : ProbeSuperblock(p) = Superblock(machine, p)
BY DEF ProbeSuperblock, Superblock, Part

\* A volume stays backed when fewer partitions are free and more are held.
LEMMA BackedKept ==
  ASSUME NEW m, NEW v, NEW free, NEW held, NEW free2, NEW held2, Backed(m, v, free, held),
         free2 \subseteq free, held \subseteq held2
  PROVE  Backed(m, v, free2, held2)
BY Zenon DEF Backed

\* The volumes in vs are the first ones in ws.
Grows(vs, ws) == \A i \in DOMAIN vs : i \in DOMAIN ws /\ ws[i] = vs[i]

\* The others are backed, and in nobody's way.
NewSound(vs, ws, m, free, held) ==
  \A i \in DOMAIN ws \ DOMAIN vs :
    /\ Backed(m, ws[i], free, held)
    /\ \A j \in DOMAIN ws :
         j # i /\ Overlap(ws[j], ws[i]) => "fat" \in {ws[j].via, ws[i].via}

\* Volumes that grow that way stay apart.
LEMMA ApartKept ==
  ASSUME NEW vs, NEW ws, NEW m, NEW free, NEW held, Apart(vs), Grows(vs, ws),
         NewSound(vs, ws, m, free, held)
  PROVE  Apart(ws)
<1> SUFFICES ASSUME NEW i \in DOMAIN ws, NEW j \in DOMAIN ws, i # j, Overlap(ws[i], ws[j])
             PROVE  "fat" \in {ws[i].via, ws[j].via}
  BY Zenon DEF Apart
<1>1. Overlap(ws[j], ws[i])
  BY Zenon DEF Overlap
<1>2. CASE i \notin DOMAIN vs
  BY <1>1, <1>2, Zenon DEF NewSound
<1>3. CASE j \notin DOMAIN vs
  BY <1>3, Zenon DEF NewSound
<1>4. CASE i \in DOMAIN vs /\ j \in DOMAIN vs
  BY <1>4, Zenon DEF Apart, Grows
<1> QED
  BY <1>2, <1>3, <1>4, Zenon

\* A partition under a volume stays accounted for.
LEMMA AccountedKept ==
  ASSUME NEW m, NEW p, NEW vs, NEW ws, NEW members, NEW members2,
         Accounted(m, p, vs, members), p \notin members \/ p \in members2, Grows(vs, ws)
  PROVE  Accounted(m, p, ws, members2)
BY Zenon DEF Accounted, Grows

\* What a step has to show about the holds.
HoldStep ==
  /\ machine' = machine /\ sfs' \subseteq sfs
  /\ Free' \subseteq Free /\ blkHeld \ Members \subseteq blkHeld' \ Members'
  /\ machine.byDriver => (blkHeld' \ blkHeld) \cap sfs' = {}
  /\ Grows(volumes, volumes')
  /\ NewSound(volumes, volumes', machine, Free', blkHeld' \ Members')
  /\ mpc' \in Early => /\ mpc \in Early
                       /\ \A i \in DOMAIN volumes' \ DOMAIN volumes : volumes'[i].via = "fat"
  /\ PoolsSound(machine, pools', blkHeld')
  /\ mpc' \notin {"zfs", "import", "hung"} => DOMAIN pools' = {}
  /\ \A p \in blkHeld' :
       \/ p \in blkHeld /\ (p \notin Members \/ p \in Members')
       \/ Accounted(machine, p, volumes', Members')

\* Such a step keeps HoldInv.
LEMMA HoldKept ==
  ASSUME HoldInv, HoldStep
  PROVE  HoldInv'
<1>1. ASSUME NEW i \in DOMAIN volumes'
      PROVE  Backed(machine', volumes'[i], Free', blkHeld' \ Members')
  <2>1. machine' = machine
    BY Zenon DEF HoldStep
  <2>2. CASE i \in DOMAIN volumes
    <3>1. Backed(machine, volumes[i], Free, blkHeld \ Members)
      BY <2>2, Zenon DEF HoldInv
    <3>2. /\ Free' \subseteq Free /\ blkHeld \ Members \subseteq blkHeld' \ Members'
          /\ volumes'[i] = volumes[i]
      BY <2>2, Zenon DEF HoldStep, Grows
    <3> DEFINE held == blkHeld \ Members
               held2 == (blkHeld' \ Members')
    <3>3. Backed(machine, volumes[i], Free, held) /\ held \subseteq held2
      BY <3>1, <3>2, Zenon
    <3> HIDE DEF held, held2
    <3>4. Backed(machine, volumes[i], Free', held2)
      BY <3>2, <3>3, BackedKept, Zenon
    <3> QED
      BY <2>1, <3>2, <3>4, Zenon DEF held2
  <2>3. CASE i \notin DOMAIN volumes
    <3>1. NewSound(volumes, volumes', machine, Free', blkHeld' \ Members')
      BY Zenon DEF HoldStep
    <3>2. Backed(machine, volumes'[i], Free', blkHeld' \ Members')
      BY <2>3, <3>1, Zenon DEF NewSound
    <3> QED
      BY <2>1, <3>2, Zenon
  <2> QED
    BY <2>2, <2>3, Zenon
<1>2. Apart(volumes')
  <2>1. /\ Grows(volumes, volumes')
        /\ NewSound(volumes, volumes', machine, Free', blkHeld' \ Members')
        /\ Apart(volumes)
    BY Zenon DEF HoldStep, HoldInv
  <2> QED
    BY <2>1, ApartKept, Zenon
<1>3. mpc' \in Early => \A i \in DOMAIN volumes' : volumes'[i].via = "fat"
  BY Zenon DEF HoldStep, HoldInv, Grows
<1>4. machine'.byDriver => blkHeld' \cap sfs' = {}
  BY Zenon DEF HoldStep, HoldInv
<1>5. PoolsSound(machine', pools', blkHeld')
  BY Zenon DEF HoldStep
<1>6. \A p \in blkHeld' : Accounted(machine', p, volumes', Members')
  <2> TAKE p \in blkHeld'
  <2>1. machine' = machine /\ Grows(volumes, volumes')
    BY Zenon DEF HoldStep
  <2>2. CASE p \in blkHeld /\ (p \notin Members \/ p \in Members')
    <3>1. Accounted(machine, p, volumes, Members)
      BY <2>2, Zenon DEF HoldInv
    <3>2. Accounted(machine, p, volumes', Members')
      BY <2>1, <2>2, <3>1, AccountedKept, Zenon
    <3> QED
      BY <2>1, <3>2, Zenon
  <2>3. CASE Accounted(machine, p, volumes', Members')
    BY <2>1, <2>3, Zenon
  <2> QED
    BY <2>2, <2>3, Zenon DEF HoldStep
<1>7. mpc' \notin {"zfs", "import", "hung"} => DOMAIN pools' = {}
  BY Zenon DEF HoldStep
<1> QED
  BY <1>1, <1>2, <1>3, <1>4, <1>5, <1>6, <1>7, Zenon DEF HoldInv

\* The free partitions only shrink, as drivers are taken off and files opened.
LEMMA FreeKept ==
  ASSUME machine' = machine, sfs' \subseteq sfs, sfsHeld \subseteq sfsHeld'
  PROVE  Free' \subseteq Free
<1>1. Parts' = Parts /\ \A p : Part(p)' = Part(p)
  BY SameMachine
<1> QED
  BY <1>1, Zenon DEF Free, FirmwareFatReadable

\* The members are those of the pools.
LEMMA MembersKept ==
  ASSUME machine' = machine, pools' = pools
  PROVE  Members' = Members
BY Zenon DEF Members, Parts

\* A member is held.
LEMMA MembersHeld ==
  ASSUME HoldInv
  PROVE  Members \subseteq blkHeld
BY DEF HoldInv, PoolsSound, Members

\* Steps that mount, gather and import nothing.
LEMMA QuietHold ==
  ASSUME HoldInv, machine' = machine, sfs' \subseteq sfs, sfsHeld \subseteq sfsHeld',
         blkHeld' = blkHeld, volumes' = volumes, pools' = pools,
         mpc' \in Early => mpc \in Early,
         mpc' \notin {"zfs", "import", "hung"} => DOMAIN pools = {}
  PROVE  HoldInv'
<1>1. Free' \subseteq Free /\ Members' = Members
  BY FreeKept, MembersKept, Zenon
<1>2. /\ Grows(volumes, volumes')
      /\ NewSound(volumes, volumes', machine, Free', blkHeld' \ Members')
  BY Zenon DEF Grows, NewSound
<1>3. PoolsSound(machine, pools', blkHeld')
  BY Zenon DEF HoldInv
<1>4. HoldStep
  BY <1>1, <1>2, <1>3, Zenon DEF HoldStep
<1> QED
  BY <1>4, HoldKept, Zenon

\* One more volume.
LEMMA LongerFacts ==
  ASSUME MountTyped, NEW v, Longer(v)
  PROVE  /\ Grows(volumes, volumes') /\ Len(volumes) + 1 \in DOMAIN volumes'
         /\ \A i \in DOMAIN volumes' \ DOMAIN volumes : i = Len(volumes) + 1 /\ volumes'[i] = v
         /\ \A i \in DOMAIN volumes' : i # Len(volumes) + 1 =>
              i \in DOMAIN volumes /\ volumes'[i] = volumes[i]
<1>1. Len(volumes) \in Nat /\ DOMAIN volumes = 1 .. Len(volumes)
  BY ElementFacts, Zenon
<1>2. /\ DOMAIN volumes' = 1 .. Len(volumes) + 1
      /\ \A i \in DOMAIN volumes : volumes'[i] = volumes[i]
      /\ volumes'[Len(volumes) + 1] = v
  BY Zenon DEF Longer
<1>3. \A i \in DOMAIN volumes' \ DOMAIN volumes : i = Len(volumes) + 1
  BY <1>1, <1>2
<1>4. \A i \in DOMAIN volumes' : i # Len(volumes) + 1 => i \in DOMAIN volumes
  BY <1>1, <1>2
<1>5. /\ Len(volumes) + 1 \in DOMAIN volumes' /\ \A i \in DOMAIN volumes : i \in DOMAIN volumes'
  BY <1>1, <1>2
<1> QED
  BY <1>2, <1>3, <1>4, <1>5, Zenon DEF Grows

\* It is sound when it is backed and in nobody's way.
LEMMA OneSound ==
  ASSUME MountTyped, NEW v, Longer(v), NEW m, NEW free, NEW held, Backed(m, v, free, held),
         \A j \in DOMAIN volumes : Overlap(volumes[j], v) => "fat" \in {volumes[j].via, v.via}
  PROVE  NewSound(volumes, volumes', m, free, held)
<1> SUFFICES ASSUME NEW i \in DOMAIN volumes' \ DOMAIN volumes
             PROVE  /\ Backed(m, volumes'[i], free, held)
                    /\ \A j \in DOMAIN volumes' :
                         j # i /\ Overlap(volumes'[j], volumes'[i]) =>
                           "fat" \in {volumes'[j].via, volumes'[i].via}
  BY Zenon DEF NewSound
<1>1. i = Len(volumes) + 1 /\ volumes'[i] = v
  BY LongerFacts, Zenon
<1>2. \A j \in DOMAIN volumes' : j # i => j \in DOMAIN volumes /\ volumes'[j] = volumes[j]
  BY <1>1, LongerFacts, Zenon
<1> QED
  BY <1>1, <1>2, Zenon

\* A FAT volume: the firmware's, or XBOOTLDR's.
LEMMA FatHold ==
  ASSUME MountTyped, HoldInv, mpc \in Early, NEW p \in Parts, NEW via \in {"fat", "fatro"},
         NEW n \in Nat \cup {MaxIndex}, Longer(Volume(p, via, "", n)),
         via = "fat" => Part(p).serves,
         via = "fatro" => "fat" \in Part(p).sound /\ ~FirmwareFatReadable(p),
         machine' = machine, sfs' = sfs, sfsHeld' = sfsHeld, blkHeld' = blkHeld, pools' = pools,
         mpc' \in Early => via = "fat", mpc' \notin {"zfs", "import", "hung"}
  PROVE  HoldInv'
<1> DEFINE v == Volume(p, via, "", n)
<1>1. v.part = p /\ v.via = via /\ v.lv = "" /\ Longer(v)
  BY Zenon DEF Volume
<1> HIDE DEF v
<1>2. Free' \subseteq Free /\ Members' = Members
  BY FreeKept, MembersKept, Zenon
<1>3. Backed(machine, v, Free', blkHeld' \ Members')
  <2>1. via = "fatro" => p \notin Free'
    BY <1>2, Zenon DEF Free
  <2> QED
    BY <1>1, <2>1, Zenon DEF Backed, Natives, Holding, Part
<1>4. \A j \in DOMAIN volumes : Overlap(volumes[j], v) => "fat" \in {volumes[j].via, v.via}
  BY Zenon DEF HoldInv
<1>5. /\ Grows(volumes, volumes')
      /\ NewSound(volumes, volumes', machine, Free', blkHeld' \ Members')
  <2> DEFINE held == blkHeld' \ Members'
  <2>1. Backed(machine, v, Free', held)
    BY <1>3, Zenon
  <2> HIDE DEF held
  <2>2. NewSound(volumes, volumes', machine, Free', held)
    BY <1>1, <1>4, <2>1, OneSound, Zenon
  <2> QED
    BY <1>1, <2>2, LongerFacts, Zenon DEF held
<1>6. \A i \in DOMAIN volumes' \ DOMAIN volumes : volumes'[i].via = via
  BY <1>1, LongerFacts, Zenon
<1>7. DOMAIN pools = {} /\ PoolsSound(machine, pools', blkHeld')
  BY Zenon DEF HoldInv, Early
<1>8. HoldStep
  BY <1>2, <1>5, <1>6, <1>7, Zenon DEF HoldStep
<1> QED
  BY <1>8, HoldKept, Zenon

\* The kind of volume a mount loop adds, if it adds one.
Mountable(m, p, via, lv) ==
  \/ via \in Natives /\ lv = "" /\ Superblock(m, p) = via /\ via \in m.parts[p].sound
  \/ via = "media" /\ lv = "" /\ ProbeSource(m.parts[p].sigs) \in Media \cap m.parts[p].sound
  \/ via = "lvm" /\ lv # ""

\* The body of a mount loop: what it mounts was nobody's.
LEMMA PassHold ==
  ASSUME MountTyped, HoldInv, NEW p, NEW via, NEW lv, NEW mounts, Pass(p, via, lv, mounts),
         mounts => Mountable(machine, p, via, lv), mpc \notin Early
  PROVE  HoldInv'
<1>1. /\ machine' = machine /\ sfs' = Detached(p) /\ sfsHeld' = sfsHeld /\ pools' = pools
      /\ mpc' = mpc /\ p \in Parts /\ mounts \in BOOLEAN
  BY Zenon DEF Pass
<1>2. sfs' \subseteq sfs
  BY <1>1, DetachedFacts, Zenon
<1>3. Free' \subseteq Free /\ Members' = Members
  BY <1>1, <1>2, FreeKept, MembersKept, Zenon
<1>4. CASE ~mounts
  <2>1. blkHeld' = blkHeld /\ volumes' = volumes
    BY <1>4, Zenon DEF Pass
  <2>2. mpc' \notin {"zfs", "import", "hung"} => DOMAIN pools = {}
    BY <1>1, Zenon DEF HoldInv
  <2> QED
    BY <1>1, <1>2, <2>1, <2>2, QuietHold, Zenon
<1>5. CASE mounts
  <2> DEFINE v == Volume(p, via, lv, Len(volumes) + 1)
  <2>1. v.part = p /\ v.via = via /\ v.lv = lv
    BY Zenon DEF Volume
  <2>2. Longer(v) /\ p \notin blkHeld /\ blkHeld' = blkHeld \cup {p}
    BY <1>5, Zenon DEF Pass
  <2> HIDE DEF v
  <2>3. p \notin Members /\ Members \subseteq blkHeld
    BY <2>2, MembersHeld, Zenon
  <2>4. Mountable(machine, p, via, lv)
    BY <1>5, Zenon
  <2>5. Backed(machine, v, Free', blkHeld' \ Members')
    <3>1. p \in blkHeld' \ Members'
      BY <1>3, <2>2, <2>3, Zenon
    <3> HIDE DEF Superblock
    <3> QED
      BY <2>1, <2>4, <3>1, Zenon DEF Backed, Mountable, Natives, Holding
  <2>6. ASSUME NEW j \in DOMAIN volumes, Overlap(volumes[j], v)
        PROVE  "fat" \in {volumes[j].via, v.via}
    <3>1. Backed(machine, volumes[j], Free, blkHeld \ Members)
      BY Zenon DEF HoldInv
    <3>2. volumes[j].part = p /\ volumes[j].lv = lv
      BY <2>1, <2>6, Zenon DEF Overlap
    <3>3. volumes[j].via \in {"fat", "fatro"}
      BY <2>2, <3>1, <3>2, Zenon DEF Backed, Holding
    <3>4. ASSUME volumes[j].via = "fatro" PROVE FALSE
      <4>1. "fat" \in machine.parts[p].sound /\ lv = ""
        BY <3>1, <3>2, <3>4, Zenon DEF Backed
      <4>2. machine.parts[p].sound = {"fat"}
        BY <1>1, <4>1, MachineFacts, Zenon DEF Part, MountTyped
      <4> QED
        BY <2>4, <4>1, <4>2, Zenon DEF Mountable, Natives, Media
    <3> QED
      BY <3>3, <3>4, Zenon
  <2>7. /\ Grows(volumes, volumes')
        /\ NewSound(volumes, volumes', machine, Free', blkHeld' \ Members')
    <3> DEFINE held == blkHeld' \ Members'
    <3>1. Backed(machine, v, Free', held)
      BY <2>5, Zenon
    <3> HIDE DEF held
    <3>2. NewSound(volumes, volumes', machine, Free', held)
      BY <2>2, <2>6, <3>1, OneSound, Zenon
    <3> QED
      BY <2>2, <3>2, LongerFacts, Zenon DEF held
  <2>8. machine.byDriver => (blkHeld' \ blkHeld) \cap sfs' = {}
    BY <1>1, <2>2, DetachedFacts, Zenon
  <2>9. /\ PoolsSound(machine, pools', blkHeld')
        /\ mpc' \notin {"zfs", "import", "hung"} => DOMAIN pools' = {}
    BY <1>1, <2>2, Zenon DEF HoldInv, PoolsSound
  <2>10. Accounted(machine, p, volumes', Members')
    <3>1. Len(volumes) + 1 \in DOMAIN volumes' /\ volumes'[Len(volumes) + 1] = v
      BY <2>2, LongerFacts, Zenon DEF Longer
    <3>2. Holding(v) /\ v.part = p
      BY <2>1, <2>4, Zenon DEF Mountable, Holding, Natives
    <3> QED
      BY <3>1, <3>2, Zenon DEF Accounted
  <2>11. HoldStep
    BY <1>1, <1>2, <1>3, <2>2, <2>3, <2>7, <2>8, <2>9, <2>10, Zenon DEF HoldStep
  <2> QED
    BY <2>11, HoldKept, Zenon
<1> QED
  BY <1>1, <1>4, <1>5, Zenon

\* A gathered member is held until its pool is imported.
LEMMA GatherHold ==
  ASSUME MountTyped, HoldInv, GatherZfs
  PROVE  HoldInv'
<1> DEFINE p == found[at].part
<1>1. /\ mpc = "zfs" /\ mpc' = mpc /\ machine' = machine /\ sfsHeld' = sfsHeld
      /\ volumes' = volumes /\ sfs' = Detached(p) /\ p \in Parts
      /\ Gathers(p) \/ (blkHeld' = blkHeld /\ pools' = pools)
  BY GatherFacts, Zenon
<1> HIDE DEF p
<1>2. sfs' \subseteq sfs
  BY <1>1, DetachedFacts, Zenon
<1>3. CASE blkHeld' = blkHeld /\ pools' = pools
  <2>1. mpc' \notin Early
    BY <1>1 DEF Early
  <2> QED
    BY <1>1, <1>2, <1>3, <2>1, QuietHold, Zenon
<1>4. CASE Gathers(p)
  <2>1. /\ p \notin blkHeld /\ blkHeld' = blkHeld \cup {p} /\ Members' = Members \cup {p}
    BY <1>4, Zenon DEF Gathers
  <2>2. Free' \subseteq Free /\ Members \subseteq blkHeld
    BY <1>1, <1>2, FreeKept, MembersHeld, Zenon
  <2>3. /\ Grows(volumes, volumes')
        /\ NewSound(volumes, volumes', machine, Free', blkHeld' \ Members')
    BY <1>1, Zenon DEF Grows, NewSound
  <2>4. PoolsSound(machine, pools', blkHeld')
    <3> SUFFICES ASSUME NEW h \in DOMAIN pools', NEW i \in DOMAIN pools'[h]
                 PROVE  machine.parts[pools'[h][i]].pool = h /\ pools'[h][i] \in blkHeld'
      BY DEF PoolsSound
    <3>1. CASE h \in DOMAIN pools /\ \E j \in DOMAIN pools[h] : pools[h][j] = pools'[h][i]
      BY <2>1, <3>1 DEF HoldInv, PoolsSound
    <3>2. CASE h = Part(p).pool /\ pools'[h][i] = p
      BY <2>1, <3>2 DEF Part
    <3> QED
      BY <1>4, <3>1, <3>2, Zenon DEF Gathers
  <2>5. machine.byDriver => (blkHeld' \ blkHeld) \cap sfs' = {}
    BY <1>1, <2>1, DetachedFacts
  <2>6. \A q \in blkHeld' :
          \/ q \in blkHeld /\ (q \notin Members \/ q \in Members')
          \/ Accounted(machine, q, volumes', Members')
    BY <2>1 DEF Accounted
  <2>7. HoldStep
    BY <1>1, <1>2, <2>1, <2>2, <2>3, <2>4, <2>5, <2>6, Zenon DEF HoldStep, Early
  <2> QED
    BY <2>7, HoldKept
<1> QED
  BY <1>1, <1>3, <1>4, Zenon

\* The members of pool g.
Pooled(g) == {pools[g][i] : i \in DOMAIN pools[g]}

\* Importing a pool takes its members, and no others, from the rest.
LEMMA ImportMembers ==
  ASSUME MountTyped, HoldInv, NEW g \in DOMAIN pools, machine' = machine,
         pools' = [h \in DOMAIN pools \ {g} |-> pools[h]]
  PROVE  /\ Members' = Members \ Pooled(g) /\ Pooled(g) \subseteq Members
         /\ pools[g][1] \in Pooled(g)
         /\ \A q \in Pooled(g) : machine.parts[q].pool = g
<1>1. /\ pools[g] \in Seq(Parts) /\ pools[g] # <<>>
      /\ \A h \in DOMAIN pools : \A i \in DOMAIN pools[h] : machine.parts[pools[h][i]].pool = h
  BY Zenon DEF MountTyped, HoldInv, PoolsSound
<1>2. Len(pools[g]) \in Nat /\ Len(pools[g]) # 0 /\ DOMAIN pools[g] = 1 .. Len(pools[g])
  BY <1>1, EmptySeq, LenProperties
<1>3. 1 \in DOMAIN pools[g] /\ \A i \in DOMAIN pools[g] : pools[g][i] \in Parts
  BY <1>1, <1>2, ElementOfSeq
<1>4. DOMAIN pools' = DOMAIN pools \ {g} /\ \A h \in DOMAIN pools' : pools'[h] = pools[h]
  OBVIOUS
<1>5. Parts' = Parts
  BY SameMachine
<1>6. Pooled(g) \subseteq Members /\ pools[g][1] \in Pooled(g)
  BY <1>3 DEF Pooled, Members
<1>7. \A q \in Pooled(g) : machine.parts[q].pool = g
  BY <1>1 DEF Pooled
<1>8. Members' \subseteq Members \ Pooled(g)
  <2> SUFFICES ASSUME NEW q \in Parts, NEW h \in DOMAIN pools', NEW i \in DOMAIN pools'[h],
                      pools'[h][i] = q
               PROVE  q \in Members \ Pooled(g)
    BY <1>5 DEF Members
  <2>1. h \in DOMAIN pools /\ h # g /\ i \in DOMAIN pools[h] /\ pools[h][i] = q
    BY <1>4
  <2>2. machine.parts[q].pool = h
    BY <1>1, <2>1
  <2> QED
    BY <1>7, <2>1, <2>2 DEF Members
<1>9. Members \ Pooled(g) \subseteq Members'
  <2> SUFFICES ASSUME NEW q \in Parts, NEW h \in DOMAIN pools, NEW i \in DOMAIN pools[h],
                      pools[h][i] = q, q \notin Pooled(g)
               PROVE  q \in Members'
    BY DEF Members
  <2>1. h # g
    BY DEF Pooled
  <2>2. h \in DOMAIN pools' /\ i \in DOMAIN pools'[h] /\ pools'[h][i] = q
    BY <1>4, <2>1
  <2> QED
    BY <1>5, <2>2 DEF Members
<1> QED
  BY <1>6, <1>7, <1>8, <1>9

\* An imported pool is under its volumes, or has been let go.
LEMMA ImportHold ==
  ASSUME MountTyped, HoldInv, ImportPool
  PROVE  HoldInv'
<1>1. PICK g \in DOMAIN pools : \E n \in 0 .. 2 : Imports(g, n)
  BY ImportFacts
<1>2. PICK n \in 0 .. 2 : Imports(g, n)
  BY <1>1
<1>3. /\ mpc = "import" /\ mpc' = mpc /\ sfs' = sfs /\ machine' = machine /\ sfsHeld' = sfsHeld
      /\ pools' = [h \in DOMAIN pools \ {g} |-> pools[h]]
      /\ blkHeld' = IF n # 0 THEN blkHeld ELSE blkHeld \ Pooled(g)
  BY <1>2 DEF Imports, Pooled
<1>4. /\ Members' = Members \ Pooled(g) /\ Pooled(g) \subseteq Members
      /\ pools[g][1] \in Pooled(g)
      /\ \A q \in Pooled(g) : machine.parts[q].pool = g
  BY <1>3, ImportMembers
<1>5. Members \subseteq blkHeld /\ Free' \subseteq Free
  BY <1>3, MembersHeld, FreeKept
<1>6. blkHeld \ Members \subseteq blkHeld' \ Members' /\ blkHeld' \subseteq blkHeld
  BY <1>3, <1>4
<1>7. Len(volumes) \in Nat /\ DOMAIN volumes = 1 .. Len(volumes)
  BY ElementFacts
<1>8. /\ DOMAIN volumes' = 1 .. Len(volumes) + n
      /\ \A i \in DOMAIN volumes : volumes'[i] = volumes[i]
      /\ \A i \in 1 .. n : /\ volumes'[Len(volumes) + i].part = pools[g][1]
                           /\ volumes'[Len(volumes) + i].via = "zfs"
                           /\ volumes'[Len(volumes) + i].lv = DatasetName(i)
  BY <1>2, Zenon DEF Imports
<1>9. Grows(volumes, volumes')
  BY <1>7, <1>8 DEF Grows
<1>10. \A i \in DOMAIN volumes' \ DOMAIN volumes :
         i - Len(volumes) \in 1 .. n /\ Len(volumes) + (i - Len(volumes)) = i
  BY <1>7, <1>8
<1>11. \A i \in DOMAIN volumes' \ DOMAIN volumes :
         /\ volumes'[i].part = pools[g][1] /\ volumes'[i].via = "zfs"
         /\ volumes'[i].lv = DatasetName(i - Len(volumes)) /\ volumes'[i].lv \in {"a", "b"}
         /\ n # 0
  <2> TAKE i \in DOMAIN volumes' \ DOMAIN volumes
  <2>1. i - Len(volumes) \in 1 .. n /\ Len(volumes) + (i - Len(volumes)) = i
    BY <1>10
  <2>2. /\ volumes'[Len(volumes) + (i - Len(volumes))].part = pools[g][1]
        /\ volumes'[Len(volumes) + (i - Len(volumes))].via = "zfs"
        /\ volumes'[Len(volumes) + (i - Len(volumes))].lv = DatasetName(i - Len(volumes))
    BY <1>8, <2>1, Zenon
  <2>3. n # 0
    BY <2>1
  <2> QED
    BY <2>1, <2>2, <2>3 DEF DatasetName
<1>12. NewSound(volumes, volumes', machine, Free', blkHeld' \ Members')
  <2> SUFFICES ASSUME NEW i \in DOMAIN volumes' \ DOMAIN volumes
               PROVE  /\ Backed(machine, volumes'[i], Free', blkHeld' \ Members')
                      /\ \A j \in DOMAIN volumes' :
                           j # i /\ Overlap(volumes'[j], volumes'[i]) =>
                             "fat" \in {volumes'[j].via, volumes'[i].via}
    BY DEF NewSound
  <2>1. /\ volumes'[i].part = pools[g][1] /\ volumes'[i].via = "zfs"
        /\ volumes'[i].lv = DatasetName(i - Len(volumes)) /\ volumes'[i].lv \in {"a", "b"}
        /\ n # 0
    BY <1>11
  <2>2. Backed(machine, volumes'[i], Free', blkHeld' \ Members')
    <3>1. pools[g][1] \in blkHeld' \ Members'
      BY <1>3, <1>4, <1>5, <2>1
    <3> QED
      BY <2>1, <3>1, Zenon DEF Backed, Natives, Holding
  <2>3. ASSUME NEW j \in DOMAIN volumes', j # i, Overlap(volumes'[j], volumes'[i])
        PROVE  "fat" \in {volumes'[j].via, volumes'[i].via}
    <3>1. CASE j \in DOMAIN volumes
      <4>1. Backed(machine, volumes[j], Free, blkHeld \ Members) /\ volumes'[j] = volumes[j]
        BY <1>8, <3>1, Zenon DEF HoldInv
      <4>2. volumes[j].part = pools[g][1] /\ volumes[j].lv \in {"a", "b"}
        BY <2>1, <2>3, <4>1 DEF Overlap
      <4>3. FALSE
        BY <1>4, <4>1, <4>2, Zenon DEF Backed, Holding
      <4> QED
        BY <4>3
    <3>2. CASE j \notin DOMAIN volumes
      <4>1. volumes'[j].lv = DatasetName(j - Len(volumes))
        BY <1>11, <3>2
      <4>2. /\ i - Len(volumes) \in 1 .. n /\ j - Len(volumes) \in 1 .. n
            /\ i \in Int /\ j \in Int /\ n \in 0 .. 2
        BY <1>7, <1>8, <1>10, <3>2
      <4>3. i - Len(volumes) # j - Len(volumes)
        BY <1>7, <2>3, <4>2
      <4>4. i - Len(volumes) \in {1, 2} /\ j - Len(volumes) \in {1, 2}
        BY <4>2
      <4>5. DatasetName(i - Len(volumes)) # DatasetName(j - Len(volumes))
        BY <4>3, <4>4 DEF DatasetName
      <4> QED
        BY <2>1, <2>3, <4>1, <4>5 DEF Overlap
    <3> QED
      BY <3>1, <3>2
  <2> QED
    BY <2>2, <2>3
<1>13. PoolsSound(machine, pools', blkHeld')
  <2> SUFFICES ASSUME NEW h \in DOMAIN pools', NEW i \in DOMAIN pools'[h]
               PROVE  machine.parts[pools'[h][i]].pool = h /\ pools'[h][i] \in blkHeld'
    BY DEF PoolsSound
  <2>1. h \in DOMAIN pools /\ h # g /\ pools'[h] = pools[h]
    BY <1>3
  <2>2. machine.parts[pools[h][i]].pool = h /\ pools[h][i] \in blkHeld
    BY <2>1 DEF HoldInv, PoolsSound
  <2>3. pools[h][i] \notin Pooled(g)
    BY <1>4, <2>1, <2>2
  <2> QED
    BY <1>3, <2>1, <2>2, <2>3
<1>14. ASSUME NEW q \in blkHeld'
       PROVE  \/ q \in blkHeld /\ (q \notin Members \/ q \in Members')
              \/ Accounted(machine, q, volumes', Members')
  <2>1. CASE q \notin Pooled(g)
    BY <1>4, <1>6, <2>1
  <2>2. CASE q \in Pooled(g)
    <3>1. n # 0
      BY <1>3, <1>14, <2>2
    <3>2. 1 \in 1 .. n /\ Len(volumes) + 1 \in DOMAIN volumes'
      BY <1>7, <1>8, <3>1
    <3>3. /\ volumes'[Len(volumes) + 1].part = pools[g][1]
          /\ volumes'[Len(volumes) + 1].via = "zfs"
      BY <1>8, <3>2
    <3>4. machine.parts[pools[g][1]].pool = machine.parts[q].pool
      BY <1>4, <2>2
    <3> QED
      BY <3>2, <3>3, <3>4 DEF Accounted, Holding
  <2> QED
    BY <2>1, <2>2
<1>15. HoldStep
  BY <1>3, <1>5, <1>6, <1>9, <1>12, <1>13, <1>14, Zenon DEF HoldStep, Early
<1> QED
  BY <1>15, HoldKept

\* HoldInv is kept by every step.
LEMMA HoldNext == ListInv /\ HoldInv /\ [MountNext]_mountVars => HoldInv'
<1> SUFFICES ASSUME MountTyped, HoldInv, [MountNext]_mountVars PROVE HoldInv'
  BY DEF ListInv
<1>1. CASE MountEsp
  <2>1. /\ mpc = "esp" /\ mpc' = "enumerate" /\ sfsHeld \subseteq sfsHeld' /\ sfs' = sfs
        /\ UNCHANGED <<machine, blkHeld, pools, volumes>>
    BY <1>1 DEF MountEsp
  <2>2. mpc \in Early /\ DOMAIN pools = {}
    BY <2>1 DEF Early, HoldInv
  <2> QED
    BY <2>1, <2>2, QuietHold
<1>2. CASE Enumerate
  <2>1. /\ mpc = "enumerate" /\ mpc' = mpc /\ machine' = machine /\ sfs' = sfs
        /\ sfsHeld' = sfsHeld /\ blkHeld' = blkHeld /\ pools' = pools
        /\ \/ volumes' = volumes
           \/ /\ at \in Parts /\ FirmwareFatReadable(at)
              /\ Longer(Volume(at, "fat", "", Len(volumes) + 1))
    BY <1>2, EnumerateFacts, Zenon
  <2>2. mpc \in Early /\ DOMAIN pools = {}
    BY <2>1, Zenon DEF Early, HoldInv
  <2>3. CASE volumes' = volumes
    BY <2>1, <2>2, <2>3, QuietHold
  <2>4. CASE /\ at \in Parts /\ FirmwareFatReadable(at)
             /\ Longer(Volume(at, "fat", "", Len(volumes) + 1))
    <3> DEFINE n == Len(volumes) + 1
    <3>1. n \in Nat \cup {MaxIndex} /\ Longer(Volume(at, "fat", "", n))
      BY <2>4, ElementFacts, PlaceIsIndex, Zenon
    <3>2. Part(at).serves /\ at \in Parts
      BY <2>4, Zenon DEF FirmwareFatReadable
    <3> HIDE DEF n
    <3> QED
      BY <2>1, <2>2, <3>1, <3>2, FatHold, Zenon
  <2> QED
    BY <2>1, <2>3, <2>4, Zenon
<1>3. CASE ScanInfo \/ ScanBlockIo
  <2>1. Lists
    BY <1>3, ScanFacts
  <2>2. /\ mpc \in {"info", "blockio"} /\ mpc' = mpc /\ sfsHeld' = sfsHeld /\ sfs' = sfs
        /\ UNCHANGED <<machine, blkHeld, pools, volumes>>
    BY <2>1 DEF Lists
  <2>3. mpc \in Early /\ DOMAIN pools = {}
    BY <2>2 DEF Early, HoldInv
  <2> QED
    BY <2>2, <2>3, QuietHold
<1>4. CASE ProbeAll \/ BodyFails
  <2>1. Looks
    BY <1>4, LooksFacts
  <2>2. /\ mpc' = mpc /\ sfsHeld' = sfsHeld /\ sfs' \subseteq sfs
        /\ UNCHANGED <<machine, blkHeld, pools, volumes>>
    BY <2>1 DEF Looks
  <2>3. mpc' \notin {"zfs", "import", "hung"} => DOMAIN pools = {}
    BY <2>2 DEF HoldInv
  <2> QED
    BY <2>2, <2>3, QuietHold
<1>5. CASE MountXbootldr
  <2>1. /\ mpc = "xbootldr" /\ mpc' = "ext4" /\ machine' = machine /\ sfs' = sfs
        /\ sfsHeld' = sfsHeld /\ blkHeld' = blkHeld /\ pools' = pools
        /\ \/ volumes' = volumes
           \/ \E p \in Parts :
                /\ XbootldrBackend(p) \in {"fat", "fatro"}
                /\ Longer(Volume(p, XbootldrBackend(p), "", MaxIndex))
    BY <1>5, XbootldrFacts, Zenon
  <2>2. mpc \in Early /\ mpc' \notin Early /\ DOMAIN pools = {}
    BY <2>1, Zenon DEF Early, HoldInv
  <2>3. CASE volumes' = volumes
    BY <2>1, <2>2, <2>3, QuietHold
  <2>4. ASSUME NEW p \in Parts, XbootldrBackend(p) \in {"fat", "fatro"},
               Longer(Volume(p, XbootldrBackend(p), "", MaxIndex))
        PROVE  HoldInv'
    <3> DEFINE via == XbootldrBackend(p)
    <3>1. /\ via = "fat" => Part(p).serves
          /\ via = "fatro" => "fat" \in Part(p).sound /\ ~FirmwareFatReadable(p)
      BY DEF XbootldrBackend, FirmwareFatReadable
    <3>2. via \in {"fat", "fatro"} /\ Longer(Volume(p, via, "", MaxIndex))
      BY <2>4, Zenon
    <3>3. MaxIndex \in Nat \cup {MaxIndex}
      OBVIOUS
    <3> HIDE DEF via
    <3> QED
      BY <2>1, <2>2, <3>1, <3>2, <3>3, FatHold, Zenon
  <2> QED
    BY <2>1, <2>3, <2>4, Zenon
<1>6. CASE MountExt4 \/ MountBtrfs \/ MountXfs \/ MountExFat
  <2>1. PICK fs \in Natives : MountNative(fs)
    BY <1>6, NativeCases
  <2> DEFINE p == found[at].part
             mounts == NativeMounts(p, fs)
  <2>2. mpc = fs /\ Pass(p, fs, "", mounts)
    BY <2>1, NativePass, Zenon
  <2>3. mounts => Mountable(machine, p, fs, "")
    BY SuperblockIs DEF NativeMounts, Mountable, Part
  <2>4. mpc \notin Early
    BY <2>2, Zenon DEF Early, Natives
  <2> HIDE DEF p, mounts
  <2> QED
    BY <2>2, <2>3, <2>4, PassHold, Zenon
<1>7. CASE GatherZfs
  BY <1>7, GatherHold
<1>8. CASE ImportPool
  BY <1>8, ImportHold
<1>9. CASE MountMedia
  <2> DEFINE p == found[at].part
             mounts == MediaMounts(p)
  <2>1. mpc = "media" /\ Pass(p, "media", "", mounts)
    BY <1>9, MediaPass, Zenon
  <2>2. mounts => Mountable(machine, p, "media", "")
    BY DEF MediaMounts, Mountable, Part
  <2>3. mpc \notin Early
    BY <2>1, Zenon DEF Early
  <2> HIDE DEF p, mounts
  <2> QED
    BY <2>1, <2>2, <2>3, PassHold, Zenon
<1>10. CASE MountLvm
  <2> DEFINE p == Candidates[at]
             lv == LvName(p)
             mounts == LvmMounts(p)
  <2>1. mpc = "lvm" /\ Pass(p, "lvm", lv, mounts)
    BY <1>10, LvmPass
  <2>2. mounts => Mountable(machine, p, "lvm", lv)
    BY LvNameFacts, Zenon DEF LvmMounts, Mountable, LvName
  <2>3. mpc \notin Early
    BY <2>1 DEF Early
  <2> HIDE DEF p, lv, mounts
  <2> QED
    BY <2>1, <2>2, <2>3, PassHold
<1>11. CASE ReadVolume
  <2>1. /\ mpc = "scan" /\ mpc' = mpc /\ sfsHeld \subseteq sfsHeld' /\ sfs' = sfs
        /\ UNCHANGED <<machine, blkHeld, pools, volumes>>
    BY <1>11 DEF ReadVolume
  <2>2. DOMAIN pools = {}
    BY <2>1 DEF HoldInv
  <2> QED
    BY <2>1, <2>2, QuietHold
<1>12. CASE LoopEnds
  <2>1. UNCHANGED <<machine, sfs, sfsHeld, blkHeld, pools, volumes>>
    BY <1>12 DEF LoopEnds
  <2>2. Follows(mpc, mpc') /\ (mpc = "import" => DOMAIN pools = {})
    BY <1>12, LoopOrder DEF LoopEnds
  <2>3. mpc' \in Early => mpc \in Early
    BY <2>2 DEF Follows, Early
  <2>4. mpc' \notin {"zfs", "import", "hung"} => DOMAIN pools = {}
    BY <2>2 DEF Follows, HoldInv
  <2> QED
    BY <2>1, <2>3, <2>4, QuietHold
<1>13. CASE Hang
  <2>1. mpc' = "hung" /\ UNCHANGED <<machine, sfs, sfsHeld, blkHeld, pools, volumes>>
    BY <1>13 DEF Hang
  <2>2. mpc' \notin Early
    BY <2>1 DEF Early
  <2> QED
    BY <2>1, <2>2, QuietHold
<1>14. CASE UNCHANGED mountVars
  <2>1. UNCHANGED <<machine, mpc, sfs, sfsHeld, blkHeld, pools, volumes>>
    BY <1>14 DEF mountVars
  <2>2. mpc' \notin {"zfs", "import", "hung"} => DOMAIN pools = {}
    BY <2>1, Zenon DEF HoldInv
  <2> QED
    BY <2>1, <2>2, QuietHold
<1> QED
  BY <1>1, <1>2, <1>3, <1>4, <1>5, <1>6, <1>7, <1>8, <1>9, <1>10, <1>11, <1>12, <1>13, <1>14
     DEF MountNext

\* HoldInv holds at the start.
LEMMA HoldInit == MountInit => HoldInv
<1> SUFFICES ASSUME MountInit PROVE HoldInv
  OBVIOUS
<1>1. DOMAIN volumes = {} /\ DOMAIN pools = {} /\ blkHeld = {} /\ mpc = "esp"
  BY EmptySeq DEF MountInit
<1> QED
  BY <1>1 DEF HoldInv, Apart, PoolsSound

\* HoldInv is an invariant.
LEMMA HoldInvHolds == MountSpec => []HoldInv
BY ListInvHolds, HoldInit, HoldNext, PTL DEF MountSpec
-----------------------------------------------------------------------------
(* ScanInv *)

\* A volume that is not FAT, beside a FAT one on the same bytes, reads another
\* file system.
LEMMA NotFat ==
  ASSUME MountTyped, NEW v, v.part \in Parts, NEW free, NEW held,
         Backed(machine, v, free, held), Holding(v), v.via \in Vias, v.lv = ""
  PROVE  ProbeSource(Part(v.part).sigs) # "fat"
<1> DEFINE S == Part(v.part).sigs
<1>1. v.via \in Natives \cup {"media"}
  BY Zenon DEF Backed, Holding, Vias
<1>2. CASE v.via = "media"
  BY <1>2, Zenon DEF Backed, Media, Part
<1>3. CASE v.via \in Natives
  <2>1. ProbeSuperblock(v.part) = v.via
    BY <1>3, SuperblockIs, Zenon DEF Backed
  <2>2. v.via \in S
    BY <1>3, <2>1, SuperblockFacts, Zenon DEF Natives
  <2>3. CASE v.via = "exfat"
    <3>1. "fat" \notin S
      BY <2>2, <2>3, MachineFacts, Zenon DEF MountTyped
    <3> HIDE DEF S
    <3>2. ProbeSource(S) # "fat"
      BY <3>1, SourceFacts, Zenon
    <3> QED
      BY <3>2, Zenon DEF S
  <2>4. CASE v.via # "exfat"
    <3>1. {"ext4", "btrfs", "xfs"} \cap S # {}
      BY <1>3, <2>2, <2>4, Zenon DEF Natives
    <3> HIDE DEF S
    <3>2. ProbeSource(S) # "fat"
      BY <3>1, SourceFacts, Zenon
    <3> QED
      BY <3>2, Zenon DEF S
  <2> QED
    BY <2>3, <2>4, Zenon
<1> QED
  BY <1>1, <1>2, <1>3, Zenon

\* What OneReader asks of two volumes, on machine m.
PairOk(m, v, w) ==
  Overlap(v, w) => /\ ~ m.byDriver
                   /\ {v.via, w.via} \cap {"fat"} # {}
                   /\ ProbeSource(m.parts[v.part].sigs) # "fat"

\* OneReader says it of every two volumes that answered.
LEMMA OneReaderIs ==
  OneReader <=> \A i, j \in answers : i # j => PairOk(machine, volumes[i], volumes[j])
BY DEF OneReader, PairOk, Overlap, Part

\* A volume that can be read is the only reader of its bytes so far.
LEMMA ReadPair ==
  ASSUME MountTyped, HoldInv, ScanInv, NEW i \in answers, NEW n \in DOMAIN volumes, i # n,
         CanRead(volumes[n])
  PROVE  PairOk(machine, volumes[i], volumes[n]) /\ PairOk(machine, volumes[n], volumes[i])
<1> DEFINE v == volumes[n]
           w == volumes[i]
<1>1. i \in DOMAIN volumes /\ v \in Vols /\ w \in Vols /\ v.part \in Parts /\ w.part \in Parts
  BY ElementFacts DEF ScanInv
<1>2. v.via \in Vias /\ w.via \in Vias
  BY <1>1, Zenon DEF Vols
<1>3. /\ Backed(machine, v, Free, blkHeld \ Members)
      /\ Backed(machine, w, Free, blkHeld \ Members)
  BY <1>1, Zenon DEF HoldInv
<1>4. v.via = "fat" => v.part \in sfs \ sfsHeld
  BY DEF CanRead
<1>5. w.via = "fat" => w.part \in sfs \cap sfsHeld
  BY DEF ScanInv
<1>6. w.via = "fat" /\ v.via = "fatro" => v.part # w.part
  BY DEF ScanInv
<1>7. Overlap(w, v) => "fat" \in {w.via, v.via}
  BY <1>1, Zenon DEF HoldInv, Apart
<1>8. machine.byDriver => blkHeld \cap sfs = {}
  BY DEF HoldInv
<1> HIDE DEF v, w
<1> SUFFICES ASSUME v.part = w.part, v.lv = w.lv
             PROVE  /\ ~ machine.byDriver /\ "fat" \in {w.via, v.via}
                    /\ ProbeSource(machine.parts[v.part].sigs) # "fat"
  BY Zenon DEF PairOk, Overlap, v, w
<1>9. "fat" \in {w.via, v.via}
  BY <1>7 DEF Overlap
<1>10. ~(v.via = "fat" /\ w.via = "fat")
  BY <1>4, <1>5
<1>11. ~(v.via = "fat" /\ w.via = "fatro")
  <2>1. ASSUME v.via = "fat", w.via = "fatro" PROVE FALSE
    <3>1. FirmwareFatReadable(v.part)
      BY <1>3, <1>4, <2>1, Zenon DEF FirmwareFatReadable, Backed, Part
    <3>2. v.part \in Free
      BY <1>1, <3>1 DEF Free
    <3> QED
      BY <1>3, <2>1, <3>2, Zenon DEF Backed
  <2> QED
    BY <2>1
<1>12. CASE v.via = "fat" /\ Holding(w)
  <2>1. w.part \in blkHeld /\ v.part \in sfs /\ w.lv = ""
    BY <1>3, <1>4, <1>12, Zenon DEF Backed
  <2>2. ProbeSource(Part(w.part).sigs) # "fat"
    <3> DEFINE held == blkHeld \ Members
    <3>1. Backed(machine, w, Free, held)
      BY <1>3
    <3> HIDE DEF held
    <3> QED
      BY <1>1, <1>2, <1>12, <2>1, <3>1, NotFat, Zenon
  <2> QED
    BY <1>8, <1>9, <2>1, <2>2, Zenon DEF Part
<1>13. CASE w.via = "fat" /\ Holding(v)
  <2>1. v.part \in blkHeld /\ w.part \in sfs /\ v.lv = ""
    BY <1>3, <1>5, <1>13, Zenon DEF Backed
  <2>2. ProbeSource(Part(v.part).sigs) # "fat"
    <3> DEFINE held == blkHeld \ Members
    <3>1. Backed(machine, v, Free, held)
      BY <1>3
    <3> HIDE DEF held
    <3> QED
      BY <1>1, <1>2, <1>13, <2>1, <3>1, NotFat, Zenon
  <2> QED
    BY <1>8, <1>9, <2>1, <2>2, Zenon DEF Part
<1> QED
  BY <1>6, <1>9, <1>10, <1>11, <1>12, <1>13 DEF Holding

\* Discovery reads a volume.
LEMMA ScanRead ==
  ASSUME MountTyped, HoldInv, ScanInv, ReadVolume
  PROVE  ScanInv'
<1>1. /\ mpc = "scan" /\ mpc' = mpc /\ at' = at + 1 /\ at <= Len(volumes)
      /\ machine' = machine /\ volumes' = volumes /\ sfs' = sfs
      /\ answers' = IF CanRead(volumes[at]) THEN answers \cup {at} ELSE answers
      /\ sfsHeld' = IF CanRead(volumes[at]) /\ volumes[at].via = "fat"
                    THEN sfsHeld \cup {volumes[at].part} ELSE sfsHeld
  BY DEF ReadVolume
<1>2. at \in DOMAIN volumes /\ at \in Nat /\ DOMAIN volumes \subseteq Nat
  <2>1. at \in Nat \ {0}
    BY DEF MountTyped
  <2> QED
    BY <1>1, <2>1, ElementFacts
<1>3. answers' \subseteq DOMAIN volumes' /\ sfsHeld \subseteq sfsHeld'
  BY <1>1, <1>2 DEF ScanInv
<1>4. \A i \in answers : i < at /\ i \in Nat /\ i # at
  BY <1>1, <1>2 DEF ScanInv
<1>5. \A i \in answers' : i < at'
  BY <1>1, <1>2, <1>4
<1>6. ASSUME NEW i \in answers', volumes[i].via = "fat"
      PROVE  /\ volumes[i].part \in sfs \cap sfsHeld'
             /\ \A j \in DOMAIN volumes :
                  volumes[j].via = "fatro" => volumes[j].part # volumes[i].part
  <2>1. CASE i \in answers
    BY <1>3, <1>6, <2>1 DEF ScanInv
  <2>2. CASE i \notin answers
    <3>1. i = at /\ CanRead(volumes[i])
      BY <1>1, <1>6, <2>2
    <3>2. volumes[i].part \in sfs \ sfsHeld
      BY <1>6, <3>1 DEF CanRead
    <3>3. volumes[i].part \in sfsHeld'
      BY <1>1, <1>6, <3>1
    <3>4. ASSUME NEW j \in DOMAIN volumes, volumes[j].via = "fatro"
          PROVE  volumes[j].part # volumes[i].part
      <4>1. /\ Backed(machine, volumes[i], Free, blkHeld \ Members)
            /\ Backed(machine, volumes[j], Free, blkHeld \ Members)
        BY <1>2, <3>1, Zenon DEF HoldInv
      <4>2. FirmwareFatReadable(volumes[i].part) /\ volumes[i].part \in Parts
        BY <1>2, <1>6, <3>1, <3>2, <4>1, ElementFacts, Zenon DEF FirmwareFatReadable, Backed,
           Part
      <4> QED
        BY <3>4, <4>1, <4>2, Zenon DEF Backed, Free
    <3> QED
      BY <3>2, <3>3, <3>4
  <2> QED
    BY <2>1, <2>2
<1>7. OneReader'
  <2>1. \A i, j \in answers : i # j => PairOk(machine, volumes[i], volumes[j])
    BY OneReaderIs DEF ScanInv
  <2>2. ASSUME NEW i \in answers', NEW j \in answers', i # j
        PROVE  PairOk(machine, volumes[i], volumes[j])
    <3>1. CASE i \in answers /\ j \in answers
      BY <2>1, <2>2, <3>1
    <3>2. CASE i \in answers /\ j \notin answers
      <4>1. j = at /\ CanRead(volumes[at])
        BY <1>1, <2>2, <3>2
      <4>2. PairOk(machine, volumes[i], volumes[at])
        BY <1>2, <1>4, <3>2, <4>1, ReadPair
      <4> QED
        BY <4>1, <4>2
    <3>3. CASE i \notin answers /\ j \in answers
      <4>1. i = at /\ CanRead(volumes[at])
        BY <1>1, <2>2, <3>3
      <4>2. PairOk(machine, volumes[at], volumes[j])
        BY <1>2, <1>4, <3>3, <4>1, ReadPair
      <4> QED
        BY <4>1, <4>2
    <3>4. CASE i \notin answers /\ j \notin answers
      BY <1>1, <2>2, <3>4
    <3> QED
      BY <3>1, <3>2, <3>3, <3>4
  <2>3. \A i, j \in answers' : i # j => PairOk(machine', volumes'[i], volumes'[j])
    BY <1>1, <2>2
  <2>4. OneReader' <=>
          \A i, j \in answers' : i # j => PairOk(machine', volumes'[i], volumes'[j])
    BY DEF OneReader, PairOk, Overlap, Part
  <2> QED
    BY <2>3, <2>4
<1>8. mpc' \in {"scan", "done"}
  BY <1>1
<1> QED
  BY <1>1, <1>3, <1>5, <1>6, <1>7, <1>8 DEF ScanInv

\* Until then nothing has answered.
LEMMA ScanQuiet ==
  ASSUME ScanInv, mpc \notin {"scan", "done"}, answers' = answers
  PROVE  ScanInv'
<1>1. answers' = {}
  BY DEF ScanInv
<1> QED
  BY <1>1, Zenon DEF ScanInv, OneReader

\* ScanInv is about these variables only.
LEMMA ScanSame ==
  ASSUME ScanInv, UNCHANGED <<machine, mpc, at, sfs, sfsHeld, volumes, answers>>
  PROVE  ScanInv'
<1>1. /\ machine' = machine /\ mpc' = mpc /\ at' = at /\ sfs' = sfs
      /\ sfsHeld' = sfsHeld /\ volumes' = volumes /\ answers' = answers
  BY Zenon
<1>2. OneReader'
  <2>1. OneReader
    BY Zenon DEF ScanInv
  <2> QED
    BY <1>1, <2>1, Zenon DEF OneReader, Part
<1> QED
  BY <1>1, <1>2, Zenon DEF ScanInv

\* ScanInv is kept by every step.
LEMMA ScanNext == ListInv /\ HoldInv /\ ScanInv /\ [MountNext]_mountVars => ScanInv'
<1> SUFFICES ASSUME MountTyped, HoldInv, ScanInv, [MountNext]_mountVars PROVE ScanInv'
  BY DEF ListInv
<1>1. CASE ReadVolume
  BY <1>1, ScanRead
<1>2. CASE LoopEnds
  <2>1. Follows(mpc, mpc')
    BY <1>2, LoopOrder
  <2>2. UNCHANGED <<machine, sfs, sfsHeld, volumes, answers>>
    BY <1>2 DEF LoopEnds
  <2>3. CASE mpc = "scan"
    <3>1. mpc' = "done"
      BY <2>1, <2>3 DEF Follows
    <3> QED
      BY <2>2, <3>1 DEF ScanInv, OneReader, Part
  <2>4. CASE mpc # "scan"
    <3>1. mpc \notin {"scan", "done"}
      BY <2>1, <2>4 DEF Follows
    <3> QED
      BY <2>2, <3>1, ScanQuiet
  <2> QED
    BY <2>3, <2>4
<1>3. CASE UNCHANGED mountVars
  BY <1>3, ScanSame, Zenon DEF mountVars
<1>4. CASE MountEsp \/ Enumerate \/ ScanInfo \/ ScanBlockIo \/ MountXbootldr \/ ImportPool
  <2>1. mpc \notin {"scan", "done"} /\ answers' = answers
    BY <1>4, Zenon DEF MountEsp, Enumerate, ScanInfo, ScanBlockIo, MountXbootldr, ImportPool
  <2> QED
    BY <2>1, ScanQuiet
<1>5. CASE ProbeAll \/ BodyFails
  <2>1. mpc \notin {"scan", "done"} /\ answers' = answers
    BY <1>5, LooksFacts DEF Looks
  <2> QED
    BY <2>1, ScanQuiet
<1>6. CASE MountExt4 \/ MountBtrfs \/ MountXfs \/ MountExFat
  <2>1. PICK fs \in Natives : MountNative(fs)
    BY <1>6, NativeCases
  <2>2. mpc \notin {"scan", "done"} /\ answers' = answers
    BY <2>1, Zenon DEF MountNative, Here, Natives
  <2> QED
    BY <2>2, ScanQuiet
<1>7. CASE GatherZfs \/ MountMedia
  <2>1. mpc \notin {"scan", "done"} /\ answers' = answers
    BY <1>7, Zenon DEF GatherZfs, MountMedia, Here
  <2> QED
    BY <2>1, ScanQuiet
<1>8. CASE MountLvm
  <2>1. mpc \notin {"scan", "done"} /\ answers' = answers
    BY <1>8, Zenon DEF MountLvm
  <2> QED
    BY <2>1, ScanQuiet
<1>9. CASE Hang
  <2>1. mpc \notin {"scan", "done"} /\ answers' = answers
    BY <1>9 DEF Hang, Probing
  <2> QED
    BY <2>1, ScanQuiet
<1> QED
  BY <1>1, <1>2, <1>3, <1>4, <1>5, <1>6, <1>7, <1>8, <1>9 DEF MountNext

\* ScanInv is an invariant.
LEMMA ScanInvHolds == MountSpec => []ScanInv
<1>1. MountInit => ScanInv
  BY Zenon DEF MountInit, ScanInv, OneReader
<1> QED
  BY <1>1, ListInvHolds, HoldInvHolds, ScanNext, PTL DEF MountSpec

\* The passes of Phase 6 stay out of each other's way: a file system has at
\* most one volume that can be read, and BlockIO is held under a mounted volume
\* or not at all, whatever opens and reads fail (main.rs, the mount loops, and
\* partitions.rs, BlockIO's exclusive open).
THEOREM OneHolderHolds == MountSpec => []OneHolder
<1>1. ScanInv => OneReader
  BY DEF ScanInv
<1>2. HoldInv => HoldsAccounted
  <2> SUFFICES ASSUME HoldInv, mpc \in {"media", "lvm", "scan", "done"}, NEW p \in blkHeld
               PROVE  \E i \in DOMAIN volumes :
                        \/ volumes[i].part = p
                        \/ volumes[i].via = "zfs" /\ Part(volumes[i].part).pool = Part(p).pool
    BY DEF HoldsAccounted
  <2>1. DOMAIN pools = {} /\ Accounted(machine, p, volumes, Members)
    BY Zenon DEF HoldInv
  <2>2. p \notin Members
    BY <2>1 DEF Members
  <2> QED
    BY <2>1, <2>2 DEF Accounted, Part
<1> QED
  BY <1>1, <1>2, ScanInvHolds, HoldInvHolds, PTL DEF OneHolder
-----------------------------------------------------------------------------
(* MissInv *)

\* The loops MissInv speaks of.
Tracked == Natives \cup {"blockio", "media", "lvm", "scan"}

\* The loops after each, one by one.
LEMMA LaterIs ==
  /\ Later("scan") = {"done"}
  /\ Later("lvm") = {"scan", "done"}
  /\ Later("media") = {"lvm", "scan", "done"}
  /\ Later("exfat") = {"zfs", "import", "media", "lvm", "scan", "done"}
  /\ Later("xfs") = {"exfat", "zfs", "import", "media", "lvm", "scan", "done"}
  /\ Later("btrfs") = {"xfs", "exfat", "zfs", "import", "media", "lvm", "scan", "done"}
  /\ Later("ext4") = {"btrfs", "xfs", "exfat", "zfs", "import", "media", "lvm", "scan", "done"}
  /\ Later("blockio") = {"probe", "xbootldr", "ext4", "btrfs", "xfs", "exfat", "zfs", "import",
                         "media", "lvm", "scan", "done"}
<1>1. Later("scan") = AfterScan
  BY DEF Later
<1>2. Later("lvm") = AfterLvm
  BY DEF Later
<1>3. Later("media") = AfterMedia
  BY DEF Later
<1>4. Later("exfat") = AfterExFat
  BY DEF Later
<1>5. Later("xfs") = AfterXfs
  BY DEF Later
<1>6. Later("btrfs") = AfterBtrfs
  BY DEF Later
<1>7. Later("ext4") = AfterExt4
  BY DEF Later
<1>8. Later("blockio") = AfterBlockIo
  BY DEF Later
<1> QED
  BY <1>1, <1>2, <1>3, <1>4, <1>5, <1>6, <1>7, <1>8
  DEF AfterScan, AfterLvm, AfterMedia, AfterExFat, AfterXfs, AfterBtrfs, AfterExt4, AfterBlockIo

\* The next element.
LEMMA PastNext ==
  ASSUME NEW pc, NEW k \in Nat, NEW l, NEW i \in Nat, Past(pc, k + 1, l, i)
  PROVE  Past(pc, k, l, i) \/ (pc = l /\ i = k)
BY DEF Past

\* The next loop.
LEMMA PastEnd ==
  ASSUME NEW a, NEW b, Follows(a, b) \/ (a = "xbootldr" /\ b = "ext4"),
         NEW l \in Tracked, NEW i \in Nat \ {0}, Past(b, 1, l, i)
  PROVE  a \in Later(l) \/ a = l
<1>1. b \in Later(l)
  BY DEF Past
<1> HIDE DEF Past
<1>2. l \in {"ext4", "btrfs", "xfs", "exfat", "blockio", "media", "lvm", "scan"}
  BY DEF Tracked, Natives
<1>3. CASE l \in {"ext4", "btrfs", "xfs", "exfat"}
  BY <1>1, <1>3, LaterIs DEF Follows
<1>4. CASE l \in {"media", "lvm", "scan"}
  BY <1>1, <1>4, LaterIs DEF Follows
<1>5. CASE l = "blockio"
  BY <1>1, <1>5, LaterIs DEF Follows
<1> QED
  BY <1>2, <1>3, <1>4, <1>5

\* Before the loop, nothing is past.
LEMMA PastNone ==
  ASSUME NEW k, NEW i, NEW l \in Tracked
  PROVE  /\ ~ Past("hung", k, l, i) /\ ~ Past("enumerate", k, l, i)
         /\ ~ Past("info", k, l, i) /\ ~ Past("esp", k, l, i)
         /\ l # "blockio" => ~ Past("blockio", k, l, i)
         /\ \A pc \in Phases \ {"scan", "done"} : ~ Past(pc, k, "scan", i)
<1>1. l \in {"ext4", "btrfs", "xfs", "exfat", "blockio", "media", "lvm", "scan"}
  BY DEF Tracked, Natives
<1>2. /\ "hung" \notin Later(l) /\ "enumerate" \notin Later(l) /\ "info" \notin Later(l)
      /\ "esp" \notin Later(l) /\ "blockio" \notin Later(l)
  BY <1>1, LaterIs
<1>3. \A pc \in Phases \ {"scan", "done"} : pc \notin Later("scan") /\ pc # "scan"
  BY LaterIs DEF Phases
<1> QED
  BY <1>1, <1>2, <1>3 DEF Past

\* A served partition stays served.
LEMMA ServedKept ==
  ASSUME NEW vs, NEW ws, Grows(vs, ws), NEW p, Served(vs, p)
  PROVE  Served(ws, p)
BY DEF Served, Grows

\* What a step has to show about the ends of the loops: what a loop is newly
\* past, it has dealt with.
MissStep ==
  /\ \A l \in Natives \cup {"media"}, i \in DOMAIN found' :
       Due(machine, found'[i].part, l) /\ Past(mpc', at', l, i) =>
         (i \in DOMAIN found /\ Past(mpc, at, l, i)) \/ Served(volumes', found'[i].part)
  /\ \A k \in DOMAIN volumes' :
       Holding(volumes'[k]) /\ Past(mpc', at', "scan", k) =>
         (k \in DOMAIN volumes /\ Past(mpc, at, "scan", k)) \/ k \in answers'
  /\ \A p \in Parts :
       NeedsTrying(machine, p) /\ Past(mpc', at', "blockio", p) =>
         Past(mpc, at, "blockio", p) \/ \E i \in DOMAIN found' : found'[i].part = p
  /\ \A i \in DOMAIN found' :
       Past(mpc', at', "lvm", i) =>
         (i \in DOMAIN found /\ Past(mpc, at, "lvm", i)) \/ found'[i].part \in pvs'

\* The partitions taken in a step are members of a pool or under a volume.
HoldsServed ==
  \A p \in blkHeld' \ blkHeld : Superblock(machine, p) = "zfs" \/ Served(volumes', p)

\* Then MissInv is kept.
LEMMA MissKept ==
  ASSUME MissInv, machine' = machine, Grows(volumes, volumes'), Grows(found, found'),
         answers \subseteq answers', pvs \subseteq pvs', HoldsServed,
         mfaults' = 0 => mfaults = 0 /\ MissStep
  PROVE  MissInv'
<1>1. ASSUME NEW p \in blkHeld'
      PROVE  Superblock(machine', p) = "zfs" \/ Served(volumes', p)
  <2>1. CASE p \in blkHeld
    <3>1. Superblock(machine, p) = "zfs" \/ Served(volumes, p)
      BY <2>1 DEF MissInv
    <3> QED
      BY <3>1, ServedKept
  <2>2. CASE p \notin blkHeld
    BY <1>1, <2>2 DEF HoldsServed
  <2> QED
    BY <2>1, <2>2
<1>2. ASSUME mfaults' = 0, NEW l \in Natives \cup {"media"}, NEW i \in DOMAIN found',
             Due(machine', found'[i].part, l), Past(mpc', at', l, i)
      PROVE  Served(volumes', found'[i].part)
  <2>1. (i \in DOMAIN found /\ Past(mpc, at, l, i)) \/ Served(volumes', found'[i].part)
    BY <1>2, Zenon DEF MissStep
  <2>2. CASE i \in DOMAIN found /\ Past(mpc, at, l, i)
    <3>1. found'[i] = found[i]
      BY <2>2 DEF Grows
    <3>2. Served(volumes, found[i].part)
      BY <1>2, <2>2, <3>1, Zenon DEF MissInv
    <3> QED
      BY <3>1, <3>2, ServedKept
  <2> QED
    BY <2>1, <2>2, Zenon
<1>3. ASSUME mfaults' = 0, NEW k \in DOMAIN volumes', Holding(volumes'[k]),
             Past(mpc', at', "scan", k)
      PROVE  k \in answers'
  <2>1. (k \in DOMAIN volumes /\ Past(mpc, at, "scan", k)) \/ k \in answers'
    BY <1>3, Zenon DEF MissStep
  <2>2. CASE k \in DOMAIN volumes /\ Past(mpc, at, "scan", k)
    <3>1. volumes'[k] = volumes[k]
      BY <2>2 DEF Grows
    <3> QED
      BY <1>3, <2>2, <3>1, Zenon DEF MissInv
  <2> QED
    BY <2>1, <2>2
<1>4. ASSUME mfaults' = 0, NEW p \in Parts, NeedsTrying(machine, p),
             Past(mpc', at', "blockio", p)
      PROVE  p \in Seen'
  <2>1. Past(mpc, at, "blockio", p) \/ \E i \in DOMAIN found' : found'[i].part = p
    BY <1>4, Zenon DEF MissStep
  <2>2. CASE Past(mpc, at, "blockio", p)
    <3>1. PICK i \in DOMAIN found : found[i].part = p
      BY <1>4, <2>2, Zenon DEF MissInv, Seen
    <3>2. i \in DOMAIN found' /\ found'[i] = found[i]
      BY DEF Grows
    <3> QED
      BY <3>1, <3>2 DEF Seen
  <2> QED
    BY <2>1, <2>2 DEF Seen
<1>5. ASSUME mfaults' = 0, NEW i \in DOMAIN found', Past(mpc', at', "lvm", i)
      PROVE  found'[i].part \in pvs'
  <2>1. (i \in DOMAIN found /\ Past(mpc, at, "lvm", i)) \/ found'[i].part \in pvs'
    BY <1>5, Zenon DEF MissStep
  <2>2. CASE i \in DOMAIN found /\ Past(mpc, at, "lvm", i)
    <3>1. found'[i] = found[i]
      BY <2>2 DEF Grows
    <3> QED
      BY <1>5, <2>2, <3>1, Zenon DEF MissInv
  <2> QED
    BY <2>1, <2>2
<1>6. Parts' = Parts /\ \A p : NeedsTrying(machine', p) <=> NeedsTrying(machine, p)
  BY DEF Parts
<1> QED
  BY <1>1, <1>2, <1>3, <1>4, <1>5, <1>6, Zenon DEF MissInv

\* No loop is past anything it was not.
Unpassed ==
  /\ \A l \in Natives \cup {"media", "lvm"}, i \in DOMAIN found :
       Past(mpc', at', l, i) => Past(mpc, at, l, i)
  /\ \A p \in Parts : Past(mpc', at', "blockio", p) => Past(mpc, at, "blockio", p)
  /\ \A k \in DOMAIN volumes' : Past(mpc', at', "scan", k) =>
       k \in DOMAIN volumes /\ Past(mpc, at, "scan", k)

\* Such steps show nothing new.
LEMMA MissQuiet ==
  ASSUME MissInv, machine' = machine, Grows(volumes, volumes'), found' = found,
         answers \subseteq answers', pvs \subseteq pvs', HoldsServed,
         mfaults' = mfaults, Unpassed
  PROVE  MissInv'
<1>1. Grows(found, found')
  BY DEF Grows
<1>2. MissStep
  <2>1. \A l \in Natives \cup {"media", "lvm"}, i \in DOMAIN found' :
          Past(mpc', at', l, i) => i \in DOMAIN found /\ Past(mpc, at, l, i)
    BY DEF Unpassed
  <2>2. /\ \A p \in Parts : Past(mpc', at', "blockio", p) => Past(mpc, at, "blockio", p)
        /\ \A k \in DOMAIN volumes' : Past(mpc', at', "scan", k) =>
             k \in DOMAIN volumes /\ Past(mpc, at, "scan", k)
    BY Zenon DEF Unpassed
  <2> QED
    BY <2>1, <2>2, Zenon DEF MissStep
<1> QED
  BY <1>1, <1>2, MissKept

\* The next element of a loop that is not tracked, or is on nothing.
LEMMA UnpassedNext ==
  ASSUME MountTyped, mpc' = mpc, at' = at + 1, mpc \notin Tracked \cup {"done"}
  PROVE  Unpassed
<1>1. at \in Nat /\ mpc \in Phases \ {"scan", "done"}
      /\ DOMAIN found \subseteq Nat /\ Parts \subseteq Nat
  BY IndexFacts DEF Tracked
<1>2. \A l \in Natives \cup {"media", "lvm"}, i \in DOMAIN found :
        Past(mpc', at', l, i) => Past(mpc, at, l, i)
  BY <1>1 DEF Past, Tracked
<1>3. \A p \in Parts : Past(mpc', at', "blockio", p) => Past(mpc, at, "blockio", p)
  BY <1>1 DEF Past, Tracked
<1>4. \A k \in DOMAIN volumes' : ~ Past(mpc', at', "scan", k)
  <2>1. "scan" \in Tracked
    BY DEF Tracked
  <2> QED
    BY <1>1, <2>1, PastNone, Zenon
<1> QED
  BY <1>2, <1>3, <1>4 DEF Unpassed

\* The end of a loop, and mount_xbootldr between two.
LEMMA UnpassedEnd ==
  ASSUME MountTyped, at' = 1, volumes' = volumes \/ mpc = "xbootldr",
         (LoopEnds /\ Follows(mpc, mpc')) \/ (mpc = "xbootldr" /\ mpc' = "ext4")
  PROVE  Unpassed
<1>1. DOMAIN found \subseteq Nat \ {0} /\ Parts \subseteq Nat \ {0}
  BY IndexFacts
<1>2. LoopEnds => at \notin Over
  BY DEF LoopEnds
<1>3. /\ LoopEnds /\ mpc = "blockio" => \A p \in Parts : p < at
      /\ LoopEnds /\ mpc \in Natives \cup {"media", "lvm"} => \A i \in DOMAIN found : i < at
      /\ LoopEnds /\ mpc = "scan" => \A k \in DOMAIN volumes : k < at
  BY <1>2, LoopDone
<1>4. ASSUME NEW l \in Natives \cup {"media", "lvm"}, NEW i \in DOMAIN found,
             Past(mpc', at', l, i)
      PROVE  Past(mpc, at, l, i)
  <2>1. mpc \in Later(l) \/ mpc = l
    BY <1>1, <1>4, PastEnd DEF Tracked
  <2>2. mpc = l => LoopEnds
    BY DEF Natives
  <2> QED
    BY <1>3, <2>1, <2>2 DEF Past
<1>5. ASSUME NEW p \in Parts, Past(mpc', at', "blockio", p)
      PROVE  Past(mpc, at, "blockio", p)
  <2>1. mpc \in Later("blockio") \/ mpc = "blockio"
    BY <1>1, <1>5, PastEnd DEF Tracked
  <2> QED
    BY <1>3, <2>1 DEF Past
<1>6. ASSUME NEW k \in DOMAIN volumes', Past(mpc', at', "scan", k)
      PROVE  k \in DOMAIN volumes /\ Past(mpc, at, "scan", k)
  <2>1. CASE mpc = "xbootldr"
    <3>1. mpc' = "ext4"
      BY <2>1 DEF Follows
    <3> QED
      BY <1>6, <3>1, LaterIs DEF Past
  <2>2. CASE mpc # "xbootldr"
    <3>1. volumes' = volumes /\ LoopEnds /\ k \in Nat \ {0}
      BY <1>6, <2>2, ElementFacts
    <3>2. mpc \in Later("scan") \/ mpc = "scan"
      BY <1>6, <3>1, PastEnd DEF Tracked
    <3> QED
      BY <1>3, <1>6, <3>1, <3>2 DEF Past
  <2> QED
    BY <2>1, <2>2
<1> QED
  BY <1>4, <1>5, <1>6 DEF Unpassed

\* A volume on partition p, read by the driver via.
OnPart(v, p, via) == v.via = via /\ v.part = p

\* The fields of a volume that matter to who serves a partition.
LEMMA VolumeFields ==
  ASSUME NEW p, NEW via, NEW lv, NEW i
  PROVE  OnPart(Volume(p, via, lv, i), p, via)
BY DEF Volume, OnPart

\* The body of a mount loop.
LEMMA PassMiss ==
  ASSUME MountTyped, MissInv, NEW p, NEW via \in Natives \cup {"media", "lvm"}, NEW lv, NEW mounts,
         Pass(p, via, lv, mounts), pvs \subseteq pvs', mpc \in Natives \cup {"media", "lvm"},
         mpc # "lvm" => found[at].part = p /\ (Due(machine, p, mpc) => mounts \/ p \in blkHeld),
         mpc = "lvm" => p \in pvs' /\ (at \in DOMAIN found => found[at].part = p)
  PROVE  MissInv'
<1>1. /\ mpc' = mpc /\ at' = at + 1 /\ machine' = machine /\ found' = found /\ answers' = answers
      /\ mfaults' = mfaults /\ mounts \in BOOLEAN
      /\ mounts => blkHeld' = blkHeld \cup {p} /\ Longer(Volume(p, via, lv, Len(volumes) + 1))
      /\ ~ mounts => blkHeld' = blkHeld /\ volumes' = volumes
  BY Zenon DEF Pass
<1>2. Grows(volumes, volumes') /\ Grows(found, found')
  BY <1>1, LongerFacts DEF Grows
<1>3. mounts => Served(volumes', p)
  <2> SUFFICES ASSUME mounts PROVE Served(volumes', p)
    OBVIOUS
  <2> DEFINE k == Len(volumes) + 1
  <2>1. k \in DOMAIN volumes' /\ volumes'[k] = Volume(p, via, lv, k)
    BY <1>1, LongerFacts DEF Longer
  <2>2. volumes'[k].via = via /\ volumes'[k].part = p
    <3> DEFINE v == Volume(p, via, lv, k)
    <3>1. v.via = via /\ v.part = p
      <4> HIDE DEF k
      <4>1. OnPart(Volume(p, via, lv, k), p, via)
        BY VolumeFields, Zenon
      <4> QED
        BY <4>1, Zenon DEF OnPart
    <3> HIDE DEF k, v
    <3>2. volumes'[k] = v
      BY <2>1, Zenon DEF v
    <3> QED
      BY <3>1, <3>2, Zenon
  <2>3. via \notin {"fat", "fatro"}
    BY DEF Natives
  <2>4. Holding(volumes'[k])
    BY <2>2, <2>3 DEF Holding
  <2>5. \E i \in DOMAIN volumes' : Holding(volumes'[i]) /\ volumes'[i].part = p
    <3> HIDE DEF k
    <3> QED
      BY <2>1, <2>2, <2>4, Zenon
  <2> QED
    BY <2>5, Zenon DEF Served
<1>4. HoldsServed
  BY <1>1, <1>3 DEF HoldsServed
<1>5. p \in blkHeld => Superblock(machine, p) = "zfs" \/ Served(volumes', p)
  BY <1>2, ServedKept DEF MissInv
<1>6. at \in Nat /\ DOMAIN found \subseteq Nat /\ Parts \subseteq Nat
  BY IndexFacts
<1>7. ASSUME NEW l \in Natives \cup {"media"}, NEW i \in DOMAIN found',
             Due(machine, found'[i].part, l), Past(mpc', at', l, i)
      PROVE  (i \in DOMAIN found /\ Past(mpc, at, l, i)) \/ Served(volumes', found'[i].part)
  <2>1. i \in DOMAIN found /\ found'[i] = found[i] /\ i \in Nat
    BY <1>1, <1>6
  <2>2. Past(mpc, at, l, i) \/ (mpc = l /\ i = at)
    BY <1>1, <1>6, <1>7, <2>1, PastNext
  <2>3. ASSUME mpc = l, i = at
        PROVE  Served(volumes', found'[i].part)
    <3>1. mpc # "lvm" /\ found'[i].part = p
      BY <2>1, <2>3, Zenon DEF Natives
    <3>2. mounts \/ p \in blkHeld
      BY <1>7, <2>3, <3>1, Zenon
    <3>3. Superblock(machine, p) # "zfs"
      BY <1>7, <3>1, Zenon DEF Due, Natives
    <3> QED
      BY <1>3, <1>5, <3>1, <3>2, <3>3
  <2> QED
    BY <2>1, <2>2, <2>3, Zenon
<1>8. ASSUME NEW q \in Parts, Past(mpc', at', "blockio", q) PROVE Past(mpc, at, "blockio", q)
  <2>1. Past(mpc, at, "blockio", q) \/ (mpc = "blockio" /\ q = at)
    BY <1>1, <1>6, <1>8, PastNext
  <2> QED
    BY <2>1 DEF Natives
<1>9. ASSUME NEW i \in DOMAIN found', Past(mpc', at', "lvm", i)
      PROVE  (i \in DOMAIN found /\ Past(mpc, at, "lvm", i)) \/ found'[i].part \in pvs'
  <2>1. i \in DOMAIN found /\ found'[i] = found[i] /\ i \in Nat
    BY <1>1, <1>6
  <2>2. Past(mpc, at, "lvm", i) \/ (mpc = "lvm" /\ i = at)
    BY <1>1, <1>6, <1>9, <2>1, PastNext
  <2> QED
    BY <2>1, <2>2, Zenon
<1>10. \A k \in DOMAIN volumes' : ~ Past(mpc', at', "scan", k)
  <2>1. "scan" \in Tracked /\ mpc' \in Phases \ {"scan", "done"}
    BY <1>1, Zenon DEF Tracked, MountTyped, Natives
  <2> QED
    BY <2>1, PastNone, Zenon
<1>11. MissStep
  BY <1>7, <1>8, <1>9, <1>10, Zenon DEF MissStep
<1> QED
  BY <1>1, <1>2, <1>4, <1>11, MissKept

\* The three kinds of mount loop.
LEMMA MountMiss ==
  ASSUME MountTyped, MissInv,
         (\E fs \in Natives : MountNative(fs)) \/ MountMedia \/ MountLvm
  PROVE  MissInv'
<1>1. ASSUME NEW fs \in Natives, MountNative(fs) PROVE MissInv'
  <2> DEFINE p == found[at].part
             mounts == NativeMounts(p, fs)
  <2>1. mpc = fs /\ Pass(p, fs, "", mounts)
    BY <1>1, NativePass, Zenon
  <2>2. pvs' = pvs /\ mpc # "lvm" /\ mpc # "media"
    BY <1>1, <2>1, Zenon DEF MountNative, Natives
  <2>3. Due(machine, p, mpc) => mounts \/ p \in blkHeld
    BY <2>1, <2>2, SuperblockIs, Zenon DEF Due, NativeMounts, Part
  <2> HIDE DEF mounts
  <2> QED
    BY <2>1, <2>2, <2>3, PassMiss, Zenon
<1>2. ASSUME MountMedia PROVE MissInv'
  <2> DEFINE p == found[at].part
             mounts == MediaMounts(p)
  <2>1. mpc = "media" /\ Pass(p, "media", "", mounts)
    BY <1>2, MediaPass, Zenon
  <2>2. pvs' = pvs
    BY <1>2, Zenon DEF MountMedia
  <2>3. Due(machine, p, mpc) => mounts \/ p \in blkHeld
    BY <2>1, Zenon DEF Due, MediaMounts, Part
  <2> HIDE DEF mounts
  <2> QED
    BY <2>1, <2>2, <2>3, PassMiss, Zenon
<1>3. ASSUME MountLvm PROVE MissInv'
  <2> DEFINE p == Candidates[at]
             mounts == LvmMounts(p)
             lv == LvName(p)
  <2>1. mpc = "lvm" /\ Pass(p, "lvm", lv, mounts)
    BY <1>3, LvmPass
  <2>2. pvs' = pvs \cup {p}
    BY <1>3, Zenon DEF MountLvm
  <2>3. at \in DOMAIN found => found[at].part = p
    <3>1. at \in DOMAIN found => found # <<>>
      OBVIOUS
    <3> QED
      BY <3>1, CandidatesFacts
  <2> HIDE DEF mounts, lv, p
  <2> QED
    BY <2>1, <2>2, <2>3, PassMiss, Zenon
<1> QED
  BY <1>1, <1>2, <1>3

\* Source 3 lists what has no file system of the firmware's.
LEMMA ListMiss ==
  ASSUME MountTyped, MissInv, ScanInfo \/ ScanBlockIo
  PROVE  MissInv'
<1>1. /\ mpc \in {"info", "blockio"} /\ mpc' = mpc /\ at' = at + 1 /\ at \in Parts
      /\ UNCHANGED <<machine, sfs, blkHeld, volumes, pvs, answers, mfaults>>
  BY ScanFacts DEF Lists
<1>2. Grows(found, found') /\ Grows(volumes, volumes') /\ HoldsServed
  <2>1. Grows(found, found')
    <3>1. CASE found' = found
      BY <3>1 DEF Grows
    <3>2. CASE \E role \in {"root", "xbootldr", "opaque"} : Listed(at, role)
      BY <3>2, ElementFacts DEF Listed, Grows
    <3> QED
      BY <3>1, <3>2, ScanFacts DEF Lists
  <2> QED
    BY <1>1, <2>1 DEF Grows, HoldsServed
<1>3. /\ \A l \in Natives \cup {"media", "lvm"} : \A i : ~ Past(mpc', at', l, i)
      /\ \A k : ~ Past(mpc', at', "scan", k)
  <2>1. Natives \cup {"media", "lvm", "scan"} \subseteq Tracked \ {"blockio"}
    BY DEF Tracked, Natives
  <2> QED
    BY <1>1, <2>1, PastNone
<1>4. ASSUME NEW p \in Parts, NeedsTrying(machine, p), Past(mpc', at', "blockio", p)
      PROVE  Past(mpc, at, "blockio", p) \/ \E i \in DOMAIN found' : found'[i].part = p
  <2>1. at \in Nat /\ p \in Nat
    BY MachineFacts DEF MountTyped
  <2>2. Past(mpc, at, "blockio", p) \/ (mpc = "blockio" /\ p = at)
    BY <1>1, <1>4, <2>1, PastNext
  <2>3. ASSUME mpc = "blockio", p = at
        PROVE  \E i \in DOMAIN found' : found'[i].part = p
    <3>1. BlockIoOnly(at)
      BY <1>4, <2>3 DEF NeedsTrying, BlockIoOnly, MountTyped, Part
    <3>2. at \in Seen \/ Listed(at, "opaque")
      BY <2>3, <3>1, ScanFacts
    <3>3. CASE at \in Seen
      BY <1>2, <2>3, <3>3 DEF Seen, Grows
    <3>4. CASE Listed(at, "opaque")
      <4>1. Len(found) + 1 \in DOMAIN found' /\ found'[Len(found) + 1].part = at
        BY <3>4, ElementFacts DEF Listed
      <4> QED
        BY <2>3, <4>1
    <3> QED
      BY <3>2, <3>3, <3>4
  <2> QED
    BY <2>2, <2>3
<1>5. MissStep
  BY <1>3, <1>4, Zenon DEF MissStep
<1> QED
  BY <1>1, <1>2, <1>5, MissKept

\* A volume that holds BlockIO can always be read.
LEMMA ReadMiss ==
  ASSUME MountTyped, MissInv, ReadVolume
  PROVE  MissInv'
<1>1. /\ mpc = "scan" /\ mpc' = mpc /\ at' = at + 1
      /\ UNCHANGED <<machine, blkHeld, found, volumes, pvs, mfaults>>
      /\ answers' = IF CanRead(volumes[at]) THEN answers \cup {at} ELSE answers
  BY DEF ReadVolume
<1>2. /\ Grows(found, found') /\ Grows(volumes, volumes') /\ HoldsServed
      /\ answers \subseteq answers'
  BY <1>1 DEF Grows, HoldsServed
<1>3. at \in Nat /\ DOMAIN found \subseteq Nat /\ Parts \subseteq Nat /\ DOMAIN volumes \subseteq Nat
  BY IndexFacts
<1>4. \A l, i : i \in Nat /\ Past(mpc', at', l, i) => Past(mpc, at, l, i) \/ (l = "scan" /\ i = at)
  BY <1>1, <1>3, PastNext
<1>5. ASSUME NEW k \in DOMAIN volumes', Holding(volumes'[k]), Past(mpc', at', "scan", k)
      PROVE  (k \in DOMAIN volumes /\ Past(mpc, at, "scan", k)) \/ k \in answers'
  <2>1. k \in DOMAIN volumes /\ volumes'[k] = volumes[k] /\ k \in Nat
    BY <1>1, <1>3
  <2>2. Past(mpc, at, "scan", k) \/ k = at
    BY <1>4, <1>5, <2>1
  <2>3. k = at => k \in answers'
    BY <1>1, <1>5, <2>1 DEF Holding, CanRead
  <2> QED
    BY <2>1, <2>2, <2>3
<1>6. \A l \in Natives \cup {"media", "lvm"}, i \in DOMAIN found' :
        Past(mpc', at', l, i) => i \in DOMAIN found /\ Past(mpc, at, l, i)
  BY <1>1, <1>3, <1>4 DEF Natives
<1>7. \A p \in Parts : Past(mpc', at', "blockio", p) => Past(mpc, at, "blockio", p)
  BY <1>3, <1>4
<1>8. MissStep
  BY <1>5, <1>6, <1>7, Zenon DEF MissStep
<1> QED
  BY <1>1, <1>2, <1>8, MissKept

\* MissInv is kept by every step.
LEMMA MissNext == ListInv /\ MissInv /\ [MountNext]_mountVars => MissInv'
<1> SUFFICES ASSUME MountTyped, MissInv, [MountNext]_mountVars PROVE MissInv'
  BY DEF ListInv
<1>1. CASE MountEsp
  <2>1. /\ UNCHANGED <<machine, blkHeld, found, volumes, pvs, answers, mfaults>>
        /\ mpc' = "enumerate"
    BY <1>1 DEF MountEsp
  <2>2. Unpassed
    <3>1. Natives \cup {"blockio", "media", "lvm", "scan"} \subseteq Tracked
      BY DEF Tracked
    <3> QED
      BY <2>1, <3>1, PastNone, Zenon DEF Unpassed
  <2>3. Grows(volumes, volumes') /\ HoldsServed
    BY <2>1 DEF Grows, HoldsServed
  <2> QED
    BY <2>1, <2>2, <2>3, MissQuiet
<1>2. CASE Enumerate
  <2>1. /\ UNCHANGED <<machine, blkHeld, found, pvs, answers, mfaults>>
        /\ mpc = "enumerate" /\ mpc' = mpc /\ at' = at + 1
    BY <1>2, EnumerateFacts, Zenon
  <2>2. Grows(volumes, volumes')
    <3>1. CASE volumes' = volumes
      BY <3>1 DEF Grows
    <3>2. CASE Longer(Volume(at, "fat", "", Len(volumes) + 1))
      BY <3>2, LongerFacts, Zenon
    <3> QED
      BY <1>2, <3>1, <3>2, EnumerateFacts, Zenon
  <2>3. Unpassed
    BY <2>1, UnpassedNext DEF Tracked, Natives
  <2>4. HoldsServed
    BY <2>1 DEF HoldsServed
  <2> QED
    BY <2>1, <2>2, <2>3, <2>4, MissQuiet
<1>3. CASE ScanInfo \/ ScanBlockIo
  BY <1>3, ListMiss
<1>4. CASE ProbeAll
  <2>1. /\ UNCHANGED <<machine, blkHeld, found, volumes, pvs, answers, mfaults>>
        /\ mpc = "probe" /\ mpc' = mpc /\ at' = at + 1
    BY <1>4, LooksFacts DEF Looks
  <2>2. Unpassed
    BY <2>1, UnpassedNext DEF Tracked, Natives
  <2>3. Grows(volumes, volumes') /\ HoldsServed
    BY <2>1 DEF Grows, HoldsServed
  <2> QED
    BY <2>1, <2>2, <2>3, MissQuiet
<1>5. CASE MountXbootldr
  <2>1. /\ UNCHANGED <<machine, blkHeld, found, pvs, answers, mfaults>>
        /\ mpc = "xbootldr" /\ mpc' = "ext4" /\ at' = 1
    BY <1>5, XbootldrFacts, Zenon
  <2>2. Grows(volumes, volumes')
    <3>1. CASE volumes' = volumes
      BY <3>1 DEF Grows
    <3>2. CASE \E p \in Parts : Longer(Volume(p, XbootldrBackend(p), "", MaxIndex))
      BY <3>2, LongerFacts, Zenon
    <3> QED
      BY <1>5, <3>1, <3>2, XbootldrFacts, Zenon
  <2>3. Unpassed
    BY <2>1, UnpassedEnd
  <2>4. HoldsServed
    BY <2>1 DEF HoldsServed
  <2> QED
    BY <2>1, <2>2, <2>3, <2>4, MissQuiet
<1>6. CASE MountExt4 \/ MountBtrfs \/ MountXfs \/ MountExFat
  BY <1>6, NativeCases, MountMiss
<1>7. CASE MountMedia \/ MountLvm
  BY <1>7, MountMiss
<1>8. CASE GatherZfs
  <2>1. /\ UNCHANGED <<machine, found, volumes, pvs, answers, mfaults>>
        /\ mpc = "zfs" /\ mpc' = mpc /\ at' = at + 1
        /\ Gathers(found[at].part) \/ blkHeld' = blkHeld
    BY <1>8, GatherFacts
  <2>2. HoldsServed
    BY <2>1, SuperblockIs, Zenon DEF Gathers, HoldsServed
  <2>3. Unpassed
    BY <2>1, UnpassedNext DEF Tracked, Natives
  <2>4. Grows(volumes, volumes')
    BY <2>1 DEF Grows
  <2> QED
    BY <2>1, <2>2, <2>3, <2>4, MissQuiet
<1>9. CASE ImportPool
  <2>1. PICK g \in DOMAIN pools, n \in 0 .. 2 : Imports(g, n)
    BY <1>9, ImportFacts
  <2>2. /\ UNCHANGED <<machine, found, pvs, answers, mfaults, at>>
        /\ mpc = "import" /\ mpc' = mpc /\ blkHeld' \subseteq blkHeld
        /\ DOMAIN volumes' = 1 .. Len(volumes) + n
        /\ \A i \in DOMAIN volumes : volumes'[i] = volumes[i]
    BY <2>1 DEF Imports
  <2>3. Grows(volumes, volumes')
    BY <2>2, ElementFacts DEF Grows
  <2>4. HoldsServed
    BY <2>2 DEF HoldsServed
  <2>5. Unpassed
    <3>1. mpc' \in Phases \ {"scan", "done"} /\ "scan" \in Tracked
      BY <2>2 DEF Phases, Tracked
    <3>2. \A k : ~ Past(mpc', at', "scan", k)
      BY <3>1, PastNone, Zenon
    <3> QED
      BY <2>2, <3>2, Zenon DEF Unpassed
  <2> QED
    BY <2>2, <2>3, <2>4, <2>5, MissQuiet
<1>10. CASE ReadVolume
  BY <1>10, ReadMiss
<1>11. CASE LoopEnds
  <2>1. UNCHANGED <<machine, blkHeld, found, volumes, pvs, answers, mfaults>> /\ at' = 1
    BY <1>11 DEF LoopEnds
  <2>2. Unpassed
    BY <1>11, <2>1, LoopOrder, UnpassedEnd
  <2>3. Grows(volumes, volumes') /\ HoldsServed
    BY <2>1 DEF Grows, HoldsServed
  <2> QED
    BY <2>1, <2>2, <2>3, MissQuiet
<1>12. CASE BodyFails
  <2>1. /\ UNCHANGED <<machine, blkHeld, found, volumes, pvs, answers>>
        /\ mfaults' = mfaults + 1
    BY <1>12, LooksFacts DEF Looks
  <2>2. mfaults' # 0
    BY <2>1 DEF MountTyped
  <2>3. Grows(volumes, volumes') /\ Grows(found, found') /\ HoldsServed
    BY <2>1 DEF Grows, HoldsServed
  <2> QED
    BY <2>1, <2>2, <2>3, MissKept
<1>13. CASE Hang
  <2>1. /\ UNCHANGED <<machine, blkHeld, found, volumes, pvs, answers, mfaults>>
        /\ mpc' = "hung"
    BY <1>13 DEF Hang
  <2>2. Unpassed
    <3>1. Natives \cup {"blockio", "media", "lvm", "scan"} \subseteq Tracked
      BY DEF Tracked
    <3> QED
      BY <2>1, <3>1, PastNone DEF Unpassed
  <2>3. Grows(volumes, volumes') /\ HoldsServed
    BY <2>1 DEF Grows, HoldsServed
  <2> QED
    BY <2>1, <2>2, <2>3, MissQuiet
<1>14. CASE UNCHANGED mountVars
  <2>1. UNCHANGED <<machine, mpc, at, blkHeld, found, volumes, pvs, answers, mfaults>>
    BY <1>14 DEF mountVars
  <2>2. Unpassed /\ Grows(volumes, volumes') /\ HoldsServed
    BY <2>1 DEF Unpassed, Grows, HoldsServed
  <2> QED
    BY <2>1, <2>2, MissQuiet
<1> QED
  BY <1>1, <1>2, <1>3, <1>4, <1>5, <1>6, <1>7, <1>8, <1>9, <1>10, <1>11, <1>12, <1>13, <1>14
  DEF MountNext

\* MissInv is an invariant.
LEMMA MissInvHolds == MountSpec => []MissInv
<1>1. MountInit => MissInv
  <2> SUFFICES ASSUME MountInit PROVE MissInv
    OBVIOUS
  <2>1. blkHeld = {} /\ DOMAIN found = {} /\ DOMAIN volumes = {} /\ mpc = "esp"
    BY DEF MountInit
  <2>2. \A p : ~ Past(mpc, at, "blockio", p)
    <3>1. "blockio" \in Tracked
      BY DEF Tracked
    <3> QED
      BY <2>1, <3>1, PastNone
  <2> QED
    BY <2>1, <2>2, Zenon DEF MissInv
<1> QED
  BY <1>1, ListInvHolds, MissNext, PTL DEF MountSpec

\* When nothing fails, no pass takes away what a later one would mount: every
\* listed partition with a sound file system of a kind LamBoot reads natively
\* can be read in the end, and every partition with an LVM label has been tried
\* unless the firmware serves a file system on it (main.rs, the mount loops).
THEOREM NothingMissedHolds == MountSpec => []NothingMissed
<1>1. ASSUME ListInv, MissInv PROVE NothingMissed
  <2> SUFFICES ASSUME mpc = "done", mfaults = 0 PROVE NothingMissed
    BY DEF NothingMissed, NativeIsRead, EveryPvTried
  <2>1. \A l \in Tracked : \A i : Past(mpc, at, l, i)
    BY LaterIs DEF Tracked, Natives, Past
  <2>2. Natives \cup {"media"} \subseteq Tracked /\ {"scan", "blockio", "lvm"} \subseteq Tracked
    BY DEF Tracked
  <2>3. ASSUME NEW p \in Seen,
               Recognised(p) \in ({"ext4", "btrfs", "xfs", "exfat"} \cup Media) \cap Part(p).sound
        PROVE  \E i \in answers : volumes[i].part = p
    <3>1. PICK i \in DOMAIN found : found[i].part = p
      BY DEF Seen
    <3>2. \E l \in Natives \cup {"media"} : Due(machine, p, l)
      <4>1. CASE ProbeSuperblock(p) # "unknown"
        <5>1. Recognised(p) = ProbeSuperblock(p)
          BY <4>1 DEF Recognised
        <5>2. ProbeSuperblock(p) \in Natives
          BY <2>3, <4>1, <5>1, SuperblockFacts DEF Natives, Media
        <5>3. Due(machine, p, ProbeSuperblock(p))
          BY <2>3, <5>1, <5>2, SuperblockIs DEF Due, Natives, Part
        <5> QED
          BY <5>2, <5>3
      <4>2. CASE ProbeSuperblock(p) = "unknown"
        <5>1. Recognised(p) = ProbeSource(Part(p).sigs)
          BY <4>2 DEF Recognised
        <5>2. ProbeSource(Part(p).sigs) \notin {"ext4", "btrfs", "xfs", "exfat"}
          BY <4>2, SuperblockFacts, SourceFacts
        <5>3. ProbeSource(Part(p).sigs) \in Media \cap Part(p).sound
          BY <2>3, <5>1, <5>2
        <5>4. Due(machine, p, "media")
          BY <4>2, <5>3, SuperblockIs DEF Due, Part
        <5> QED
          BY <5>4
      <4> QED
        BY <4>1, <4>2
    <3>3. PICK l \in Natives \cup {"media"} : Due(machine, p, l)
      BY <3>2
    <3>4. Past(mpc, at, l, i)
      BY <2>1, <2>2, Zenon
    <3>5. Served(volumes, p)
      BY <1>1, <3>1, <3>3, <3>4, Zenon DEF MissInv
    <3>6. PICK k \in DOMAIN volumes : Holding(volumes[k]) /\ volumes[k].part = p
      BY <3>5 DEF Served
    <3>7. Past(mpc, at, "scan", k)
      BY <2>1, <2>2, Zenon
    <3> QED
      BY <1>1, <3>6, <3>7, Zenon DEF MissInv
  <2>4. ASSUME NEW p \in Parts, Part(p).logical, ~ Part(p).sfs, "lvm" \in Part(p).sigs
        PROVE  p \in pvs
    <3>1. NeedsTrying(machine, p)
      BY <2>4 DEF NeedsTrying, Part
    <3>2. Past(mpc, at, "blockio", p)
      BY <2>1, <2>2, Zenon
    <3>3. p \in Seen
      BY <1>1, <3>1, <3>2, Zenon DEF MissInv
    <3>4. PICK i \in DOMAIN found : found[i].part = p
      BY <3>3 DEF Seen
    <3>5. Past(mpc, at, "lvm", i)
      BY <2>1, <2>2, Zenon
    <3> QED
      BY <1>1, <3>4, <3>5, Zenon DEF MissInv
  <2> QED
    BY <2>3, <2>4 DEF NothingMissed, NativeIsRead, EveryPvTried
<1> QED
  BY <1>1, ListInvHolds, MissInvHolds, PTL
=============================================================================
