----------------------------- MODULE BlockSource -----------------------------
(***************************************************************************)
(* Reading bytes from blocks: block_source.rs (the aligned read, the two   *)
(* sources and the fill loop every native filesystem reader sits on), the  *)
(* FAT adapter of fs_backend_fat_ro.rs, which repeats the first source,    *)
(* its lenient loop, and the allocation cap of read_limit_pure.rs.         *)
(*                                                                         *)
(* The byte at address p of the device is p, so a buffer shows where its   *)
(* bytes came from.  u64 and usize hold numbers below twice HalfWord and   *)
(* i64 those below it; the checked and saturating operations are those of  *)
(* the code.                                                               *)
(***************************************************************************)
EXTENDS Integers, Sequences

CONSTANTS
  HalfWord,    \* half the values of a u64: 2^63 in the code
  Devices,     \* block size and last block of the media
  Regions,     \* file regions: their base on the device and their length
  Offsets,     \* offsets a reader asks for
  Lengths,     \* and lengths
  MAX_BOOT_FILE_BYTES

VARIABLES
  dev,       \* the media, as its BlockIO protocol describes it
  src,       \* the source: the device or a file region, and its length
  position,  \* the source's cursor
  rpc,       \* "idle", "fill", "ok" or "error"
  ask,       \* the request: offset, length, and whether a short end is fine
  out,       \* the bytes filled so far
  touched,   \* history: the last run of blocks read
  rounds     \* reads of the source for this request

sourceVars == <<dev, src, position, rpc, ask, out, touched, rounds>>

MAX_U == 2 * HalfWord - 1
MAX_I == HalfWord - 1
Least(m, n) == IF m < n THEN m ELSE n

ASSUME SourceAssumption ==
  /\ HalfWord \in Nat /\ HalfWord >= 2
  /\ Devices \subseteq [bs : 0..MAX_U, last : 0..MAX_U]
  /\ Regions \subseteq [base : 0..MAX_U, len : 0..MAX_U]
  /\ Offsets \subseteq 0..MAX_U /\ Lengths \subseteq 0..MAX_U
  /\ MAX_BOOT_FILE_BYTES \in Nat

NoAsk == [offset |-> 0, len |-> 0, lenient |-> FALSE]
Untouched == [first |-> 0, count |-> 0]
-----------------------------------------------------------------------------
(* Arithmetic *)

SaturatingAdd(m, n) == Least(m + n, MAX_U)
SaturatingMul(m, n) == Least(m * n, MAX_U)
SaturatingSub(m, n) == IF m < n THEN 0 ELSE m - n

\* from_block_io: the byte count of the media.
MediaLen(d) == SaturatingMul(SaturatingAdd(d.last, 1), d.bs)

\* compute_aligned_read: None where a checked operation fails.
AlignedRead(start, len, bs) ==
  LET first == start \div bs
      count == (start + len - 1) \div bs - first + 1
      intra == start - first * bs
  IN  IF \/ len = 0 \/ bs = 0
         \/ start + len > MAX_U
         \/ count * bs > MAX_U
         \/ intra + len > count * bs
      THEN [some |-> FALSE]
      ELSE [some |-> TRUE, first |-> first, count |-> count, intra |-> intra]

\* SeekFrom::End and SeekFrom::Current: -1 where the code returns an error.
SeekTo(from, x) ==
  IF from > MAX_I \/ from + x > MAX_I \/ from + x < 0 THEN -1 ELSE from + x

\* checked_read_len.
CheckedReadLen(size) == size <= MAX_BOOT_FILE_BYTES
-----------------------------------------------------------------------------
(* Requests *)

SourceInit ==
  /\ dev \in {d \in Devices : d.bs > 0}
  /\ src \in {[file |-> FALSE, base |-> 0, len |-> MediaLen(dev)]} \cup
             {[file |-> TRUE, base |-> r.base, len |-> r.len] :
                r \in {q \in Regions : q.base + q.len <= MediaLen(dev)}}
  /\ position = 0
  /\ rpc = "idle"
  /\ ask = NoAsk
  /\ out = <<>>
  /\ touched = Untouched
  /\ rounds = 0

Begin(a, at) ==
  /\ ask' = a
  /\ position' = at
  /\ out' = <<>>
  /\ rounds' = 0
  /\ touched' = Untouched
  /\ rpc' = IF a.len = 0 THEN "ok" ELSE "fill"

\* SourceReader::fill_at: nothing is touched for an empty buffer.
FillAt ==
  /\ rpc \in {"idle", "ok", "error"}
  /\ \E offset \in Offsets, len \in Lengths :
       Begin([offset |-> offset, len |-> len, lenient |-> FALSE],
             IF len = 0 THEN position ELSE offset)
  /\ UNCHANGED <<dev, src>>

\* FatRoBackend::read: the size by a seek to the end, the cap, then the loop;
\* and read_at, from an offset.
ReadWhole ==
  /\ rpc \in {"idle", "ok", "error"}
  /\ LET size == SeekTo(src.len, 0)
     IN  IF size < 0 \/ ~CheckedReadLen(size)
         THEN rpc' = "error" /\ UNCHANGED <<position, ask, out, touched, rounds>>
         ELSE Begin([offset |-> 0, len |-> size, lenient |-> TRUE], 0)
  /\ UNCHANGED <<dev, src>>

ReadPart ==
  /\ rpc \in {"idle", "ok", "error"}
  /\ \E offset \in Offsets, len \in Lengths :
       Begin([offset |-> offset, len |-> len, lenient |-> TRUE], offset)
  /\ UNCHANGED <<dev, src>>

\* A seek between requests, relative to the end or to the cursor.
Seek ==
  /\ rpc \in {"idle", "ok", "error"}
  /\ \E from \in {src.len, position}, x \in {-1, 0, 1, MAX_I} :
       LET new == SeekTo(from, x)
       IN  /\ position' = IF new < 0 THEN position ELSE new
           /\ rpc' = IF new < 0 THEN "error" ELSE "idle"
  /\ ask' = NoAsk /\ out' = <<>> /\ touched' = Untouched /\ rounds' = 0
  /\ UNCHANGED <<dev, src>>
-----------------------------------------------------------------------------
(* One read of the source *)

Wanted == ask.len - Len(out)
Remaining == SaturatingSub(src.len, position)

Want == Least(Wanted, Remaining)

\* The bytes of n places of the device from p on.
DeviceBytes(p, n) == [k \in 1..n |-> p + k - 1]

\* The loop ends where a read brings nothing: an error for fill_at, a short
\* result for fill_from_file.
AtEnd ==
  /\ rpc = "fill"
  /\ Remaining = 0
  /\ rpc' = IF ask.lenient THEN "ok" ELSE "error"
  /\ rounds' = rounds + 1
  /\ UNCHANGED <<dev, src, position, ask, out, touched>>

\* n bytes arrived from place p of the device.
Arrive(p, n) ==
  /\ out' = out \o DeviceBytes(p, n)
  /\ position' = SaturatingAdd(position, n)
  /\ rpc' = IF Len(out) + n = ask.len THEN "ok" ELSE "fill"
  /\ rounds' = rounds + 1

\* Seeded defect: the bytes are taken from the start of the block.
BlockReadUnshifted ==
  /\ rpc = "fill" /\ ~src.file
  /\ Remaining > 0
  /\ LET r == AlignedRead(position, Want, dev.bs)
     IN  /\ r.some /\ r.first + r.count <= dev.last + 1
         /\ touched' = [first |-> r.first, count |-> r.count]
         /\ Arrive(r.first * dev.bs, Want)
  /\ UNCHANGED <<dev, src, ask>>

\* BlockIoSource::read, and BlockIoFatAdapter::read: whole blocks are read and
\* the bytes asked for cut out of them.  The firmware refuses blocks that the
\* media does not have.
BlockRead ==
  /\ rpc = "fill" /\ ~src.file
  /\ Remaining > 0
  /\ LET r == AlignedRead(position, Want, dev.bs)
     IN  /\ r.some /\ r.first + r.count <= dev.last + 1
         /\ touched' = [first |-> r.first, count |-> r.count]
         /\ Arrive(r.first * dev.bs + r.intra, Want)
  /\ UNCHANGED <<dev, src, ask>>

\* FileBlockSource::read: the holding backend may return fewer bytes.
FileRead ==
  /\ rpc = "fill" /\ src.file
  /\ Remaining > 0
  /\ \E n \in 1..Want : Arrive(src.base + position, n)
  /\ touched' = Untouched
  /\ UNCHANGED <<dev, src, ask>>

\* The firmware or the backend fails (a backend that is busy, too), or the
\* arithmetic of the aligned read would overflow.
ReadFails ==
  /\ rpc = "fill"
  /\ Remaining > 0
  /\ rpc' = "error"
  /\ rounds' = rounds + 1
  /\ UNCHANGED <<dev, src, position, ask, out, touched>>

SourceReads == AtEnd \/ BlockRead \/ FileRead \/ ReadFails

SourceNext == FillAt \/ ReadWhole \/ ReadPart \/ Seek \/ SourceReads

SourceSpec == SourceInit /\ [][SourceNext]_sourceVars
-----------------------------------------------------------------------------
(* Properties *)

\* What a reader is given is what the source holds from the offset on, however
\* the reads were aligned, cut short or split: all of it from fill_at, and from
\* the lenient loop all there is up to the end of the source.
BytesAsAsked ==
  /\ out = DeviceBytes(src.base + ask.offset, Len(out))
  /\ rpc = "ok" => Len(out) = IF ask.lenient
                              THEN Least(ask.len, SaturatingSub(src.len, ask.offset))
                              ELSE ask.len

\* No read names a block the media does not have, up to the last byte of a
\* media whose byte count saturates.
InsideMedia ==
  /\ touched.first + touched.count <= dev.last + 1
  /\ rpc = "fill" /\ ~src.file /\ Remaining > 0 =>
       LET r == AlignedRead(position, Want, dev.bs)
       IN  r.some => r.first + r.count <= dev.last + 1

\* The cursor is the offset plus what has arrived, after an error as well: a
\* failed read consumes nothing.
CursorFollows ==
  rpc = "fill" \/ (rpc = "error" /\ ask.len > 0 /\ rounds > 0) =>
    position = ask.offset + Len(out)

\* The loops end: a request takes at most one read per byte, and one more that
\* finds the end of the source.
BoundedRounds == rounds <= ask.len + 1
=============================================================================
