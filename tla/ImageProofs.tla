---------------------------- MODULE ImageProofs -----------------------------
(***************************************************************************)
(* From a file to a started image.                                         *)
(*                                                                         *)
(* BlockSource: reading bytes from blocks, for every block size, media,    *)
(* file region and request, and for words of any width.  While a request   *)
(* is filled the cursor is the offset plus what has arrived, and what has  *)
(* arrived came from in front of the end of the source: so the cursor      *)
(* never saturates, and the next bytes follow the last ones.               *)
(*                                                                         *)
(* PeImage: the native PE loader on any file: any header fields, any       *)
(* number of sections up to the code's limit and any relocation directory. *)
(* What validate_headers admits bounds the copies, a block whose size was  *)
(* checked bounds the entries read until the next block, and what has been *)
(* fixed up are the entries before the cursor.                             *)
(*                                                                         *)
(* ImageLoad: the hooks of security_override.rs for any kernels, drivers   *)
(* and number of selections: they are in the firmware's protocols in the   *)
(* two guarded scopes and nowhere else, and always with the firmware's own *)
(* functions as the originals.                                             *)
(***************************************************************************)
EXTENDS BlockSource, PeImage, ImageLoad, Induction
-----------------------------------------------------------------------------
(* BlockSource *)

\* compute_aligned_read: the blocks from the first byte's to the last one's, and
\* the place of the first byte in them.
LEMMA AlignedFields ==
  ASSUME NEW start \in Nat, NEW len \in Nat \ {0}, NEW bs \in Nat \ {0},
         AlignedRead(start, len, bs).some
  PROVE  LET r == AlignedRead(start, len, bs)
         IN  /\ r.first \in Nat /\ r.count \in Nat /\ r.first * bs + r.intra = start
             /\ r.first + r.count = ((start + len - 1) \div bs) + 1
<1> DEFINE first == start \div bs
           last == (start + len - 1) \div bs
<1>1. first \in Nat /\ last \in Nat /\ first <= last
  <2>1. start + len - 1 \in Nat /\ start <= start + len - 1
    OBVIOUS
  <2>2. first \in Nat /\ last \in Nat /\ bs * first <= start
        /\ start + len - 1 < bs * (last + 1)
    BY <2>1
  <2> HIDE DEF first, last
  <2>3. bs * first < bs * (last + 1)
    BY <2>1, <2>2
  <2> QED BY <2>2, <2>3
<1>2. AlignedRead(start, len, bs) =
        [some |-> TRUE, first |-> first, count |-> last - first + 1,
         intra |-> start - first * bs]
  BY DEF AlignedRead
<1> HIDE DEF first, last
<1>3. first * bs \in Nat
  BY <1>1
<1>4. /\ last - first + 1 \in Nat /\ first * bs + (start - first * bs) = start
      /\ first + (last - first + 1) = last + 1
  BY <1>1, <1>3
<1>5. last = (start + len - 1) \div bs
  BY DEF last
<1> QED BY <1>1, <1>2, <1>4, <1>5

\* The quotient of a number below a multiple.
LEMMA DivBelow ==
  ASSUME NEW a \in Nat, NEW b \in Nat \ {0}, NEW q \in Nat, a < q * b
  PROVE  a \div b \in Nat /\ a \div b < q
<1>1. a \div b \in Nat /\ b * (a \div b) <= a
  OBVIOUS
<1>2. ASSUME NEW d \in Nat, d >= q PROVE b * d >= q * b
  BY <1>2
<1> QED BY <1>1, <1>2

\* Bytes that follow bytes.
LEMMA BytesFollow ==
  ASSUME NEW p \in Nat, NEW m \in Nat, NEW n \in Nat
  PROVE  DeviceBytes(p, m) \o DeviceBytes(p + m, n) = DeviceBytes(p, m + n)
  BY DEF DeviceBytes

\* The numbers of a u64.
LEMMA Words == MAX_U \in Nat /\ MAX_I \in Nat /\ MAX_I <= MAX_U
  BY SourceAssumption DEF MAX_U, MAX_I

Asks == [offset : 0 .. MAX_U, len : 0 .. MAX_U, lenient : BOOLEAN]

\* The types, and what from_block_io and FileBlockSource::new establish.
SourceTypeOK ==
  /\ dev \in Devices /\ dev.bs > 0
  /\ src \in [file : BOOLEAN, base : Nat, len : 0 .. MAX_U]
  /\ ~src.file => src.base = 0 /\ src.len = MediaLen(dev)
  /\ position \in 0 .. MAX_U
  /\ rpc \in {"idle", "fill", "ok", "error"}
  /\ ask \in Asks
  /\ out \in Seq(Nat) /\ rounds \in Nat
  /\ touched \in [first : Nat, count : Nat]

\* While a request is filled.
Filling ==
  /\ position = ask.offset + Len(out)
  /\ Len(out) < ask.len
  /\ Len(out) > 0 => position <= src.len
  /\ rounds <= Len(out)

SourceInv ==
  /\ SourceTypeOK
  /\ rpc = "fill" => Filling
  /\ rounds > 0 => position = ask.offset + Len(out)
  /\ touched.first + touched.count <= dev.last + 1
  /\ BytesAsAsked
  /\ CursorFollows
  /\ BoundedRounds

\* The fields of the state's records.
LEMMA SourceFields ==
  ASSUME SourceTypeOK
  PROVE  /\ dev.bs \in Nat \ {0} /\ dev.last \in Nat
         /\ src.file \in BOOLEAN /\ src.base \in Nat /\ src.len \in 0 .. MAX_U
         /\ ask.offset \in 0 .. MAX_U /\ ask.len \in 0 .. MAX_U /\ ask.lenient \in BOOLEAN
         /\ Len(out) \in Nat
<1>1. dev \in [bs : 0 .. MAX_U, last : 0 .. MAX_U] /\ dev.bs > 0
  BY SourceAssumption DEF SourceTypeOK
<1> QED BY <1>1, Words DEF SourceTypeOK, Asks

\* The media's byte count is a number of a u64, and no more than it has.
LEMMA MediaBytes ==
  ASSUME NEW d \in [bs : 0 .. MAX_U, last : 0 .. MAX_U]
  PROVE  MediaLen(d) \in 0 .. MAX_U /\ MediaLen(d) <= (d.last + 1) * d.bs
<1> DEFINE blocks == SaturatingAdd(d.last, 1)
<1>1. d.bs \in Nat /\ d.last \in Nat /\ blocks \in Nat /\ blocks <= d.last + 1
  BY Words DEF SaturatingAdd, Least
<1> HIDE DEF blocks
<1>2. blocks * d.bs \in Nat /\ blocks * d.bs <= (d.last + 1) * d.bs
  BY <1>1
<1>3. MediaLen(d) = Least(blocks * d.bs, MAX_U)
  BY DEF MediaLen, SaturatingMul, blocks
<1> QED BY <1>2, <1>3, Words DEF Least

\* A new source.
LEMMA SourceInitInv == SourceInit => SourceInv
<1> SUFFICES ASSUME SourceInit PROVE SourceInv
  OBVIOUS
<1>1. dev \in Devices /\ dev \in [bs : 0 .. MAX_U, last : 0 .. MAX_U] /\ dev.bs > 0
  BY SourceAssumption DEF SourceInit
<1>2. MediaLen(dev) \in 0 .. MAX_U
  BY <1>1, MediaBytes
<1>3. src \in [file : BOOLEAN, base : Nat, len : 0 .. MAX_U]
      /\ (~src.file => src.base = 0 /\ src.len = MediaLen(dev))
  <2>1. CASE src = [file |-> FALSE, base |-> 0, len |-> MediaLen(dev)]
    BY <1>2, <2>1
  <2>2. CASE \E r \in Regions : src = [file |-> TRUE, base |-> r.base, len |-> r.len]
    <3>1. PICK r \in Regions : src = [file |-> TRUE, base |-> r.base, len |-> r.len]
      BY <2>2, Zenon
    <3>2. r.base \in Nat /\ r.len \in 0 .. MAX_U
      BY SourceAssumption, Words
    <3> QED BY <3>1, <3>2
  <2> QED BY <2>1, <2>2 DEF SourceInit
<1>4. SourceTypeOK
  BY <1>1, <1>3, Words DEF SourceInit, SourceTypeOK, Asks, NoAsk, Untouched
<1>5. out = <<>> /\ Len(out) = 0 /\ rpc = "idle" /\ rounds = 0 /\ ask = NoAsk
      /\ touched = Untouched
  BY DEF SourceInit
<1>6. BytesAsAsked
  BY <1>5 DEF BytesAsAsked, DeviceBytes
<1>7. CursorFollows /\ BoundedRounds
  BY <1>5 DEF CursorFollows, BoundedRounds, NoAsk
<1>8. touched.first + touched.count <= dev.last + 1
  BY <1>4, <1>5, SourceFields DEF Untouched
<1> QED BY <1>4, <1>5, <1>6, <1>7, <1>8 DEF SourceInv

\* A request begins with nothing filled.
LEMMA BeginInv ==
  ASSUME SourceInv, UNCHANGED <<dev, src>>, NEW a \in Asks, NEW at \in 0 .. MAX_U,
         Begin(a, at), a.len > 0 => at = a.offset
  PROVE  SourceInv'
<1>1. /\ ask' = a /\ position' = at /\ out' = <<>> /\ rounds' = 0 /\ touched' = Untouched
      /\ rpc' = IF a.len = 0 THEN "ok" ELSE "fill"
  BY DEF Begin
<1>2. a.offset \in Nat /\ a.len \in Nat /\ a.lenient \in BOOLEAN
  BY Words DEF Asks
<1>3. SourceTypeOK'
  BY <1>1 DEF SourceInv, SourceTypeOK, Untouched, MediaLen
<1>4. out' = <<>> /\ Len(out') = 0
  BY <1>1
<1>5. rpc' = "fill" => Filling'
  BY <1>1, <1>2, <1>4 DEF Filling
<1>6. BytesAsAsked'
  <2>1. out' = DeviceBytes(src.base + ask.offset, Len(out))'
    BY <1>4 DEF DeviceBytes
  <2>2. rpc' = "ok" => ask'.len = 0
    BY <1>1, <1>2
  <2>3. SaturatingSub(src'.len, ask'.offset) \in Nat
    BY <1>1, <1>2, SourceFields, Words, SMTT(30) DEF SaturatingSub, SourceInv
  <2> QED BY <1>1, <1>2, <1>4, <2>1, <2>2, <2>3 DEF BytesAsAsked, Least
<1>7. CursorFollows' /\ BoundedRounds'
  BY <1>1, <1>2, <1>4 DEF CursorFollows, BoundedRounds
<1>8. (touched.first + touched.count <= dev.last + 1)'
  BY <1>1, SourceFields DEF Untouched, SourceInv
<1> QED BY <1>1, <1>3, <1>5, <1>6, <1>7, <1>8 DEF SourceInv

\* fill_at, read_at, and the read of a whole file.
LEMMA RequestInv == SourceInv /\ (FillAt \/ ReadPart \/ ReadWhole) => SourceInv'
<1> SUFFICES ASSUME SourceInv, FillAt \/ ReadPart \/ ReadWhole PROVE SourceInv'
  OBVIOUS
<1>1. CASE FillAt
  <2>1. PICK offset \in Offsets, len \in Lengths :
          Begin([offset |-> offset, len |-> len, lenient |-> FALSE],
                IF len = 0 THEN position ELSE offset)
    BY <1>1, Zenon DEF FillAt
  <2>2. [offset |-> offset, len |-> len, lenient |-> FALSE] \in Asks
        /\ (IF len = 0 THEN position ELSE offset) \in 0 .. MAX_U
    BY SourceAssumption DEF Asks, SourceInv, SourceTypeOK
  <2>3. UNCHANGED <<dev, src>>
    BY <1>1 DEF FillAt
  <2>4. len > 0 => (IF len = 0 THEN position ELSE offset) = offset
    OBVIOUS
  <2> QED BY <2>1, <2>2, <2>3, <2>4, BeginInv
<1>2. CASE ReadPart
  <2>1. PICK offset \in Offsets, len \in Lengths :
          Begin([offset |-> offset, len |-> len, lenient |-> TRUE], offset)
    BY <1>2, Zenon DEF ReadPart
  <2>2. [offset |-> offset, len |-> len, lenient |-> TRUE] \in Asks /\ offset \in 0 .. MAX_U
    BY SourceAssumption DEF Asks
  <2>3. UNCHANGED <<dev, src>>
    BY <1>2 DEF ReadPart
  <2> QED BY <2>1, <2>2, <2>3, BeginInv
<1>3. CASE ReadWhole
  <2> DEFINE size == SeekTo(src.len, 0)
  <2>1. CASE size < 0 \/ ~CheckedReadLen(size)
    <3>1. rpc' = "error" /\ UNCHANGED <<position, ask, out, touched, rounds, dev, src>>
      BY <1>3, <2>1, Zenon DEF ReadWhole
    <3> QED BY <3>1, Zenon DEF SourceInv, SourceTypeOK, BytesAsAsked, CursorFollows,
               BoundedRounds,
              DeviceBytes, MediaLen
  <2>2. CASE ~(size < 0 \/ ~CheckedReadLen(size))
    <3>1. Begin([offset |-> 0, len |-> size, lenient |-> TRUE], 0) /\ UNCHANGED <<dev, src>>
      BY <1>3, <2>2, Zenon DEF ReadWhole
    <3>2. size \in 0 .. MAX_U
      BY <2>2, SourceFields, Words DEF SeekTo, SourceInv
    <3>3. [offset |-> 0, len |-> size, lenient |-> TRUE] \in Asks /\ 0 \in 0 .. MAX_U
      BY <3>2, Words DEF Asks
    <3> HIDE DEF size
    <3> QED BY <3>1, <3>3, BeginInv
  <2> QED BY <2>1, <2>2
<1> QED BY <1>1, <1>2, <1>3

\* A seek forgets the request; one that would overflow moves nothing.
LEMMA SeekInv == SourceInv /\ Seek => SourceInv'
<1> SUFFICES ASSUME SourceInv, Seek PROVE SourceInv'
  OBVIOUS
<1>1. PICK from \in {src.len, position}, x \in {-1, 0, 1, MAX_I} :
        /\ position' = IF SeekTo(from, x) < 0 THEN position ELSE SeekTo(from, x)
        /\ rpc' = IF SeekTo(from, x) < 0 THEN "error" ELSE "idle"
  BY DEF Seek
<1>2. position' \in 0 .. MAX_U
  <2>1. from \in 0 .. MAX_U /\ x \in Int /\ position \in 0 .. MAX_U
    <3>1. SourceTypeOK
      BY DEF SourceInv
    <3>2. position \in 0 .. MAX_U
      BY <3>1 DEF SourceTypeOK
    <3>3. src.len \in 0 .. MAX_U
      BY <3>1, SourceFields
    <3>4. x \in Int
      BY Words
    <3> QED BY <3>2, <3>3, <3>4
  <2>2. SeekTo(from, x) \in {-1} \cup 0 .. MAX_U
    BY <2>1, Words DEF SeekTo
  <2> QED BY <1>1, <2>1, <2>2, Words
<1>3. /\ ask' = NoAsk /\ out' = <<>> /\ touched' = Untouched /\ rounds' = 0
      /\ UNCHANGED <<dev, src>> /\ rpc' \in {"error", "idle"}
  BY <1>1 DEF Seek
<1>4. SourceTypeOK'
  BY <1>2, <1>3, Words DEF SourceInv, SourceTypeOK, Asks, NoAsk, Untouched, MediaLen
<1>5. out' = <<>> /\ Len(out') = 0
  BY <1>3
<1>6. BytesAsAsked'
  BY <1>3, <1>5 DEF BytesAsAsked, DeviceBytes
<1>7. CursorFollows' /\ BoundedRounds'
  BY <1>3, <1>5 DEF CursorFollows, BoundedRounds, NoAsk
<1>8. (touched.first + touched.count <= dev.last + 1)'
  BY <1>3, SourceFields DEF Untouched, SourceInv
<1> QED BY <1>3, <1>4, <1>6, <1>7, <1>8 DEF SourceInv

\* Where nothing remains, what has arrived is what there was.
LEMMA ShortByTheEnd ==
  ASSUME NEW offset \in Nat, NEW len \in Nat, NEW end \in Nat, NEW m \in Nat, m < len,
         m > 0 => offset + m <= end, SaturatingSub(end, offset + m) = 0
  PROVE  m = Least(len, SaturatingSub(end, offset))
  BY DEF Least, SaturatingSub

\* A read at the end, and one that fails, bring nothing and move nothing.
LEMMA NothingInv == SourceInv /\ (AtEnd \/ ReadFails) => SourceInv'
<1> SUFFICES ASSUME SourceInv, AtEnd \/ ReadFails PROVE SourceInv'
  OBVIOUS
<1>1. /\ rpc = "fill" /\ Filling /\ rounds' = rounds + 1
      /\ UNCHANGED <<dev, src, position, ask, out, touched>>
      /\ rpc' \in {"ok", "error"}
      /\ rpc' = "ok" => ask.lenient /\ Remaining = 0
  BY DEF AtEnd, ReadFails, SourceInv
<1>2. SourceTypeOK'
  BY <1>1 DEF SourceInv, SourceTypeOK, MediaLen
<1>3. BytesAsAsked'
  <2>1. out = DeviceBytes(src.base + ask.offset, Len(out))
    BY DEF SourceInv, BytesAsAsked
  <2>2. ASSUME rpc' = "ok"
        PROVE  Len(out) = Least(ask.len, SaturatingSub(src.len, ask.offset))
    <3>1. Remaining = 0 /\ Filling
      BY <1>1, <2>2
    <3>2. /\ position = ask.offset + Len(out) /\ Len(out) < ask.len
          /\ Len(out) > 0 => position <= src.len
          /\ SaturatingSub(src.len, position) = 0
      BY <3>1 DEF Filling, Remaining
    <3>3. ask.offset \in Nat /\ ask.len \in Nat /\ src.len \in Nat /\ Len(out) \in Nat
      BY SourceFields, Words DEF SourceInv
    <3> QED BY <3>2, <3>3, ShortByTheEnd
  <2> QED BY <1>1, <2>1, <2>2 DEF BytesAsAsked, DeviceBytes
<1>4. CursorFollows' /\ BoundedRounds'
  BY <1>1, SourceFields DEF SourceInv, SourceTypeOK, Filling, CursorFollows, BoundedRounds
<1> QED BY <1>1, <1>2, <1>3, <1>4 DEF SourceInv, Filling

\* Bytes arrive from where the cursor is, in front of the source's end.
LEMMA ArriveInv ==
  \A n \in Nat :
    /\ SourceInv /\ rpc = "fill" /\ n > 0 /\ n <= Wanted /\ n <= Remaining
    /\ Arrive(src.base + position, n) /\ UNCHANGED <<dev, src, ask>>
    /\ touched' \in [first : Nat, count : Nat]
    /\ touched'.first + touched'.count <= dev.last + 1
    => SourceInv'
<1>0. SUFFICES ASSUME NEW n \in Nat, SourceInv, rpc = "fill", n > 0,
                      n <= Wanted, n <= Remaining,
                      Arrive(src.base + position, n), UNCHANGED <<dev, src, ask>>,
                      touched' \in [first : Nat, count : Nat],
                      touched'.first + touched'.count <= dev.last + 1
               PROVE  SourceInv'
  OBVIOUS
<1> DEFINE base == src.base
           end == src.len
           offset == ask.offset
           len == ask.len
           m == Len(out)
<1>1. /\ base \in Nat /\ end \in Nat /\ end <= MAX_U /\ position \in Nat
      /\ offset \in Nat /\ len \in Nat /\ m \in Nat /\ rounds \in Nat
      /\ MAX_U \in Nat /\ n \in Nat
  <2>1. SourceTypeOK
    BY <1>0 DEF SourceInv
  <2> QED BY <1>0, <2>1, SourceFields, Words, SMTT(30) DEF SourceTypeOK
<1>2. /\ position = offset + m /\ rounds <= m
      /\ n > 0 /\ n <= len - m /\ n <= SaturatingSub(end, position)
  <2>1. Filling /\ n > 0 /\ n <= Wanted /\ n <= Remaining
    BY <1>0, Zenon DEF SourceInv
  <2> QED BY <2>1, Zenon DEF Filling, Wanted, Remaining
<1>4. /\ out' = out \o DeviceBytes(base + position, n)
      /\ position' = SaturatingAdd(position, n)
      /\ rpc' = IF m + n = len THEN "ok" ELSE "fill"
      /\ rounds' = rounds + 1
  BY <1>0, Zenon DEF Arrive
<1>5. dev' = dev /\ src' = src /\ ask' = ask
  BY <1>0
<1>a. out = DeviceBytes(base + offset, m)
  BY <1>0 DEF SourceInv, BytesAsAsked
<1>b. base = src.base /\ end = src.len /\ offset = ask.offset /\ len = ask.len
  OBVIOUS
<1> HIDE DEF base, end, offset, len, m
<1>3. /\ m + n <= len /\ position + n <= end
      /\ m + n = len => Least(len, SaturatingSub(end, offset)) = m + n
  BY <1>1, <1>2 DEF SaturatingSub, Least
<1>6. position' = position + n
  BY <1>1, <1>3, <1>4 DEF SaturatingAdd, Least
<1>7. out' = DeviceBytes(base + offset, m + n)
  <2>1. base + position = (base + offset) + m /\ base + offset \in Nat
    BY <1>1, <1>2
  <2>2. out' = DeviceBytes(base + offset, m) \o DeviceBytes((base + offset) + m, n)
    BY <1>4, <1>a, <2>1, Zenon
  <2>3. base + offset \in Nat /\ m \in Nat /\ n \in Nat
    BY <1>1, <2>1
  <2> QED BY <2>2, <2>3, BytesFollow, Zenon
<1>8. Len(out') = m + n /\ out' \in Seq(Nat)
  <2>1. m + n \in Nat /\ base + offset \in Nat
    BY <1>1
  <2>2. \A p \in Nat, k \in Nat : Len(DeviceBytes(p, k)) = k /\ DeviceBytes(p, k) \in Seq(Nat)
    BY DEF DeviceBytes
  <2> QED BY <1>7, <2>1, <2>2, Zenon
<1>9. /\ Len(out') \in Nat /\ rounds' \in Nat
      /\ position' = ask'.offset + Len(out') /\ position' <= src'.len
      /\ Len(out') <= ask'.len /\ rounds' <= Len(out') /\ position' \in 0 .. MAX_U
      /\ rpc' = IF Len(out') = ask'.len THEN "ok" ELSE "fill"
  <2>1. /\ m + n \in Nat /\ rounds + 1 \in Nat
        /\ position + n = offset + (m + n) /\ position + n <= end
        /\ m + n <= len /\ rounds + 1 <= m + n /\ position + n \in 0 .. MAX_U
    BY <1>1, <1>2, <1>3
  <2> QED BY <1>4, <1>5, <1>6, <1>8, <1>b, <2>1, Zenon
<1>10. SourceTypeOK'
  <2>1. MediaLen(dev)' = MediaLen(dev)
    BY <1>5, Zenon DEF MediaLen
  <2> QED BY <1>0, <1>5, <1>8, <1>9, <2>1 DEF SourceInv, SourceTypeOK
<1>11. BytesAsAsked'
  <2>1. out' = DeviceBytes(src'.base + ask'.offset, Len(out'))
    BY <1>5, <1>7, <1>8, <1>b, Zenon
  <2>2. rpc' = "ok" => Len(out') = ask'.len
                       /\ Len(out') = Least(ask'.len, SaturatingSub(src'.len, ask'.offset))
    <3>1. rpc' = "ok" => m + n = len
      BY <1>4
    <3> QED BY <1>3, <1>5, <1>8, <1>b, <3>1, Zenon
  <2>3. DeviceBytes(src.base + ask.offset, Len(out))' =
          DeviceBytes(src'.base + ask'.offset, Len(out'))
    BY DEF DeviceBytes
  <2> QED BY <2>1, <2>2, <2>3 DEF BytesAsAsked
<1>12. (rpc = "fill" => Filling)' /\ CursorFollows' /\ BoundedRounds'
  <2>1. ask'.len \in Nat
    BY <1>1, <1>5, <1>b
  <2>2. (rpc = "fill" => Filling)'
    BY <1>9, <2>1 DEF Filling
  <2>3. CursorFollows'
    BY <1>9, Zenon DEF CursorFollows
  <2>4. BoundedRounds'
    BY <1>9, <2>1 DEF BoundedRounds
  <2> QED BY <2>2, <2>3, <2>4
<1>13. (touched.first + touched.count <= dev.last + 1)'
  BY <1>0
<1> QED BY <1>9, <1>10, <1>11, <1>12, <1>13 DEF SourceInv

\* What is wanted of what remains is something, and no more than either.
LEMMA WantBounds ==
  ASSUME SourceInv, rpc = "fill", Remaining > 0
  PROVE  /\ Want \in Nat /\ Want > 0 /\ Want <= Wanted /\ Want <= Remaining
         /\ Remaining = src.len - position /\ position \in Nat /\ src.len \in Nat
<1>1. /\ SourceTypeOK /\ Filling
  BY DEF SourceInv
<1>2. /\ src.len \in Nat /\ position \in Nat /\ ask.len \in Nat /\ Len(out) \in Nat
      /\ Len(out) < ask.len
  BY <1>1, SourceFields, Words DEF SourceTypeOK, Filling
<1>3. Remaining = src.len - position /\ Remaining \in Nat
  BY <1>2 DEF Remaining, SaturatingSub
<1>4. Wanted \in Nat /\ Wanted > 0
  BY <1>2 DEF Wanted
<1> QED BY <1>2, <1>3, <1>4 DEF Want, Least

\* A read that succeeds brings the bytes at the cursor.
LEMMA ReadInv == SourceInv /\ (BlockRead \/ FileRead) => SourceInv'
<1>0. SUFFICES ASSUME SourceInv, BlockRead \/ FileRead PROVE SourceInv'
  OBVIOUS
<1>1. SourceInv /\ rpc = "fill" /\ Remaining > 0 /\ UNCHANGED <<dev, src, ask>>
  BY <1>0, Zenon DEF BlockRead, FileRead
<1>2. /\ Want \in Nat /\ Want > 0 /\ Want <= Wanted /\ Want <= Remaining
      /\ Wanted \in Int /\ Remaining \in Int
  <2>1. Wanted \in Int /\ Remaining \in Int
    <3>1. SourceTypeOK
      BY <1>1 DEF SourceInv
    <3> QED BY <3>1, SourceFields, WantBounds, <1>1, SMTT(30) DEF Wanted
  <2> QED BY <1>1, <2>1, WantBounds
<1>3. dev.bs \in Nat \ {0} /\ dev.last \in Nat /\ position \in Nat /\ src.base \in Nat
  <2>1. SourceTypeOK
    BY <1>1 DEF SourceInv
  <2> QED BY <2>1, SourceFields, Words DEF SourceTypeOK
<1>4. CASE BlockRead
  <2> DEFINE r == AlignedRead(position, Want, dev.bs)
  <2>1. /\ r.some /\ r.first + r.count <= dev.last + 1
        /\ touched' = [first |-> r.first, count |-> r.count]
        /\ Arrive(r.first * dev.bs + r.intra, Want) /\ ~src.file
    BY <1>4, Zenon DEF BlockRead
  <2>2. /\ r.first \in Nat /\ r.count \in Nat /\ r.first * dev.bs + r.intra = position
    BY <2>1, <1>2, <1>3, AlignedFields
  <2> HIDE DEF r
  <2>3. src.base = 0
    BY <1>1, <2>1 DEF SourceInv, SourceTypeOK
  <2>4. Arrive(src.base + position, Want)
    <3>1. src.base + position = r.first * dev.bs + r.intra
      BY <1>3, <2>2, <2>3
    <3> QED BY <2>1, <3>1, Zenon
  <2>5. /\ touched' \in [first : Nat, count : Nat]
        /\ touched'.first + touched'.count <= dev.last + 1
    BY <2>1, <2>2
  <2> QED BY <1>1, <1>2, <2>4, <2>5, ArriveInv, Zenon
<1>5. CASE FileRead
  <2>1. PICK n \in 1 .. Want : Arrive(src.base + position, n)
    BY <1>5, Zenon DEF FileRead
  <2>2. n \in Nat /\ n > 0 /\ n <= Wanted /\ n <= Remaining
    BY <1>2
  <2>3. touched' = [first |-> 0, count |-> 0]
    BY <1>5, Zenon DEF FileRead, Untouched
  <2>4. /\ touched' \in [first : Nat, count : Nat]
        /\ touched'.first + touched'.count <= dev.last + 1
    BY <1>3, <2>3
  <2> QED BY <1>1, <2>1, <2>2, <2>4, ArriveInv, Zenon
<1> QED BY <1>0, <1>4, <1>5

\* Every step keeps the invariant.
LEMMA SourceStep == SourceInv /\ [SourceNext]_sourceVars => SourceInv'
<1>0. SUFFICES ASSUME SourceInv, [SourceNext]_sourceVars PROVE SourceInv'
  OBVIOUS
<1>1. CASE UNCHANGED sourceVars
  BY <1>0, <1>1 DEF sourceVars, SourceInv, SourceTypeOK, Filling, MediaLen, BytesAsAsked,
                    DeviceBytes, CursorFollows, BoundedRounds
<1>2. CASE SourceNext
  BY <1>0, <1>2, RequestInv, SeekInv, NothingInv, ReadInv, Zenon DEF SourceNext, SourceReads
<1> QED BY <1>0, <1>1, <1>2

\* The invariant of every reachable state.
LEMMA SourceAlways == SourceSpec => []SourceInv
  BY SourceInitInv, SourceStep, PTL DEF SourceSpec

\* BytesAsAsked: for every source and every request, what the readers return is
\* what the source holds from the offset on.
THEOREM BytesAsAskedHolds == SourceSpec => []BytesAsAsked
<1>1. SourceInv => BytesAsAsked
  BY DEF SourceInv
<1> QED BY <1>1, SourceAlways, PTL

\* CursorFollows: a failed read consumes nothing.
THEOREM CursorFollowsHolds == SourceSpec => []CursorFollows
<1>1. SourceInv => CursorFollows
  BY DEF SourceInv
<1> QED BY <1>1, SourceAlways, PTL

\* BoundedRounds: a request takes at most one read per byte and one more.
THEOREM BoundedRoundsHolds == SourceSpec => []BoundedRounds
<1>1. SourceInv => BoundedRounds
  BY DEF SourceInv
<1> QED BY <1>1, SourceAlways, PTL

\* InsideMedia: the blocks of every read exist, for media of every size.
THEOREM InsideMediaHolds == SourceSpec => []InsideMedia
<1>1. SourceInv => InsideMedia
  <2>0. SUFFICES ASSUME SourceInv PROVE InsideMedia
    OBVIOUS
  <2>1. touched.first + touched.count <= dev.last + 1
    BY <2>0 DEF SourceInv
  <2> DEFINE r == AlignedRead(position, Want, dev.bs)
  <2>2. ASSUME rpc = "fill", ~src.file, Remaining > 0, r.some
        PROVE  r.first + r.count <= dev.last + 1
    <3>1. /\ Want \in Nat /\ Want > 0 /\ Want <= Remaining
          /\ Remaining = src.len - position /\ position \in Nat /\ src.len \in Nat
      BY <2>0, <2>2, WantBounds
    <3>2. /\ SourceTypeOK /\ src.len = MediaLen(dev)
      BY <2>0, <2>2 DEF SourceInv, SourceTypeOK
    <3>3. dev \in [bs : 0 .. MAX_U, last : 0 .. MAX_U]
          /\ dev.bs \in Nat \ {0} /\ dev.last \in Nat
      BY <3>2, SourceFields, SourceAssumption, Zenon DEF SourceTypeOK
    <3>4. src.len <= (dev.last + 1) * dev.bs
      BY <3>2, <3>3, MediaBytes
    <3>5. r.first + r.count = ((position + Want - 1) \div dev.bs) + 1
      BY <2>2, <3>1, <3>3, AlignedFields
    <3>6. position + Want - 1 \in Nat /\ position + Want - 1 < (dev.last + 1) * dev.bs
      <4>1. position + Want - 1 \in Nat /\ position + Want - 1 < src.len
        BY <3>1
      <4>2. (dev.last + 1) * dev.bs \in Nat
        BY <3>3
      <4> QED BY <3>1, <3>4, <4>1, <4>2
    <3>7. (position + Want - 1) \div dev.bs \in Nat
          /\ (position + Want - 1) \div dev.bs < dev.last + 1
      <4>1. dev.last + 1 \in Nat
        BY <3>3
      <4> QED BY <3>3, <3>6, <4>1, DivBelow
    <3> QED BY <3>3, <3>5, <3>7
  <2> QED BY <2>1, <2>2 DEF InsideMedia
<1> QED BY <1>1, SourceAlways, PTL
-----------------------------------------------------------------------------
(* PeImage *)

Holding == {"copy", "block", "fixup", "install", "loaded"}

PeTypeOK ==
  /\ file \in FileSet /\ Len(file.sections) = file.nSections
  /\ lpc \in {"parse", "allocate", "failed"} \cup Holding
  /\ got \in BOOLEAN /\ pages \in {"none", "held", "freed"}
  /\ sec \in Nat /\ cursor \in Nat /\ item \in Nat /\ freed \in Nat

\* The pages, for each place of load_pe.
PagesAsPlace ==
  /\ lpc \in {"parse", "allocate"} => pages = "none" /\ freed = 0
  /\ lpc \in Holding => pages = "held" /\ freed = 0
  /\ lpc = "failed" => \/ pages = "none" /\ freed = 0
                       \/ pages = "freed" /\ freed = 1

\* The inductive invariant: behind the parser only files it admits, and in a
\* block only one whose size was checked.
PeInv ==
  /\ PeTypeOK
  /\ PagesAsPlace
  /\ lpc \in {"allocate"} \cup Holding => Validates(file)
  /\ lpc = "fixup" => BlockSound(file, cursor)
  /\ TouchesOnlyItsOwn

\* The types of a file's fields.
LEMMA FileFields ==
  ASSUME NEW f \in FileSet
  PROVE  /\ f.len \in Nat /\ f.nt \in Nat /\ f.optSize \in Nat /\ f.nSections \in Nat
         /\ f.size \in Nat /\ f.reloc \in Dir
         /\ f.sections \in Seq(Section) /\ f.words \in Seq(Nat)
  BY DEF FileSet

\* Every word of the directory is a natural number.
LEMMA WordNat == ASSUME NEW f \in FileSet, NEW off \in Nat PROVE Word(f, off) \in Nat
  BY FileFields DEF Word

\* So are a block's address and size.
LEMMA BlockNat ==
  ASSUME NEW f \in FileSet, NEW c \in Nat
  PROVE  BlockVa(f, c) \in Nat /\ BlockSize(f, c) \in Nat
<1>1. \A m, n \in Nat : m + WordBase * n \in Nat
  BY PeAssumption
<1>2. Word(f, c) \in Nat /\ Word(f, c + 2) \in Nat /\ Word(f, c + 4) \in Nat
      /\ Word(f, c + 4 + 2) \in Nat
  BY WordNat
<1> QED BY <1>1, <1>2 DEF BlockVa, BlockSize, Long

\* And so is the target of a fixup.
LEMMA TargetNat ==
  ASSUME NEW f \in FileSet, NEW c \in Nat, NEW i \in Nat
  PROVE  Target(f, c, i) \in Nat
<1>1. PageSpan \in Nat \ {0}
  BY PeAssumption DEF PageSpan
<1>2. EntryAt(f, c, i) \in Nat
  BY WordNat DEF EntryAt
<1>3. EntryAt(f, c, i) % PageSpan \in Nat
  BY <1>1, <1>2
<1> QED BY <1>3, BlockNat DEF Target

\* The widths are numbers.
LEMMA WidthInt == ASSUME NEW type PROVE FixupWidth(type) \in {-1, 0, 4, 8}
  BY DEF FixupWidth

\* The directory that read_data_dir returns.
LEMMA DirNat == ASSUME NEW f \in FileSet PROVE RelocDir(f) \in Dir
  BY FileFields, Zenon DEF RelocDir, DataDir, Dir

\* What was touched stays inside while the file is the same.
LEMMA TouchesKept ==
  ASSUME TouchesOnlyItsOwn, UNCHANGED <<file, reads, fixups>>
  PROVE  TouchesOnlyItsOwn'
<1>1. \A of : Extent(of)' = Extent(of)
  BY Zenon DEF Extent
<1> QED BY <1>1 DEF TouchesOnlyItsOwn

\* More reads, all of them inside.
LEMMA TouchesMore ==
  ASSUME TouchesOnlyItsOwn, UNCHANGED <<file, fixups>>,
         NEW more, reads' = reads \cup more,
         \A r \in more : r.from >= 0 /\ r.from <= r.to /\ r.to <= Extent(r.of)
  PROVE  TouchesOnlyItsOwn'
<1>1. \A of : Extent(of)' = Extent(of)
  BY Zenon DEF Extent
<1> QED BY <1>1 DEF TouchesOnlyItsOwn
-----------------------------------------------------------------------------
(* The inductive invariant, one action at a time *)

\* Nothing is read and no page is held.
LEMMA PeInvInit == PeInit => PeInv
<1> SUFFICES ASSUME PeInit PROVE PeInv
  OBVIOUS
<1>1. file \in FileSet /\ Len(file.sections) = file.nSections
  BY Zenon, PeAssumption DEF PeInit
<1>2. TouchesOnlyItsOwn
  BY DEF PeInit, TouchesOnlyItsOwn
<1> QED BY <1>1, <1>2, Zenon DEF PeInit, PeInv, PeTypeOK, PagesAsPlace, Holding

\* The header fields are read only where parse_headers found room for them.
LEMMA PeInvParse == PeInv /\ ParseAndValidate => PeInv'
<1> SUFFICES ASSUME PeInv, ParseAndValidate PROVE PeInv'
  OBVIOUS
<1>1. ASSUME Parses(file), NEW r \in HeaderReads(file)
      PROVE  r.from >= 0 /\ r.from <= r.to /\ r.to <= Extent(r.of)
  <2>1. /\ OptOff(file) \in Nat /\ TableOff(file) \in Nat /\ file.nSections \in Nat
        /\ file.len \in Nat
    BY FileFields, SMTT(30) DEF PeInv, PeTypeOK, CoffOff, OptOff, TableOff
  <2>2. /\ OptOff(file) + 2 <= file.len
        /\ file.magic = "pe32+" => /\ OptOff(file) + 112 <= file.len
                                   /\ TableOff(file) + 40 * file.nSections <= file.len
    BY <1>1 DEF Parses
  <2>3. Extent("file") = file.len
    BY DEF Extent
  <2> QED BY <1>1, <2>1, <2>2, <2>3 DEF HeaderReads
<1>2. TouchesOnlyItsOwn'
  BY <1>1, TouchesMore, Zenon DEF PeInv, ParseAndValidate
<1> QED BY <1>2, Zenon DEF PeInv, ParseAndValidate, PeTypeOK, PagesAsPlace, Holding

\* The pages are held from here on.
LEMMA PeInvAllocate == PeInv /\ Allocate => PeInv'
<1> SUFFICES ASSUME PeInv, Allocate PROVE PeInv'
  OBVIOUS
<1>1. TouchesOnlyItsOwn'
  BY TouchesKept DEF PeInv, Allocate
<1> QED BY <1>1, Zenon DEF PeInv, Allocate, PeTypeOK, PagesAsPlace, Holding

\* A section's bytes are in the file, and fit where they go.
LEMMA PeInvCopy == PeInv /\ Copy => PeInv'
<1> SUFFICES ASSUME PeInv, Copy PROVE PeInv'
  OBVIOUS
<1> DEFINE s == file.sections[sec + 1]
<1>1. s \in Section /\ SectionFits(file, s)
  <2>1. sec + 1 \in 1 .. file.nSections
    <3>1. file \in FileSet /\ sec \in Nat /\ sec < file.nSections
      BY Zenon DEF PeInv, PeTypeOK, Copy
    <3>2. file.nSections \in Nat
      BY <3>1, FileFields, Zenon
    <3> HIDE DEF s
    <3> QED BY <3>1, <3>2
  <2>2. \A i \in 1 .. file.nSections : SectionFits(file, file.sections[i])
    BY Zenon DEF PeInv, Copy, Holding, Validates
  <2>3. s \in Section
    BY <2>1, FileFields DEF PeInv, PeTypeOK
  <2> QED BY <2>1, <2>2, <2>3
<1>2. CopyLen(s) \in Nat /\ CopyLen(s) <= s.vsize
  BY <1>1 DEF CopyLen, Min2, Section
<1> DEFINE more == {[of |-> "file", from |-> s.roff, to |-> s.roff + CopyLen(s)],
                    [of |-> "image", from |-> s.vaddr, to |-> s.vaddr + CopyLen(s)]}
<1>3. CopyLen(s) # 0 =>
        \A r \in more : r.from >= 0 /\ r.from <= r.to /\ r.to <= Extent(r.of)
  <2>1. Extent("file") = file.len /\ Extent("image") = file.size
    BY DEF Extent
  <2>2. s.roff \in Nat /\ s.vaddr \in Nat /\ s.vsize \in Nat
    BY <1>1, Zenon DEF Section
  <2>3. file.len \in Nat /\ file.size \in Nat
    BY FileFields DEF PeInv, PeTypeOK
  <2> HIDE DEF s
  <2> QED BY <1>1, <1>2, <2>1, <2>2, <2>3 DEF SectionFits
<1>4. TouchesOnlyItsOwn'
  <2>1. CASE CopyLen(s) = 0
    BY <2>1, TouchesKept, Zenon DEF PeInv, Copy
  <2>2. CASE CopyLen(s) # 0
    <3>1. reads' = reads \cup more /\ UNCHANGED <<file, fixups>>
      BY <2>2, Zenon DEF Copy
    <3> HIDE DEF more
    <3> QED BY <2>2, <3>1, <1>3, TouchesMore, Zenon DEF PeInv
  <2> QED BY <2>1, <2>2, Zenon
<1> HIDE DEF s, more
<1>5. sec + 1 \in Nat
  <2>1. sec \in Nat
    BY Zenon DEF PeInv, PeTypeOK
  <2> QED BY <2>1
<1> QED BY <1>4, <1>5, Zenon DEF PeInv, Copy, PeTypeOK, PagesAsPlace, Holding

\* A directory that is not in the image is refused.
LEMMA PeInvDecide == PeInv /\ Decide => PeInv'
<1> SUFFICES ASSUME PeInv, Decide PROVE PeInv'
  OBVIOUS
<1>1. TouchesOnlyItsOwn'
  BY TouchesKept DEF PeInv, Decide
<1> QED BY <1>1 DEF PeInv, Decide, Fail, PeTypeOK, PagesAsPlace, Holding

\* A block's header is read only where the directory has one.
LEMMA PeInvBlock == PeInv /\ Block => PeInv'
<1> SUFFICES ASSUME PeInv, Block PROVE PeInv'
  OBVIOUS
<1>1. TouchesOnlyItsOwn'
  <2>1. CASE UNCHANGED reads
    BY <2>1, TouchesKept, Zenon DEF PeInv, Block
  <2>2. CASE ~UNCHANGED reads
    <3>1. /\ reads' = reads \cup {[of |-> "dir", from |-> cursor, to |-> cursor + 8]}
          /\ cursor + 8 <= RelocDir(file).size /\ cursor \in Nat
      BY <2>2, DirNat DEF PeInv, PeTypeOK, Dir, Block, Fail
    <3>2. Extent("dir") = RelocDir(file).size
      BY DEF Extent
    <3> DEFINE more == {[of |-> "dir", from |-> cursor, to |-> cursor + 8]}
    <3>3. \A r \in more : r.from >= 0 /\ r.from <= r.to /\ r.to <= Extent(r.of)
      BY <3>1, <3>2
    <3>4. UNCHANGED <<file, fixups>>
      BY Zenon DEF Block
    <3> HIDE DEF more
    <3>5. reads' = reads \cup more
      BY <3>1 DEF more
    <3> QED BY <3>3, <3>4, <3>5, TouchesMore DEF PeInv
  <2> QED BY <2>1, <2>2
<1> QED BY <1>1 DEF PeInv, Block, Fail, PeTypeOK, PagesAsPlace, Holding

\* An entry is in its block, and its target in the image.
LEMMA PeInvFixup == PeInv /\ Fixup => PeInv'
<1> SUFFICES ASSUME PeInv, Fixup PROVE PeInv'
  OBVIOUS
<1>1. /\ file \in FileSet /\ cursor \in Nat /\ item \in Nat /\ file.size \in Nat
      /\ RelocDir(file).size \in Nat
      /\ BlockSound(file, cursor) /\ BlockSize(file, cursor) \in Nat
  BY DirNat, BlockNat, Zenon DEF PeInv, PeTypeOK, Fixup, Dir, FileSet
<1>2. cursor + 10 + 2 * item <= RelocDir(file).size
  BY <1>1 DEF Fixup, BlockSound, EntryCount
<1>3. Target(file, cursor, item) \in Nat
  BY <1>1, TargetNat, Zenon
<1>4. FixupWidth(EntryType(file, cursor, item)) \in Int
  BY WidthInt
<1>5. \A r \in reads' : r.from >= 0 /\ r.from <= r.to /\ r.to <= Extent(r.of)'
  <2> DEFINE one == [of |-> "dir", from |-> cursor + 8 + 2 * item,
                     to |-> cursor + 10 + 2 * item]
  <2>1. \A of : Extent(of)' = Extent(of)
    BY Zenon DEF Fixup, Extent
  <2>2. Extent("dir") = RelocDir(file).size
    BY DEF Extent
  <2>3. one.from >= 0 /\ one.from <= one.to /\ one.to <= Extent(one.of)
    BY <1>1, <1>2, <2>2
  <2>4. reads' = reads \cup {one}
    BY Zenon DEF Fixup
  <2> HIDE DEF one
  <2> QED BY <2>1, <2>3, <2>4, Zenon DEF PeInv, TouchesOnlyItsOwn
<1>6. \A x \in fixups' : x.at >= 0 /\ x.at + x.width <= file'.size
  <2> DEFINE w == FixupWidth(EntryType(file, cursor, item))
             one == [at |-> Target(file, cursor, item), by |-> <<cursor, item>>, width |-> w]
  <2>1. /\ file' = file
        /\ \A x \in fixups : x.at >= 0 /\ x.at + x.width <= file.size
    BY Zenon DEF PeInv, Fixup, TouchesOnlyItsOwn
  <2>2. \/ fixups' = fixups
        \/ FixupFits(file, cursor, item) /\ w # 0 /\ fixups' = fixups \cup {one}
    BY Zenon DEF Fixup
  <2>3. one.at = Target(file, cursor, item) /\ one.width = w
    <3> HIDE DEF w
    <3> QED OBVIOUS
  <2> HIDE DEF one
  <2>4. FixupFits(file, cursor, item) /\ w # 0 =>
          one.at >= 0 /\ one.at + one.width <= file.size
    BY <1>1, <1>3, <1>4, <2>3 DEF FixupFits
  <2> QED BY <2>1, <2>2, <2>4, Zenon
<1>7. TouchesOnlyItsOwn'
  BY <1>5, <1>6 DEF TouchesOnlyItsOwn
<1> QED BY <1>7 DEF PeInv, Fixup, Fail, PeTypeOK, PagesAsPlace, Holding

\* The next block starts at a natural number.
LEMMA PeInvNextBlock == PeInv /\ NextBlock => PeInv'
<1> SUFFICES ASSUME PeInv, NextBlock PROVE PeInv'
  OBVIOUS
<1>1. cursor' \in Nat
  <2>1. BlockSize(file, cursor) \in Nat
    BY BlockNat, Zenon DEF PeInv, PeTypeOK
  <2> QED BY <2>1 DEF PeInv, PeTypeOK, NextBlock
<1>2. TouchesOnlyItsOwn'
  BY TouchesKept DEF PeInv, NextBlock
<1> QED BY <1>1, <1>2, Zenon DEF PeInv, NextBlock, PeTypeOK, PagesAsPlace, Holding

\* The protocol is installed, or the pages are given back.
LEMMA PeInvInstall == PeInv /\ Install => PeInv'
<1> SUFFICES ASSUME PeInv, Install PROVE PeInv'
  OBVIOUS
<1>1. TouchesOnlyItsOwn'
  BY TouchesKept DEF PeInv, Install
<1> QED BY <1>1 DEF PeInv, Install, Fail, PeTypeOK, PagesAsPlace, Holding

\* The pages of a loaded image are given back.
LEMMA PeInvFreePages == PeInv /\ FreePages => PeInv'
<1> SUFFICES ASSUME PeInv, FreePages PROVE PeInv'
  OBVIOUS
<1>1. TouchesOnlyItsOwn'
  BY TouchesKept DEF PeInv, FreePages
<1> QED BY <1>1 DEF PeInv, FreePages, Fail, PeTypeOK, PagesAsPlace, Holding

\* Every step keeps the invariant.
LEMMA PeInvStep == PeInv /\ [PeNext]_peVars => PeInv'
<1>1. PeInv /\ UNCHANGED peVars => PeInv'
  BY TouchesKept, Zenon DEF peVars, PeInv, PeTypeOK, PagesAsPlace, Holding
<1> QED BY <1>1, PeInvParse, PeInvAllocate, PeInvCopy, PeInvDecide, PeInvBlock, PeInvFixup,
          PeInvNextBlock, PeInvInstall, PeInvFreePages DEF PeNext, LoadSteps

\* The invariant holds in every reachable state.
LEMMA PeInvHolds == PeSpec => []PeInv
  BY PeInvInit, PeInvStep, PTL DEF PeSpec
-----------------------------------------------------------------------------
(* The theorems *)

\* Whatever a file says, parse_headers, the copies of load_pe and
\* apply_relocations_to_slice stay inside the file, the relocation directory
\* and the image.
THEOREM TouchesOnlyItsOwnHolds == PeSpec => []TouchesOnlyItsOwn
<1>1. PeInv => TouchesOnlyItsOwn
  BY DEF PeInv
<1> QED BY <1>1, PeInvHolds, PTL

\* An image that load_pe returns has its entry point in an executable section.
THEOREM EntryIsCodeHolds == PeSpec => []EntryIsCode
<1>1. PeInv => EntryIsCode
  BY Zenon DEF PeInv, Holding, EntryIsCode, Validates
<1> QED BY <1>1, PeInvHolds, PTL

\* Each error path of load_pe behind the allocation frees the pages, and none
\* frees them twice.
THEOREM PagesFreedOnceHolds == PeSpec => []PagesFreedOnce
<1>1. PeInv => PagesFreedOnce
  BY DEF PeInv, PeTypeOK, PagesAsPlace, Holding, PagesFreedOnce
<1> QED BY <1>1, PeInvHolds, PTL
-----------------------------------------------------------------------------
(* The relocation directory: the pass against the list of its blocks *)

Blocks8(f) == RelocDir(f).size \div 8

\* The sets of offsets that BlockStarts collects, n blocks at a time.
Reached(f) ==
  LET reached[n \in 0..(RelocDir(f).size \div 8)] ==
        IF n = 0 THEN {0}
        ELSE reached[n - 1] \cup
               {c + BlockSize(f, c) : c \in {d \in reached[n - 1] : BlockSize(f, d) >= 8}}
  IN  reached

\* The offsets behind the blocks that start in S.
Behind(f, S) == {c + BlockSize(f, c) : c \in {d \in S : BlockSize(f, d) >= 8}}

\* A place of the pass: an offset of the directory that n blocks lead to.
OnPath(f, c) ==
  c \leq RelocDir(f).size /\ \E n \in 0 .. Blocks8(f) : 8 * n \leq c /\ c \in Reached(f)[n]

Entry(f, c, i) ==
  [at |-> Target(f, c, i), by |-> <<c, i>>, width |-> FixupWidth(EntryType(f, c, i))]

\* The listed fixups in front of entry i of the block at c.
Done(f, c, i) ==
  {x \in ListedFixups(f) : x.by[1] < c \/ (x.by[1] = c /\ x.by[2] < i)}

Unrelocated(f) == got \/ RelocDir(f).size = 0

\* The pass has applied what is listed in front of its place.
RelocInv ==
  /\ PeInv
  /\ lpc \in {"parse", "allocate", "copy"} => fixups = {} /\ cursor = 0
  /\ lpc \in {"block", "fixup"} => ~ Unrelocated(file) /\ OnPath(file, cursor)
  /\ lpc = "block" => fixups = Done(file, cursor, 0)
  /\ lpc = "fixup" => item \leq EntryCount(file, cursor) /\ fixups = Done(file, cursor, item)
  /\ lpc \in {"install", "loaded"} =>
       fixups = IF Unrelocated(file) THEN {} ELSE ListedFixups(file)

\* The equations of Reached.
LEMMA ReachedFacts ==
  ASSUME NEW f \in FileSet
  PROVE  /\ Blocks8(f) \in Nat /\ RelocDir(f).size \in Nat
         /\ Reached(f)[0] = {0}
         /\ \A n \in 0 .. Blocks8(f) : Reached(f)[n] \in SUBSET Nat
         /\ \A n \in 1 .. Blocks8(f) :
              Reached(f)[n] = Reached(f)[n - 1] \cup Behind(f, Reached(f)[n - 1])
<1> DEFINE N == Blocks8(f)
           P == SUBSET Nat
           step == [x \in P \X (1 .. N) |-> x[1] \cup Behind(f, x[1])]
           Is(u) == u = [n \in 0 .. N |->
                           IF n = 0 THEN {0}
                           ELSE u[n - 1] \cup
                                  {c + BlockSize(f, c) : c \in {d \in u[n - 1] : BlockSize(f, d) >= 8}}]
           up == CHOOSE u : Is(u)
<1>1. RelocDir(f).size \in Nat
  BY DirNat DEF Dir
<1>2. N \in Nat
  BY <1>1 DEF Blocks8
<1>3. \A S \in P : Behind(f, S) \in P
  BY BlockNat DEF Behind
<1>4. step \in [P \X (1 .. N) -> P] /\ {0} \in P
  BY <1>3
<1>5. \A S \in P, n \in 1 .. N : step[<<S, n>>] = S \cup Behind(f, S)
  BY Zenon
<1> HIDE DEF step, P
<1>6. PICK g : Continues(g, N, P, {0}, step)
  BY <1>2, <1>4, RecursionExists, Zenon
<1>7. g \in [0 .. N -> P] /\ g[0] = {0} /\ \A n \in 1 .. N : g[n] = step[<<g[n - 1], n>>]
  BY <1>6, Zenon DEF Continues
<1>8. \A n \in 1 .. N : g[n] = g[n - 1] \cup Behind(f, g[n - 1])
  <2> TAKE n \in 1 .. N
  <2>1. n - 1 \in 0 .. N
    BY <1>2
  <2> QED BY <1>5, <1>7, <2>1, Zenon
<1>9. Is(g)
  <2>1. g = [n \in 0 .. N |-> g[n]]
    BY <1>7, Zenon
  <2>2. \A n \in 0 .. N :
          g[n] = IF n = 0 THEN {0}
                 ELSE g[n - 1] \cup
                        {c + BlockSize(f, c) : c \in {d \in g[n - 1] : BlockSize(f, d) >= 8}}
    <3>1. \A n \in 0 .. N : n = 0 \/ n \in 1 .. N
      BY <1>2
    <3>2. \A n \in 1 .. N : n # 0
      BY <1>2
    <3> QED BY <1>7, <1>8, <3>1, <3>2, Zenon DEF Behind
  <2> QED BY <2>1, <2>2, Zenon
<1>10. Is(up)
  BY <1>9, Zenon
<1>11. Reached(f) = up
  BY DEF Reached, Blocks8
<1> HIDE DEF up
<1>12. \A n \in 0 .. N :
         up[n] = IF n = 0 THEN {0}
                 ELSE up[n - 1] \cup
                        {c + BlockSize(f, c) : c \in {d \in up[n - 1] : BlockSize(f, d) >= 8}}
  BY <1>10, Zenon
<1>13. up[0] = {0}
  <2>1. 0 \in 0 .. N
    BY <1>2
  <2> QED BY <1>12, <2>1, Zenon
<1>14. \A n \in 1 .. N : up[n] = up[n - 1] \cup Behind(f, up[n - 1])
  <2>1. \A n \in 1 .. N : n \in 0 .. N /\ n # 0
    BY <1>2
  <2> QED BY <1>12, <2>1, Zenon DEF Behind
<1>15. \A n \in 0 .. N : up[n] \in P
  <2> DEFINE G == {n \in 0 .. N : up[n] \in P}
  <2>1. 0 \in G
    BY <1>2, <1>4, <1>13
  <2>2. ASSUME NEW n \in 1 .. N, n - 1 \in G PROVE n \in G
    <3>1. up[n - 1] \in P /\ up[n] = up[n - 1] \cup Behind(f, up[n - 1]) /\ n \in 0 .. N
      BY <1>2, <1>14, <2>2
    <3>2. Behind(f, up[n - 1]) \in P
      BY <1>3, <3>1, Zenon
    <3> QED BY <3>1, <3>2, Zenon DEF P
  <2> HIDE DEF G
  <2>3. 0 .. N \subseteq G
    BY <1>2, <2>1, <2>2, UpToInduction, Zenon
  <2> QED BY <2>3, Zenon DEF G
<1> QED BY <1>1, <1>2, <1>11, <1>13, <1>14, <1>15, Zenon DEF P

\* The offsets n blocks lead to, from those n - 1 blocks lead to.
LEMMA ReachedStep ==
  ASSUME NEW f \in FileSet, NEW n \in 1 .. Blocks8(f)
  PROVE  Reached(f)[n] = Reached(f)[n - 1] \cup Behind(f, Reached(f)[n - 1])
BY ReachedFacts, Zenon

\* What n blocks lead to, more blocks lead to as well.
LEMMA ReachedGrows ==
  ASSUME NEW f \in FileSet, NEW n \in 0 .. Blocks8(f), NEW c \in Reached(f)[n]
  PROVE  c \in Reached(f)[Blocks8(f)]
<1> DEFINE N == Blocks8(f)
           G == {m \in 0 .. N : n \leq m => c \in Reached(f)[m]}
<1>1. N \in Nat
  BY ReachedFacts, Zenon
<1>2. 0 \in G
  BY <1>1
<1>3. ASSUME NEW m \in 1 .. N, m - 1 \in G PROVE m \in G
  <2>1. Reached(f)[m - 1] \subseteq Reached(f)[m]
    <3>1. Reached(f)[m] = Reached(f)[m - 1] \cup Behind(f, Reached(f)[m - 1])
      BY ReachedStep, Zenon
    <3> QED BY <3>1, Zenon
  <2>2. CASE n \leq m - 1
    BY <1>1, <1>3, <2>1, <2>2
  <2>3. CASE ~(n \leq m - 1)
    BY <1>1, <2>3
  <2> QED BY <2>2, <2>3, Zenon
<1> HIDE DEF G
<1>4. 0 .. N \subseteq G
  BY <1>1, <1>2, <1>3, UpToInduction, Zenon
<1>5. N \in 0 .. N /\ n \leq N
  BY <1>1
<1> QED BY <1>4, <1>5, Zenon DEF G

\* Every offset but the first is behind a block.
LEMMA ReachedBehind ==
  ASSUME NEW f \in FileSet, NEW c \in Reached(f)[Blocks8(f)], c # 0
  PROVE  \E d \in Reached(f)[Blocks8(f)] : BlockSize(f, d) >= 8 /\ c = d + BlockSize(f, d)
<1> DEFINE N == Blocks8(f)
           Has == \E d \in Reached(f)[N] : BlockSize(f, d) >= 8 /\ c = d + BlockSize(f, d)
           G == {m \in 0 .. N : c \in Reached(f)[m] => Has}
<1>1. N \in Nat
  BY ReachedFacts, Zenon
<1>2. 0 \in G
  <2>1. Reached(f)[0] = {0}
    BY ReachedFacts, Zenon
  <2>2. 0 \in 0 .. N
    <3> HIDE DEF N, Has
    <3> QED BY <1>1
  <2> QED BY <2>1, <2>2, Zenon
<1>3. ASSUME NEW m \in 1 .. N, m - 1 \in G PROVE m \in G
  <2>1. Reached(f)[m] = Reached(f)[m - 1] \cup Behind(f, Reached(f)[m - 1]) /\ m \in 0 .. N
    <3>1. m \in 0 .. N
      <4> HIDE DEF N, Has
      <4> QED BY <1>1
    <3> QED BY <3>1, ReachedStep, Zenon
  <2>2. CASE c \in Reached(f)[m - 1] \/ c \notin Reached(f)[m]
    BY <1>3, <2>1, <2>2, Zenon
  <2>3. CASE c \in Behind(f, Reached(f)[m - 1])
    <3>1. PICK d \in Reached(f)[m - 1] : BlockSize(f, d) >= 8 /\ c = d + BlockSize(f, d)
      BY <2>3, Zenon DEF Behind
    <3>2. d \in Reached(f)[N]
      <4>1. m - 1 \in 0 .. N
        BY <1>1
      <4> QED BY <4>1, ReachedGrows, Zenon
    <3> QED BY <2>1, <3>1, <3>2, Zenon
  <2> QED BY <2>1, <2>2, <2>3, Zenon
<1> HIDE DEF G
<1>4. 0 .. N \subseteq G
  BY <1>1, <1>2, <1>3, UpToInduction, Zenon
<1>5. N \in 0 .. N
  BY <1>1
<1> QED BY <1>4, <1>5, Zenon DEF G

\* Blocks do not overlap: an offset behind the start of a block is behind all
\* of it.
LEMMA ReachedApart ==
  ASSUME NEW f \in FileSet, NEW x \in Reached(f)[Blocks8(f)], NEW y \in Reached(f)[Blocks8(f)],
         x < y
  PROVE  BlockSize(f, x) >= 8 /\ x + BlockSize(f, x) \leq y
<1> DEFINE R == Reached(f)[Blocks8(f)]
           Apart(u, v) == u < v => BlockSize(f, u) >= 8 /\ u + BlockSize(f, u) \leq v
           Bad == {v \in R : \E u \in R : ~ Apart(u, v)}
<1>1. Blocks8(f) \in Nat /\ R \in SUBSET Nat
  BY ReachedFacts
<1>2. \A u \in R : u \in Nat /\ BlockSize(f, u) \in Nat
  BY <1>1, BlockNat, Zenon
<1> SUFFICES ASSUME Bad # {} PROVE FALSE
  <2>1. y \notin Bad
    BY Zenon
  <2> QED BY <2>1, Zenon
<1>3. PICK v \in Bad : \A w \in Bad : v <= w
  <2>1. Bad \subseteq Nat
    BY <1>1, Zenon
  <2> HIDE DEF Bad
  <2> QED BY <2>1, LeastNat, Zenon
<1>4. PICK u \in R : ~ Apart(u, v)
  BY Zenon
<1>5. v \in R /\ u < v /\ v # 0
  <2>1. v \in R /\ u < v
    BY <1>4, Zenon
  <2>2. u \in Nat /\ v \in Nat
    BY <1>2, <2>1, Zenon
  <2> HIDE DEF R, Apart, Bad
  <2> QED BY <2>1, <2>2
<1>6. PICK d \in R : BlockSize(f, d) >= 8 /\ v = d + BlockSize(f, d)
  BY <1>5, ReachedBehind, Zenon
<1> DEFINE bu == BlockSize(f, u)
           bd == BlockSize(f, d)
<1>7. /\ u \in Nat /\ v \in Nat /\ d \in Nat /\ bu \in Nat /\ bd \in Nat
      /\ ~(bu >= 8 /\ u + bu \leq v) /\ bd >= 8 /\ v = d + bd
  BY <1>2, <1>4, <1>5, <1>6, Zenon
<1> HIDE DEF R, Apart, Bad, bu, bd
<1>8. CASE d = u
  <2>1. bd = bu
    BY <1>8, Zenon DEF bu, bd
  <2> QED BY <1>7, <1>8, <2>1
<1>9. CASE u < d
  <2>1. ~(v <= d)
    BY <1>7
  <2>2. d \notin Bad
    BY <1>3, <2>1, Zenon
  <2>3. bu >= 8 /\ u + bu \leq d
    BY <1>9, <2>2, Zenon DEF Bad, Apart, bu
  <2> QED BY <1>7, <2>3
<1>10. CASE d < u
  <2>1. ~(v <= u)
    BY <1>5, <1>7
  <2>2. u \notin Bad
    BY <1>3, <2>1, Zenon
  <2>3. d + bd \leq u
    BY <1>10, <2>2, Zenon DEF Bad, Apart, bd
  <2> QED BY <1>5, <1>7, <2>3
<1>11. d = u \/ u < d \/ d < u
  BY <1>7
<1> QED BY <1>8, <1>9, <1>10, <1>11, Zenon

\* A listed fixup is an entry, of some width, of a block in the directory.
LEMMA ListedIsEntry ==
  ASSUME NEW f \in FileSet
  PROVE  \A x : x \in ListedFixups(f) <=>
           \E c \in BlockStarts(f) : \E i \in 0 .. EntryCount(f, c) - 1 :
             x = Entry(f, c, i) /\ FixupWidth(EntryType(f, c, i)) # 0
<1> DEFINE Listed(c) == {Entry(f, c, i) :
                           i \in {j \in 0 .. EntryCount(f, c) - 1 :
                                    FixupWidth(EntryType(f, c, j)) # 0}}
<1>1. ListedFixups(f) = UNION {Listed(c) : c \in BlockStarts(f)}
  BY Zenon DEF ListedFixups, Entry
<1>2. \A c, x : x \in Listed(c) <=>
        \E i \in 0 .. EntryCount(f, c) - 1 :
          x = Entry(f, c, i) /\ FixupWidth(EntryType(f, c, i)) # 0
  BY Zenon
<1> HIDE DEF Listed
<1>3. \A x : x \in ListedFixups(f) <=> \E c \in BlockStarts(f) : x \in Listed(c)
  BY <1>1, Zenon
<1> QED BY <1>2, <1>3, Zenon

\* The blocks of a directory are the offsets reached in it that hold a block.
LEMMA StartsAreReached ==
  ASSUME NEW f \in FileSet
  PROVE  \A c : c \in BlockStarts(f) <=>
           /\ c \in Reached(f)[Blocks8(f)] /\ c \in Nat
           /\ c < RelocDir(f).size /\ BlockSize(f, c) >= 8
<1> DEFINE R == Reached(f)
<1>1. BlockStarts(f) = {c \in R[RelocDir(f).size \div 8] :
                          c < RelocDir(f).size /\ BlockSize(f, c) >= 8}
  BY Zenon DEF BlockStarts, Reached
<1>2. Blocks8(f) = RelocDir(f).size \div 8
  BY DEF Blocks8
<1>3. \A c \in R[Blocks8(f)] : c \in Nat
  <2>1. Blocks8(f) \in 0 .. Blocks8(f)
    BY ReachedFacts
  <2> QED BY <2>1, ReachedFacts, Zenon
<1> HIDE DEF R
<1>4. \A c : c \in BlockStarts(f) <=> c \in R[Blocks8(f)] /\ c < RelocDir(f).size
                                     /\ BlockSize(f, c) >= 8
  BY <1>1, <1>2, Zenon
<1> QED BY <1>3, <1>4, Zenon DEF R

\* In a block that starts in the directory the pass is at one of its blocks.
LEMMA BlockIsStart ==
  ASSUME NEW f \in FileSet, NEW c \in Nat, OnPath(f, c), BlockSound(f, c)
  PROVE  /\ c \in BlockStarts(f) /\ EntryCount(f, c) \in Nat
         /\ OnPath(f, c + BlockSize(f, c))
<1>1. BlockSize(f, c) \in Nat /\ BlockSize(f, c) >= 8 /\ c + BlockSize(f, c) \leq RelocDir(f).size
  BY BlockNat, Zenon DEF BlockSound
<1>2. PICK n \in 0 .. Blocks8(f) : 8 * n \leq c /\ c \in Reached(f)[n]
  BY Zenon DEF OnPath
<1>3. Blocks8(f) \in Nat /\ RelocDir(f).size \in Nat
  BY ReachedFacts, Zenon
<1>4. c \in BlockStarts(f)
  <2>1. c \in Reached(f)[Blocks8(f)]
    BY <1>2, ReachedGrows, Zenon
  <2>2. c < RelocDir(f).size
    BY <1>1, <1>3
  <2> QED BY <1>1, <2>1, <2>2, StartsAreReached, Zenon
<1>5. n + 1 \in 1 .. Blocks8(f) /\ 8 * (n + 1) \leq c + BlockSize(f, c)
  <2>1. 8 * (n + 1) \leq c + BlockSize(f, c) /\ 8 * (n + 1) \leq RelocDir(f).size
    BY <1>1, <1>2, <1>3
  <2>2. \A d \in Nat, k \in Nat : 8 * k \leq d => k \leq d \div 8
    OBVIOUS
  <2>3. n + 1 \leq Blocks8(f)
    BY <1>3, <2>1, <2>2 DEF Blocks8
  <2> QED BY <1>3, <2>1, <2>3
<1>6. c + BlockSize(f, c) \in Reached(f)[n + 1]
  <2>1. Reached(f)[n + 1] = Reached(f)[(n + 1) - 1] \cup Behind(f, Reached(f)[(n + 1) - 1])
    BY <1>5, ReachedFacts, Zenon
  <2>2. (n + 1) - 1 = n
    BY <1>3
  <2>3. c + BlockSize(f, c) \in Behind(f, Reached(f)[n])
    BY <1>1, <1>2, Zenon DEF Behind
  <2> QED BY <2>1, <2>2, <2>3, Zenon
<1>7. OnPath(f, c + BlockSize(f, c))
  <2>1. n + 1 \in 0 .. Blocks8(f)
    BY <1>3, <1>5
  <2> QED BY <1>1, <1>5, <1>6, <2>1, Zenon DEF OnPath
<1>8. EntryCount(f, c) \in Nat
  BY <1>1 DEF EntryCount
<1> QED BY <1>4, <1>7, <1>8, Zenon

\* In front of the first block nothing is done.
LEMMA DoneNothing ==
  ASSUME NEW f \in FileSet
  PROVE  OnPath(f, 0) /\ Done(f, 0, 0) = {}
<1>1. OnPath(f, 0)
  <2>1. 0 \in 0 .. Blocks8(f) /\ 8 * 0 \leq 0 /\ 0 \in Reached(f)[0] /\ 0 \leq RelocDir(f).size
    BY ReachedFacts
  <2> QED BY <2>1, Zenon DEF OnPath
<1>2. ASSUME NEW x \in ListedFixups(f) PROVE x \notin Done(f, 0, 0)
  <2>1. PICK c \in BlockStarts(f), i \in Int : i \in 0 .. EntryCount(f, c) - 1 /\ x = Entry(f, c, i)
    BY ListedIsEntry
  <2>2. x.by[1] = c /\ x.by[2] = i
    BY <2>1, Zenon DEF Entry
  <2>3. c \in Nat /\ i >= 0
    BY <2>1, StartsAreReached
  <2>4. ~(x.by[1] < 0) /\ ~(x.by[2] < 0)
    BY <2>2, <2>3
  <2> QED BY <2>4, Zenon DEF Done
<1> QED BY <1>1, <1>2, Zenon DEF Done

\* An entry of the block is done: what it lists is added.
LEMMA DoneEntry ==
  ASSUME NEW f \in FileSet, NEW c \in BlockStarts(f), NEW i \in 0 .. EntryCount(f, c) - 1
  PROVE  Done(f, c, i + 1) =
           Done(f, c, i) \cup (IF FixupWidth(EntryType(f, c, i)) = 0 THEN {} ELSE {Entry(f, c, i)})
<1>1. c \in Nat /\ i \in Nat
  BY StartsAreReached
<1>2. Entry(f, c, i).by[1] = c /\ Entry(f, c, i).by[2] = i
  BY Zenon DEF Entry
<1>3. ASSUME NEW x \in ListedFixups(f)
      PROVE  x \in Done(f, c, i + 1) <=> x \in Done(f, c, i) \/ x = Entry(f, c, i)
  <2>1. PICK d \in BlockStarts(f), j \in Int : j \in 0 .. EntryCount(f, d) - 1 /\ x = Entry(f, d, j)
    BY ListedIsEntry
  <2>2. x.by[1] = d /\ x.by[2] = j
    BY <2>1, Zenon DEF Entry
  <2>3. d \in Nat /\ j \in Nat
    BY <2>1, StartsAreReached
  <2>4. (x.by[1] < c \/ (x.by[1] = c /\ x.by[2] < i + 1))
          <=> (x.by[1] < c \/ (x.by[1] = c /\ x.by[2] < i)) \/ (d = c /\ j = i)
    BY <1>1, <2>2, <2>3
  <2>5. (d = c /\ j = i) <=> x = Entry(f, c, i)
    BY <1>2, <2>1, <2>2, Zenon
  <2> QED BY <1>3, <2>4, <2>5, Zenon DEF Done
<1>4. Entry(f, c, i) \in ListedFixups(f) <=> FixupWidth(EntryType(f, c, i)) # 0
  <2>1. FixupWidth(EntryType(f, c, i)) # 0 => Entry(f, c, i) \in ListedFixups(f)
    BY ListedIsEntry, Zenon
  <2>2. ASSUME Entry(f, c, i) \in ListedFixups(f) PROVE FixupWidth(EntryType(f, c, i)) # 0
    <3>1. PICK d \in BlockStarts(f), j \in Int : j \in 0 .. EntryCount(f, d) - 1 /\
            Entry(f, c, i) = Entry(f, d, j) /\ FixupWidth(EntryType(f, d, j)) # 0
      BY <2>2, ListedIsEntry
    <3>2. Entry(f, d, j).by[1] = d /\ Entry(f, d, j).by[2] = j
      BY Zenon DEF Entry
    <3> QED BY <1>2, <3>1, <3>2, Zenon
  <2> QED BY <2>1, <2>2, Zenon
<1>5. Done(f, c, i + 1) \subseteq ListedFixups(f) /\ Done(f, c, i) \subseteq ListedFixups(f)
  BY Zenon DEF Done
<1>6. CASE FixupWidth(EntryType(f, c, i)) = 0
  BY <1>3, <1>4, <1>5, <1>6, Zenon
<1>7. CASE FixupWidth(EntryType(f, c, i)) # 0
  BY <1>3, <1>4, <1>5, <1>7, Zenon
<1> QED BY <1>6, <1>7, Zenon

\* A block is done: all in front of the next one is.
LEMMA DoneBlock ==
  ASSUME NEW f \in FileSet, NEW c \in BlockStarts(f)
  PROVE  Done(f, c, EntryCount(f, c)) = Done(f, c + BlockSize(f, c), 0)
<1>1. c \in Nat /\ BlockSize(f, c) \in Nat /\ BlockSize(f, c) >= 8 /\ EntryCount(f, c) \in Nat
  <2>1. c \in Nat /\ BlockSize(f, c) >= 8
    BY StartsAreReached, Zenon
  <2>2. BlockSize(f, c) \in Nat
    BY <2>1, BlockNat, Zenon
  <2> QED BY <2>1, <2>2 DEF EntryCount
<1>2. ASSUME NEW x \in ListedFixups(f)
      PROVE  x \in Done(f, c, EntryCount(f, c)) <=> x \in Done(f, c + BlockSize(f, c), 0)
  <2>1. PICK d \in BlockStarts(f), j \in Int : j \in 0 .. EntryCount(f, d) - 1 /\ x = Entry(f, d, j)
    BY ListedIsEntry
  <2>2. x.by[1] = d /\ x.by[2] = j
    BY <2>1, Zenon DEF Entry
  <2>3. d \in Nat /\ j \in Nat
    BY <2>1, StartsAreReached
  <2>4. d > c => d >= c + BlockSize(f, c)
    BY <1>1, <2>3, StartsAreReached, ReachedApart, Zenon
  <2>5. d = c => j < EntryCount(f, c)
    BY <1>1, <2>1
  <2>6. (d < c \/ (d = c /\ j < EntryCount(f, c)))
          <=> (d < c + BlockSize(f, c) \/ (d = c + BlockSize(f, c) /\ j < 0))
    BY <1>1, <2>3, <2>4, <2>5
  <2> QED BY <1>2, <2>2, <2>6, Zenon DEF Done
<1> QED BY <1>2, Zenon DEF Done

\* The pass ends at the end of the directory or at a block of size 0: then all
\* is done that is listed.
LEMMA DoneAll ==
  ASSUME NEW f \in FileSet, NEW c \in Nat, OnPath(f, c),
         c >= RelocDir(f).size \/ BlockSize(f, c) = 0
  PROVE  Done(f, c, 0) = ListedFixups(f)
<1>1. c \in Reached(f)[Blocks8(f)] /\ RelocDir(f).size \in Nat
  BY ReachedGrows, ReachedFacts, Zenon DEF OnPath
<1>2. ASSUME NEW x \in ListedFixups(f) PROVE x \in Done(f, c, 0)
  <2>1. PICK d \in BlockStarts(f), j \in Int : j \in 0 .. EntryCount(f, d) - 1 /\ x = Entry(f, d, j)
    BY ListedIsEntry
  <2>2. x.by[1] = d
    BY <2>1, Zenon DEF Entry
  <2>3. d \in Nat /\ d \in Reached(f)[Blocks8(f)] /\ d < RelocDir(f).size
        /\ BlockSize(f, d) >= 8
    BY StartsAreReached, Zenon
  <2>4. c < d => BlockSize(f, c) >= 8
    BY <1>1, <2>3, ReachedApart, Zenon
  <2>5. d < c
    <3>1. CASE c >= RelocDir(f).size
      <4> DEFINE size == RelocDir(f).size
      <4>1. c >= size /\ d < size /\ size \in Nat /\ d \in Nat
        BY <1>1, <2>3, <3>1, Zenon
      <4> HIDE DEF size
      <4> QED BY <4>1
    <3>2. CASE BlockSize(f, c) = 0
      <4>1. c # d
        BY <2>3, <3>2
      <4>2. ~(c < d)
        BY <2>4, <3>2
      <4> QED BY <2>3, <4>1, <4>2
    <3> QED BY <3>1, <3>2, Zenon
  <2> QED BY <1>2, <2>2, <2>5, Zenon DEF Done
<1> QED BY <1>2, Zenon DEF Done

\* load_pe starts with nothing relocated.
LEMMA RelocInvInit == PeInit => RelocInv
  BY PeInvInit, Zenon DEF PeInit, RelocInv

\* Every step keeps the pass at the list.
LEMMA RelocInvStep == RelocInv /\ [PeNext]_peVars => RelocInv'
<1> SUFFICES ASSUME RelocInv, [PeNext]_peVars PROVE RelocInv'
  OBVIOUS
<1>1. PeInv /\ PeInv'
  BY PeInvStep, Zenon DEF RelocInv
<1>2. /\ file \in FileSet /\ cursor \in Nat /\ item \in Nat
      /\ lpc = "fixup" => BlockSound(file, cursor)
  BY <1>1, Zenon DEF PeInv, PeTypeOK
<1>3. CASE UNCHANGED peVars
  BY <1>1, <1>3, Zenon DEF RelocInv, peVars, Unrelocated
<1>4. CASE ParseAndValidate
  BY <1>1, <1>4, Zenon DEF ParseAndValidate, RelocInv
<1>5. CASE Allocate
  BY <1>1, <1>5, Zenon DEF Allocate, RelocInv
<1>6. CASE Copy
  BY <1>1, <1>6, Zenon DEF Copy, RelocInv
<1>7. CASE Decide
  <2>1. fixups = {} /\ cursor = 0 /\ file' = file /\ fixups' = fixups /\ cursor' = cursor
        /\ got' = got
    BY <1>7, Zenon DEF Decide, RelocInv
  <2>2. CASE Unrelocated(file)
    <3>1. lpc' = "install"
      BY <1>7, <2>2, Zenon DEF Decide, Unrelocated
    <3> QED BY <1>1, <2>1, <2>2, <3>1, Zenon DEF RelocInv, Unrelocated
  <2>3. CASE ~ Unrelocated(file) /\ lpc' = "block"
    BY <1>1, <1>2, <2>1, <2>3, DoneNothing, Zenon DEF RelocInv, Unrelocated
  <2>4. lpc' \in {"block", "failed"} \/ Unrelocated(file)
    BY <1>7, Zenon DEF Decide, Unrelocated, Fail
  <2>5. CASE lpc' = "failed"
    BY <1>1, <2>5, Zenon DEF RelocInv
  <2> QED BY <2>2, <2>3, <2>4, <2>5, Zenon
<1>8. CASE Block
  <2>1. /\ fixups = Done(file, cursor, 0) /\ ~ Unrelocated(file) /\ OnPath(file, cursor)
        /\ file' = file /\ fixups' = fixups /\ cursor' = cursor /\ got' = got /\ item' = 0
    BY <1>8, Zenon DEF Block, RelocInv
  <2>2. CASE lpc' = "install"
    <3>1. cursor >= RelocDir(file).size \/ BlockSize(file, cursor) = 0
      BY <1>8, <2>2, Zenon DEF Block, Fail
    <3>2. Done(file, cursor, 0) = ListedFixups(file)
      BY <1>2, <2>1, <3>1, DoneAll, Zenon
    <3> QED BY <1>1, <2>1, <2>2, <3>2, Zenon DEF RelocInv, Unrelocated
  <2>3. CASE lpc' = "fixup"
    <3>1. BlockSound(file, cursor)
      BY <1>8, <2>3, Zenon DEF Block, Fail
    <3>2. EntryCount(file, cursor) \in Nat
      BY <1>2, <2>1, <3>1, BlockIsStart, Zenon
    <3> QED BY <1>1, <2>1, <2>3, <3>2 DEF RelocInv, Unrelocated
  <2>4. CASE lpc' = "failed"
    BY <1>1, <2>4, Zenon DEF RelocInv
  <2>5. lpc' \in {"install", "fixup", "failed"}
    BY <1>8, Zenon DEF Block, Fail
  <2> QED BY <2>2, <2>3, <2>4, <2>5, Zenon
<1>9. CASE Fixup
  <2>1. /\ fixups = Done(file, cursor, item) /\ ~ Unrelocated(file) /\ OnPath(file, cursor)
        /\ file' = file /\ cursor' = cursor /\ got' = got /\ lpc = "fixup"
        /\ item < EntryCount(file, cursor)
    BY <1>9, Zenon DEF Fixup, RelocInv
  <2>2. cursor \in BlockStarts(file) /\ EntryCount(file, cursor) \in Nat
    BY <1>2, <2>1, BlockIsStart, Zenon
  <2>3. CASE FixupFits(file, cursor, item)
    <3>1. /\ fixups' = IF FixupWidth(EntryType(file, cursor, item)) = 0 THEN fixups
                       ELSE fixups \cup {Entry(file, cursor, item)}
          /\ item' = item + 1 /\ lpc' = lpc
      BY <1>9, <2>3, Zenon DEF Fixup, Entry
    <3>2. item \in 0 .. EntryCount(file, cursor) - 1
      BY <1>2, <2>1, <2>2
    <3>3. fixups' = Done(file, cursor, item + 1)
      <4>1. Done(file, cursor, item + 1) =
              Done(file, cursor, item) \cup
                (IF FixupWidth(EntryType(file, cursor, item)) = 0 THEN {}
                 ELSE {Entry(file, cursor, item)})
        BY <1>2, <2>2, <3>2, DoneEntry, Zenon
      <4> QED BY <2>1, <3>1, <4>1, Zenon
    <3>4. item + 1 \leq EntryCount(file, cursor)
      BY <1>2, <2>1, <2>2
    <3> QED BY <1>1, <2>1, <3>1, <3>3, <3>4, Zenon DEF RelocInv, Unrelocated
  <2>4. CASE ~ FixupFits(file, cursor, item)
    <3>1. lpc' = "failed"
      BY <1>9, <2>4, Zenon DEF Fixup, Fail
    <3> QED BY <1>1, <3>1, Zenon DEF RelocInv
  <2> QED BY <2>3, <2>4, Zenon
<1>10. CASE NextBlock
  <2>1. /\ fixups = Done(file, cursor, item) /\ ~ Unrelocated(file) /\ OnPath(file, cursor)
        /\ file' = file /\ got' = got /\ fixups' = fixups /\ lpc = "fixup" /\ lpc' = "block"
        /\ item = EntryCount(file, cursor) /\ cursor' = cursor + BlockSize(file, cursor)
    BY <1>10, Zenon DEF NextBlock, RelocInv
  <2>2. cursor \in BlockStarts(file) /\ OnPath(file, cursor + BlockSize(file, cursor))
    BY <1>2, <2>1, BlockIsStart, Zenon
  <2>3. fixups' = Done(file, cursor', 0)
    BY <1>2, <2>1, <2>2, DoneBlock, Zenon
  <2> QED BY <1>1, <2>1, <2>2, <2>3, Zenon DEF RelocInv, Unrelocated
<1>11. CASE Install
  <2>1. lpc = "install" /\ file' = file /\ got' = got /\ fixups' = fixups
        /\ lpc' \in {"loaded", "failed"}
    BY <1>11, Zenon DEF Install, Fail
  <2> QED BY <1>1, <2>1, Zenon DEF RelocInv, Unrelocated
<1>12. CASE FreePages
  <2>1. lpc' = "failed"
    BY <1>12, Zenon DEF FreePages, Fail
  <2> QED BY <1>1, <2>1, Zenon DEF RelocInv
<1> QED BY <1>3, <1>4, <1>5, <1>6, <1>7, <1>8, <1>9, <1>10, <1>11, <1>12, Zenon DEF PeNext,
           LoadSteps

\* An image loaded away from its preferred base had every fixup that its
\* directory lists applied, each once, and no other, whatever blocks the
\* directory holds (apply_relocations_to_slice).
THEOREM RelocatedAsListedHolds == PeSpec => []RelocatedAsListed
<1>1. RelocInv => RelocatedAsListed
  BY Zenon DEF RelocInv, RelocatedAsListed, Unrelocated
<1> QED BY <1>1, RelocInvInit, RelocInvStep, PTL DEF PeSpec
-----------------------------------------------------------------------------
(* ImageLoad *)

\* The scopes a SecurityOverrideGuard lives in.
Guarded == {"driverLoad", "driverRuns", "firmwareLoad"}

\* The hooks while a guard lives, and while none does.
HooksLent == \A a \in fw.archs : hooks[a] = "ours" /\ saved[a] = "firmware"
HooksOwn == \A a \in fw.archs : hooks[a] = "firmware"

\* The inductive invariant: the guard and the flag agree, they are set exactly
\* in the guarded scopes (where there is a protocol to hook), and they say
\* whose functions the protocols hold.
HookInv ==
  /\ fw.archs \subseteq Archs /\ (fw.sb => "security2" \in fw.archs)
  /\ \A a \in Archs : saved[a] \in {"none", "firmware"}
  /\ active \in BOOLEAN /\ guard \in BOOLEAN /\ (active <=> guard)
  /\ active <=> bpc \in Guarded /\ fw.archs # {}
  /\ active => HooksLent
  /\ ~active => HooksOwn

\* The firmware's protocols before LamBoot touches them.
LEMMA HookInit == ImageInit => HookInv
  BY Zenon DEF ImageInit, HookInv, HooksOwn, HooksLent, Guarded, Archs

\* install_security_override outside a guarded scope takes the originals.
LEMMA InstallLends ==
  ASSUME HookInv, ~active, InstallOverride, UNCHANGED fw, bpc' \in Guarded
  PROVE  HookInv'
<1>1. CASE fw.archs = {}
  BY <1>1, Zenon DEF InstallOverride, overrideVars, HookInv, HooksLent, HooksOwn
<1>2. CASE fw.archs # {}
  <2>1. /\ active' /\ guard' /\ active' \in BOOLEAN /\ guard' \in BOOLEAN
        /\ saved' = [a \in Archs |-> IF a \in fw.archs THEN hooks[a] ELSE saved[a]]
        /\ hooks' = [a \in fw.archs |-> "ours"]
    BY <1>2, Zenon DEF InstallOverride
  <2>2. HooksLent'
    BY <2>1, Zenon DEF HooksLent, HooksOwn, HookInv
  <2>3. \A a \in Archs : saved'[a] \in {"none", "firmware"}
    BY <2>1, Zenon DEF HookInv, HooksOwn
  <2> QED BY <1>2, <2>1, <2>2, <2>3, Zenon DEF HookInv
<1> QED BY <1>1, <1>2, Zenon

\* uninstall_security_override at the end of a guarded scope restores them.
LEMMA UninstallRestores ==
  ASSUME HookInv, bpc \in Guarded, UninstallOverride, UNCHANGED fw, bpc' \notin Guarded
  PROVE  HookInv'
<1>1. CASE fw.archs = {}
  BY <1>1, Zenon DEF UninstallOverride, overrideVars, HookInv, HooksLent, HooksOwn
<1>2. CASE fw.archs # {}
  <2>1. /\ ~active' /\ ~guard' /\ active' \in BOOLEAN /\ guard' \in BOOLEAN
        /\ saved' = [a \in Archs |-> "none"]
        /\ hooks' = [a \in fw.archs |-> saved[a]]
    BY <1>2, Zenon DEF UninstallOverride, HookInv
  <2>2. HooksOwn'
    BY <1>2, <2>1, Zenon DEF HooksLent, HooksOwn, HookInv
  <2> QED BY <2>1, <2>2, Zenon DEF HookInv
<1> QED BY <1>1, <1>2, Zenon

\* A step that leaves the hooks alone and stays on its side of the scopes.
LEMMA HooksAlone ==
  ASSUME HookInv, UNCHANGED <<fw, overrideVars>>, bpc' \in Guarded <=> bpc \in Guarded
  PROVE  HookInv'
  BY Zenon DEF overrideVars, HookInv, HooksLent, HooksOwn

\* Every step keeps the invariant.
LEMMA HookStep == HookInv /\ [ImageNext]_imageVars => HookInv'
<1> SUFFICES ASSUME HookInv, [ImageNext]_imageVars PROVE HookInv'
  OBVIOUS
<1>1. CASE DriverGuarded
  BY <1>1, InstallLends DEF DriverGuarded, Guarded, HookInv
<1>2. CASE FirmwareGuarded
  BY <1>2, InstallLends, Zenon DEF FirmwareGuarded, Guarded, HookInv
<1>3. CASE DriverRefused \/ DriverReturns
  BY <1>3, UninstallRestores, Zenon DEF DriverRefused, DriverReturns, Guarded
<1>4. CASE FirmwareStarts \/ FirmwareRefuses
  BY <1>4, UninstallRestores, Zenon DEF FirmwareStarts, FirmwareRefuses, LeaveBootLinux, Guarded
<1>5. CASE RequestRetain \/ DriverLoaded \/ DriversDone
  BY <1>5, HooksAlone, Zenon DEF RequestRetain, DriverLoaded, DriversDone, Guarded
<1>6. CASE SelectKernel \/ RegisterInitrd \/ NativeStarts \/ AskInitrd \/ TakesOver
  BY <1>6, HooksAlone, Zenon DEF SelectKernel, RegisterInitrd, AfterInitrd, NativeStarts,
     AskInitrd,
     TakesOver, Guarded
<1>7. CASE NativeLoads
  BY <1>7, HooksAlone, Zenon DEF NativeLoads, lendVars, overrideVars, Guarded
<1>8. CASE NativeInstalls \/ NativeFallsBack
  BY <1>8, HooksAlone, Zenon DEF NativeInstalls, NativeFallsBack, Guarded
<1>9. CASE Returns
  BY <1>9, HooksAlone, Zenon DEF Returns, LeaveBootLinux, Guarded
<1>10. CASE UNCHANGED imageVars
  BY <1>10, HooksAlone, Zenon DEF imageVars, lendVars, overrideVars
<1> QED BY <1>1, <1>2, <1>3, <1>4, <1>5, <1>6, <1>7, <1>8, <1>9, <1>10, Zenon DEF ImageNext

\* The invariant holds in every reachable state.
LEMMA HookInvHolds == ImageSpec => []HookInv
  BY HookInit, HookStep, PTL DEF ImageSpec

\* On every path through load_single_driver and boot_linux the firmware gets
\* its own functions back, and no hook takes one of ours for the original.
THEOREM HooksGivenBackHolds == ImageSpec => []HooksGivenBack
<1>1. HookInv => HooksGivenBack
  BY Zenon DEF HookInv, HooksOwn, Guarded, Loading, HooksGivenBack
<1> QED BY <1>1, HookInvHolds, PTL

\* Under Secure Boot a LoadImage that LamBoot calls is decided by shim, if it
\* is there, or by db: hook_security2 is in place and has its original.
THEOREM OverrideVerdictHolds == ImageSpec => []OverrideVerdict
<1>1. HookInv => OverrideVerdict
  <2> SUFFICES ASSUME HookInv, Loading, fw.sb
               PROVE  LoadImageAccepts(image) <=> (shimLock /\ image.shimOk) \/ image.dbOk
    BY Zenon DEF OverrideVerdict
  <2>1. "security2" \in fw.archs /\ active
    BY Zenon DEF HookInv, Loading, Guarded
  <2>2. hooks["security2"] = "ours" /\ saved["security2"] = "firmware"
    BY <2>1, Zenon DEF HookInv, HooksLent
  <2> QED BY <2>1, <2>2, Zenon DEF LoadImageAccepts, HookSecurity2, FirmwareAccepts
<1> QED BY <1>1, HookInvHolds, PTL
-----------------------------------------------------------------------------
(* The initrd provider *)

\* Where an attempt may hold an InitrdHandle.
Attempting == {"native", "firmware", "firmwareLoad", "running", "gone"}

Protos == {"DevicePath", "LoadFile2", "LoadedImage"}

\* What is installed of attempt o for its initrd.
Provided(o) == Iface(o, "DevicePath") \in ifaces /\ Iface(o, "LoadFile2") \in ifaces

\* The inductive invariant: only the attempt that holds a handle has both of a
\* provider's interfaces installed, an attempt that has not registered yet has
\* none, and what is installed for an initrd is allocated.
LendInv ==
  /\ boots \in Nat
  /\ registered \in BOOLEAN
  /\ ifaces \subseteq [proto : Protos, owner : Nat]
  /\ \A i \in ifaces : i.owner <= boots
  /\ bpc = "initrd" => \A i \in ifaces : i.owner < boots
  /\ registered => bpc \in Attempting /\ boots > 0 /\ Provided(boots)
                   /\ Owned(boots, "data") \in heap
  /\ \A o \in Nat : Provided(o) => o = boots /\ registered
  /\ InitrdAlive
  /\ bpc \in Attempting \cup {"initrd"} => boots > 0

\* The fields of an interface and of an object.
LEMMA IfaceFields ==
  ASSUME NEW o \in Nat, NEW proto \in Protos
  PROVE  /\ Iface(o, proto) \in [proto : Protos, owner : Nat]
         /\ Iface(o, proto).owner = o /\ Iface(o, proto).proto = proto
  BY Zenon DEF Iface

\* An interface is known by its protocol and its attempt.
LEMMA IfaceKnown ==
  ASSUME NEW i \in [proto : Protos, owner : Nat]
  PROVE  i = Iface(i.owner, i.proto)
  BY Zenon DEF Iface

\* What an interface for an initrd points at.
LEMMA PointsAtInitrd ==
  ASSUME NEW i \in [proto : Protos, owner : Nat], i.proto # "LoadedImage"
  PROVE  /\ PointsAt(i) \in InitrdObjects(i.owner)
         /\ PointsAt(i).owner = i.owner
         /\ PointsAt(i) # Owned(boots, "loadedImage")
         /\ i.owner # boots => PointsAt(i) \notin InitrdObjects(boots)
  BY DEF PointsAt, Protos, Owned, InitrdObjects

\* Nothing is lent at power-on.
LEMMA LendInit == ImageInit => LendInv
<1> SUFFICES ASSUME ImageInit PROVE LendInv
  OBVIOUS
<1>1. bpc = "start" /\ boots = 0 /\ registered = FALSE /\ ifaces = {}
  BY Zenon DEF ImageInit
<1> QED BY <1>1, Zenon DEF LendInv, InitrdAlive, Provided, Attempting

\* A step that lends nothing and takes nothing back.
LEMMA LendAlone ==
  ASSUME LendInv, UNCHANGED <<ifaces, registered, boots, heap>>,
         bpc' = "initrd" => bpc = "initrd",
         bpc \in Attempting => bpc' \in Attempting,
         bpc' \in Attempting => bpc \in Attempting \cup {"initrd"}
  PROVE  LendInv'
<1>1. InitrdAlive'
  BY Zenon DEF LendInv, InitrdAlive, PointsAt
<1>2. \A o : Provided(o)' = Provided(o)
  BY Zenon DEF Provided
<1> QED BY <1>1, <1>2, Zenon DEF LendInv

\* A selection is a new attempt, without interfaces of its own.
LEMMA LendSelect == LendInv /\ SelectKernel => LendInv'
<1> SUFFICES ASSUME LendInv, SelectKernel PROVE LendInv'
  OBVIOUS
<1>1. InitrdAlive'
  BY Zenon DEF LendInv, SelectKernel, InitrdAlive, PointsAt
<1>2. \A o : Provided(o)' = Provided(o)
  BY Zenon DEF Provided, SelectKernel
<1>3. ~registered /\ boots' = boots + 1 /\ bpc' = "initrd"
      /\ UNCHANGED <<ifaces, registered>>
  BY Zenon DEF LendInv, SelectKernel, Attempting
<1> QED BY <1>1, <1>2, <1>3 DEF LendInv

\* register: both interfaces, or what a refused installation leaves.
LEMMA LendRegister == LendInv /\ RegisterInitrd => LendInv'
<1> SUFFICES ASSUME LendInv, RegisterInitrd PROVE LendInv'
  OBVIOUS
<1> DEFINE path == Iface(boots, "DevicePath")
           file2 == Iface(boots, "LoadFile2")
<1>0. /\ boots \in Nat /\ boots > 0 /\ bpc = "initrd" /\ UNCHANGED boots
      /\ ~registered /\ \A i \in ifaces : i.owner < boots
      /\ \A o \in Nat : ~Provided(o)
  BY Zenon DEF LendInv, RegisterInitrd, Attempting
<1>1. bpc' \in {"native", "firmware"}
  BY Zenon DEF RegisterInitrd, AfterInitrd
<1>2. /\ path \in [proto : Protos, owner : Nat] /\ path.owner = boots
      /\ file2 \in [proto : Protos, owner : Nat] /\ file2.owner = boots
      /\ path # file2
  BY <1>0, Zenon DEF Iface, Protos
<1>3. /\ ifaces' \in {ifaces, ifaces \cup {path}, ifaces \cup {path, file2}}
      /\ ifaces' # ifaces => heap' = heap \cup InitrdObjects(boots)
      /\ heap \subseteq heap'
      /\ registered' \in BOOLEAN
      /\ registered' => ifaces' = ifaces \cup {path, file2} /\ ifaces' # ifaces
      /\ ifaces' = ifaces \cup {path, file2} /\ ifaces' # ifaces
         /\ ifaces' # ifaces \cup {path} => registered'
  <2>1. \/ UNCHANGED <<ifaces, heap, registered>>
        \/ /\ heap' = heap \cup InitrdObjects(boots)
           /\ ifaces' = ifaces \cup {path, file2} /\ registered' = TRUE
        \/ /\ heap' = heap \cup InitrdObjects(boots)
           /\ ifaces' \in {ifaces, ifaces \cup {path}} /\ UNCHANGED registered
    BY Zenon DEF RegisterInitrd
  <2>2. path \notin ifaces /\ registered \in BOOLEAN
    BY <1>0, <1>2 DEF LendInv
  <2>3. ifaces \cup {path, file2} # ifaces
    BY <2>2, Zenon
  <2> HIDE DEF path, file2
  <2>4. CASE UNCHANGED <<ifaces, heap, registered>>
    BY <1>0, <2>2, <2>4, Zenon
  <2>5. CASE heap' = heap \cup InitrdObjects(boots)
             /\ ifaces' = ifaces \cup {path, file2} /\ registered' = TRUE
    BY <2>3, <2>5, Zenon
  <2>6. CASE heap' = heap \cup InitrdObjects(boots)
             /\ ifaces' \in {ifaces, ifaces \cup {path}} /\ UNCHANGED registered
    BY <1>0, <2>2, <2>6, Zenon
  <2> QED BY <2>1, <2>4, <2>5, <2>6, Zenon
<1> HIDE DEF path, file2
<1>4. InitrdAlive'
  <2> SUFFICES ASSUME NEW i \in ifaces', i.proto # "LoadedImage" PROVE PointsAt(i) \in heap'
    BY Zenon DEF InitrdAlive, PointsAt
  <2>1. CASE i \in ifaces
    BY <2>1, <1>3, Zenon DEF LendInv, InitrdAlive
  <2>2. CASE i \in {path, file2} /\ i \notin ifaces
    <3>1. PointsAt(i) \in InitrdObjects(boots)
      BY <2>2, <1>2, PointsAtInitrd, Zenon
    <3> QED BY <3>1, <1>3, <2>2, Zenon
  <2> QED BY <2>1, <2>2, <1>3, Zenon
<1>5. ASSUME NEW o \in Nat, Provided(o)' PROVE o = boots /\ registered'
  <2> DEFINE po == Iface(o, "DevicePath")
             fo == Iface(o, "LoadFile2")
  <2>1. /\ po.owner = o /\ fo.owner = o /\ po \in ifaces' /\ fo \in ifaces'
        /\ ~(po \in ifaces /\ fo \in ifaces)
    BY <1>0, <1>5, Zenon DEF Provided, Iface
  <2>2. o = boots
    BY <2>1, <1>0, <1>2, <1>3, Zenon
  <2>3. po = path /\ fo = file2
    BY <2>2, Zenon DEF path, file2
  <2>4. fo \notin ifaces \cup {path}
    BY <2>3, <1>2, <1>0
  <2> HIDE DEF po, fo
  <2>5. ifaces' = ifaces \cup {path, file2} /\ ifaces' # ifaces /\ ifaces' # ifaces \cup {path}
    BY <2>1, <2>4, <1>3, Zenon
  <2> QED BY <2>2, <2>5, <1>3, Zenon
<1>6. registered' => Provided(boots)' /\ Owned(boots, "data") \in heap'
  BY <1>0, <1>3, Zenon DEF Provided, path, file2, InitrdObjects
<1>7. ifaces' \subseteq [proto : Protos, owner : Nat] /\ \A i \in ifaces' : i.owner <= boots
  BY <1>0, <1>2, <1>3 DEF LendInv
<1> QED BY <1>0, <1>1, <1>3, <1>4, <1>5, <1>6, <1>7, Zenon DEF LendInv, Attempting

\* Drop for InitrdHandle: the interfaces and the objects of this attempt go,
\* together, and only if it holds a handle.
LEMMA LendDrop ==
  ASSUME LendInv, NEW objects, DropInitrd(objects), UNCHANGED boots,
         objects \in {heap, HeapWithoutImage},
         bpc' \notin Attempting, bpc' # "initrd"
  PROVE  LendInv'
<1> DEFINE path == Iface(boots, "DevicePath")
           file2 == Iface(boots, "LoadFile2")
<1>0. boots \in Nat /\ registered \in BOOLEAN /\ ifaces \subseteq [proto : Protos, owner : Nat]
  BY Zenon DEF LendInv
<1>1. /\ registered' = FALSE
      /\ registered => ifaces' = ifaces \ {path, file2} /\ heap' = objects \ InitrdObjects(boots)
      /\ ~registered => ifaces' = ifaces /\ heap' = objects
  BY Zenon DEF DropInitrd
<1>2. ifaces' \subseteq ifaces
  BY <1>0, <1>1, Zenon
<1>3. ASSUME NEW o \in Nat, Provided(o)' PROVE FALSE
  <2>1. Provided(o)
    BY <1>2, <1>3, Zenon DEF Provided
  <2>2. o = boots /\ registered
    BY <2>1, Zenon DEF LendInv
  <2> QED BY <1>1, <1>3, <2>2, Zenon DEF Provided
<1> HIDE DEF path, file2
<1>4. InitrdAlive'
  <2> SUFFICES ASSUME NEW i \in ifaces', i.proto # "LoadedImage" PROVE PointsAt(i) \in heap'
    BY Zenon DEF InitrdAlive, PointsAt
  <2>1. i \in [proto : Protos, owner : Nat] /\ PointsAt(i) \in heap
    BY <1>0, <1>2, Zenon DEF LendInv, InitrdAlive
  <2>2. PointsAt(i) \in objects
    BY <2>1, PointsAtInitrd, Zenon DEF HeapWithoutImage
  <2>3. registered => i.owner # boots
    <3> SUFFICES ASSUME registered, i.owner = boots PROVE FALSE
      BY Zenon
    <3>1. i = Iface(boots, i.proto) /\ i.proto \in {"DevicePath", "LoadFile2"}
      BY <2>1, IfaceKnown, Zenon DEF Protos
    <3> QED BY <3>1, <1>1, Zenon DEF path, file2
  <2> QED BY <2>1, <2>2, <2>3, <1>0, <1>1, PointsAtInitrd, Zenon
<1> QED BY <1>0, <1>1, <1>2, <1>3, <1>4, Zenon DEF LendInv

\* A natively loaded image brings an interface of its own, and no provider's.
LEMMA LendInstalls == LendInv /\ NativeInstalls => LendInv'
<1> SUFFICES ASSUME LendInv, NativeInstalls PROVE LendInv'
  OBVIOUS
<1> DEFINE own == Iface(boots, "LoadedImage")
<1>0. boots \in Nat /\ bpc = "native" /\ UNCHANGED <<bpc, boots, registered>>
  BY Zenon DEF LendInv, NativeInstalls
<1>1. ifaces' \in {ifaces, ifaces \cup {own}} /\ heap \subseteq heap'
  BY Zenon DEF NativeInstalls
<1>2. own \in [proto : Protos, owner : Nat] /\ own.owner = boots /\ own.proto = "LoadedImage"
  BY <1>0, Zenon DEF Iface, Protos
<1>3. \A o \in Nat : Iface(o, "DevicePath") # own /\ Iface(o, "LoadFile2") # own
  BY <1>0, Zenon DEF Iface
<1> HIDE DEF own
<1>4. \A o \in Nat : Provided(o)' <=> Provided(o)
  BY <1>1, <1>3, Zenon DEF Provided
<1>5. InitrdAlive'
  <2> SUFFICES ASSUME NEW i \in ifaces', i.proto # "LoadedImage" PROVE PointsAt(i) \in heap'
    BY Zenon DEF InitrdAlive, PointsAt
  <2> QED BY <1>1, <1>2, Zenon DEF LendInv, InitrdAlive
<1> QED BY <1>0, <1>1, <1>2, <1>4, <1>5 DEF LendInv, Attempting

\* The fallback to the firmware frees the loaded image only.
LEMMA LendFallsBack == LendInv /\ NativeFallsBack => LendInv'
<1> SUFFICES ASSUME LendInv, NativeFallsBack PROVE LendInv'
  OBVIOUS
<1>0. /\ bpc = "native" /\ bpc' = "firmware" /\ UNCHANGED <<boots, registered, ifaces>>
      /\ heap' \in {heap, HeapWithoutImage}
  BY Zenon DEF NativeFallsBack
<1>1. InitrdAlive'
  <2> SUFFICES ASSUME NEW i \in ifaces', i.proto # "LoadedImage" PROVE PointsAt(i) \in heap'
    BY Zenon DEF InitrdAlive, PointsAt
  <2>1. i \in [proto : Protos, owner : Nat] /\ PointsAt(i) \in heap
    BY <1>0, Zenon DEF LendInv, InitrdAlive
  <2> QED BY <2>1, <1>0, PointsAtInitrd, Zenon DEF HeapWithoutImage
<1>2. Owned(boots, "data") \in heap => Owned(boots, "data") \in heap'
  BY <1>0, Zenon DEF HeapWithoutImage, Owned
<1>3. \A o : Provided(o)' = Provided(o)
  BY <1>0, Zenon DEF Provided
<1> QED BY <1>0, <1>1, <1>2, <1>3, Zenon DEF LendInv, Attempting

\* Every step keeps the invariant.
LEMMA LendStep == LendInv /\ [ImageNext]_imageVars => LendInv'
<1> SUFFICES ASSUME LendInv, [ImageNext]_imageVars PROVE LendInv'
  OBVIOUS
<1>1. CASE RequestRetain \/ DriverGuarded \/ DriverLoaded \/ DriverRefused
           \/ DriverReturns \/ DriversDone
  BY <1>1, LendAlone, Zenon DEF RequestRetain, DriverGuarded, DriverLoaded, DriverRefused,
     DriverReturns, DriversDone, lentVars, Attempting
<1>2. CASE SelectKernel \/ RegisterInitrd \/ NativeInstalls \/ NativeFallsBack
  BY <1>2, LendSelect, LendRegister, LendInstalls, LendFallsBack, Zenon
<1>3. CASE NativeLoads \/ UNCHANGED imageVars
  BY <1>3, LendAlone, Zenon DEF NativeLoads, imageVars, lendVars
<1>4. CASE NativeStarts \/ FirmwareGuarded \/ FirmwareStarts \/ AskInitrd \/ TakesOver
  BY <1>4, LendAlone, Zenon DEF NativeStarts, FirmwareGuarded, FirmwareStarts, AskInitrd,
     TakesOver,
     lentVars, Attempting
<1>5. CASE FirmwareRefuses
  BY <1>5, LendDrop DEF FirmwareRefuses, LeaveBootLinux, Attempting
<1>6. CASE Returns
  BY <1>6, LendDrop, Zenon DEF Returns, LeaveBootLinux, Attempting
<1> QED BY <1>1, <1>2, <1>3, <1>4, <1>5, <1>6, Zenon DEF ImageNext

\* The invariant holds in every reachable state.
LEMMA LendInvHolds == ImageSpec => []LendInv
  BY LendInit, LendStep, PTL DEF ImageSpec

\* The initrd a running kernel can find is that of its own attempt, and it is
\* there whenever InitrdHandle::register succeeded.
THEOREM FindsItsOwnInitrdHolds == ImageSpec => []FindsItsOwnInitrd
<1>1. LendInv => FindsItsOwnInitrd
  <2> SUFFICES ASSUME LendInv PROVE FindsItsOwnInitrd
    OBVIOUS
  <2>1. boots \in Nat /\ Providers = {o \in 1 .. boots : Provided(o)}
    BY Zenon DEF LendInv, Providers, Provided
  <2>2. Providers \subseteq {boots}
    BY <2>1 DEF LendInv
  <2>3. registered => boots \in Providers
    BY <2>1 DEF LendInv
  <2>4. bpc \in {"drivers", "menu"} => Providers = {}
    BY <2>1 DEF LendInv, Attempting
  <2> QED BY <2>2, <2>3, <2>4, Zenon DEF FindsItsOwnInitrd
<1> QED BY <1>1, LendInvHolds, PTL

\* What the firmware can call or walk for an initrd is allocated, whichever
\* installation was refused and however boot_linux was left.
THEOREM InitrdAliveHolds == ImageSpec => []InitrdAlive
<1>1. LendInv => InitrdAlive
  BY Zenon DEF LendInv
<1> QED BY <1>1, LendInvHolds, PTL
-----------------------------------------------------------------------------
(* The LoadFile2 callback *)

\* What the last answer of the callback promises.
ReplySound ==
  /\ reply.status = "SUCCESS" =>
       reply.buffer >= image.initrd /\ Owned(reply.from, "data") \in heap
  /\ reply.status = "BUFFER_TOO_SMALL" => reply.size = image.initrd /\ image.initrd # 0

\* The inductive invariant: an answer is one of this attempt's kernel.
ReplyInv ==
  /\ LendInv
  /\ image.initrd \in Int /\ reply.size \in Int
  /\ bpc \notin {"running", "gone"} => reply = NoReply
  /\ ReplySound

\* No answer promises nothing.
LEMMA NoReplySound == reply = NoReply => ReplySound
  BY DEF NoReply, ReplySound

\* Nobody has asked yet.
LEMMA ReplyInit == ImageInit => ReplyInv
<1> SUFFICES ASSUME ImageInit PROVE ReplyInv
  OBVIOUS
<1>1. image = Unset /\ reply = NoReply
  BY Zenon DEF ImageInit
<1> QED BY <1>1, NoReplySound, LendInit DEF ReplyInv, Unset, NoReply

\* An answer is computed from this attempt's initrd, which is allocated.
LEMMA ReplyAsk ==
  ASSUME ReplyInv, AskInitrd
  PROVE  ReplySound' /\ image'.initrd \in Int /\ reply'.size \in Int /\ bpc' = "running"
<1>1. /\ image' = image /\ heap' = heap /\ bpc' = "running" /\ image.initrd \in Int
  BY Zenon DEF AskInitrd, ReplyInv
<1>2. PICK o \in Providers, policy \in BOOLEAN, null \in BOOLEAN,
           size \in {n \in {0, reply.size, image.initrd - 1, image.initrd} : n >= 0} :
        reply' = [status |-> Callback(policy, null, size), buffer |-> size, from |-> o,
                  size |-> IF Callback(policy, null, size) \in {"BUFFER_TOO_SMALL", "SUCCESS"}
                           THEN image.initrd ELSE size]
  BY Zenon DEF AskInitrd
<1>3. Owned(o, "data") \in heap
  <2>1. o \in Nat /\ Provided(o)
    <3>1. boots \in Nat /\ o \in 1 .. boots
      BY <1>2, Zenon DEF Providers, ReplyInv, LendInv
    <3>2. Provided(o)
      BY <1>2, Zenon DEF Providers, Provided
    <3> QED BY <3>1, <3>2
  <2> QED BY <2>1, Zenon DEF ReplyInv, LendInv
<1>4. /\ Callback(policy, null, size) = "BUFFER_TOO_SMALL" => image.initrd # 0
      /\ Callback(policy, null, size) = "SUCCESS" => ~(size < image.initrd)
  BY Zenon DEF Callback
<1>5. size \in Int
  BY <1>1, <1>2 DEF ReplyInv
<1>6. reply'.size \in Int
  BY <1>1, <1>2, <1>5, Zenon
<1>7. ~(size < image.initrd) => size >= image.initrd
  BY <1>1, <1>5
<1>8. reply'.status = "SUCCESS" =>
        reply'.buffer >= image'.initrd /\ Owned(reply'.from, "data") \in heap'
  BY <1>1, <1>2, <1>3, <1>4, <1>7, Zenon
<1>9. reply'.status = "BUFFER_TOO_SMALL" => reply'.size = image'.initrd /\ image'.initrd # 0
  BY <1>1, <1>2, <1>4, Zenon
<1> QED BY <1>1, <1>6, <1>8, <1>9, Zenon DEF ReplySound

\* Every step keeps the invariant.
LEMMA ReplyStep == ReplyInv /\ [ImageNext]_imageVars => ReplyInv'
<1> SUFFICES ASSUME ReplyInv, [ImageNext]_imageVars PROVE ReplyInv'
  OBVIOUS
<1>0. LendInv'
  BY LendStep, Zenon DEF ReplyInv
<1>1. ASSUME reply' = NoReply, image'.initrd \in Int PROVE ReplyInv'
  <2>1. reply'.status = "none"
    BY <1>1, Zenon DEF NoReply
  <2>2. ReplySound'
    BY <2>1, Zenon DEF ReplySound
  <2>3. reply'.size \in Int
    BY <1>1 DEF NoReply
  <2> QED BY <1>0, <1>1, <2>2, <2>3, Zenon DEF ReplyInv
<1>2. image.initrd \in Int /\ Unset.initrd \in Int
  BY DEF ReplyInv, Unset
<1>3. CASE RequestRetain \/ DriverLoaded \/ DriversDone \/ NativeInstalls \/ NativeFallsBack
           \/ NativeStarts \/ FirmwareGuarded \/ FirmwareStarts \/ RegisterInitrd
  BY <1>1, <1>2, <1>3, Zenon DEF ReplyInv, RequestRetain, DriverLoaded, DriversDone,
     NativeInstalls,
     NativeFallsBack, NativeStarts, FirmwareGuarded, FirmwareStarts, RegisterInitrd, lentVars
<1>4. CASE DriverGuarded \/ DriverRefused \/ DriverReturns
  BY <1>1, <1>2, <1>4, Zenon DEF ReplyInv, DriverGuarded, DriverRefused, DriverReturns,
     lentVars, Unset
<1>5. CASE FirmwareRefuses \/ Returns
  BY <1>1, <1>2, <1>5, Zenon DEF FirmwareRefuses, Returns, LeaveBootLinux
<1>6. CASE SelectKernel
  <2>1. image'.initrd \in InitrdSizes \cup {-1} /\ reply' = NoReply
    BY <1>6, Zenon DEF SelectKernel
  <2>2. InitrdSizes \cup {-1} \subseteq Int
    BY ImageAssumption
  <2>3. image'.initrd \in Int
    BY <2>1, <2>2, Zenon
  <2> QED BY <2>1, <2>3, <1>1, Zenon
<1>7. CASE AskInitrd
  BY <1>0, <1>7, ReplyAsk, Zenon DEF ReplyInv
<1>8. CASE TakesOver \/ NativeLoads \/ UNCHANGED imageVars
  <2>1. UNCHANGED <<image, heap, reply>> /\ bpc' \in {bpc, "gone"}
    BY <1>8, Zenon DEF TakesOver, NativeLoads, imageVars, lendVars, lentVars
  <2> QED BY <1>0, <2>1, Zenon DEF ReplyInv, ReplySound
<1> QED BY <1>3, <1>4, <1>5, <1>6, <1>7, <1>8, Zenon DEF ImageNext

\* initrd_load_file_callback fills only a buffer that holds the whole initrd,
\* out of memory that is allocated, and accepts the size it asks for.
THEOREM InitrdTwoPhaseHolds == ImageSpec => []InitrdTwoPhase
<1>1. ReplyInv => InitrdTwoPhase
  BY DEF ReplyInv, ReplySound, InitrdTwoPhase, Callback
<1> QED BY <1>1, ReplyInit, ReplyStep, PTL DEF ImageSpec
=============================================================================
