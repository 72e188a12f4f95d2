------------------------- MODULE BootCountingProofs -------------------------
(***************************************************************************)
(* The files on the ESP, for every set of files, payloads, ranges, cache   *)
(* size, entries and firmware calls that may fail.                         *)
(*                                                                         *)
(* EspWriter: a method that returns Ok did what it was asked, an append in *)
(* place never changes what a file holds, and the read cache keeps its     *)
(* accounts and serves what is on disk.                                    *)
(*                                                                         *)
(* BootCounting: an entry is never lost and never gets tries back, an      *)
(* attempt is paid for before the image starts, and what is blessed is     *)
(* what runs.                                                              *)
(***************************************************************************)
EXTENDS BootCounting, Induction
-----------------------------------------------------------------------------
(* EspWriter *)

\* The delete in fat_write, whose result the code ignores, does its work.
Deletes == "overwrite_delete" \notin Failing

EspTyped ==
  /\ disk \in [Paths -> Content]
  /\ op \in Calls

\* What a running method has still to do, at each of its steps: the file and
\* the data not yet written add up to what the caller asked for.
AtRead ==
  /\ op.kind \in {"append", "rename"}
  /\ op.kind = "append" => op.want = Old(op.path) \o op.data
  /\ op.kind = "rename" => op.want = disk[op.path] /\ op.data = <<>>

AtUnlink == op.kind \in {"write", "append", "rename"} /\ op.data = op.want

AtCreate ==
  /\ op.kind \in {"write", "append", "rename", "true_append"}
  /\ op.kind = "true_append" => op.want = Old(op.to) \o op.data
  /\ op.kind # "true_append" => op.data = op.want /\ (Deletes => disk[op.to] = NoFile)

AtData ==
  /\ op.kind \in {"write", "append", "rename", "true_append"}
  /\ disk[op.to] # NoFile
  /\ Deletes \/ op.kind = "true_append" =>
       op.at = Len(disk[op.to]) /\ op.want = disk[op.to] \o op.data

AtUnlinkOld ==
  /\ op.kind \in {"rename", "delete"}
  /\ op.kind = "rename" /\ Deletes => disk[op.to] = op.want
  /\ op.kind = "delete" => op.want = NoFile

Working ==
  /\ result # "ok"
  /\ (op.kind = "rename") <=> (op.path # op.to)
  /\ op.step = "read" => AtRead
  /\ op.step = "unlink" => AtUnlink
  /\ op.step = "create" => AtCreate
  /\ op.step = "data" => AtData
  /\ op.step = "unlink_old" => AtUnlinkOld

WorkInv ==
  /\ EspTyped
  /\ ~Idle => Working
  /\ Deletes => OkMeansDone
-----------------------------------------------------------------------------
(* Contents *)

\* A file's content as append sees it, and the empty file.
LEMMA Contents ==
  ASSUME EspTyped, NEW p \in Paths
  PROVE  /\ Old(p) \in Seq(Chunks) /\ Old(p) # NoFile
         /\ <<>> \in Seq(Chunks) /\ <<>> # NoFile
         /\ disk[p] # NoFile => disk[p] \in Seq(Chunks) /\ Old(p) = disk[p]
<1>1. <<>> \in Seq(Chunks) /\ <<>> # NoFile
  BY EspAssumption, EmptySeq, Zenon
<1>2. disk[p] \in Seq(Chunks) \cup {NoFile}
  BY DEF EspTyped, Content
<1> QED
  BY <1>1, <1>2, EspAssumption DEF Old, Content

\* The first chunk of the rest, put at the end of a file, leaves the same whole.
LEMMA PutNext ==
  ASSUME NEW s \in Seq(Chunks), NEW d \in Seq(Chunks), d # <<>>
  PROVE  /\ PutAt(s, Len(s) + 1, Head(d)) \in Seq(Chunks)
         /\ Len(PutAt(s, Len(s) + 1, Head(d))) = Len(s) + 1
         /\ PutAt(s, Len(s) + 1, Head(d)) \o Tail(d) = s \o d
         /\ \A i \in 1 .. Len(s) : PutAt(s, Len(s) + 1, Head(d))[i] = s[i]
         /\ Tail(d) \in Seq(Chunks)
<1>1. PutAt(s, Len(s) + 1, Head(d)) = Append(s, Head(d)) /\ Len(s) \in Nat
  BY LenProperties DEF PutAt
<1>2. Head(d) \in Chunks /\ Tail(d) \in Seq(Chunks)
  BY HeadTailProperties
<1>3. /\ Append(s, Head(d)) \in Seq(Chunks) /\ Len(Append(s, Head(d))) = Len(s) + 1
      /\ \A i \in 1 .. Len(s) : Append(s, Head(d))[i] = s[i]
  BY <1>2, AppendProperties
<1>4. Append(s, Head(d)) \o Tail(d) = s \o d
  <2> DEFINE l == Append(s, Head(d))
  <2>1. /\ Len(Tail(d)) = Len(d) - 1 /\ Len(d) \in Nat
        /\ \A i \in 1 .. Len(Tail(d)) : Tail(d)[i] = d[i + 1]
    BY HeadTailProperties, LenProperties
  <2>2. l[Len(s) + 1] = d[1]
    <3>1. l[Len(s) + 1] = Head(d)
      BY <1>2, AppendProperties
    <3> QED
      BY <3>1
  <2>3. l \in Seq(Chunks) /\ Len(l) = Len(s) + 1 /\ \A i \in 1 .. Len(s) : l[i] = s[i]
    BY <1>3
  <2> HIDE DEF l
  <2>4. /\ l \o Tail(d) \in Seq(Chunks) /\ Len(l \o Tail(d)) = Len(s) + Len(d)
        /\ \A i \in 1 .. Len(s) + Len(d) : (l \o Tail(d))[i] =
             IF i <= Len(s) + 1 THEN l[i] ELSE Tail(d)[i - (Len(s) + 1)]
    <3>1. Len(l) + Len(Tail(d)) = Len(s) + Len(d)
      BY <1>1, <2>1, <2>3
    <3>2. /\ l \o Tail(d) \in Seq(Chunks) /\ Len(l \o Tail(d)) = Len(l) + Len(Tail(d))
          /\ \A i \in 1 .. Len(l) + Len(Tail(d)) : (l \o Tail(d))[i] =
               IF i <= Len(l) THEN l[i] ELSE Tail(d)[i - Len(l)]
      BY <1>2, <2>3, ConcatProperties, Zenon
    <3>3. Len(l) = Len(s) + 1
      BY <2>3
    <3> QED
      BY <3>1, <3>2, <3>3, Zenon
  <2>5. /\ s \o d \in Seq(Chunks) /\ Len(s \o d) = Len(s) + Len(d)
        /\ \A i \in 1 .. Len(s) + Len(d) : (s \o d)[i] =
             IF i <= Len(s) THEN s[i] ELSE d[i - Len(s)]
    BY ConcatProperties
  <2>6. \A i \in 1 .. Len(s) + Len(d) : (l \o Tail(d))[i] = (s \o d)[i]
    <3> SUFFICES ASSUME NEW i \in 1 .. Len(s) + Len(d)
                 PROVE  (l \o Tail(d))[i] = (s \o d)[i]
      BY Zenon
    <3>1. CASE i <= Len(s)
      <4>1. i <= Len(s) + 1
        BY <3>1, <1>1
      <4>2. (l \o Tail(d))[i] = l[i]
        BY <4>1, <2>4
      <4>3. (s \o d)[i] = s[i]
        BY <3>1, <2>5
      <4> QED
        BY <3>1, <4>2, <4>3, <1>1, <2>3
    <3>2. CASE i = Len(s) + 1
      BY <3>2, <1>1, <2>1, <2>2, <2>4, <2>5
    <3>3. CASE i > Len(s) + 1
      <4>1. Tail(d)[i - (Len(s) + 1)] = d[i - Len(s)]
        BY <3>3, <1>1, <2>1
      <4>2. ~(i <= Len(s)) /\ ~(i <= Len(s) + 1)
        BY <3>3, <1>1
      <4>3. (l \o Tail(d))[i] = Tail(d)[i - (Len(s) + 1)]
        BY <4>2, <2>4
      <4>4. (s \o d)[i] = d[i - Len(s)]
        BY <4>2, <2>5
      <4> QED
        BY <4>1, <4>3, <4>4, Zenon
    <3>4. i <= Len(s) \/ i = Len(s) + 1 \/ i > Len(s) + 1
      BY <1>1, <2>1
    <3> QED
      BY <3>1, <3>2, <3>3, <3>4, Zenon
  <2>7. l \o Tail(d) = s \o d
    BY <2>4, <2>5, <2>6, SeqEqual, Zenon
  <2> QED
    BY <2>7 DEF l
<1> QED
  BY <1>1, <1>2, <1>3, <1>4, Zenon

\* Writing one chunk anywhere gives a file.
LEMMA PutTyped ==
  ASSUME NEW s \in Seq(Chunks), NEW c \in Chunks, NEW i \in Nat \ {0}
  PROVE  PutAt(s, i, c) \in Seq(Chunks)
<1>1. CASE i <= Len(s)
  <2>1. Len(s) \in Nat
    BY LenProperties
  <2>2. i \in 1 .. Len(s)
    BY <1>1, <2>1
  <2>3. [s EXCEPT ![i] = c] \in Seq(Chunks)
    BY <2>2, ExceptSeq
  <2> QED
    BY <1>1, <2>3 DEF PutAt
<1>2. CASE ~(i <= Len(s))
  BY <1>2, AppendProperties DEF PutAt
<1> QED
  BY <1>1, <1>2

\* Between two methods nothing is left to do; only a method that returned Ok
\* has a promise to keep.
LEMMA Rests ==
  ASSUME EspTyped', op'.step = "idle", result' # "ok"
  PROVE  WorkInv'
  BY DEF WorkInv, Idle, OkMeansDone

\* Returning keeps who was asked for what.
LEMMA Returned ==
  ASSUME EspTyped, Return
  PROVE  /\ op' \in Calls /\ op'.step = "idle"
         /\ op'.kind = op.kind /\ op'.to = op.to /\ op'.path = op.path /\ op'.want = op.want
<1>1. <<>> \in Seq(Chunks)
  BY EmptySeq
<1> QED
  BY <1>1, Zenon DEF EspTyped, Return, Calls, Steps

\* A method that fails.
LEMMA Aborted ==
  ASSUME EspTyped, Abort, UNCHANGED disk
  PROVE  WorkInv'
<1>1. EspTyped' /\ op'.step = "idle"
  BY Returned DEF EspTyped, Abort
<1>2. result' # "ok"
  BY DEF Abort
<1> QED
  BY <1>1, <1>2, Rests

\* A method that succeeds.
LEMMA Finished ==
  ASSUME EspTyped, Finish, disk' \in [Paths -> Content],
         Deletes => /\ disk'[op.to] = op.want
                    /\ op.kind = "rename" => disk'[op.path] = NoFile
  PROVE  WorkInv'
<1>1. EspTyped' /\ op'.step = "idle"
  BY Returned DEF EspTyped, Finish
<1>2. Deletes => OkMeansDone'
  BY Returned DEF Finish, OkMeansDone
<1> QED
  BY <1>1, <1>2 DEF WorkInv, Idle
-----------------------------------------------------------------------------
(* The steps of a method *)

\* A method is called.
LEMMA Begun ==
  ASSUME WorkInv, NEW p \in Paths, NEW q \in Paths, NEW d \in Payloads,
         \/ Write(p, d) \/ AppendRmw(p, d) \/ TrueAppend(p, d) \/ Rename(p, q) \/ Delete(p)
  PROVE  WorkInv'
<1>1. d \in Seq(Chunks) /\ <<>> \in Seq(Chunks) /\ disk[p] \in Content /\ disk[q] \in Content
  BY EspAssumption, EmptySeq DEF WorkInv, EspTyped
<1>2. Old(p) \in Seq(Chunks)
  BY Contents DEF WorkInv
<1>3. Old(p) \o d \in Seq(Chunks)
  BY <1>1, <1>2, ConcatProperties
<1>4. UNCHANGED disk /\ result' = "none"
  BY Zenon DEF Write, AppendRmw, TrueAppend, Rename, Delete, Begin
<1>5. op' \in Calls /\ (op'.step # "idle" => Working')
  <2>1. CASE Write(p, d)
    BY <2>1, <1>1, <1>4, Zenon DEF Write, Begin, Calls, Steps, Methods, Content, Working,
       AtUnlink
  <2>2. CASE AppendRmw(p, d)
    <3>1. op' = [kind |-> "append", step |-> "read", path |-> p, to |-> p, data |-> d,
                 at |-> 0, prior |-> disk[p], want |-> Old(p) \o d]
      BY <2>2, Zenon DEF AppendRmw, Begin
    <3>2. op' \in Calls
      BY <3>1, <1>1, <1>3, Zenon DEF Calls, Steps, Methods, Content
    <3>3. AtRead'
      BY <3>1, <1>4, Zenon DEF AtRead, Old
    <3> QED
      BY <3>1, <3>2, <3>3, <1>4 DEF Working
  <2>3. CASE TrueAppend(p, d)
    <3>1. op' = [kind |-> "true_append", step |-> "create", path |-> p, to |-> p, data |-> d,
                 at |-> 0, prior |-> disk[p], want |-> Old(p) \o d]
      BY <2>3, Zenon DEF TrueAppend, Begin
    <3>2. op' \in Calls
      BY <3>1, <1>1, <1>3, Zenon DEF Calls, Steps, Methods, Content
    <3>3. AtCreate'
      BY <3>1, <1>4, Zenon DEF AtCreate, Old
    <3> QED
      BY <3>1, <3>2, <3>3, <1>4, Zenon DEF Working
  <2>4. CASE Rename(p, q)
    BY <2>4, <1>1, <1>4, Zenon DEF Rename, Begin, Calls, Steps, Methods, Content, Working,
       AtRead
  <2>5. CASE Delete(p)
    BY <2>5, <1>1, <1>4, Zenon DEF Delete, Begin, Calls, Steps, Methods, Content, Working,
       AtUnlinkOld
  <2> QED
    BY <2>1, <2>2, <2>3, <2>4, <2>5
<1>6. EspTyped'
  BY <1>4, <1>5 DEF WorkInv, EspTyped
<1> QED
  BY <1>4, <1>5, <1>6 DEF WorkInv, OkMeansDone, Idle

\* The old file is read, by append and by rename.
LEMMA ReadOldWorks == ASSUME WorkInv, ReadOld PROVE WorkInv'
<1> USE DEF WorkInv
<1>1. Working /\ AtRead /\ op \in Calls /\ op.path \in Paths /\ op.to \in Paths
      /\ op.data \in Seq(Chunks) /\ op.step = "read"
  BY DEF ReadOld, Working, EspTyped, Calls, Idle
<1>2. CASE CallFails("read") \/ (Abort /\ UNCHANGED <<disk, shared>>)
  BY <1>2, Aborted DEF CallFails
<1>3. CASE /\ op.kind = "append" \/ disk[op.path] # NoFile
           /\ op' = [op EXCEPT !.step = "unlink", !.data = Old(op.path) \o @]
           /\ UNCHANGED <<disk, cache, used, shared, result, dirty>>
  <2> DEFINE d == Old(op.path) \o op.data
  <2>1. d \in Seq(Chunks)
    BY <1>1, Contents, ConcatProperties
  <2>2. d = op.want
    <3>1. CASE op.kind = "append"
      BY <1>1, <3>1, Zenon DEF AtRead
    <3>2. CASE op.kind = "rename"
      <4>1. op.data = <<>> /\ disk[op.path] # NoFile /\ op.want = disk[op.path]
        BY <3>2, <1>1, <1>3 DEF AtRead
      <4>2. disk[op.path] \in Seq(Chunks) /\ Old(op.path) = disk[op.path]
        <5>1. EspTyped /\ op.path \in Paths
          BY <1>1
        <5> QED
          BY <5>1, <4>1, Contents, Zenon
      <4> QED
        BY <4>1, <4>2, ConcatEmptySeq
    <3> QED
      BY <3>1, <3>2, <1>1, Zenon DEF AtRead
  <2>3. op' = [op EXCEPT !.step = "unlink", !.data = d]
    BY <1>3, <1>1
  <2> HIDE DEF d
  <2>4. /\ op' \in Calls /\ op'.step = "unlink" /\ op'.data = d /\ op'.kind = op.kind
        /\ op'.path = op.path /\ op'.to = op.to /\ op'.want = op.want
    BY <2>1, <2>3, <1>1, Zenon DEF Calls, Steps
  <2>5. AtUnlink' /\ Working'
    BY <2>2, <2>4, <1>1, <1>3, Zenon DEF Working, AtUnlink, AtRead
  <2>6. EspTyped'
    BY <2>4, <1>3 DEF EspTyped
  <2> QED
    BY <2>4, <2>5, <2>6 DEF Idle, OkMeansDone
<1> QED
  BY <1>2, <1>3 DEF ReadOld

\* fat_write deletes what it replaces.
LEMMA UnlinkWorks == ASSUME WorkInv, Unlink PROVE WorkInv'
<1> USE DEF WorkInv
<1>1. Working /\ AtUnlink /\ op \in Calls /\ op.to \in Paths /\ op.step = "unlink"
  BY Zenon DEF Unlink, Working, EspTyped, Calls, Idle
<1>2. CASE CallFails("open")
  BY <1>2, Aborted DEF CallFails
<1>3. CASE /\ Goto("create")
           /\ \/ disk' = [disk EXCEPT ![op.to] = NoFile]
              \/ "overwrite_delete" \in Failing /\ UNCHANGED disk
           /\ UNCHANGED <<cache, used, shared, result, dirty>>
  <2>1. /\ op' \in Calls /\ op'.step = "create" /\ op'.data = op.data /\ op'.kind = op.kind
        /\ op'.path = op.path /\ op'.to = op.to /\ op'.want = op.want
    BY <1>1, <1>3 DEF Goto, Calls, Steps
  <2>2. EspTyped' /\ (Deletes => disk'[op.to] = NoFile)
    BY <2>1, <1>1, <1>3 DEF EspTyped, Deletes, Content
  <2>3. AtCreate'
    BY <2>1, <2>2, <1>1, Zenon DEF AtUnlink, AtCreate
  <2> QED
    BY <2>1, <2>2, <2>3, <1>1, <1>3, Zenon DEF Idle, OkMeansDone, Working
<1> QED
  BY <1>2, <1>3 DEF Unlink

\* The target is opened; true_append seeks to its end.
LEMMA CreateWorks == ASSUME WorkInv, Create PROVE WorkInv'
<1> USE DEF WorkInv
<1>1. Working /\ AtCreate /\ op \in Calls /\ op.to \in Paths /\ op.step = "create"
      /\ op.data \in Seq(Chunks)
  BY DEF Create, Working, EspTyped, Calls, Idle
<1>2. CASE CallFails("open")
  BY <1>2, Aborted DEF CallFails
<1>3. CASE /\ disk' = [disk EXCEPT ![op.to] = Old(op.to)]
           /\ op' = [op EXCEPT !.step = "data",
                               !.at = IF op.kind = "true_append" THEN Len(Old(op.to)) ELSE 0]
           /\ UNCHANGED <<cache, used, shared, result, dirty>>
  <2> DEFINE n == IF op.kind = "true_append" THEN Len(Old(op.to)) ELSE 0
  <2>1. Old(op.to) \in Seq(Chunks) /\ Old(op.to) # NoFile
    BY <1>1, Contents
  <2>2. n \in Nat
    BY <2>1, LenProperties
  <2>3. op' = [op EXCEPT !.step = "data", !.at = n]
    BY <1>3
  <2> HIDE DEF n
  <2>4. /\ op' \in Calls /\ op'.step = "data" /\ op'.data = op.data /\ op'.kind = op.kind
        /\ op'.path = op.path /\ op'.to = op.to /\ op'.want = op.want /\ op'.at = n
    BY <2>2, <2>3, <1>1, Zenon DEF Calls, Steps
  <2>5. EspTyped' /\ disk'[op.to] = Old(op.to)
    BY <2>1, <2>4, <1>1, <1>3 DEF EspTyped, Content
  <2>6. Deletes \/ op.kind = "true_append" =>
          n = Len(Old(op.to)) /\ op.want = Old(op.to) \o op.data
    <3>1. CASE op.kind = "true_append"
      BY <3>1, <1>1, Zenon DEF AtCreate, n
    <3>2. CASE op.kind # "true_append" /\ Deletes
      <4>1. Old(op.to) = <<>> /\ op.data = op.want
        BY <3>2, <1>1, Zenon DEF AtCreate, Old
      <4> QED
        BY <3>2, <4>1, <1>1, ConcatEmptySeq, EmptySeq DEF n
    <3> QED
      BY <3>1, <3>2, Zenon
  <2>7. AtData'
    BY <2>1, <2>4, <2>5, <2>6, <1>1, Zenon DEF AtCreate, AtData
  <2> QED
    BY <2>4, <2>5, <2>7, <1>1, <1>3 DEF Idle, OkMeansDone, Working
<1> QED
  BY <1>2, <1>3 DEF Create

\* One chunk is written.
LEMMA WriteChunkWorks == ASSUME WorkInv, WriteChunk PROVE WorkInv'
<1> USE DEF WorkInv
<1>1. Working /\ AtData /\ op \in Calls /\ op.to \in Paths /\ op.step = "data"
      /\ op.data \in Seq(Chunks) /\ op.at \in Nat
  BY DEF WriteChunk, Working, EspTyped, Calls, Idle
<1>2. CASE CallFails("data")
  BY <1>2, Aborted DEF CallFails
<1>3. CASE /\ op.data # <<>>
           /\ disk' = [disk EXCEPT ![op.to] = PutAt(@, op.at + 1, Head(op.data))]
           /\ op' = [op EXCEPT !.at = @ + 1, !.data = Tail(@)]
           /\ UNCHANGED <<cache, used, shared, result, dirty>>
  <2> DEFINE s == disk[op.to]
             t == PutAt(s, op.at + 1, Head(op.data))
  <2>1. s \in Seq(Chunks)
    <3>1. EspTyped /\ op.to \in Paths /\ disk[op.to] # NoFile
      BY <1>1, Zenon DEF AtData
    <3> QED
      BY <3>1, Contents, Zenon
  <2>2. Tail(op.data) \in Seq(Chunks) /\ Head(op.data) \in Chunks
    BY <1>1, <1>3, HeadTailProperties
  <2>3. t \in Seq(Chunks) /\ t # NoFile
    <3>1. op.at + 1 \in Nat \ {0}
      BY <1>1
    <3> QED
      BY <2>1, <2>2, <3>1, PutTyped, EspAssumption, Zenon
  <2>4. /\ op' \in Calls /\ op'.step = "data" /\ op'.data = Tail(op.data) /\ op'.kind = op.kind
        /\ op'.path = op.path /\ op'.to = op.to /\ op'.want = op.want /\ op'.at = op.at + 1
    <3> DEFINE d == Tail(op.data)
               n == op.at + 1
    <3>1. op' = [op EXCEPT !.at = n, !.data = d] /\ d \in Seq(Chunks) /\ n \in Nat
      BY <1>1, <1>3, <2>2 DEF Calls
    <3> HIDE DEF d, n
    <3>2. /\ op' \in Calls /\ op'.step = op.step /\ op'.data = d /\ op'.kind = op.kind
          /\ op'.path = op.path /\ op'.to = op.to /\ op'.want = op.want /\ op'.at = n
      BY <3>1, <1>1, Zenon DEF Calls
    <3> QED
      BY <3>2, <1>1 DEF d, n
  <2>5. Deletes \/ op.kind = "true_append" =>
          op.at + 1 = Len(t) /\ op.want = t \o Tail(op.data)
    <3> SUFFICES ASSUME Deletes \/ op.kind = "true_append"
                 PROVE  op.at + 1 = Len(t) /\ op.want = t \o Tail(op.data)
      BY Zenon
    <3>1. op.at = Len(s) /\ op.want = s \o op.data
      BY <1>1, Zenon DEF AtData
    <3>2. t = PutAt(s, Len(s) + 1, Head(op.data))
      BY <3>1
    <3> HIDE DEF s, t
    <3>3. /\ Len(PutAt(s, Len(s) + 1, Head(op.data))) = Len(s) + 1
          /\ PutAt(s, Len(s) + 1, Head(op.data)) \o Tail(op.data) = s \o op.data
      BY <2>1, <1>1, <1>3, PutNext, Zenon
    <3> QED
      BY <3>1, <3>2, <3>3, Zenon
  <2>6. EspTyped' /\ disk'[op.to] = t
    <3>1. t \in Content
      BY <2>3 DEF Content
    <3>2. disk' = [disk EXCEPT ![op.to] = t]
      BY <1>3
    <3> HIDE DEF t
    <3> QED
      BY <2>4, <3>1, <3>2, <1>1 DEF EspTyped
  <2> HIDE DEF s, t
  <2>7. AtData'
    BY <2>3, <2>4, <2>5, <2>6, <1>1 DEF AtData
  <2> QED
    BY <2>4, <2>6, <2>7, <1>1, <1>3 DEF Idle, OkMeansDone, Working
<1> QED
  BY <1>2, <1>3 DEF WriteChunk

\* All is written: rename goes on to the old file, the others are through.
LEMMA WriteDoneWorks == ASSUME WorkInv, WriteDone PROVE WorkInv'
<1> USE DEF WorkInv
<1>1. Working /\ AtData /\ op \in Calls /\ op.to \in Paths /\ op.step = "data"
      /\ UNCHANGED disk /\ op.data = <<>>
  BY DEF WriteDone, Working, EspTyped, Calls, Idle
<1>2. Deletes \/ op.kind = "true_append" => disk[op.to] = op.want
  <2>1. disk[op.to] \in Seq(Chunks)
    BY <1>1, Contents DEF AtData
  <2> QED
    BY <2>1, <1>1, ConcatEmptySeq DEF AtData
<1>3. CASE op.kind = "rename"
  <2>1. Goto("unlink_old") /\ UNCHANGED <<cache, used, result, dirty>>
    BY <1>3 DEF WriteDone
  <2>2. /\ op' \in Calls /\ op'.step = "unlink_old" /\ op'.kind = op.kind
        /\ op'.path = op.path /\ op'.to = op.to /\ op'.want = op.want
    BY <1>1, <2>1 DEF Goto, Calls, Steps
  <2>3. AtUnlinkOld' /\ EspTyped'
    BY <1>1, <1>2, <1>3, <2>2 DEF AtUnlinkOld, EspTyped
  <2> QED
    BY <1>1, <2>1, <2>2, <2>3 DEF Idle, OkMeansDone, Working
<1>4. CASE op.kind # "rename"
  <2>1. Finish
    BY <1>4 DEF WriteDone
  <2>2. disk' \in [Paths -> Content]
    BY <1>1 DEF EspTyped
  <2> QED
    BY <1>1, <1>2, <1>4, <2>1, <2>2, Finished
<1> QED
  BY <1>3, <1>4

\* rename and delete remove the file.
LEMMA UnlinkOldWorks == ASSUME WorkInv, UnlinkOld PROVE WorkInv'
<1> USE DEF WorkInv
<1>1. Working /\ AtUnlinkOld /\ op \in Calls /\ op.to \in Paths /\ op.path \in Paths
  BY DEF UnlinkOld, Working, EspTyped, Calls, Idle
<1>2. CASE CallFails("delete") \/ (Abort /\ UNCHANGED <<disk, shared>>)
  BY <1>2, Aborted DEF CallFails
<1>3. CASE disk' = [disk EXCEPT ![op.path] = NoFile] /\ Finish
  <2>1. disk' \in [Paths -> Content]
    BY <1>1, <1>3 DEF EspTyped, Content
  <2>2. disk'[op.path] = NoFile
    BY <1>1, <1>3 DEF EspTyped
  <2>3. Deletes => disk'[op.to] = op.want
    BY <1>1, <1>3, <2>2 DEF EspTyped, AtUnlinkOld, Working
  <2> QED
    BY <1>3, <2>1, <2>2, <2>3, Finished
<1> QED
  BY <1>2, <1>3 DEF UnlinkOld
-----------------------------------------------------------------------------
(* What a method promises *)

\* No method: what a volume starts with.
LEMMA NoOpTyped == NoOp \in Calls /\ NoOp.step = "idle"
<1>1. (CHOOSE p \in Paths : TRUE) \in Paths
  BY EspAssumption
<1>2. <<>> \in Seq(Chunks)
  BY EmptySeq
<1> QED
  BY <1>1, <1>2 DEF NoOp, Calls, Methods, Steps, Content

\* Nothing runs at first.
LEMMA WorkInit == EspInit => WorkInv
<1> SUFFICES ASSUME EspInit PROVE WorkInv
  OBVIOUS
<1>1. EspTyped
  BY NoOpTyped, EspAssumption DEF EspInit, EspTyped, Content
<1> QED
  BY <1>1, NoOpTyped DEF EspInit, WorkInv, Idle, OkMeansDone

\* Reads, and a backend being shared, leave the files and the methods alone.
LEMMA Undisturbed ==
  ASSUME WorkInv, UNCHANGED <<disk, op, result>>
  PROVE  WorkInv'
  BY Zenon DEF WorkInv, EspTyped, Idle, OkMeansDone, Working, AtRead, AtUnlink, AtCreate,
     AtData,
         AtUnlinkOld, Old

\* WorkInv is kept by every step.
LEMMA WorkStep == WorkInv /\ [EspNext]_espVars => WorkInv'
<1> SUFFICES ASSUME WorkInv, [EspNext]_espVars PROVE WorkInv'
  OBVIOUS
<1>1. ASSUME NEW p \in Paths, NEW r \in Ranges, Read(p, r) PROVE WorkInv'
  BY <1>1, Undisturbed DEF Read
<1>2. ASSUME NEW p \in Paths, NEW d \in Payloads,
             Write(p, d) \/ AppendRmw(p, d) \/ TrueAppend(p, d)
      PROVE  WorkInv'
  BY <1>2, Begun
<1>3. ASSUME NEW p \in Paths, NEW q \in Paths, Rename(p, q) \/ Delete(p) PROVE WorkInv'
  <2>1. CASE Payloads # {}
    BY <1>3, <2>1, Begun
  <2>2. CASE Payloads = {}
    <3>1. <<>> \in Seq(Chunks)
      BY EmptySeq
    <3>2. UNCHANGED disk /\ result' = "none" /\ disk[p] \in Content
      BY <1>3 DEF WorkInv, EspTyped, Rename, Delete, Begin
    <3>3. CASE Rename(p, q)
      <4>1. op' \in Calls /\ Working'
        BY <1>3, <3>1, <3>2, <3>3
           DEF Rename, Begin, Calls, Steps, Methods, Content, Working, AtRead
      <4> QED
        BY <4>1, <3>2 DEF WorkInv, EspTyped, OkMeansDone, Idle
    <3>4. CASE Delete(p)
      <4>1. op' \in Calls /\ Working'
        BY <1>3, <3>1, <3>2, <3>4
           DEF Delete, Begin, Calls, Steps, Methods, Content, Working, AtUnlinkOld
      <4> QED
        BY <4>1, <3>2 DEF WorkInv, EspTyped, OkMeansDone, Idle
    <3> QED
      BY <1>3, <3>3, <3>4
  <2> QED
    BY <2>1, <2>2
<1>4. CASE ShareBackend
  BY <1>4, Undisturbed DEF ShareBackend
<1>5. CASE Refused
  <2>1. EspTyped' /\ op'.step = "idle" /\ result' # "ok"
    BY <1>5, NoOpTyped DEF Refused, WorkInv, EspTyped
  <2> QED
    BY <2>1, Rests
<1>6. CASE FirmwareCall
  BY <1>6, ReadOldWorks, UnlinkWorks, CreateWorks, WriteChunkWorks, WriteDoneWorks,
     UnlinkOldWorks DEF FirmwareCall
<1>7. CASE PowerLoss
  <2>1. EspTyped' /\ op'.step = "idle" /\ result' # "ok"
    BY <1>7, Returned DEF PowerLoss, WorkInv, EspTyped
  <2> QED
    BY <2>1, Rests
<1>8. CASE UNCHANGED espVars
  BY <1>8, Undisturbed DEF espVars
<1> QED
  BY <1>1, <1>2, <1>3, <1>4, <1>5, <1>6, <1>7, <1>8 DEF EspNext

\* WorkInv is an invariant.
LEMMA WorkInvHolds == EspSpec => []WorkInv
<1> QED
  BY WorkInit, WorkStep, PTL DEF EspSpec

\* A method of EspWriter that returned Ok did what its caller asked: the target
\* holds exactly what was to be written, appended or moved, whatever failed or
\* lost power before (fs_writer.rs).  fat_write ignores the result of the delete
\* it begins with; the theorem is about volumes where that delete works.
THEOREM OkMeansDoneHolds ==
  ASSUME Deletes
  PROVE  EspSpec => []OkMeansDone
<1>1. WorkInv => OkMeansDone
  BY DEF WorkInv
<1> QED
  BY <1>1, WorkInvHolds, PTL

\* No step of an append in place, no failure and no power loss changes what a
\* file holds already, whether or not deletes fail (fat_true_append).
THEOREM TrueAppendKeepsLogHolds == EspSpec => TrueAppendKeepsLog
<1> DEFINE Keeps == \A p \in Paths :
      /\ op.kind = "true_append" \/ Idle
      /\ disk[p] # NoFile
      => disk'[p] # NoFile /\ IsRestriction(disk[p], disk'[p])
<1>1. WorkInv /\ [EspNext]_espVars => [Keeps]_espVars
  <2> SUFFICES ASSUME WorkInv, EspNext, NEW p \in Paths,
                      op.kind = "true_append" \/ Idle, disk[p] # NoFile
               PROVE  disk'[p] # NoFile /\ IsRestriction(disk[p], disk'[p])
    BY DEF Keeps
  <2>1. disk[p] \in Seq(Chunks) /\ Old(p) = disk[p]
    BY Contents, Zenon DEF WorkInv
  <2>2. CASE UNCHANGED disk
    BY <2>1, <2>2 DEF IsRestriction
  <2>3. CASE Create
    <3>1. op.to \in Paths
      BY DEF WorkInv, EspTyped, Calls
    <3>2. disk' = disk \/ disk' = [disk EXCEPT ![op.to] = Old(op.to)]
      BY <2>3 DEF Create, CallFails
    <3>3. disk'[p] = disk[p]
      BY <3>1, <3>2, <2>1 DEF WorkInv, EspTyped
    <3> QED
      BY <2>1, <3>3 DEF IsRestriction
  <2>4. CASE WriteChunk
    <3>1. Working /\ AtData /\ op \in Calls /\ op.to \in Paths /\ op.kind = "true_append"
          /\ op.data \in Seq(Chunks)
      BY <2>4 DEF WorkInv, WriteChunk, Working, EspTyped, Calls, Idle
    <3>2. CASE UNCHANGED disk
      BY <3>2, <2>1 DEF IsRestriction
    <3>3. CASE /\ op.data # <<>>
               /\ disk' = [disk EXCEPT ![op.to] = PutAt(@, op.at + 1, Head(op.data))]
      <4>1. CASE p # op.to
        <5>1. disk'[p] = disk[p]
          BY <4>1, <3>3 DEF WorkInv, EspTyped
        <5> QED
          BY <2>1, <5>1 DEF IsRestriction
      <4>2. CASE p = op.to
        <5> DEFINE s == disk[p]
                   t == PutAt(s, Len(s) + 1, Head(op.data))
        <5>1. op.at = Len(s)
          BY <3>1, <4>2 DEF AtData
        <5>2. disk'[p] = t
          BY <3>1, <3>3, <4>2, <5>1 DEF WorkInv, EspTyped
        <5>3. s \in Seq(Chunks)
          BY <2>1
        <5> HIDE DEF s
        <5>4. /\ t \in Seq(Chunks) /\ Len(t) = Len(s) + 1
              /\ \A i \in 1 .. Len(s) : t[i] = s[i]
          BY <5>3, <3>1, <3>3, PutNext, Zenon
        <5> HIDE DEF t
        <5>5. /\ Len(s) \in Nat /\ DOMAIN s = 1 .. Len(s) /\ DOMAIN t = 1 .. Len(s) + 1
          BY <5>3, <5>4, LenProperties
        <5>6. IsRestriction(s, t) /\ t # NoFile
          BY <5>4, <5>5, EspAssumption DEF IsRestriction
        <5> QED
          BY <5>2, <5>6 DEF s
      <4> QED
        BY <4>1, <4>2
    <3> QED
      BY <3>2, <3>3, <2>4 DEF WriteChunk, CallFails
  <2>5. ~ReadOld \/ UNCHANGED disk
    BY DEF ReadOld, CallFails
  <2>6. ~Unlink /\ ~UnlinkOld
    BY DEF WorkInv, Unlink, UnlinkOld, Working, AtUnlink, AtUnlinkOld, Idle
  <2>7. ~WriteDone \/ UNCHANGED disk
    BY DEF WriteDone
  <2>8. CASE ~FirmwareCall
    <3>1. UNCHANGED disk
      BY <2>8, Zenon DEF EspNext, Read, Write, AppendRmw, TrueAppend, Rename, Delete, Begin,
                  ShareBackend, Refused, PowerLoss
    <3> QED
      BY <3>1, <2>2
  <2> QED
    BY <2>2, <2>3, <2>4, <2>5, <2>6, <2>7, <2>8 DEF FirmwareCall
<1> QED
  BY <1>1, WorkInvHolds, PTL DEF EspSpec, TrueAppendKeepsLog
-----------------------------------------------------------------------------
(* The size of the cache, and what an invalidation leaves *)

Entry == [path : Paths, range : Ranges, data : Seq(Chunks)]

AddSize == [x \in Nat \X Entry |-> x[1] + Len(x[2].data)]

\* The step of the fold that adds up the sizes.
LEMMA AddSizeTyped ==
  /\ AddSize \in [Nat \X Entry -> Nat]
  /\ \A n \in Nat, e \in Entry : AddSize[<<n, e>>] = n + Len(e.data)
<1>1. \A e \in Entry : Len(e.data) \in Nat
  BY LenProperties DEF Entry
<1>2. \A n \in Nat, e \in Entry :
        <<n, e>> \in Nat \X Entry /\ <<n, e>>[1] = n /\ <<n, e>>[2] = e
  OBVIOUS
<1> QED
  BY <1>1, <1>2 DEF AddSize

\* Bytes is a fold.
LEMMA BytesIsFold == IsFold([s \in Seq(Entry) |-> Bytes(s)], Entry, Nat, 0, AddSize)
<1> SUFFICES ASSUME NEW s \in Seq(Entry)
             PROVE  \E g : Folds(g, s, Nat, 0, AddSize) /\ Bytes(s) = g[Len(s)]
  BY DEF IsFold
<1> DEFINE Is(u) == u = [i \in 0 .. Len(s) |-> IF i = 0 THEN 0 ELSE u[i - 1] + Len(s[i].data)]
           up == CHOOSE u : Is(u)
<1>1. Len(s) \in Nat /\ \A i \in 1 .. Len(s) : s[i] \in Entry
  BY LenProperties, ElementOfSeq
<1>2. PICK g : g \in [0 .. Len(s) -> Nat] /\ Folds(g, s, Nat, 0, AddSize)
  <2>1. 0 \in Nat /\ AddSize \in [Nat \X Entry -> Nat]
    BY AddSizeTyped
  <2> QED
    BY <2>1, FoldExists, Zenon
<1>3. \A i \in 1 .. Len(s) : g[i] = g[i - 1] + Len(s[i].data)
  <2> TAKE i \in 1 .. Len(s)
  <2>1. i - 1 \in 0 .. Len(s) /\ s[i] \in Entry
    BY <1>1
  <2>2. g[i - 1] \in Nat
    BY <1>2, <2>1
  <2> QED
    BY <1>2, <2>1, <2>2, AddSizeTyped, Zenon DEF Folds
<1>4. Is(g)
  <2>1. g = [i \in 0 .. Len(s) |-> g[i]]
    BY <1>2
  <2>2. \A i \in 0 .. Len(s) : g[i] = IF i = 0 THEN 0 ELSE g[i - 1] + Len(s[i].data)
    BY <1>1, <1>2, <1>3 DEF Folds
  <2> QED
    BY <2>1, <2>2, Zenon
<1>5. Is(up)
  <2>1. \E u : Is(u)
    BY <1>4
  <2> HIDE DEF Is
  <2> QED
    BY <2>1, Zenon
<1>6. Bytes(s) = up[Len(s)]
  BY DEF Bytes
<1> HIDE DEF up
<1>7. \A i \in 0 .. Len(s) : up[i] = IF i = 0 THEN 0 ELSE up[i - 1] + Len(s[i].data)
  <2> DEFINE e(i) == IF i = 0 THEN 0 ELSE up[i - 1] + Len(s[i].data)
  <2>1. up = [i \in 0 .. Len(s) |-> e(i)]
    BY <1>5
  <2> HIDE DEF e
  <2>2. \A i \in 0 .. Len(s) : up[i] = e(i)
    BY <2>1
  <2> QED
    BY <2>2 DEF e
<1>8. Folds(up, s, Nat, 0, AddSize)
  <2>1. up[0] = 0
    BY <1>1, <1>7
  <2>2. ASSUME NEW i \in 1 .. Len(s), up[i - 1] \in Nat
        PROVE  up[i] = AddSize[<<up[i - 1], s[i]>>]
    <3>1. up[i] = up[i - 1] + Len(s[i].data) /\ s[i] \in Entry
      BY <1>1, <1>7
    <3> QED
      BY <2>2, <3>1, AddSizeTyped, Zenon
  <2> QED
    BY <2>1, <2>2 DEF Folds
<1> QED
  BY <1>6, <1>8

\* The size of a list of entries, one by one.
LEMMA BytesFacts ==
  /\ Bytes(<<>>) = 0
  /\ \A s \in Seq(Entry) : Bytes(s) \in Nat
  /\ \A s \in Seq(Entry), e \in Entry : Bytes(Append(s, e)) = Bytes(s) + Len(e.data)
<1> DEFINE F == [s \in Seq(Entry) |-> Bytes(s)]
<1>1. FoldEquations(F, Entry, Nat, 0, AddSize)
  <2>1. 0 \in Nat /\ AddSize \in [Nat \X Entry -> Nat]
    BY AddSizeTyped
  <2> QED
    BY <2>1, BytesIsFold, FoldFacts, Zenon
<1>2. <<>> \in Seq(Entry) /\ \A s \in Seq(Entry), e \in Entry : Append(s, e) \in Seq(Entry)
  BY EmptySeq, AppendProperties
<1>3. \A s \in Seq(Entry) : F[s] = Bytes(s)
  OBVIOUS
<1> HIDE DEF F
<1>4. F[<<>>] = 0 /\ \A s \in Seq(Entry) : F[s] \in Nat
  BY <1>1 DEF FoldEquations
<1>5. \A s \in Seq(Entry), e \in Entry : F[Append(s, e)] = F[s] + Len(e.data)
  BY <1>1, <1>4, AddSizeTyped, Zenon DEF FoldEquations
<1> QED
  BY <1>2, <1>3, <1>4, <1>5, Zenon

Keep(ps) ==
  [x \in Seq(Entry) \X Entry |-> IF x[2].path \in ps THEN x[1] ELSE Append(x[1], x[2])]

\* The step of the fold that leaves out what was invalidated.
LEMMA KeepTyped ==
  ASSUME NEW ps
  PROVE  /\ Keep(ps) \in [Seq(Entry) \X Entry -> Seq(Entry)]
         /\ \A s \in Seq(Entry), e \in Entry :
              Keep(ps)[<<s, e>>] = IF e.path \in ps THEN s ELSE Append(s, e)
<1>1. \A s \in Seq(Entry), e \in Entry : Append(s, e) \in Seq(Entry)
  BY AppendProperties
<1>2. \A x \in Seq(Entry) \X Entry : x[1] \in Seq(Entry) /\ x[2] \in Entry
  OBVIOUS
<1>3. \A s \in Seq(Entry), e \in Entry :
        <<s, e>> \in Seq(Entry) \X Entry /\ <<s, e>>[1] = s /\ <<s, e>>[2] = e
  OBVIOUS
<1>4. \A x \in Seq(Entry) \X Entry :
        (IF x[2].path \in ps THEN x[1] ELSE Append(x[1], x[2])) \in Seq(Entry)
  BY <1>1, <1>2
<1>5. Keep(ps) \in [Seq(Entry) \X Entry -> Seq(Entry)]
  BY <1>4 DEF Keep
<1>6. \A s \in Seq(Entry), e \in Entry :
        Keep(ps)[<<s, e>>] = IF e.path \in ps THEN s ELSE Append(s, e)
  BY <1>3, Zenon DEF Keep
<1> QED
  BY <1>5, <1>6

\* Without is a fold.
LEMMA WithoutIsFold ==
  ASSUME NEW ps
  PROVE  IsFold([s \in Seq(Entry) |-> Without(s, ps)], Entry, Seq(Entry), <<>>, Keep(ps))
<1> SUFFICES ASSUME NEW s \in Seq(Entry)
             PROVE  \E g : Folds(g, s, Seq(Entry), <<>>, Keep(ps)) /\ Without(s, ps) = g[Len(s)]
  BY DEF IsFold
<1> DEFINE Is(u) == u = [i \in 0 .. Len(s) |->
                           IF i = 0 THEN <<>>
                           ELSE IF s[i].path \in ps THEN u[i - 1] ELSE Append(u[i - 1], s[i])]
           up == CHOOSE u : Is(u)
<1>1. Len(s) \in Nat /\ \A i \in 1 .. Len(s) : s[i] \in Entry
  BY LenProperties, ElementOfSeq
<1>2. PICK g : g \in [0 .. Len(s) -> Seq(Entry)] /\ Folds(g, s, Seq(Entry), <<>>, Keep(ps))
  <2>1. <<>> \in Seq(Entry) /\ Keep(ps) \in [Seq(Entry) \X Entry -> Seq(Entry)]
    BY KeepTyped, EmptySeq, Zenon
  <2> QED
    BY <2>1, FoldExists, Zenon
<1>3. \A i \in 1 .. Len(s) :
        g[i] = IF s[i].path \in ps THEN g[i - 1] ELSE Append(g[i - 1], s[i])
  <2> TAKE i \in 1 .. Len(s)
  <2>1. i - 1 \in 0 .. Len(s) /\ s[i] \in Entry
    BY <1>1
  <2>2. g[i - 1] \in Seq(Entry)
    BY <1>2, <2>1
  <2>3. g[i] = Keep(ps)[<<g[i - 1], s[i]>>]
    BY <1>2, <2>2 DEF Folds
  <2>4. Keep(ps)[<<g[i - 1], s[i]>>] =
          IF s[i].path \in ps THEN g[i - 1] ELSE Append(g[i - 1], s[i])
    BY <2>1, <2>2, KeepTyped
  <2> QED
    BY <2>3, <2>4, Zenon
<1>4. Is(g)
  <2>1. g = [i \in 0 .. Len(s) |-> g[i]]
    BY <1>2
  <2>2. \A i \in 0 .. Len(s) :
          g[i] = IF i = 0 THEN <<>>
                 ELSE IF s[i].path \in ps THEN g[i - 1] ELSE Append(g[i - 1], s[i])
    <3>1. \A i \in 0 .. Len(s) : i = 0 \/ i \in 1 .. Len(s)
      BY <1>1
    <3>2. g[0] = <<>> /\ \A i \in 1 .. Len(s) : i # 0
      BY <1>2 DEF Folds
    <3> QED
      BY <3>1, <3>2, <1>3, Zenon
  <2> QED
    BY <2>1, <2>2, Zenon
<1>5. Is(up)
  <2>1. \E u : Is(u)
    BY <1>4
  <2> HIDE DEF Is
  <2> QED
    BY <2>1, Zenon
<1>6. Without(s, ps) = up[Len(s)]
  BY DEF Without
<1> HIDE DEF up
<1>7. \A i \in 0 .. Len(s) :
        up[i] = IF i = 0 THEN <<>>
                ELSE IF s[i].path \in ps THEN up[i - 1] ELSE Append(up[i - 1], s[i])
  <2> DEFINE e(i) == IF i = 0 THEN <<>>
                     ELSE IF s[i].path \in ps THEN up[i - 1] ELSE Append(up[i - 1], s[i])
  <2>1. up = [i \in 0 .. Len(s) |-> e(i)]
    BY <1>5, Zenon
  <2> HIDE DEF e
  <2>2. \A i \in 0 .. Len(s) : up[i] = e(i)
    BY <2>1
  <2> QED
    BY <2>2 DEF e
<1>8. Folds(up, s, Seq(Entry), <<>>, Keep(ps))
  <2>1. up[0] = <<>>
    BY <1>1, <1>7
  <2>2. ASSUME NEW i \in 1 .. Len(s), up[i - 1] \in Seq(Entry)
        PROVE  up[i] = Keep(ps)[<<up[i - 1], s[i]>>]
    <3>1. i \in 0 .. Len(s) /\ i # 0 /\ s[i] \in Entry
      BY <1>1
    <3>2. up[i] = IF s[i].path \in ps THEN up[i - 1] ELSE Append(up[i - 1], s[i])
      BY <1>7, <3>1
    <3>3. Keep(ps)[<<up[i - 1], s[i]>>] =
            IF s[i].path \in ps THEN up[i - 1] ELSE Append(up[i - 1], s[i])
      BY <2>2, <3>1, KeepTyped
    <3> QED
      BY <3>2, <3>3
  <2> QED
    BY <2>1, <2>2 DEF Folds
<1> QED
  BY <1>6, <1>8

\* What retain keeps, one entry at a time.
LEMMA WithoutFacts ==
  ASSUME NEW ps
  PROVE  /\ Without(<<>>, ps) = <<>>
         /\ \A s \in Seq(Entry) : Without(s, ps) \in Seq(Entry)
         /\ \A s \in Seq(Entry), e \in Entry :
              Without(Append(s, e), ps) =
                IF e.path \in ps THEN Without(s, ps) ELSE Append(Without(s, ps), e)
<1> DEFINE F == [s \in Seq(Entry) |-> Without(s, ps)]
<1>1. FoldEquations(F, Entry, Seq(Entry), <<>>, Keep(ps))
  <2>1. <<>> \in Seq(Entry) /\ Keep(ps) \in [Seq(Entry) \X Entry -> Seq(Entry)]
    BY KeepTyped, EmptySeq, Zenon
  <2> QED
    BY <2>1, WithoutIsFold, FoldFacts, Zenon
<1>2. <<>> \in Seq(Entry) /\ \A s \in Seq(Entry), e \in Entry : Append(s, e) \in Seq(Entry)
  BY EmptySeq, AppendProperties
<1>3. \A s \in Seq(Entry) : F[s] = Without(s, ps)
  OBVIOUS
<1> HIDE DEF F
<1>4. F[<<>>] = <<>> /\ \A s \in Seq(Entry) : F[s] \in Seq(Entry)
  BY <1>1 DEF FoldEquations
<1>5. \A s \in Seq(Entry), e \in Entry :
        F[Append(s, e)] = IF e.path \in ps THEN F[s] ELSE Append(F[s], e)
  <2> TAKE s \in Seq(Entry), e \in Entry
  <2>1. F[Append(s, e)] = Keep(ps)[<<F[s], e>>]
    BY <1>1 DEF FoldEquations
  <2>2. Keep(ps)[<<F[s], e>>] = IF e.path \in ps THEN F[s] ELSE Append(F[s], e)
    BY <1>4, KeepTyped
  <2> QED
    BY <2>1, <2>2, Zenon
<1> QED
  BY <1>2, <1>3, <1>4, <1>5, Zenon

\* The size of two lists, one after the other, and of a single entry.
LEMMA BytesConcat ==
  /\ \A s, t \in Seq(Entry) : Bytes(s \o t) = Bytes(s) + Bytes(t)
  /\ \A e \in Entry : <<e>> \in Seq(Entry) /\ Bytes(<<e>>) = Len(e.data)
<1> DEFINE G == {t \in Seq(Entry) : \A s \in Seq(Entry) : Bytes(s \o t) = Bytes(s) + Bytes(t)}
<1>1. <<>> \in G
  <2>1. <<>> \in Seq(Entry)
    BY EmptySeq
  <2>2. ASSUME NEW s \in Seq(Entry) PROVE Bytes(s \o <<>>) = Bytes(s) + Bytes(<<>>)
    <3>1. s \o <<>> = s
      BY ConcatEmptySeq
    <3> QED
      BY <3>1, BytesFacts
  <2> QED
    BY <2>1, <2>2
<1>2. ASSUME NEW t \in Seq(Entry), NEW e \in Entry, t \in G PROVE Append(t, e) \in G
  <2>1. Append(t, e) \in Seq(Entry) /\ Append(t, e) = t \o <<e>> /\ <<e>> \in Seq(Entry)
    BY AppendProperties, AppendIsConcat
  <2>2. ASSUME NEW s \in Seq(Entry) PROVE Bytes(s \o Append(t, e)) = Bytes(s) + Bytes(Append(t, e))
    <3>1. s \o t \in Seq(Entry)
      BY ConcatProperties
    <3>2. s \o Append(t, e) = Append(s \o t, e)
      <4>1. (s \o t) \o <<e>> = s \o (t \o <<e>>)
        BY <2>1, ConcatAssociative
      <4>2. Append(s \o t, e) = (s \o t) \o <<e>>
        BY <3>1, AppendIsConcat
      <4> QED
        BY <2>1, <4>1, <4>2, Zenon
    <3>3. /\ Bytes(Append(s \o t, e)) = Bytes(s \o t) + Len(e.data)
          /\ Bytes(Append(t, e)) = Bytes(t) + Len(e.data)
          /\ Bytes(s) \in Nat /\ Bytes(t) \in Nat
      BY <3>1, BytesFacts, Zenon
    <3>4. Bytes(s \o t) = Bytes(s) + Bytes(t) /\ Len(e.data) \in Nat
      BY <1>2, LenProperties, Zenon DEF Entry
    <3> QED
      BY <3>2, <3>3, <3>4
  <2> QED
    BY <2>1, <2>2
<1>3. Seq(Entry) \subseteq G
  <2> HIDE DEF G
  <2> QED
    BY <1>1, <1>2, SeqInduction
<1>4. ASSUME NEW e \in Entry PROVE <<e>> \in Seq(Entry) /\ Bytes(<<e>>) = Len(e.data)
  <2>1. <<>> \in Seq(Entry) /\ Append(<<>>, e) = <<e>> /\ Append(<<>>, e) \in Seq(Entry)
    BY EmptySeq, AppendProperties
  <2>2. Bytes(Append(<<>>, e)) = Bytes(<<>>) + Len(e.data) /\ Bytes(<<>>) = 0
    BY <2>1, BytesFacts, Zenon
  <2>3. Len(e.data) \in Nat
    BY LenProperties DEF Entry
  <2> QED
    BY <2>1, <2>2, <2>3
<1> QED
  BY <1>3, <1>4

\* No two entries of a list have the same key.
Distinct(s) ==
  \A i, j \in 1 .. Len(s) : s[i].path = s[j].path /\ s[i].range = s[j].range => i = j

\* w is what is left of s without the paths ps.
Kept(s, w, ps) ==
  /\ \A j \in 1 .. Len(w) : \E i \in 1 .. Len(s) : w[j] = s[i] /\ s[i].path \notin ps
  /\ Distinct(s) => Distinct(w)
  /\ Bytes(w) <= Bytes(s)

\* One more entry, kept or not.
LEMMA KeptAppend ==
  ASSUME NEW ps, NEW s \in Seq(Entry), NEW w \in Seq(Entry), NEW e \in Entry, Kept(s, w, ps)
  PROVE  /\ Kept(Append(s, e), w, ps)
         /\ e.path \notin ps => Kept(Append(s, e), Append(w, e), ps)
<1> DEFINE a == Append(s, e)
           b == Append(w, e)
<1>1. /\ Len(a) = Len(s) + 1 /\ Len(s) \in Nat
      /\ \A i \in 1 .. Len(s) : a[i] = s[i]
      /\ a[Len(s) + 1] = e
  BY AppendProperties, LenProperties
<1>2. /\ Len(b) = Len(w) + 1 /\ Len(w) \in Nat
      /\ \A i \in 1 .. Len(w) : b[i] = w[i]
      /\ b[Len(w) + 1] = e
  BY AppendProperties, LenProperties
<1>3. Bytes(a) = Bytes(s) + Len(e.data) /\ Bytes(b) = Bytes(w) + Len(e.data)
  BY BytesFacts
<1>4. Bytes(s) \in Nat /\ Bytes(w) \in Nat /\ Len(e.data) \in Nat
  BY BytesFacts, LenProperties, Zenon DEF Entry
<1> HIDE DEF a, b
<1>5. Distinct(a) => /\ Distinct(s)
                     /\ \A i \in 1 .. Len(s) : ~(s[i].path = e.path /\ s[i].range = e.range)
  <2> SUFFICES ASSUME Distinct(a)
               PROVE  /\ Distinct(s)
                      /\ \A i \in 1 .. Len(s) : ~(s[i].path = e.path /\ s[i].range = e.range)
    OBVIOUS
  <2>1. \A i \in 1 .. Len(s) : i \in 1 .. Len(a) /\ i # Len(s) + 1
    BY <1>1
  <2>2. Len(s) + 1 \in 1 .. Len(a)
    BY <1>1
  <2> QED
    BY <1>1, <2>1, <2>2 DEF Distinct
<1>6. \A j \in 1 .. Len(w) : \E i \in 1 .. Len(a) : w[j] = a[i] /\ a[i].path \notin ps
  <2> TAKE j \in 1 .. Len(w)
  <2>1. PICK i \in 1 .. Len(s) : w[j] = s[i] /\ s[i].path \notin ps
    BY DEF Kept
  <2>2. i \in 1 .. Len(a) /\ a[i] = s[i]
    BY <1>1
  <2> QED
    BY <2>1, <2>2
<1>7. Kept(a, w, ps)
  BY <1>3, <1>4, <1>5, <1>6 DEF Kept
<1>8. ASSUME e.path \notin ps PROVE Kept(a, b, ps)
  <2>0. \A j \in 1 .. Len(b) : j \in 1 .. Len(w) \/ j = Len(w) + 1
    BY <1>2
  <2>1. \A j \in 1 .. Len(b) : \E i \in 1 .. Len(a) : b[j] = a[i] /\ a[i].path \notin ps
    <3> TAKE j \in 1 .. Len(b)
    <3>1. CASE j \in 1 .. Len(w)
      BY <3>1, <1>2, <1>6
    <3>2. CASE j = Len(w) + 1
      <4>1. Len(s) + 1 \in 1 .. Len(a) /\ a[Len(s) + 1] = b[j]
        BY <3>2, <1>1, <1>2
      <4> QED
        BY <4>1, <1>8, <1>1
    <3> QED
      BY <3>1, <3>2, <2>0
  <2>2. ASSUME Distinct(a) PROVE Distinct(b)
    <3>1. Distinct(w)
      BY <2>2, <1>5 DEF Kept
    <3>2. \A i \in 1 .. Len(w) : ~(w[i].path = e.path /\ w[i].range = e.range)
      BY <2>2, <1>5 DEF Kept
    <3> SUFFICES ASSUME NEW i \in 1 .. Len(b), NEW j \in 1 .. Len(b),
                        b[i].path = b[j].path, b[i].range = b[j].range
                 PROVE  i = j
      BY DEF Distinct
    <3>3. CASE i \in 1 .. Len(w) /\ j \in 1 .. Len(w)
      BY <3>1, <3>3, <1>2 DEF Distinct
    <3>4. CASE i \in 1 .. Len(w) /\ j = Len(w) + 1
      BY <3>2, <3>4, <1>2
    <3>5. CASE i = Len(w) + 1 /\ j \in 1 .. Len(w)
      BY <3>2, <3>5, <1>2
    <3> QED
      BY <2>0, <3>3, <3>4, <3>5
  <2> QED
    BY <1>3, <1>4, <2>1, <2>2 DEF Kept
<1> QED
  BY <1>7, <1>8 DEF a, b

\* What retain leaves comes from the list, has none of the paths, no key twice
\* that was there once, and is no larger.
LEMMA WithoutKeeps ==
  ASSUME NEW ps, NEW c \in Seq(Entry)
  PROVE  Without(c, ps) \in Seq(Entry) /\ Kept(c, Without(c, ps), ps)
<1> DEFINE G == {s \in Seq(Entry) : Kept(s, Without(s, ps), ps)}
<1>1. <<>> \in G
  <2>1. <<>> \in Seq(Entry) /\ Len(<<>>) = 0 /\ Without(<<>>, ps) = <<>>
    BY EmptySeq, WithoutFacts
  <2>2. Kept(<<>>, <<>>, ps)
    BY BytesFacts DEF Kept
  <2> QED
    BY <2>1, <2>2
<1>2. ASSUME NEW s \in Seq(Entry), NEW e \in Entry, s \in G PROVE Append(s, e) \in G
  <2>1. Without(s, ps) \in Seq(Entry) /\ Kept(s, Without(s, ps), ps)
    BY <1>2, WithoutFacts
  <2>2. /\ Kept(Append(s, e), Without(s, ps), ps)
        /\ e.path \notin ps => Kept(Append(s, e), Append(Without(s, ps), e), ps)
    BY <2>1, KeptAppend
  <2>3. /\ e.path \in ps => Without(Append(s, e), ps) = Without(s, ps)
        /\ e.path \notin ps => Without(Append(s, e), ps) = Append(Without(s, ps), e)
    BY WithoutFacts, Zenon
  <2>4. Append(s, e) \in Seq(Entry)
    BY AppendProperties
  <2> QED
    BY <2>2, <2>3, <2>4, Zenon
<1>3. Seq(Entry) \subseteq G
  <2> HIDE DEF G
  <2> QED
    BY <1>1, <1>2, SeqInduction
<1> QED
  BY <1>3, WithoutFacts, Zenon
-----------------------------------------------------------------------------
(* The cache *)

\* A list cut in two.
LEMMA Cut ==
  ASSUME NEW s \in Seq(Entry), NEW k \in 0 .. Len(s)
  PROVE  /\ SubSeq(s, 1, k) \in Seq(Entry) /\ SubSeq(s, k + 1, Len(s)) \in Seq(Entry)
         /\ Len(SubSeq(s, 1, k)) = k /\ Len(SubSeq(s, k + 1, Len(s))) = Len(s) - k
         /\ \A i \in 1 .. k : SubSeq(s, 1, k)[i] = s[i]
         /\ \A i \in 1 .. Len(s) - k : SubSeq(s, k + 1, Len(s))[i] = s[k + i]
         /\ Bytes(SubSeq(s, 1, k)) + Bytes(SubSeq(s, k + 1, Len(s))) = Bytes(s)
<1>1. Len(s) \in Nat /\ k \in Int /\ 1 \in Int /\ k + 1 \in Int /\ Len(s) \in Int
  BY LenProperties
<1>2. \A i \in 1 .. Len(s) : s[i] \in Entry
  BY ElementOfSeq
<1>3. \A i \in 1 .. k : s[i] \in Entry
  BY <1>1, <1>2
<1>4. \A i \in k + 1 .. Len(s) : s[i] \in Entry
  BY <1>1, <1>2
<1>5. /\ SubSeq(s, 1, k) \in Seq(Entry)
      /\ Len(SubSeq(s, 1, k)) = IF 1 <= k THEN k - 1 + 1 ELSE 0
      /\ \A i \in 1 .. k - 1 + 1 : SubSeq(s, 1, k)[i] = s[1 + i - 1]
  BY <1>1, <1>3, SubSeqProperties
<1>6. /\ SubSeq(s, k + 1, Len(s)) \in Seq(Entry)
      /\ Len(SubSeq(s, k + 1, Len(s))) = IF k + 1 <= Len(s) THEN Len(s) - (k + 1) + 1 ELSE 0
      /\ \A i \in 1 .. Len(s) - (k + 1) + 1 : SubSeq(s, k + 1, Len(s))[i] = s[k + 1 + i - 1]
  BY <1>1, <1>4, SubSeqProperties
<1>7. SubSeq(s, 1, k) \o SubSeq(s, k + 1, Len(s)) = s
  <2>1. 1 \in 1 .. Len(s) + 1 /\ k \in 1 - 1 .. Len(s) /\ Len(s) \in k .. Len(s)
    BY <1>1
  <2>2. SubSeq(s, 1, k) \o SubSeq(s, k + 1, Len(s)) = SubSeq(s, 1, Len(s))
    BY <2>1, ConcatAdjacentSubSeq, Zenon
  <2>3. SubSeq(s, 1, Len(s)) = s
    BY SubSeqFull, Zenon
  <2> QED
    BY <2>2, <2>3, Zenon
<1> DEFINE a == SubSeq(s, 1, k)
           b == SubSeq(s, k + 1, Len(s))
<1>8. Bytes(a) + Bytes(b) = Bytes(s)
  <2>1. a \in Seq(Entry) /\ b \in Seq(Entry) /\ a \o b = s
    BY <1>5, <1>6, <1>7, Zenon
  <2> HIDE DEF a, b
  <2>2. Bytes(a \o b) = Bytes(a) + Bytes(b)
    BY <2>1, BytesConcat, Zenon
  <2> QED
    BY <2>1, <2>2
<1>9. Len(a) = k /\ \A i \in 1 .. k : a[i] = s[i]
  <2>1. /\ Len(a) = IF 1 <= k THEN k - 1 + 1 ELSE 0
        /\ \A i \in 1 .. k - 1 + 1 : a[i] = s[1 + i - 1]
    BY <1>5, Zenon
  <2> HIDE DEF a
  <2> QED
    BY <2>1, <1>1
<1>10. Len(b) = Len(s) - k /\ \A i \in 1 .. Len(s) - k : b[i] = s[k + i]
  <2>1. /\ Len(b) = IF k + 1 <= Len(s) THEN Len(s) - (k + 1) + 1 ELSE 0
        /\ \A i \in 1 .. Len(s) - (k + 1) + 1 : b[i] = s[k + 1 + i - 1]
    BY <1>6, Zenon
  <2> HIDE DEF b
  <2> QED
    BY <2>1, <1>1
<1> QED
  BY <1>5, <1>6, <1>8, <1>9, <1>10, Zenon

\* cache_get: the entry found moves to the front.
MovedUp(s, i) == <<s[i]>> \o SubSeq(s, 1, i - 1) \o SubSeq(s, i + 1, Len(s))

\* The list stays the same but for its order.
LEMMA ToFront ==
  ASSUME NEW s \in Seq(Entry), NEW i \in 1 .. Len(s), NEW t, t = MovedUp(s, i)
  PROVE  /\ t \in Seq(Entry) /\ Bytes(t) = Bytes(s)
         /\ \A j \in 1 .. Len(t) : \E k \in 1 .. Len(s) : t[j] = s[k]
         /\ Distinct(s) => Distinct(t)
<1> DEFINE a == SubSeq(s, 1, i - 1)
           b == SubSeq(s, i + 1, Len(s))
           d == SubSeq(s, i, Len(s))
<1>1. Len(s) \in Nat /\ i \in 0 .. Len(s) /\ i - 1 \in 0 .. Len(s) /\ (i - 1) + 1 = i
      /\ s[i] \in Entry
  BY LenProperties, ElementOfSeq
<1>2. /\ a \in Seq(Entry) /\ Len(a) = i - 1
      /\ \A j \in 1 .. i - 1 : a[j] = s[j]
      /\ Bytes(a) + Bytes(d) = Bytes(s)
      /\ d \in Seq(Entry)
  <2>1. /\ SubSeq(s, 1, i - 1) \in Seq(Entry) /\ SubSeq(s, (i - 1) + 1, Len(s)) \in Seq(Entry)
        /\ Len(SubSeq(s, 1, i - 1)) = i - 1
        /\ \A j \in 1 .. i - 1 : SubSeq(s, 1, i - 1)[j] = s[j]
        /\ Bytes(SubSeq(s, 1, i - 1)) + Bytes(SubSeq(s, (i - 1) + 1, Len(s))) = Bytes(s)
    BY <1>1, Cut, Zenon
  <2> QED
    BY <1>1, <2>1, Zenon
<1>3. /\ b \in Seq(Entry) /\ Len(b) = Len(s) - i
      /\ \A j \in 1 .. Len(s) - i : b[j] = s[i + j]
  BY <1>1, Cut, Zenon
<1>4. d = <<s[i]>> \o b
  <2>1. i \in 1 .. Len(s) /\ Len(s) \in i .. Len(s)
    BY <1>1
  <2> QED
    BY <2>1, SubSeqRecursiveFirst, Zenon
<1>5. t = (<<s[i]>> \o a) \o b
  BY Zenon DEF MovedUp
<1> HIDE DEF a, b, d
<1>6. <<s[i]>> \in Seq(Entry) /\ Len(<<s[i]>>) = 1 /\ <<s[i]>>[1] = s[i]
  BY <1>1
<1> DEFINE o == <<s[i]>>
           u == o \o a
<1>7. /\ u \in Seq(Entry) /\ Len(u) = i
      /\ u[1] = s[i] /\ \A j \in 2 .. i : u[j] = s[j - 1]
  <2>1. o \in Seq(Entry) /\ Len(o) = 1 /\ o[1] = s[i]
    BY <1>6
  <2> HIDE DEF o
  <2>2. /\ u \in Seq(Entry) /\ Len(u) = Len(o) + Len(a)
        /\ \A j \in 1 .. Len(o) + Len(a) : u[j] = IF j <= Len(o) THEN o[j] ELSE a[j - Len(o)]
    BY <2>1, <1>2, ConcatProperties, Zenon
  <2> HIDE DEF u
  <2>3. Len(u) = i
    BY <1>1, <1>2, <2>1, <2>2
  <2>4. u[1] = s[i]
    BY <1>1, <1>2, <2>1, <2>2
  <2>5. \A j \in 2 .. i : u[j] = s[j - 1]
    <3> TAKE j \in 2 .. i
    <3>1. u[j] = a[j - 1] /\ j - 1 \in 1 .. i - 1
      BY <1>1, <1>2, <2>1, <2>2
    <3> QED
      BY <1>2, <3>1
  <2> QED
    BY <2>2, <2>3, <2>4, <2>5
<1>8. Bytes(t) = Bytes(s)
  <2>1. Bytes(d) = Bytes(o) + Bytes(b) /\ Bytes(u) = Bytes(o) + Bytes(a)
    BY <1>2, <1>3, <1>4, <1>6, BytesConcat, Zenon
  <2>2. Bytes(t) = Bytes(u) + Bytes(b)
    BY <1>3, <1>5, <1>7, BytesConcat, Zenon
  <2>3. Bytes(o) \in Nat /\ Bytes(a) \in Nat /\ Bytes(b) \in Nat
    BY <1>2, <1>3, <1>6, BytesFacts, Zenon
  <2> HIDE DEF o, u
  <2> QED
    BY <1>2, <2>1, <2>2, <2>3
<1> HIDE DEF u
<1>9. /\ t \in Seq(Entry) /\ Len(t) = Len(s)
      /\ t[1] = s[i] /\ \A j \in 2 .. i : t[j] = s[j - 1]
      /\ \A j \in i + 1 .. Len(s) : t[j] = s[j]
  <2>1. t = u \o b
    BY <1>5, Zenon DEF u
  <2>2. /\ t \in Seq(Entry) /\ Len(t) = Len(u) + Len(b)
        /\ \A j \in 1 .. Len(u) + Len(b) : t[j] = IF j <= Len(u) THEN u[j] ELSE b[j - Len(u)]
    <3>1. u \in Seq(Entry) /\ b \in Seq(Entry)
      BY <1>3, <1>7
    <3>2. /\ u \o b \in Seq(Entry) /\ Len(u \o b) = Len(u) + Len(b)
          /\ \A j \in 1 .. Len(u) + Len(b) :
               (u \o b)[j] = IF j <= Len(u) THEN u[j] ELSE b[j - Len(u)]
      BY <3>1, ConcatProperties, Zenon
    <3> QED
      BY <2>1, <3>2, Zenon
  <2>3. Len(u) = i /\ Len(b) = Len(s) - i /\ Len(u) + Len(b) = Len(s)
    BY <1>1, <1>3, <1>7
  <2>4. \A j \in 1 .. Len(s) : t[j] = IF j <= i THEN u[j] ELSE b[j - i]
    BY <2>2, <2>3, Zenon
  <2>5. \A j \in 1 .. i : t[j] = u[j]
    BY <1>1, <2>4
  <2>6. \A j \in i + 1 .. Len(s) : t[j] = s[j]
    <3> TAKE j \in i + 1 .. Len(s)
    <3>1. j \in 1 .. Len(s) /\ ~(j <= i) /\ j - i \in 1 .. Len(s) - i /\ i + (j - i) = j
      BY <1>1
    <3> QED
      BY <1>3, <2>4, <3>1
  <2>7. 1 \in 1 .. i /\ \A j \in 2 .. i : j \in 1 .. i
    BY <1>1
  <2>8. t[1] = s[i] /\ \A j \in 2 .. i : t[j] = s[j - 1]
    BY <1>7, <2>5, <2>7, Zenon
  <2> QED
    BY <2>2, <2>3, <2>6, <2>8, Zenon
<1> DEFINE from(j) == IF j = 1 THEN i ELSE IF j <= i THEN j - 1 ELSE j
<1>10. \A j \in 1 .. Len(t) : from(j) \in 1 .. Len(s) /\ t[j] = s[from(j)]
  BY <1>1, <1>9
<1>11. \A j, k \in 1 .. Len(t) : from(j) = from(k) => j = k
  BY <1>1, <1>9
<1> HIDE DEF from
<1>12. Distinct(s) => Distinct(t)
  BY <1>10, <1>11 DEF Distinct
<1> QED
  BY <1>8, <1>9, <1>10, <1>12

\* What every operation of VolumeCache keeps.
Stored == cache \in Seq(Entry) /\ CacheConsistent

\* The accounts of a list of entries.
Accounts(c, n) == c \in Seq(Entry) /\ n = Bytes(c) /\ n <= CacheLimit /\ Distinct(c)

\* Stored is about the list and the counter only.
LEMMA StoredAccounts == (Stored <=> Accounts(cache, used)) /\ (Stored <=> Accounts(cache, used))'
<1>1. cache \in Seq(Entry) => DOMAIN cache = 1 .. Len(cache)
  BY LenProperties
<1>2. cache' \in Seq(Entry) => DOMAIN cache' = 1 .. Len(cache')
  BY LenProperties
<1>3. Stored <=> Accounts(cache, used)
  BY <1>1 DEF Stored, Accounts, CacheConsistent, Distinct
<1>4. (Stored <=> Accounts(cache, used))'
  BY <1>2 DEF Stored, Accounts, CacheConsistent, Distinct
<1> QED
  BY <1>3, <1>4

\* A hit.
LEMMA GetKeeps ==
  ASSUME Stored, NEW p, NEW r, CacheGet(p, r)
  PROVE  /\ Stored'
         /\ \A j \in 1 .. Len(cache') : \E k \in 1 .. Len(cache) : cache'[j] = cache[k]
<1>1. Accounts(cache, used)
  BY StoredAccounts
<1>2. PICK i \in CacheHits(p, r) : cache' = MovedUp(cache, i) /\ used' = used
  BY Zenon DEF CacheGet, MovedUp
<1>3. cache \in Seq(Entry) /\ i \in 1 .. Len(cache)
  <2>1. cache \in Seq(Entry) /\ i \in DOMAIN cache
    BY <1>1, <1>2 DEF Accounts, CacheHits
  <2> QED
    BY <2>1, LenProperties
<1>4. /\ cache' \in Seq(Entry) /\ Bytes(cache') = Bytes(cache)
      /\ \A j \in 1 .. Len(cache') : \E k \in 1 .. Len(cache) : cache'[j] = cache[k]
      /\ Distinct(cache) => Distinct(cache')
  BY <1>2, <1>3, ToFront
<1>5. Accounts(cache', used')
  BY <1>1, <1>2, <1>4 DEF Accounts
<1> QED
  BY <1>4, <1>5, StoredAccounts

\* A set of numbers up to n has a greatest element.
LEMMA Greatest ==
  ASSUME NEW n \in Nat, NEW T \in SUBSET (0 .. n), T # {}
  PROVE  \E k \in T : \A j \in T : j <= k
<1> DEFINE U == {i \in Nat : i <= n /\ n - i \in T}
<1>1. U # {} /\ U \subseteq Nat
  <2>1. PICK j \in T : TRUE
    BY Zenon
  <2>2. j \in 0 .. n
    OBVIOUS
  <2>3. n - j \in Nat /\ n - j <= n /\ n - (n - j) = j
    BY <2>2
  <2>4. n - j \in U
    BY <2>3
  <2> QED
    BY <2>4
<1>2. PICK i \in U : \A l \in U : i <= l
  BY <1>1, LeastNat, Zenon
<1>3. ASSUME NEW j \in T PROVE j <= n - i
  <2>1. n - j \in Nat /\ n - j <= n /\ n - (n - j) = j /\ j \in 0 .. n
    OBVIOUS
  <2>2. n - j \in U
    BY <2>1
  <2>3. i <= n - j /\ i \in Nat
    BY <1>2, <2>2
  <2> QED
    BY <2>1, <2>3
<1> QED
  BY <1>2, <1>3

\* w is u with v behind it.
JoinOf(w, u, v, S) ==
  /\ w \in Seq(S) /\ Len(w) = Len(u) + Len(v)
  /\ \A i \in 1 .. Len(u) + Len(v) : w[i] = IF i <= Len(u) THEN u[i] ELSE v[i - Len(u)]

\* The concatenation of two lists, in the form the lemmas below use.
LEMMA JoinFacts ==
  ASSUME NEW S, NEW u \in Seq(S), NEW v \in Seq(S)
  PROVE  JoinOf(u \o v, u, v, S)
BY ConcatProperties DEF JoinOf

\* cache_insert drops entries from the back until there is room.
LEMMA InsertKeeps ==
  ASSUME Stored, NEW e \in Entry, CacheHits(e.path, e.range) = {}, CacheInsert(e)
  PROVE  /\ Stored'
         /\ \A j \in 1 .. Len(cache') :
              cache'[j] = e \/ \E k \in 1 .. Len(cache) : cache'[j] = cache[k]
<1> DEFINE n == Len(e.data)
           rest(k) == SubSeq(cache, k + 1, Len(cache))
           fits == {k \in 0 .. Len(cache) : used - Bytes(rest(k)) + n <= CacheLimit}
<1>1. /\ cache \in Seq(Entry) /\ used = Bytes(cache) /\ used <= CacheLimit /\ Distinct(cache)
      /\ Len(cache) \in Nat /\ used \in Nat
  BY StoredAccounts, LenProperties, BytesFacts DEF Accounts
<1>2. n \in Nat /\ CacheLimit \in Nat
  BY EspAssumption, LenProperties DEF Entry
<1>3. CASE n > CacheLimit
  <2>1. cache' = cache /\ used' = used
    BY <1>3, Zenon DEF CacheInsert
  <2> QED
    BY <2>1 DEF Stored, CacheConsistent
<1>4. CASE ~(n > CacheLimit)
  <2> DEFINE k == CHOOSE k \in fits : \A j \in fits : j <= k
  <2>1. cache' = <<e>> \o SubSeq(cache, 1, k) /\ used' = used - Bytes(rest(k)) + n
    BY <1>4, Zenon DEF CacheInsert
  <2>2. k \in fits
    <3>1. 0 \in fits
      <4>1. rest(0) = cache
        <5>1. 0 + 1 = 1
          OBVIOUS
        <5> QED
          BY <1>1, <5>1, SubSeqFull, Zenon
      <4> HIDE DEF rest
      <4>2. used - Bytes(rest(0)) + n <= CacheLimit
        BY <4>1, <1>1, <1>2, <1>4
      <4> QED
        BY <1>1, <4>2
    <3>2. fits \in SUBSET (0 .. Len(cache))
      OBVIOUS
    <3> HIDE DEF fits
    <3>3. \E i \in fits : \A j \in fits : j <= i
      BY <1>1, <3>1, <3>2, Greatest, Zenon
    <3> QED
      BY <3>3, Zenon
  <2> HIDE DEF k
  <2>3. k \in 0 .. Len(cache) /\ used - Bytes(rest(k)) + n <= CacheLimit
    BY <2>2, Zenon
  <2> DEFINE front == SubSeq(cache, 1, k)
  <2>4. /\ front \in Seq(Entry) /\ rest(k) \in Seq(Entry) /\ Len(front) = k
        /\ \A i \in 1 .. k : front[i] = cache[i]
        /\ Bytes(front) + Bytes(rest(k)) = Bytes(cache)
    BY <1>1, <2>3, Cut, Zenon
  <2>5. cache' = <<e>> \o front
    BY <2>1, Zenon
  <2>14. used' = used - Bytes(rest(k)) + n
    BY <2>1, Zenon
  <2> HIDE DEF rest, front, fits
  <2>6. <<e>> \in Seq(Entry) /\ Bytes(<<e>>) = n
    BY BytesConcat
  <2>7. /\ cache' \in Seq(Entry) /\ Len(cache') = k + 1
        /\ cache'[1] = e /\ \A i \in 2 .. k + 1 : cache'[i] = front[i - 1]
    <3>1. Len(<<e>>) = 1 /\ <<e>>[1] = e
      OBVIOUS
    <3> DEFINE o == <<e>>
    <3>2. o \in Seq(Entry) /\ Len(o) = 1 /\ o[1] = e
      BY <2>6, <3>1
    <3> HIDE DEF o
    <3>3. /\ o \o front \in Seq(Entry) /\ Len(o \o front) = Len(o) + Len(front)
          /\ \A i \in 1 .. Len(o) + Len(front) :
               (o \o front)[i] = IF i <= Len(o) THEN o[i] ELSE front[i - Len(o)]
      <4>1. JoinOf(o \o front, o, front, Entry)
        BY <2>4, <3>2, JoinFacts, Zenon
      <4> QED
        BY <4>1, Zenon DEF JoinOf
    <3>4. cache' = o \o front
      BY <2>5, Zenon DEF o
    <3> DEFINE c == o \o front
    <3>5. c \in Seq(Entry) /\ Len(c) = k + 1 /\ c[1] = e /\ \A i \in 2 .. k + 1 : c[i] = front[i - 1]
      <4>1. /\ c \in Seq(Entry) /\ Len(c) = Len(o) + Len(front)
            /\ \A i \in 1 .. Len(o) + Len(front) :
                 c[i] = IF i <= Len(o) THEN o[i] ELSE front[i - Len(o)]
        BY <3>3
      <4> HIDE DEF c
      <4> QED
        BY <1>1, <2>3, <2>4, <3>2, <4>1
    <3> QED
      BY <3>4, <3>5, Zenon
  <2>8. used' = Bytes(cache') /\ used' <= CacheLimit
    <3>1. Bytes(cache') = Bytes(<<e>>) + Bytes(front)
      BY <2>4, <2>5, <2>6, BytesConcat, Zenon
    <3>2. Bytes(front) \in Nat /\ Bytes(rest(k)) \in Nat
      BY <2>4, BytesFacts
    <3> QED
      <4>1. Bytes(cache') = n + Bytes(front) /\ Bytes(front) + Bytes(rest(k)) = used
        BY <1>1, <2>4, <2>6, <3>1, Zenon
      <4>2. used' = used - Bytes(rest(k)) + n /\ used - Bytes(rest(k)) + n <= CacheLimit
        BY <2>3, <2>14
      <4>3. used \in Nat /\ n \in Nat
        BY <1>1, <1>2
      <4> HIDE DEF n
      <4> QED
        BY <3>2, <4>1, <4>2, <4>3
  <2>9. \A i \in 2 .. k + 1 : i - 1 \in 1 .. Len(cache) /\ cache'[i] = cache[i - 1]
    <3> SUFFICES ASSUME NEW i \in 2 .. k + 1
                 PROVE  i - 1 \in 1 .. Len(cache) /\ cache'[i] = cache[i - 1]
      BY Zenon
    <3>1. i - 1 \in 1 .. k /\ i - 1 \in 1 .. Len(cache)
      BY <1>1, <2>3
    <3> QED
      BY <2>4, <2>7, <3>1, Zenon
  <2>10. \A i \in 1 .. Len(cache') : i = 1 \/ i \in 2 .. k + 1
    BY <1>1, <2>3, <2>7
  <2>11. \A i \in 1 .. Len(cache) : ~(cache[i].path = e.path /\ cache[i].range = e.range)
    <3>1. DOMAIN cache = 1 .. Len(cache)
      BY <1>1, LenProperties
    <3> QED
      BY <3>1 DEF CacheHits
  <2>12. Distinct(cache')
    <3> SUFFICES ASSUME NEW i \in 1 .. Len(cache'), NEW j \in 1 .. Len(cache'),
                        cache'[i].path = cache'[j].path, cache'[i].range = cache'[j].range
                 PROVE  i = j
      BY DEF Distinct
    <3>1. CASE i = 1 /\ j = 1
      BY <3>1
    <3>2. CASE i = 1 /\ j \in 2 .. k + 1
      BY <3>2, <2>7, <2>9, <2>11, Zenon
    <3>3. CASE i \in 2 .. k + 1 /\ j = 1
      BY <3>3, <2>7, <2>9, <2>11, Zenon
    <3>4. CASE i \in 2 .. k + 1 /\ j \in 2 .. k + 1
      <4>1. /\ i - 1 \in 1 .. Len(cache) /\ cache'[i] = cache[i - 1]
            /\ j - 1 \in 1 .. Len(cache) /\ cache'[j] = cache[j - 1]
        BY <3>4, <2>9, Zenon
      <4>2. cache[i - 1].path = cache[j - 1].path /\ cache[i - 1].range = cache[j - 1].range
        BY <4>1, Zenon
      <4>3. i - 1 = j - 1
        BY <1>1, <4>1, <4>2, Zenon DEF Distinct
      <4> QED
        BY <3>4, <4>3
    <3> QED
      BY <2>10, <3>1, <3>2, <3>3, <3>4
  <2>13. Stored'
    BY <2>7, <2>8, <2>12, StoredAccounts DEF Accounts
  <2> QED
    BY <2>7, <2>9, <2>10, <2>13
<1> QED
  BY <1>3, <1>4

\* retain.
LEMMA InvalidateKeeps ==
  ASSUME Stored, NEW ps, Invalidate(ps)
  PROVE  /\ Stored'
         /\ \A j \in 1 .. Len(cache') :
              \E k \in 1 .. Len(cache) : cache'[j] = cache[k] /\ cache[k].path \notin ps
<1>1. /\ cache \in Seq(Entry) /\ used = Bytes(cache) /\ used <= CacheLimit /\ Distinct(cache)
  BY StoredAccounts DEF Accounts
<1>2. cache' = Without(cache, ps) /\ used' = Monus(used, Bytes(cache) - Bytes(cache'))
  BY DEF Invalidate
<1>3. cache' \in Seq(Entry) /\ Kept(cache, cache', ps)
  BY <1>1, <1>2, WithoutKeeps
<1>4. Bytes(cache') \in Nat /\ Bytes(cache) \in Nat /\ Bytes(cache') <= Bytes(cache)
  BY <1>1, <1>3, BytesFacts DEF Kept
<1>5. used' = Bytes(cache') /\ used' <= CacheLimit
  BY <1>1, <1>2, <1>4, EspAssumption DEF Monus
<1>6. Accounts(cache', used')
  BY <1>1, <1>3, <1>5 DEF Accounts, Kept
<1> QED
  BY <1>3, <1>6, StoredAccounts DEF Kept

\* An entry of a path that no method is changing, and none has left half done,
\* is what is on disk.
True(d, w, e) ==
  e.path \notin w => d[e.path] # NoFile /\ e.data = Slice(d[e.path], e.range)

\* The paths whose entries may be stale.
Suspect == dirty \cup (IF Idle THEN {} ELSE {op.to})

CacheInv ==
  /\ Stored
  /\ \A i \in 1 .. Len(cache) : True(disk, Suspect, cache[i])

\* A step that leaves the cache alone and changes only suspect files.
LEMMA CacheUntouched ==
  ASSUME CacheInv, UNCHANGED <<cache, used>>, Suspect \subseteq Suspect',
         \A p \in Paths : p \notin Suspect' => disk'[p] = disk[p]
  PROVE  CacheInv'
<1>1. Stored' /\ cache \in Seq(Entry)
  BY DEF CacheInv, Stored, CacheConsistent
<1>2. ASSUME NEW i \in 1 .. Len(cache) PROVE True(disk', Suspect', cache[i])
  <2>1. cache[i] \in Entry
    BY <1>1, ElementOfSeq
  <2>2. cache[i].path \in Paths /\ True(disk, Suspect, cache[i])
    BY <2>1 DEF Entry, CacheInv
  <2>3. CASE cache[i].path \in Suspect'
    BY <2>3 DEF True
  <2>4. CASE cache[i].path \notin Suspect'
    BY <2>2, <2>4 DEF True
  <2> QED
    BY <2>3, <2>4
<1> QED
  BY <1>1, <1>2 DEF CacheInv

\* A method fails.
LEMMA AbortKeepsCache ==
  ASSUME WorkInv, CacheInv, ~Idle, Abort, UNCHANGED disk
  PROVE  CacheInv'
<1>1. Suspect' = Suspect
  BY Returned DEF WorkInv, Abort, Suspect, Idle
<1> QED
  BY <1>1, CacheUntouched DEF Abort

\* A method goes on to its next call: it has changed no file but its target.
LEMMA GoingOnKeepsCache ==
  ASSUME CacheInv, ~Idle, ~Idle', op'.to = op.to, UNCHANGED <<cache, used, dirty>>,
         \A p \in Paths : p # op.to => disk'[p] = disk[p]
  PROVE  CacheInv'
<1>1. Suspect' = Suspect /\ op.to \in Suspect
  BY DEF Suspect
<1> QED
  BY <1>1, CacheUntouched

\* A method succeeds: it has dropped what the cache held of its two files.
LEMMA FinishKeepsCache ==
  ASSUME WorkInv, CacheInv, ~Idle, Finish,
         \A p \in Paths : p \notin {op.path, op.to} => disk'[p] = disk[p]
  PROVE  CacheInv'
<1>1. Stored /\ cache \in Seq(Entry)
  BY DEF CacheInv, Stored
<1>2. /\ Stored'
      /\ \A j \in 1 .. Len(cache') :
           \E k \in 1 .. Len(cache) : cache'[j] = cache[k] /\ cache[k].path \notin {op.path, op.to}
  BY <1>1, InvalidateKeeps DEF Finish
<1>3. Suspect = dirty \cup {op.to} /\ Suspect' = dirty \ {op.path, op.to}
  BY Returned DEF WorkInv, Finish, Suspect, Idle
<1>4. ASSUME NEW j \in 1 .. Len(cache') PROVE True(disk', Suspect', cache'[j])
  <2>1. PICK k \in 1 .. Len(cache) : cache'[j] = cache[k] /\ cache[k].path \notin {op.path, op.to}
    BY <1>2
  <2>2. cache[k] \in Entry
    BY <1>1, ElementOfSeq
  <2>3. cache[k].path \in Paths /\ True(disk, Suspect, cache[k])
    BY <2>2 DEF Entry, CacheInv
  <2>4. disk'[cache[k].path] = disk[cache[k].path]
    BY <2>1, <2>3
  <2> QED
    BY <1>3, <2>1, <2>3, <2>4 DEF True
<1> QED
  BY <1>2, <1>4 DEF CacheInv

\* A read: a hit, or the range as it is on disk now.
LEMMA ReadKeepsCache ==
  ASSUME WorkInv, CacheInv, NEW p \in Paths, NEW r \in Ranges, Read(p, r)
  PROVE  CacheInv'
<1>1. Stored /\ Idle /\ cache \in Seq(Entry)
  BY DEF CacheInv, Stored, Read
<1>2. Suspect' = Suspect /\ disk' = disk
  BY DEF Read, Suspect, Idle
<1>3. CASE CacheGet(p, r)
  BY <1>1, <1>2, <1>3, GetKeeps DEF CacheInv
<1>4. ASSUME CacheHits(p, r) = {}, disk[p] # NoFile,
             CacheInsert([path |-> p, range |-> r, data |-> Slice(disk[p], r)])
      PROVE  CacheInv'
  <2> DEFINE e == [path |-> p, range |-> r, data |-> Slice(disk[p], r)]
  <2>1. Slice(disk[p], r) \in Seq(Chunks)
    <3> DEFINE s == disk[p]
               m == r[1] + 1
               n == IF r[1] + r[2] < Len(s) THEN r[1] + r[2] ELSE Len(s)
    <3>1. s \in Seq(Chunks)
      BY <1>4, Contents DEF WorkInv
    <3>2. r[1] \in Nat /\ r[2] \in Nat
      BY EspAssumption
    <3>3. Len(s) \in Nat /\ \A i \in 1 .. Len(s) : s[i] \in Chunks
      BY <3>1, LenProperties, ElementOfSeq
    <3>4. m \in Int /\ n \in Int /\ 1 <= m /\ n <= Len(s)
      BY <3>2, <3>3
    <3>5. Slice(disk[p], r) = SubSeq(s, m, n)
      BY DEF Slice
    <3> HIDE DEF s, m, n
    <3>6. \A i \in m .. n : s[i] \in Chunks
      BY <3>3, <3>4
    <3>7. SubSeq(s, m, n) \in Seq(Chunks)
      BY <3>4, <3>6, SubSeqProperties
    <3> QED
      BY <3>5, <3>7, Zenon
  <2>2. e \in Entry /\ e.path = p /\ e.range = r /\ e.data = Slice(disk[p], r)
    BY <2>1 DEF Entry
  <2>3. CacheHits(e.path, e.range) = {} /\ CacheInsert(e)
    BY <1>4, <2>2, Zenon
  <2>4. True(disk, Suspect, e)
    BY <1>4, <2>2, Zenon DEF True
  <2> HIDE DEF e
  <2>5. /\ Stored'
        /\ \A j \in 1 .. Len(cache') :
             cache'[j] = e \/ \E k \in 1 .. Len(cache) : cache'[j] = cache[k]
    BY <1>1, <2>2, <2>3, InsertKeeps
  <2> QED
    BY <1>2, <2>4, <2>5 DEF CacheInv
<1> QED
  BY <1>3, <1>4 DEF Read

\* A firmware call of a running method.
LEMMA CallKeepsCache ==
  ASSUME WorkInv, CacheInv, FirmwareCall
  PROVE  CacheInv'
<1>0. disk \in [Paths -> Content] /\ op \in Calls /\ op.to \in Paths /\ op.path \in Paths
  BY DEF WorkInv, EspTyped, Calls
<1>1. ~Idle
  BY DEF FirmwareCall, ReadOld, Unlink, Create, WriteChunk, WriteDone, UnlinkOld, Idle
<1>2. ASSUME Abort, UNCHANGED disk PROVE CacheInv'
  BY <1>1, <1>2, AbortKeepsCache
<1>3. ASSUME NEW x, disk' = [disk EXCEPT ![op.to] = x]
      PROVE  \A p \in Paths : p # op.to => disk'[p] = disk[p]
  BY <1>0, <1>3
<1>4. ASSUME NEW x, op' = [op EXCEPT !.step = x], x # "idle"
      PROVE  op'.to = op.to /\ ~Idle'
  BY <1>0, <1>4 DEF Calls, Idle
<1>5. CASE ReadOld
  <2>1. CASE CallFails("read") \/ (Abort /\ UNCHANGED <<disk, shared>>)
    BY <1>2, <2>1 DEF CallFails
  <2>2. CASE /\ op' = [op EXCEPT !.step = "unlink", !.data = Old(op.path) \o @]
             /\ UNCHANGED <<disk, cache, used, shared, result, dirty>>
    <3>1. op'.to = op.to /\ ~Idle'
      BY <1>0, <2>2 DEF Calls, Idle
    <3> QED
      BY <1>1, <2>2, <3>1, GoingOnKeepsCache
  <2> QED
    <3>1. \/ CallFails("read")
          \/ Abort /\ UNCHANGED <<disk, shared>>
          \/ /\ op' = [op EXCEPT !.step = "unlink", !.data = Old(op.path) \o @]
             /\ UNCHANGED <<disk, cache, used, shared, result, dirty>>
      BY <1>5 DEF ReadOld
    <3> QED
      BY <3>1, <2>1, <2>2
<1>6. CASE Unlink
  <2>1. CASE CallFails("open")
    BY <1>2, <2>1 DEF CallFails
  <2>2. CASE Goto("create") /\ UNCHANGED <<cache, used, dirty>>
             /\ (disk' = [disk EXCEPT ![op.to] = NoFile] \/ UNCHANGED disk)
    <3>1. op'.to = op.to /\ ~Idle'
      BY <1>4, <2>2 DEF Goto
    <3>2. \A p \in Paths : p # op.to => disk'[p] = disk[p]
      BY <1>3, <2>2
    <3> QED
      BY <1>1, <2>2, <3>1, <3>2, GoingOnKeepsCache
  <2> QED
    BY <1>6, <2>1, <2>2 DEF Unlink
<1>7. CASE Create
  <2>1. CASE CallFails("open")
    BY <1>2, <2>1 DEF CallFails
  <2>2. CASE ~CallFails("open")
    <3>1. /\ disk' = [disk EXCEPT ![op.to] = Old(op.to)]
          /\ UNCHANGED <<cache, used, dirty>>
          /\ op' = [op EXCEPT !.step = "data",
                              !.at = IF op.kind = "true_append" THEN Len(Old(op.to)) ELSE 0]
      BY <1>7, <2>2 DEF Create
    <3>2. op'.to = op.to /\ ~Idle'
      BY <1>0, <3>1 DEF Calls, Idle
    <3>3. \A p \in Paths : p # op.to => disk'[p] = disk[p]
      BY <1>3, <3>1
    <3> QED
      BY <1>1, <3>1, <3>2, <3>3, GoingOnKeepsCache
  <2> QED
    BY <2>1, <2>2
<1>8. CASE WriteChunk
  <2>1. CASE CallFails("data")
    BY <1>2, <2>1 DEF CallFails
  <2>2. CASE ~CallFails("data")
    <3> DEFINE n == op.at + 1
               d == Tail(op.data)
               x == PutAt(disk[op.to], n, Head(op.data))
    <3>1. /\ disk' = [disk EXCEPT ![op.to] = x]
          /\ UNCHANGED <<cache, used, dirty>>
          /\ op' = [op EXCEPT !.at = n, !.data = d]
      BY <1>8, <2>2, <1>0 DEF WriteChunk
    <3> HIDE DEF n, d, x
    <3>2. op'.to = op.to /\ op'.step = op.step
      BY <1>0, <3>1 DEF Calls
    <3>3. \A p \in Paths : p # op.to => disk'[p] = disk[p]
      BY <1>3, <3>1
    <3> QED
      BY <1>1, <3>1, <3>2, <3>3, GoingOnKeepsCache DEF Idle
  <2> QED
    BY <2>1, <2>2
<1>9. CASE WriteDone
  <2>1. CASE op.kind = "rename"
    <3>1. Goto("unlink_old") /\ UNCHANGED <<cache, used, dirty, disk>>
      BY <1>9, <2>1 DEF WriteDone
    <3>2. op'.to = op.to /\ ~Idle'
      BY <1>4, <3>1 DEF Goto
    <3> QED
      BY <1>1, <3>1, <3>2, GoingOnKeepsCache
  <2>2. CASE op.kind # "rename"
    BY <1>1, <1>9, <2>2, FinishKeepsCache DEF WriteDone
  <2> QED
    BY <2>1, <2>2
<1>10. CASE UnlinkOld
  <2>1. CASE CallFails("delete") \/ (Abort /\ UNCHANGED <<disk, shared>>)
    BY <1>2, <2>1 DEF CallFails
  <2>2. CASE disk' = [disk EXCEPT ![op.path] = NoFile] /\ Finish
    <3>1. \A p \in Paths : p \notin {op.path, op.to} => disk'[p] = disk[p]
      BY <1>0, <2>2
    <3> QED
      BY <1>1, <2>2, <3>1, FinishKeepsCache
  <2> QED
    <3>1. \/ CallFails("delete")
          \/ Abort /\ UNCHANGED <<disk, shared>>
          \/ disk' = [disk EXCEPT ![op.path] = NoFile] /\ Finish
      BY <1>10 DEF UnlinkOld
    <3> QED
      BY <3>1, <2>1, <2>2
<1> QED
  BY <1>5, <1>6, <1>7, <1>8, <1>9, <1>10 DEF FirmwareCall

\* The empty cache.
LEMMA EmptyCache == Accounts(<<>>, 0) /\ Len(<<>>) = 0
  BY EmptySeq, BytesFacts, EspAssumption DEF Accounts, Distinct

\* Every step keeps the cache sound.
LEMMA CacheStep == WorkInv /\ CacheInv /\ [EspNext]_espVars => CacheInv'
<1> SUFFICES ASSUME WorkInv, CacheInv, [EspNext]_espVars PROVE CacheInv'
  OBVIOUS
<1>1. ASSUME NEW p \in Paths, NEW r \in Ranges, Read(p, r) PROVE CacheInv'
  BY <1>1, ReadKeepsCache
<1>2. ASSUME UNCHANGED <<disk, cache, used, dirty>>, Idle PROVE CacheInv'
  <2>1. Suspect \subseteq Suspect'
    BY <1>2 DEF Suspect
  <2> QED
    BY <1>2, <2>1, CacheUntouched
<1>3. ASSUME NEW p \in Paths, NEW d \in Payloads,
             Write(p, d) \/ AppendRmw(p, d) \/ TrueAppend(p, d)
      PROVE  CacheInv'
  BY <1>2, <1>3, Zenon DEF Write, AppendRmw, TrueAppend, Begin
<1>4. ASSUME NEW p \in Paths, NEW q \in Paths, Rename(p, q) \/ Delete(p) PROVE CacheInv'
  BY <1>2, <1>4 DEF Rename, Delete, Begin
<1>5. CASE ShareBackend \/ Refused
  BY <1>2, <1>5 DEF ShareBackend, Refused
<1>6. CASE FirmwareCall
  BY <1>6, CallKeepsCache
<1>7. CASE PowerLoss
  <2>1. cache' = <<>> /\ used' = 0
    BY <1>7 DEF PowerLoss
  <2>2. Stored' /\ Len(cache') = 0
    BY <2>1, EmptyCache, StoredAccounts
  <2> QED
    BY <2>2 DEF CacheInv
<1>8. CASE UNCHANGED espVars
  <2>1. Suspect' = Suspect /\ disk' = disk /\ UNCHANGED <<cache, used>>
    BY <1>8 DEF espVars, Suspect, Idle
  <2> QED
    BY <2>1, CacheUntouched
<1> QED
  BY <1>1, <1>3, <1>4, <1>5, <1>6, <1>7, <1>8 DEF EspNext

\* The read cache keeps its accounts, holds no key twice, and between two calls
\* serves what is on disk, but for the targets of methods that failed (fs.rs,
\* VolumeCache; fs_writer.rs, the invalidation after every write).
THEOREM CacheSoundHolds == EspSpec => []CacheSound
<1>1. EspInit => CacheInv
  <2> SUFFICES ASSUME EspInit PROVE CacheInv
    OBVIOUS
  <2>1. cache = <<>> /\ used = 0
    BY DEF EspInit
  <2>2. Stored /\ Len(cache) = 0
    BY <2>1, EmptyCache, StoredAccounts
  <2> QED
    BY <2>2 DEF CacheInv
<1>2. CacheInv => CacheSound
  <2> SUFFICES ASSUME CacheInv PROVE CacheSound
    OBVIOUS
  <2>1. cache \in Seq(Entry) /\ CacheConsistent
    BY DEF CacheInv, Stored
  <2>2. DOMAIN cache = 1 .. Len(cache)
    BY <2>1, LenProperties
  <2>3. CacheHonest
    BY <2>2 DEF CacheInv, CacheHonest, True, Suspect
  <2> QED
    BY <2>1, <2>3 DEF CacheSound
<1> QED
  BY <1>1, <1>2, CacheStep, WorkInvHolds, PTL DEF EspSpec
-----------------------------------------------------------------------------
(* BootCounting *)

\* What a copy of Conf holds at any time.
PartOfConf(s) ==
  /\ s \in Seq(Chunks)
  /\ Len(s) <= Len(Conf)
  /\ \A i \in 1 .. Len(s) : s[i] = Conf[i]

\* Every file is missing or a prefix of Conf; names are file names.
Typed ==
  /\ disk \in [Paths -> Content]
  /\ \A n \in Paths : disk[n] = NoFile \/ PartOfConf(disk[n])
  /\ op \in Calls
  /\ entry \in Paths \cup {NoName}
  /\ nvPath \in Paths \cup {NoName}

\* The selected file is on disk until the rename is through.
Selected ==
  /\ phase \in {"count", "rename"} => entry \in Paths
  /\ phase = "rename" => Counted(entry) /\ entry.left > 0
  /\ phase = "count" \/ ~Idle => Parses(disk[entry])

\* What is copied and what is still to be written, at each step of the rename.
Copying ==
  ~Idle =>
    /\ phase = "rename"
    /\ op.kind = "rename"
    /\ op.path = entry /\ op.to = Decrement(entry)
    /\ op.step \in {"read", "unlink", "create", "data", "unlink_old"}
    /\ op.step = "read" => op.data = <<>>
    /\ op.step \in {"unlink", "create"} => op.data = disk[entry]
    /\ op.step = "data" =>
         /\ disk[op.to] # NoFile
         /\ op.at <= Len(disk[op.to])
         /\ op.at + Len(op.data) = Len(disk[entry])
         /\ \A i \in 1 .. Len(op.data) : op.data[i] = Conf[op.at + i]
    /\ op.step = "unlink_old" =>
         /\ disk[op.to] # NoFile
         /\ Len(disk[op.to]) >= Len(disk[entry])

\* n is a complete file of the entry, and none of the entry's counted files
\* has more tries left.  A rename writes only below the file it copies, so it
\* never touches this one before a complete copy exists.
Leads(n, id) ==
  /\ n.id = id
  /\ Complete(n)
  /\ Counted(n) => \A m \in Paths :
       m.id = id /\ Counted(m) /\ disk[m] # NoFile => m.left <= n.left

Led == \A id \in Ids : \E n \in Paths : Leads(n, id)

CountInv == Typed /\ Selected /\ Copying /\ Led
-----------------------------------------------------------------------------
(* Names and contents *)

\* The decremented name is a file name of the same entry with one try less.
LEMMA DecrementFacts ==
  ASSUME NEW n \in Paths, Counted(n), n.left > 0
  PROVE  /\ Decrement(n) \in Paths
         /\ Decrement(n).id = n.id
         /\ n.left \in Nat
         /\ Decrement(n).left = n.left - 1
         /\ Counted(Decrement(n))
         /\ Decrement(n) # n
<1>1. n \in [id : Ids, left : Nat \cup {Good}, done : Nat \cup {NoDone}]
  BY NameAssumption DEF Ids
<1>2. n.left \in Nat
  BY <1>1 DEF Counted
<1>3. Decrement(n).id = n.id /\ Decrement(n).left = n.left - 1
  BY <1>1 DEF Decrement
<1>4. Decrement(n).left \in Nat
  BY <1>2, <1>3
<1>5. Decrement(n) \in Paths
  BY PathsClosed
<1>6. Decrement(n) # n
  BY <1>2, <1>3
<1>7. Counted(Decrement(n))
  BY <1>4, NameAssumption, Zenon DEF Counted
<1> QED
  BY <1>2, <1>3, <1>5, <1>6, <1>7

\* A copy as long as Conf is Conf.
LEMMA FullPart ==
  ASSUME NEW s, PartOfConf(s), Len(s) >= Len(Conf)
  PROVE  s = Conf
<1>1. Conf \in Seq(Chunks)
  BY EspAssumption, NameAssumption
<1>2. s \in Seq(Chunks) /\ Len(s) = Len(Conf) /\ Len(Conf) \in Nat
  BY <1>1, LenProperties DEF PartOfConf
<1>3. \A i \in 1 .. Len(s) : s[i] = Conf[i]
  BY DEF PartOfConf
<1> QED
  BY <1>1, <1>2, <1>3, SeqEqual

\* The entry file has at least one chunk; it and the empty file are parts of it.
LEMMA ConfFacts ==
  /\ Conf \in Seq(Chunks) /\ Conf # NoFile /\ Len(Conf) \in Nat \ {0}
  /\ PartOfConf(Conf) /\ PartOfConf(<<>>)
<1>1. Conf \in Seq(Chunks) /\ Conf # <<>> /\ Conf # NoFile
  BY EspAssumption, NameAssumption
<1>2. Len(Conf) \in Nat \ {0}
  BY <1>1, EmptySeq, LenProperties
<1> QED
  BY <1>1, <1>2, EmptySeq DEF PartOfConf

\* Writing the next chunk of Conf, over an older copy or at the end.
LEMMA NextChunk ==
  ASSUME NEW s, PartOfConf(s), NEW i \in Nat \ {0}, i <= Len(s) + 1, i <= Len(Conf)
  PROVE  /\ PartOfConf(PutAt(s, i, Conf[i]))
         /\ i <= Len(PutAt(s, i, Conf[i]))
<1>1. /\ s \in Seq(Chunks) /\ Len(s) \in Nat /\ Len(s) <= Len(Conf)
      /\ \A j \in 1 .. Len(s) : s[j] = Conf[j]
  BY LenProperties DEF PartOfConf
<1>2. Conf[i] \in Chunks
  BY ConfFacts, ElementOfSeq
<1>3. CASE i <= Len(s)
  <2>1. [s EXCEPT ![i] = Conf[i]] = s
    BY <1>1, <1>3
  <2> QED
    BY <2>1, <1>3 DEF PutAt
<1>4. CASE i = Len(s) + 1
  <2>1. PutAt(s, i, Conf[i]) = Append(s, Conf[i])
    BY <1>1, <1>4 DEF PutAt
  <2>2. /\ Append(s, Conf[i]) \in Seq(Chunks)
        /\ Len(Append(s, Conf[i])) = i
        /\ \A j \in 1 .. Len(s) : Append(s, Conf[i])[j] = s[j]
        /\ Append(s, Conf[i])[i] = Conf[i]
    BY <1>1, <1>2, <1>4, AppendProperties
  <2>3. \A j \in 1 .. i : Append(s, Conf[i])[j] = Conf[j]
    BY <1>1, <1>4, <2>2
  <2> QED
    BY <2>1, <2>2, <2>3 DEF PartOfConf
<1> QED
  BY <1>1, <1>3, <1>4
-----------------------------------------------------------------------------
(* What the steps of a rename do to Led *)

\* Changing the target of a rename never touches the leading file.
LEMMA TargetKeepsLed ==
  ASSUME Led, Typed, entry \in Paths, Counted(entry), entry.left > 0,
         disk[entry] # NoFile,
         NEW c, disk' = [disk EXCEPT ![Decrement(entry)] = c]
  PROVE  Led'
<1>0. PICK to \in Paths : to = Decrement(entry)
  BY DecrementFacts
<1>1. /\ to.id = entry.id /\ entry.left \in Nat
      /\ to.left = entry.left - 1 /\ Counted(to)
  BY <1>0, DecrementFacts
<1>2. \A m \in Paths : m # to => disk'[m] = disk[m]
  BY <1>0 DEF Typed
<1> SUFFICES ASSUME NEW id \in Ids PROVE \E n \in Paths : Leads(n, id)'
  BY DEF Led
<1>3. PICK n \in Paths : Leads(n, id)
  BY DEF Led
<1>4. n # to
  <2> SUFFICES ASSUME n = to PROVE FALSE
    OBVIOUS
  <2>1. entry.left <= to.left
    BY <1>1, <1>3 DEF Leads
  <2> QED
    BY <2>1, <1>1
<1>5. Complete(n)'
  BY <1>2, <1>3, <1>4 DEF Leads, Complete
<1>6. ASSUME Counted(n), NEW m \in Paths, m.id = id, Counted(m), disk'[m] # NoFile
      PROVE  m.left <= n.left
  <2>1. CASE m # to
    BY <2>1, <1>2, <1>3, <1>6 DEF Leads
  <2>2. CASE m = to
    <3>1. entry.left <= n.left
      BY <2>2, <1>1, <1>3, <1>6 DEF Leads
    <3>2. n.left \in Nat
      BY <1>6, NameAssumption DEF Counted
    <3> QED
      BY <2>2, <1>1, <3>1, <3>2
  <2> QED
    BY <2>1, <2>2
<1> QED
  BY <1>3, <1>5, <1>6 DEF Leads

\* Deleting the source hands the lead to its complete copy.
LEMMA SourceKeepsLed ==
  ASSUME Led, Typed, entry \in Paths, Counted(entry), entry.left > 0,
         disk[entry] # NoFile, disk[Decrement(entry)] # NoFile,
         Len(disk[Decrement(entry)]) >= Len(disk[entry]),
         disk' = [disk EXCEPT ![entry] = NoFile]
  PROVE  Led'
<1>0. PICK to \in Paths : to = Decrement(entry)
  BY DecrementFacts
<1>1. /\ to.id = entry.id /\ entry.left \in Nat
      /\ to.left = entry.left - 1 /\ Counted(to) /\ to # entry
  BY <1>0, DecrementFacts
<1>2. /\ \A m \in Paths : m # entry => disk'[m] = disk[m]
      /\ disk'[entry] = NoFile
  BY DEF Typed
<1>3. disk[to] # NoFile /\ Len(disk[to]) >= Len(disk[entry])
  BY <1>0
<1> SUFFICES ASSUME NEW id \in Ids PROVE \E n \in Paths : Leads(n, id)'
  BY DEF Led
<1>4. PICK n \in Paths : Leads(n, id)
  BY DEF Led
<1>5. CASE n # entry
  <2>1. Leads(n, id)'
    BY <1>2, <1>4, <1>5 DEF Leads, Complete
  <2> QED
    BY <2>1
<1>6. CASE n = entry
  <2>1. disk[to] = Conf
    <3>1. PartOfConf(disk[to])
      BY <1>1, <1>3 DEF Typed
    <3> QED
      BY <3>1, <1>3, <1>4, <1>6, FullPart DEF Leads, Complete
  <2>2. Complete(to)'
    BY <2>1, <1>1, <1>2 DEF Complete
  <2>3. ASSUME NEW m \in Paths, m.id = id, Counted(m), disk'[m] # NoFile
        PROVE  m.left <= to.left
    <3>1. m # entry /\ disk[m] # NoFile
      BY <1>2, <2>3
    <3>2. m.left <= entry.left
      BY <3>1, <2>3, <1>4, <1>6 DEF Leads
    <3>3. m.left # entry.left
      BY <3>1, <2>3, <1>4, <1>6, NameAssumption DEF Leads
    <3>4. m.left \in Nat
      BY <2>3, NameAssumption DEF Counted
    <3> QED
      BY <3>2, <3>3, <3>4, <1>1
  <2> QED
    BY <2>2, <2>3, <1>1, <1>4, <1>6 DEF Leads
<1> QED
  BY <1>5, <1>6
-----------------------------------------------------------------------------
(* The firmware calls preserve CountInv *)

\* A method that has returned is an idle call.
LEMMA ReturnFacts ==
  ASSUME op \in Calls, Return
  PROVE  op' \in Calls /\ op'.step = "idle"
BY EmptySeq, Zenon DEF Return, Calls, Steps

\* A call that leaves the files alone and ends the rename.
LEMMA EndInv ==
  ASSUME CountInv, UNCHANGED <<disk, countVars>>, Return
  PROVE  CountInv'
<1>1. op' \in Calls /\ op'.step = "idle"
  BY ReturnFacts DEF CountInv, Typed
<1>2. Typed'
  BY <1>1 DEF CountInv, Typed, countVars, PartOfConf
<1>3. Selected'
  BY <1>1 DEF CountInv, Selected, Idle, countVars, Counted, Parses
<1>4. Copying'
  BY <1>1 DEF Copying, Idle
<1>5. Led'
  BY DEF CountInv, Led, Leads, Complete
<1> QED
  BY <1>2, <1>3, <1>4, <1>5 DEF CountInv

\* What a running rename may rely on.
LEMMA RunningFacts ==
  ASSUME CountInv, ~Idle
  PROVE  /\ phase = "rename" /\ op.kind = "rename"
         /\ entry \in Paths /\ Counted(entry) /\ entry.left > 0
         /\ op.path = entry /\ op.to = Decrement(entry)
         /\ Decrement(entry) \in Paths /\ Decrement(entry) # entry
         /\ disk[entry] # NoFile /\ PartOfConf(disk[entry]) /\ Parses(disk[entry])
<1>1. phase = "rename" /\ op.kind = "rename"
      /\ op.path = entry /\ op.to = Decrement(entry)
  BY DEF CountInv, Copying
<1>2. entry \in Paths /\ Counted(entry) /\ entry.left > 0 /\ Parses(disk[entry])
  BY <1>1 DEF CountInv, Selected
<1>3. disk[entry] # NoFile /\ PartOfConf(disk[entry])
  BY <1>2 DEF Parses, CountInv, Typed
<1> QED
  BY <1>1, <1>2, <1>3, DecrementFacts

\* Reading the old name changes no file: a failed read returns with the entry
\* where it was, a good one carries its content.
LEMMA ReadOldInv ==
  ASSUME CountInv, ReadOld, UNCHANGED countVars
  PROVE  CountInv'
<1>1. ~Idle
  BY DEF ReadOld, Idle
<1>2. CASE Return /\ UNCHANGED disk
  BY <1>2, EndInv DEF countVars
<1>3. CASE /\ op' = [op EXCEPT !.step = "unlink", !.data = Old(op.path) \o @]
           /\ UNCHANGED disk
  <2>1. Old(op.path) = disk[entry] /\ disk[entry] \in Seq(Chunks)
    BY <1>1, RunningFacts DEF Old, PartOfConf
  <2>2. op.data = <<>>
    BY <1>1 DEF CountInv, Copying, ReadOld
  <2>3. Old(op.path) \o op.data = disk[entry]
    BY <2>1, <2>2, ConcatEmptySeq
  <2>4. /\ op' \in Calls /\ op'.step = "unlink" /\ op'.data = disk[entry]
        /\ op'.kind = op.kind /\ op'.path = op.path /\ op'.to = op.to
    BY <1>3, <2>1, <2>3, Zenon DEF CountInv, Typed, Calls, Steps
  <2>5. Typed'
    BY <1>3, <2>4 DEF CountInv, Typed, countVars, PartOfConf
  <2>6. Selected'
    BY <1>1, <1>3, <2>4, RunningFacts
    DEF CountInv, Selected, Idle, countVars, Counted, Parses
  <2>7. Copying'
    BY <1>1, <1>3, <2>4, RunningFacts, Zenon DEF Copying, Idle, countVars, Decrement, DoneNext
  <2>8. Led'
    BY <1>3 DEF CountInv, Led, Leads, Complete
  <2> QED
    BY <2>5, <2>6, <2>7, <2>8 DEF CountInv
<1> QED
  BY <1>2, <1>3 DEF ReadOld, CallFails, Abort, Goto

\* Removing what is under the new name leaves the old one alone.
LEMMA UnlinkInv ==
  ASSUME CountInv, Unlink, UNCHANGED countVars
  PROVE  CountInv'
<1>1. ~Idle
  BY DEF Unlink, Idle
<1>2. CASE Return /\ UNCHANGED disk
  BY <1>2, EndInv DEF countVars
<1>3. CASE /\ op' = [op EXCEPT !.step = "create"]
           /\ \/ disk' = [disk EXCEPT ![op.to] = NoFile]
              \/ UNCHANGED disk
  <2>1. /\ op' \in Calls /\ op'.step = "create" /\ op'.data = op.data
        /\ op'.kind = op.kind /\ op'.path = op.path /\ op'.to = op.to
    BY <1>3 DEF CountInv, Typed, Calls, Steps
  <2>2. op.data = disk[entry] /\ disk'[entry] = disk[entry]
    BY <1>1, <1>3, RunningFacts DEF CountInv, Copying, Unlink, Typed
  <2>3. Typed'
    BY <1>1, <1>3, <2>1, RunningFacts, SMTT(30)
    DEF CountInv, Typed, countVars, PartOfConf, Content
  <2>4. Selected'
    BY <1>1, <2>1, <2>2, RunningFacts
    DEF Selected, Idle, countVars, Counted, Parses
  <2>5. Copying'
    BY <1>1, <2>1, <2>2, RunningFacts DEF Copying, Idle, countVars, Decrement, DoneNext
  <2>6. Led'
    <3>1. CASE UNCHANGED disk
      BY <3>1 DEF CountInv, Led, Leads, Complete
    <3>2. CASE disk' = [disk EXCEPT ![op.to] = NoFile]
      BY <1>1, <3>2, RunningFacts, TargetKeepsLed, Zenon DEF CountInv
    <3> QED
      BY <1>3, <3>1, <3>2
  <2> QED
    BY <2>3, <2>4, <2>5, <2>6 DEF CountInv
<1> QED
  BY <1>2, <1>3 DEF Unlink, CallFails, Abort, Goto

\* Creating the new name empty leaves the old one whole.
LEMMA CreateInv ==
  ASSUME CountInv, Create, UNCHANGED countVars
  PROVE  CountInv'
<1>1. ~Idle
  BY DEF Create, Idle
<1>2. CASE Return /\ UNCHANGED disk
  BY <1>2, EndInv DEF countVars
<1>3. CASE /\ disk' = [disk EXCEPT ![op.to] = Old(op.to)]
           /\ op' = [op EXCEPT !.step = "data",
                               !.at = IF op.kind = "true_append"
                                        THEN Len(Old(op.to)) ELSE 0]
  <2>1. /\ op' \in Calls /\ op'.step = "data" /\ op'.data = op.data /\ op'.at = 0
        /\ op'.kind = op.kind /\ op'.path = op.path /\ op'.to = op.to
    BY <1>1, <1>3, RunningFacts, Zenon DEF CountInv, Typed, Calls, Steps
  <2>2. op.data = disk[entry] /\ disk'[entry] = disk[entry]
    BY <1>1, <1>3, RunningFacts DEF CountInv, Copying, Create, Typed
  <2>3. PartOfConf(Old(op.to)) /\ Old(op.to) # NoFile
    <3>1. op.to \in Paths
      BY <1>1, RunningFacts
    <3>2. disk[op.to] = NoFile \/ PartOfConf(disk[op.to])
      BY <3>1 DEF CountInv, Typed
    <3>3. PartOfConf(<<>>) /\ <<>> # NoFile
      BY ConfFacts, EspAssumption, Zenon DEF PartOfConf
    <3> QED
      BY <3>2, <3>3 DEF Old
  <2>4. disk'[op.to] = Old(op.to)
    BY <1>1, <1>3, RunningFacts DEF CountInv, Typed
  <2>5. Typed'
    BY <1>1, <1>3, <2>1, <2>3, RunningFacts
    DEF CountInv, Typed, countVars, PartOfConf, Content
  <2>6. Selected'
    BY <1>1, <2>1, <2>2, RunningFacts, Zenon DEF Selected, Idle, countVars, Counted, Parses
  <2>7. /\ 0 <= Len(Old(op.to))
        /\ 0 + Len(op.data) = Len(disk[entry])
        /\ \A i \in 1 .. Len(op.data) : op.data[i] = Conf[0 + i]
    <3>1. PartOfConf(disk[entry]) /\ op.data = disk[entry]
      BY <1>1, <2>2, RunningFacts, Zenon
    <3>2. Len(Old(op.to)) \in Nat /\ Len(disk[entry]) \in Nat
      BY <2>3, <3>1, LenProperties DEF PartOfConf
    <3>3. \A i \in 1 .. Len(op.data) : op.data[i] = Conf[i] /\ 0 + i = i
      BY <3>1 DEF PartOfConf
    <3> QED
      BY <3>1, <3>2, <3>3
  <2>8. Copying'
    BY <1>1, <2>1, <2>2, <2>3, <2>4, <2>7, RunningFacts
    DEF Copying, Idle, countVars, Decrement, DoneNext
  <2>9. Led'
    BY <1>1, <1>3, RunningFacts, TargetKeepsLed, Zenon DEF CountInv
  <2> QED
    BY <2>5, <2>6, <2>8, <2>9 DEF CountInv
<1> QED
  BY <1>2, <1>3 DEF Create, CallFails, Abort, Goto

\* A chunk lengthens the copy by the next chunk of the entry, or fails and
\* leaves it short; the old name is whole either way.
LEMMA WriteChunkInv ==
  ASSUME CountInv, WriteChunk, UNCHANGED countVars
  PROVE  CountInv'
<1>1. ~Idle
  BY DEF WriteChunk, Idle
<1>2. CASE Return /\ UNCHANGED disk
  BY <1>2, EndInv DEF countVars
<1>3. CASE /\ op.data # <<>>
           /\ disk' = [disk EXCEPT ![op.to] = PutAt(@, op.at + 1, Head(op.data))]
           /\ op' = [op EXCEPT !.at = @ + 1, !.data = Tail(@)]
  <2> DEFINE old == disk[op.to]
             new == PutAt(old, op.at + 1, Head(op.data))
  <2>1. op.data \in Seq(Chunks) /\ op.at \in Nat
    BY DEF CountInv, Typed, Calls
  <2>2. /\ Head(op.data) = op.data[1] /\ Head(op.data) \in Chunks
        /\ Tail(op.data) \in Seq(Chunks) /\ Len(op.data) \in Nat \ {0}
        /\ Len(Tail(op.data)) = Len(op.data) - 1
        /\ \A i \in 1 .. Len(Tail(op.data)) : Tail(op.data)[i] = op.data[i + 1]
    BY <1>3, <2>1, HeadTailProperties, EmptySeq, LenProperties, ElementOfSeq
  <2>3. /\ op.step = "data" /\ old # NoFile /\ op.at <= Len(old)
        /\ op.at + Len(op.data) = Len(disk[entry])
        /\ \A i \in 1 .. Len(op.data) : op.data[i] = Conf[op.at + i]
    BY <1>1 DEF CountInv, Copying, WriteChunk
  <2>4. PartOfConf(old)
    BY <1>1, <2>3, RunningFacts, Zenon DEF CountInv, Typed
  <2>5. op.at + 1 <= Len(Conf) /\ Head(op.data) = Conf[op.at + 1]
    <3>1. Len(disk[entry]) <= Len(Conf) /\ Len(disk[entry]) \in Nat /\ Len(Conf) \in Nat
      BY <1>1, RunningFacts, ConfFacts, LenProperties, Zenon DEF PartOfConf
    <3>2. 1 \in 1 .. Len(op.data)
      BY <2>2
    <3>3. Head(op.data) = Conf[op.at + 1]
      BY <2>2, <2>3, <3>2, Zenon
    <3>4. op.at + Len(op.data) <= Len(Conf)
      BY <2>3, <3>1
    <3> HIDE DEF old
    <3> QED
      BY <2>1, <2>2, <3>1, <3>3, <3>4
  <2>6. PartOfConf(new) /\ op.at + 1 <= Len(new)
    <3>1. op.at + 1 \in Nat \ {0} /\ op.at + 1 <= Len(old) + 1
      BY <2>1, <2>3, <2>4, LenProperties DEF PartOfConf
    <3> HIDE DEF old
    <3> QED
      BY <3>1, <2>4, <2>5, NextChunk
  <2>7. new # NoFile
    BY <2>6, EspAssumption DEF PartOfConf
  <2>8. disk' = [disk EXCEPT ![op.to] = new]
    BY <1>1, <1>3, RunningFacts DEF CountInv, Typed
  <2> HIDE DEF new
  <2>9. disk'[entry] = disk[entry] /\ disk'[op.to] = new
    BY <1>1, <2>8, RunningFacts DEF CountInv, Typed
  <2>10. /\ op' \in Calls /\ op'.step = "data" /\ op'.data = Tail(op.data)
         /\ op'.kind = op.kind /\ op'.path = op.path /\ op'.to = op.to
         /\ op'.at = op.at + 1
    <3>1. Tail(op.data) \in Seq(Chunks) /\ op.at + 1 \in Nat /\ op.step = "data"
      <4>1. op.at + 1 \in Nat
        BY <2>1
      <4> QED
        BY <2>2, <2>3, <4>1, Zenon
    <3>2. op \in Calls
      BY DEF CountInv, Typed
    <3> QED
      BY <1>3, <3>1, <3>2, Zenon DEF Calls
  <2>11. Typed'
    BY <1>1, <2>6, <2>8, <2>10, RunningFacts, Zenon DEF CountInv, Typed, countVars, PartOfConf,
       Content
  <2>12. Selected'
    BY <1>1, <2>9, <2>10, RunningFacts, Zenon DEF Selected, Idle, countVars, Counted, Parses
  <2>13. /\ op.at + 1 + Len(Tail(op.data)) = Len(disk[entry])
         /\ \A i \in 1 .. Len(Tail(op.data)) : Tail(op.data)[i] = Conf[op.at + 1 + i]
    <3>1. op.at + 1 + Len(Tail(op.data)) = Len(disk[entry])
      BY <2>1, <2>2, <2>3
    <3>2. ASSUME NEW i \in 1 .. Len(Tail(op.data))
          PROVE  Tail(op.data)[i] = Conf[op.at + 1 + i]
      <4>1. i + 1 \in 1 .. Len(op.data) /\ op.at + (i + 1) = op.at + 1 + i
        BY <2>1, <2>2
      <4> QED
        BY <4>1, <2>2, <2>3, Zenon
    <3> QED
      BY <3>1, <3>2
  <2>14. Copying'
    BY <1>1, <2>6, <2>7, <2>9, <2>10, <2>13, RunningFacts
    DEF Copying, Idle, countVars, Decrement, DoneNext
  <2>15. Led'
    BY <1>1, <2>8, RunningFacts, TargetKeepsLed, Zenon DEF CountInv
  <2> QED
    BY <2>11, <2>12, <2>14, <2>15 DEF CountInv
<1> QED
  BY <1>2, <1>3 DEF WriteChunk, CallFails, Abort, Goto

\* The copy is complete when the write returns, so the old name may go.
LEMMA WriteDoneInv ==
  ASSUME CountInv, WriteDone, UNCHANGED countVars
  PROVE  CountInv'
<1>1. ~Idle
  BY DEF WriteDone, Idle
<1>2. op' = [op EXCEPT !.step = "unlink_old"] /\ UNCHANGED disk
  BY <1>1, RunningFacts DEF WriteDone, Goto
<1>3. /\ op' \in Calls /\ op'.step = "unlink_old"
      /\ op'.kind = op.kind /\ op'.path = op.path /\ op'.to = op.to
  BY <1>2 DEF CountInv, Typed, Calls, Steps
<1>4. disk[op.to] # NoFile /\ Len(disk[op.to]) >= Len(disk[entry])
  <2>1. /\ disk[op.to] # NoFile /\ op.at <= Len(disk[op.to])
        /\ op.at + Len(op.data) = Len(disk[entry]) /\ op.at \in Nat
    BY <1>1 DEF CountInv, Copying, WriteDone, Typed, Calls
  <2>2. Len(op.data) = 0
    BY EmptySeq DEF WriteDone
  <2> QED
    BY <2>1, <2>2
<1>5. Typed'
  BY <1>2, <1>3 DEF CountInv, Typed, countVars, PartOfConf
<1>6. Selected'
  BY <1>1, <1>2, <1>3, RunningFacts
  DEF Selected, Idle, countVars, Counted, Parses
<1>7. Copying'
  BY <1>1, <1>2, <1>3, <1>4, RunningFacts
  DEF Copying, Idle, countVars, Decrement, DoneNext
<1>8. Led'
  BY <1>2 DEF CountInv, Led, Leads, Complete
<1> QED
  BY <1>5, <1>6, <1>7, <1>8 DEF CountInv

\* When the old name goes, or refuses to go, the new one is complete.
LEMMA UnlinkOldInv ==
  ASSUME CountInv, UnlinkOld, UNCHANGED countVars
  PROVE  CountInv'
<1>1. ~Idle
  BY DEF UnlinkOld, Idle
<1>2. CASE Return /\ UNCHANGED disk
  BY <1>2, EndInv DEF countVars
<1>3. CASE /\ Return
           /\ disk' = [disk EXCEPT ![op.path] = NoFile]
  <2>1. op' \in Calls /\ op'.step = "idle"
    BY <1>3, ReturnFacts DEF CountInv, Typed
  <2>2. Typed'
    BY <1>1, <1>3, <2>1, RunningFacts, Zenon DEF CountInv, Typed, countVars, PartOfConf, Content
  <2>3. Selected' /\ Copying'
    BY <1>1, <2>1, RunningFacts, Zenon DEF Selected, Copying, Idle, countVars, Counted
  <2>4. disk[op.to] # NoFile /\ Len(disk[op.to]) >= Len(disk[entry])
    BY <1>1, Zenon DEF CountInv, Copying, UnlinkOld
  <2>5. Led'
    BY <1>1, <1>3, <2>4, RunningFacts, SourceKeepsLed, Zenon DEF CountInv
  <2> QED
    BY <2>2, <2>3, <2>5 DEF CountInv
<1> QED
  BY <1>2, <1>3 DEF UnlinkOld, CallFails, Abort, Goto, Finish
-----------------------------------------------------------------------------
(* The other actions *)

\* At the start every entry is one complete file and nothing is running.
LEMMA InitInv == Init => CountInv
<1> SUFFICES ASSUME Init PROVE CountInv
  OBVIOUS
<1>1. NoOp \in Calls /\ NoOp.step = "idle"
  BY EspAssumption, EmptySeq, Zenon DEF NoOp, Calls, Methods, Steps, Content
<1>2. Typed
  BY <1>1, ConfFacts DEF Init, EspInit, Typed, Content
<1>3. Selected /\ Copying
  BY <1>1, Zenon DEF Init, EspInit, Selected, Copying, Idle
<1>4. Led
  <2> SUFFICES ASSUME NEW id \in Ids PROVE \E n \in Paths : Leads(n, id)
    BY DEF Led
  <2>1. PICK n \in Paths : Files(id) = {n}
    BY DEF Init
  <2>2. n.id = id /\ disk[n] # NoFile
    BY <2>1 DEF Files
  <2>3. Complete(n)
    BY <2>2 DEF Init, Complete
  <2>4. \A m \in Paths : m.id = id /\ Counted(m) /\ disk[m] # NoFile => m = n
    BY <2>1 DEF Files
  <2>5. Counted(n) => n.left <= n.left
    BY NameAssumption DEF Counted
  <2> QED
    BY <2>2, <2>3, <2>4, <2>5, Zenon DEF Leads
<1> QED
  BY <1>2, <1>3, <1>4 DEF CountInv

\* Starting the rename of a counted entry with tries left.
LEMMA CountAttemptInv ==
  ASSUME CountInv, CountAttempt
  PROVE  CountInv'
<1>1. /\ Idle /\ phase = "count" /\ phase' = "rename"
      /\ entry' = entry /\ nvPath' = nvPath /\ disk' = disk
      /\ Counted(entry) /\ entry.left > 0
      /\ op' = [kind |-> "rename", step |-> "read", path |-> entry,
                to |-> Decrement(entry), data |-> <<>>, at |-> 0,
                prior |-> disk[entry], want |-> disk[entry]]
  BY DEF CountAttempt, Rename, Begin
<1>2. entry \in Paths /\ Parses(disk[entry]) /\ Decrement(entry) \in Paths
  BY <1>1, DecrementFacts, Zenon DEF CountInv, Selected
<1>3. disk[entry] \in Content
  BY <1>2 DEF CountInv, Typed
<1>4. op' \in Calls
  BY <1>1, <1>2, <1>3, EmptySeq, Zenon DEF Calls, Methods, Steps
<1>5. Typed'
  BY <1>1, <1>4, Zenon DEF CountInv, Typed, PartOfConf
<1>6. Selected'
  BY <1>1, <1>2 DEF Selected, Counted, Parses
<1>7. Copying'
  BY <1>1 DEF Copying, Idle, Decrement, DoneNext
<1>8. Led'
  BY <1>1, Zenon DEF CountInv, Led, Leads, Complete
<1> QED
  BY <1>5, <1>6, <1>7, <1>8 DEF CountInv

\* The OS moves a file to the name without a counter, when that is free.
LEMMA BlessInv ==
  ASSUME CountInv, Bless
  PROVE  CountInv'
<1>1. nvPath \in Paths /\ disk[nvPath] # NoFile
  BY DEF Bless, CountInv, Typed
<1>2. \E m \in Paths : m.id = nvPath.id /\ m.left = Good
  BY <1>1, NameAssumption
<1>3. PICK good \in Paths :
        /\ good.id = nvPath.id /\ good.left = Good /\ disk[good] = NoFile
        /\ disk' = [disk EXCEPT ![nvPath] = NoFile, ![good] = disk[nvPath]]
  BY <1>2, Zenon DEF Bless
<1>4. NoOp \in Calls /\ NoOp.step = "idle"
  BY EspAssumption, EmptySeq, Zenon DEF NoOp, Calls, Methods, Steps, Content
<1>5. op' = NoOp /\ phase = "os" /\ phase' = "os" /\ entry' = entry /\ nvPath' = nvPath
  BY DEF Bless, countVars
<1>6. /\ disk'[good] = disk[nvPath] /\ good # nvPath /\ disk'[nvPath] = NoFile
      /\ \A m \in Paths : m # good /\ m # nvPath => disk'[m] = disk[m]
  BY <1>1, <1>3 DEF CountInv, Typed
<1>7. Typed'
  <2>1. disk' \in [Paths -> Content]
    BY <1>1, <1>3 DEF CountInv, Typed, Content
  <2>2. \A m \in Paths : disk'[m] = NoFile \/ PartOfConf(disk'[m])
    BY <1>1, <1>6 DEF CountInv, Typed
  <2> QED
    BY <2>1, <2>2, <1>4, <1>5, Zenon DEF CountInv, Typed, PartOfConf
<1>8. Selected' /\ Copying'
  BY <1>4, <1>5, Zenon DEF Selected, Copying, Idle
<1>9. Led'
  <2> SUFFICES ASSUME NEW id \in Ids PROVE \E n \in Paths : Leads(n, id)'
    BY DEF Led
  <2>1. PICK n \in Paths : Leads(n, id)
    BY DEF CountInv, Led
  <2>2. PICK path \in Paths : path = nvPath
    BY <1>1
  <2>3. CASE n = path
    <3>1. Leads(good, id)'
      BY <1>3, <1>6, <2>1, <2>2, <2>3 DEF Leads, Complete, Counted
    <3> QED
      BY <3>1
  <2>4. CASE n # path
    <3>1. n # good
      BY <1>3, <2>1, ConfFacts DEF Leads, Complete
    <3>2. Complete(n)'
      BY <1>6, <2>1, <2>2, <2>4, <3>1 DEF Leads, Complete
    <3>3. ASSUME NEW m \in Paths, Counted(m), disk'[m] # NoFile
          PROVE  disk[m] # NoFile
      BY <1>3, <1>6, <3>3 DEF Counted
    <3> QED
      BY <2>1, <3>2, <3>3 DEF Leads
  <2> QED
    BY <2>3, <2>4
<1> QED
  BY <1>7, <1>8, <1>9 DEF CountInv

\* Every step keeps the leading file of every entry, and the progress of a
\* rename, intact.
LEMMA StepInv ==
  ASSUME CountInv, [Next]_vars
  PROVE  CountInv'
<1>1. CASE PowerOn
  <2>1. UNCHANGED <<disk, op, entry, nvPath>> /\ phase' = "menu" /\ Idle
    BY <1>1, Zenon DEF PowerOn, espVars, CountInv, Copying
  <2> QED
    BY <2>1, Zenon DEF CountInv, Typed, Selected, Copying, Led, Leads, Complete, Idle,
       PartOfConf
<1>2. ASSUME NEW n \in Paths, Select(n) PROVE CountInv'
  <2>1. /\ UNCHANGED <<disk, op, nvPath>> /\ phase' = "count" /\ Idle
        /\ entry' = n /\ Parses(disk[n])
    BY <1>2 DEF Select, espVars, CountInv, Copying, Listed
  <2> QED
    BY <2>1, Zenon DEF CountInv, Typed, Selected, Copying, Led, Leads, Complete, Idle,
                PartOfConf, Parses
<1>3. CASE NothingToCount
  <2>1. UNCHANGED <<disk, op, entry, nvPath>> /\ phase' = "boot" /\ Idle
    BY <1>3 DEF NothingToCount, espVars, CountInv, Copying
  <2> QED
    BY <2>1, Zenon DEF CountInv, Typed, Selected, Copying, Led, Leads, Complete, Idle,
       PartOfConf
<1>4. CASE CountAttempt
  BY <1>4, CountAttemptInv
<1>5. CASE RenameStep
  BY <1>5, ReadOldInv, UnlinkInv, CreateInv, WriteChunkInv, WriteDoneInv, UnlinkOldInv
  DEF RenameStep, FirmwareCall
<1>6. CASE Renamed
  <2>1. UNCHANGED <<disk, op, entry>> /\ phase' = "boot" /\ Idle
    BY <1>6 DEF Renamed, espVars
  <2>2. nvPath' \in Paths \cup {NoName}
    BY <1>6, DecrementFacts DEF Renamed, CountInv, Selected, Typed
  <2>3. Led'
    BY <2>1 DEF CountInv, Led, Leads, Complete
  <2>4. Typed'
    BY <2>1, <2>2 DEF CountInv, Typed, PartOfConf
  <2>5. Selected' /\ Copying'
    BY <2>1 DEF Selected, Copying, Idle
  <2> QED
    BY <2>3, <2>4, <2>5 DEF CountInv
<1>7. CASE ReachOs
  <2>1. UNCHANGED <<disk, op, entry, nvPath>> /\ phase' = "os" /\ Idle
    BY <1>7, Zenon DEF ReachOs, espVars, CountInv, Copying
  <2>2. Led'
    BY <2>1 DEF CountInv, Led, Leads, Complete
  <2>3. Typed'
    BY <2>1 DEF CountInv, Typed, PartOfConf
  <2>4. Selected' /\ Copying'
    BY <2>1, Zenon DEF Selected, Copying, Idle
  <2> QED
    BY <2>2, <2>3, <2>4 DEF CountInv
<1>8. CASE Bless
  BY <1>8, BlessInv
<1>9. CASE Off
  <2>1. /\ UNCHANGED <<disk, nvPath>> /\ phase' = "off" /\ entry' = NoName
        /\ Return
    BY <1>9 DEF Off, PowerLoss
  <2>2. op' \in Calls /\ op'.step = "idle"
    BY <2>1, ReturnFacts DEF CountInv, Typed
  <2> QED
    BY <2>1, <2>2, Zenon DEF CountInv, Typed, Selected, Copying, Led, Leads, Complete, Idle,
       PartOfConf
<1>10. CASE EntryUnreadable
  <2>1. UNCHANGED <<disk, op, entry, nvPath>> /\ phase' = "boot" /\ Idle
    BY <1>10, Zenon DEF EntryUnreadable, CountInv, Copying
  <2> QED
    BY <2>1, Zenon DEF CountInv, Typed, Selected, Copying, Led, Leads, Complete, Idle,
       PartOfConf
<1>11. CASE UNCHANGED vars
  <2>1. UNCHANGED <<disk, op, phase, entry, nvPath>>
    BY <1>11 DEF vars, espVars
  <2>2. Typed'
    BY <2>1 DEF CountInv, Typed, PartOfConf
  <2>3. Selected' /\ Copying'
    BY <2>1 DEF CountInv, Selected, Copying, Idle, Parses, Counted, Decrement, DoneNext
  <2>4. Led'
    BY <2>1 DEF CountInv, Led, Leads, Complete
  <2> QED
    BY <2>2, <2>3, <2>4 DEF CountInv
<1> QED
  BY <1>1, <1>2, <1>3, <1>4, <1>5, <1>6, <1>7, <1>8, <1>9, <1>10, <1>11 DEF Next

\* The inductive invariant of boot counting holds throughout.
LEMMA CountInvHolds == Spec => []CountInv
<1>1. Init => CountInv
  BY InitInv
<1>2. CountInv /\ [Next]_vars => CountInv'
  BY StepInv
<1> QED
  BY <1>1, <1>2, PTL DEF Spec

\* Whatever firmware calls fail and wherever power is lost in
\* decrement_boot_count's rename, every entry is still there as a complete file.
THEOREM EntryNeverLostHolds == Spec => []EntryNeverLost
<1>1. CountInv => EntryNeverLost
  BY DEF CountInv, Led, Leads, EntryNeverLost
<1> QED
  BY <1>1, CountInvHolds, PTL

\* Only files that were there, or the target of a running rename, are in the
\* menu after a step of the rename.
LEMMA RenameStepTries ==
  ASSUME CountInv, RenameStep, NEW n \in Listed', Counted(n)
  PROVE  \E m \in Listed : m.id = n.id /\ Counted(m) /\ m.left >= n.left
<1>1. n \in Paths /\ Parses(disk'[n]) /\ n.left \in Nat
  BY NameAssumption DEF Listed, Counted
<1>2. CASE n \in Listed
  BY <1>1, <1>2
<1>3. CASE n \notin Listed
  <2>1. ~Idle
    BY <1>3, <1>1 DEF RenameStep, FirmwareCall, ReadOld, Unlink, Create, WriteChunk,
                      WriteDone, UnlinkOld, Idle
  <2>2. n = op.to
    <3>1. disk'[n] # disk[n] /\ disk'[n] # NoFile
      BY <1>1, <1>3 DEF Listed, Parses
    <3>2. \/ UNCHANGED disk
          \/ \E c : disk' = [disk EXCEPT ![op.to] = c]
          \/ disk' = [disk EXCEPT ![op.path] = NoFile]
      BY DEF RenameStep, FirmwareCall, ReadOld, Unlink, Create, WriteChunk,
             WriteDone, UnlinkOld, CallFails
    <3> QED
      BY <3>1, <3>2, <1>1 DEF CountInv, Typed
  <2>3. /\ entry \in Listed /\ Counted(entry) /\ entry.left \in Nat
        /\ n.id = entry.id /\ n.left = entry.left - 1
    BY <2>1, <2>2, RunningFacts, DecrementFacts, Zenon DEF Listed
  <2> QED
    BY <2>3
<1> QED
  BY <1>2, <1>3

\* No step, failure or power loss lets an entry reappear in the menu with more
\* tries than a file of it had before.
THEOREM TriesNeverGrowHolds == Spec => TriesNeverGrow
<1> DEFINE NoGain ==
      \A n \in Listed' : Counted(n) =>
        \E m \in Listed : m.id = n.id /\ Counted(m) /\ m.left >= n.left
<1>1. ASSUME CountInv, [Next]_vars PROVE NoGain
  <2>1. CASE RenameStep
    BY <1>1, <2>1, RenameStepTries
  <2>2. CASE Bless
    <3> SUFFICES ASSUME NEW n \in Listed', Counted(n) PROVE n \in Listed /\ n.left \in Nat
      OBVIOUS
    <3>1. n \in Paths /\ Parses(disk'[n]) /\ n.left \in Nat
      BY NameAssumption DEF Listed, Counted
    <3>2. nvPath \in Paths
      BY <1>1, <2>2 DEF Bless, CountInv, Typed
    <3>3. \E m \in Paths : m.id = nvPath.id /\ m.left = Good
      BY <3>2, NameAssumption
    <3>4. PICK good \in Paths :
            /\ good.left = Good
            /\ disk' = [disk EXCEPT ![nvPath] = NoFile, ![good] = disk[nvPath]]
      BY <2>2, <3>3, Zenon DEF Bless
    <3>5. disk'[n] = disk[n]
      BY <1>1, <3>1, <3>2, <3>4 DEF CountInv, Typed, Counted, Parses
    <3> QED
      BY <3>1, <3>5 DEF Listed
  <2>3. CASE UNCHANGED disk
    <3> SUFFICES ASSUME NEW n \in Listed', Counted(n) PROVE n \in Listed /\ n.left \in Nat
      OBVIOUS
    <3> QED
      BY <2>3, NameAssumption DEF Listed, Counted, Parses
  <2>4. UNCHANGED disk \/ RenameStep \/ Bless
    BY <1>1, Zenon DEF Next, vars, PowerOn, Select, NothingToCount, EntryUnreadable,
       CountAttempt, Rename,
                Begin, Renamed, ReachOs, Off, PowerLoss, espVars
  <2> QED
    BY <2>1, <2>2, <2>3, <2>4
<1>2. CountInv /\ [Next]_vars => [NoGain]_vars
  BY <1>1
<1> QED
  BY <1>2, CountInvHolds, PTL DEF Spec, TriesNeverGrow
-----------------------------------------------------------------------------
(* The attempt is counted, and the OS is told under which name *)

\* The selected file has moved to its decremented name.
Moved == disk[entry] = NoFile /\ disk[Decrement(entry)] # NoFile

\* The variable names the running entry's file, or that was blessed since.
Announced ==
  /\ disk[entry] = NoFile
  /\ nvPath = Decrement(entry)
  /\ \E n \in Files(entry.id) : n = nvPath \/ ~Counted(n)

\* The inductive invariant: a rename that returned ended in ok or err, ok means
\* that the file moved, and a hand-off without an error had that rename.
AttemptInv ==
  /\ phase \in {"boot", "os"} => entry \in Paths
  /\ phase = "rename" /\ Idle => result \in {"ok", "err"} /\ (result = "ok" => Moved)
  /\ phase \in {"boot", "os"} /\ Counted(entry) /\ entry.left > 0 /\ result # "err"
       => Announced

\* A firmware call of the rename.
LEMMA AttemptRename ==
  ASSUME CountInv, RenameStep
  PROVE  AttemptInv'
<1>1. phase' = "rename" /\ entry' = entry /\ FirmwareCall
  BY DEF RenameStep, countVars
<1>2. ~Idle
  BY <1>1 DEF FirmwareCall, ReadOld, Unlink, Create, WriteChunk, WriteDone, UnlinkOld, Idle
<1>3. op \in Calls
  BY DEF CountInv, Typed
<1>4. CASE Abort
  BY <1>1, <1>4 DEF Abort, AttemptInv
<1>5. CASE \E step \in {"unlink", "create", "data", "unlink_old"} : op'.step = step
  BY <1>1, <1>5 DEF AttemptInv, Idle
<1>6. CASE UnlinkOld /\ disk' = [disk EXCEPT ![op.path] = NoFile] /\ Finish
  <2>1. /\ op.path = entry /\ op.to = Decrement(entry) /\ entry \in Paths
        /\ Decrement(entry) \in Paths /\ Decrement(entry) # entry
    BY <1>2, RunningFacts
  <2>2. disk[Decrement(entry)] # NoFile
    BY <1>2, <1>6, <2>1, Zenon DEF CountInv, Copying, UnlinkOld
  <2>3. disk'[entry] = NoFile /\ disk'[Decrement(entry)] # NoFile
    BY <1>6, <2>1, <2>2 DEF CountInv, Typed
  <2>4. result' = "ok" /\ Moved'
    BY <1>1, <1>6, <2>3 DEF Finish, Moved, Decrement, DoneNext
  <2> QED BY <1>1, <2>4 DEF AttemptInv
<1>7. CASE ReadOld
  <2>1. Abort \/ op' = [op EXCEPT !.step = "unlink", !.data = Old(op.path) \o @]
    BY <1>7 DEF ReadOld, CallFails
  <2>2. Abort \/ op'.step = "unlink"
    BY <1>3, <2>1, Zenon DEF Calls
  <2> QED BY <1>4, <1>5, <2>2
<1>8. CASE Unlink
  <2>1. Abort \/ op' = [op EXCEPT !.step = "create"]
    BY <1>8 DEF Unlink, CallFails, Goto
  <2>2. Abort \/ op'.step = "create"
    BY <1>3, <2>1 DEF Calls
  <2> QED BY <1>4, <1>5, <2>2
<1>9. CASE Create
  <2>1. Abort \/ \E n : op' = [op EXCEPT !.step = "data", !.at = n]
    BY <1>9, Zenon DEF Create, CallFails
  <2>2. Abort \/ op'.step = "data"
    BY <1>3, <2>1, Zenon DEF Calls
  <2> QED BY <1>4, <1>5, <2>2
<1>10. CASE WriteChunk
  <2>1. Abort \/ (op.step = "data" /\ op' = [op EXCEPT !.at = @ + 1, !.data = Tail(@)])
    BY <1>10 DEF WriteChunk, CallFails
  <2>2. Abort \/ op'.step = "data"
    BY <1>3, <2>1, Zenon DEF Calls
  <2> QED BY <1>4, <1>5, <2>2
<1>11. CASE WriteDone
  <2>1. op' = [op EXCEPT !.step = "unlink_old"]
    BY <1>2, <1>11, RunningFacts DEF WriteDone, Goto
  <2>2. op'.step = "unlink_old"
    BY <1>3, <2>1 DEF Calls
  <2> QED BY <1>5, <2>2
<1>12. CASE UnlinkOld
  BY <1>4, <1>6, <1>12 DEF UnlinkOld, CallFails
<1> QED BY <1>1, <1>7, <1>8, <1>9, <1>10, <1>11, <1>12 DEF FirmwareCall

\* systemd-bless-boot moves the file the variable names.
LEMMA AttemptBless ==
  ASSUME CountInv, AttemptInv, Bless
  PROVE  AttemptInv'
<1>1. nvPath \in Paths /\ disk[nvPath] # NoFile
  BY DEF Bless, CountInv, Typed
<1>2. \E m \in Paths : m.id = nvPath.id /\ m.left = Good
  BY <1>1, NameAssumption
<1>3. PICK good \in Paths :
        /\ good.id = nvPath.id /\ good.left = Good /\ disk[good] = NoFile
        /\ disk' = [disk EXCEPT ![nvPath] = NoFile, ![good] = disk[nvPath]]
  BY <1>2, Zenon DEF Bless
<1>4. UNCHANGED <<phase, entry, nvPath, result>> /\ phase = "os"
  BY DEF Bless, countVars
<1>5. /\ disk'[good] = disk[nvPath]
      /\ \A m \in Paths : m # good => disk'[m] = disk[m] \/ disk'[m] = NoFile
  BY <1>1, <1>3 DEF CountInv, Typed
<1>6. ASSUME Counted(entry), entry.left > 0, result # "err" PROVE Announced'
  <2>1. Announced /\ entry \in Paths
    BY <1>4, <1>6 DEF AttemptInv
  <2>2. good.id = entry.id
    <3>1. nvPath = Decrement(entry) /\ Decrement(entry).id = entry.id
      BY <1>6, <2>1, DecrementFacts DEF Announced
    <3> QED BY <1>3, <3>1
  <2>3. good \in Files(entry.id)' /\ ~Counted(good)
    BY <1>1, <1>3, <1>4, <1>5, <2>2 DEF Files, Counted
  <2>4. disk'[entry] = NoFile
    <3>1. good # entry
      BY <1>6, <2>3
    <3> QED BY <1>5, <2>1, <3>1 DEF Announced
  <2>5. nvPath' = Decrement(entry)'
    BY <1>4, <2>1 DEF Announced, Decrement, DoneNext
  <2>6. (\E n \in Files(entry.id) : n = nvPath \/ ~Counted(n))'
    <3>1. ~Counted(good)'
      BY <2>3 DEF Counted
    <3> QED BY <2>3, <3>1
  <2>7. disk'[entry'] = NoFile
    BY <1>4, <2>4
  <2> QED BY <2>5, <2>6, <2>7 DEF Announced
<1> QED BY <1>4, <1>6 DEF AttemptInv, Counted

\* The rename returned and LoaderBootCountPath is set, or not.
LEMMA AttemptRenamed ==
  ASSUME CountInv, AttemptInv, Renamed
  PROVE  AttemptInv'
<1>1. /\ phase = "rename" /\ Idle /\ phase' = "boot" /\ UNCHANGED <<disk, entry>>
      /\ \/ result = "ok" /\ nvPath' = Decrement(entry) /\ result' = result
         \/ result' = "err"
         \/ result # "ok" /\ result' = result
  BY DEF Renamed
<1>2. result \in {"ok", "err"} /\ (result = "ok" => Moved)
  BY <1>1 DEF AttemptInv
<1>3. entry \in Paths /\ Counted(entry) /\ entry.left > 0
  BY <1>1 DEF CountInv, Selected
<1>4. ASSUME result' # "err" PROVE Announced'
  <2>1. Moved /\ nvPath' = Decrement(entry)
    BY <1>1, <1>2, <1>4
  <2>2. Decrement(entry) \in Paths /\ Decrement(entry).id = entry.id
    BY <1>3, DecrementFacts
  <2>3. PICK to \in Paths : to = Decrement(entry)
    BY <2>2
  <2>4. to \in Files(entry.id)' /\ to = nvPath'
    BY <1>1, <2>1, <2>2, <2>3 DEF Files, Moved
  <2>5. nvPath' = Decrement(entry)'
    BY <1>1, <2>1 DEF Decrement, DoneNext
  <2>6. disk'[entry'] = NoFile
    BY <1>1, <2>1 DEF Moved
  <2>7. (\E n \in Files(entry.id) : n = nvPath \/ ~Counted(n))'
    BY <2>4
  <2> QED BY <2>5, <2>6, <2>7 DEF Announced
<1> QED BY <1>1, <1>3, <1>4 DEF AttemptInv

\* Every step keeps the invariant.
LEMMA AttemptStep ==
  ASSUME CountInv, AttemptInv, [Next]_vars
  PROVE  AttemptInv'
<1>1. CASE PowerOn \/ Off \/ \E n \in Paths : Select(n)
  BY <1>1 DEF PowerOn, Off, Select, AttemptInv
<1>2. CASE NothingToCount
  <2>1. /\ phase = "count" /\ phase' = "boot" /\ entry' = entry
        /\ ~Counted(entry) \/ entry.left = 0
    BY <1>2 DEF NothingToCount
  <2>2. entry \in Paths
    BY <2>1 DEF CountInv, Selected
  <2>3. ~(Counted(entry) /\ entry.left > 0)
    BY <2>1
  <2> QED BY <2>1, <2>2, <2>3 DEF AttemptInv, Counted
<1>3. CASE EntryUnreadable
  BY <1>3, Zenon DEF EntryUnreadable, AttemptInv, CountInv, Selected
<1>4. CASE CountAttempt
  <2>1. phase' = "rename" /\ op'.step = "read"
    BY <1>4, Zenon DEF CountAttempt, Rename, Begin
  <2> QED BY <2>1 DEF AttemptInv, Idle
<1>5. CASE RenameStep
  BY <1>5, AttemptRename
<1>6. CASE Renamed
  BY <1>6, AttemptRenamed
<1>7. CASE ReachOs \/ UNCHANGED vars
  <2>1. /\ UNCHANGED <<disk, op, result, entry, nvPath>>
        /\ phase' = phase \/ (phase = "boot" /\ phase' = "os")
    BY <1>7 DEF ReachOs, espVars, vars
  <2>2. Announced => Announced'
    BY <2>1 DEF Announced, Files, Decrement, DoneNext, Counted
  <2>3. Moved => Moved'
    BY <2>1 DEF Moved, Decrement, DoneNext
  <2> QED BY <2>1, <2>2, <2>3 DEF AttemptInv, Idle, Counted
<1>8. CASE Bless
  BY <1>8, AttemptBless
<1> QED BY <1>1, <1>2, <1>3, <1>4, <1>5, <1>6, <1>7, <1>8 DEF Next

\* The invariant of the attempt holds throughout.
LEMMA AttemptInvHolds == Spec => []AttemptInv
<1>1. Init => CountInv /\ AttemptInv
  BY InitInv DEF Init, AttemptInv
<1>2. CountInv /\ AttemptInv /\ [Next]_vars => (CountInv /\ AttemptInv)'
  BY StepInv, AttemptStep
<1> QED BY <1>1, <1>2, PTL DEF Spec

\* Once a counted entry is handed off and no firmware call failed in this boot,
\* it is no longer there under the name it was selected with, whatever earlier
\* boots, failures and power cuts left behind.
THEOREM AttemptCountedHolds == Spec => []AttemptCounted
<1>1. AttemptInv => AttemptCounted
  BY DEF AttemptInv, Announced, AttemptCounted
<1> QED BY <1>1, AttemptInvHolds, PTL

\* And its OS finds LoaderBootCountPath naming the file of the running entry, or
\* that file blessed already: never a file an earlier boot left behind.
THEOREM BlessTargetIsRunningHolds == Spec => []BlessTargetIsRunning
<1>1. AttemptInv => BlessTargetIsRunning
  BY DEF AttemptInv, Announced, BlessTargetIsRunning
<1> QED BY <1>1, AttemptInvHolds, PTL
=============================================================================
