------------------------------ MODULE EspWriter ------------------------------
(***************************************************************************)
(* One FAT volume as the bootloader sees it: the files, the read cache of  *)
(* fs.rs (VolumeCache), and the write path of fs_writer.rs (EspWriter)     *)
(* down to the firmware calls of fs_backend_fat.rs.                        *)
(*                                                                         *)
(* A method of EspWriter is a sequence of firmware calls.  Any of them may *)
(* fail, and power can be lost after any of them; what is on disk then     *)
(* stays.  A file is a sequence of chunks, each written at once.           *)
(* Directories carry no property here: ensure_dir is left out.             *)
(***************************************************************************)
EXTENDS Integers, Sequences, Functions

CONSTANTS
  Paths,       \* canonical paths of the files on the volume
  Payloads,    \* what callers write: sequences of chunks
  MaxLen,      \* bound on the length of a file
  CacheLimit,  \* CACHE_BYTES_LIMIT, in chunks
  Ranges,      \* <<offset, len>> pairs callers read
  Failing,     \* firmware calls that may fail; nvram is SetVariable
  NoFile       \* the content of a file that does not exist

Chunks == UNION {Range(d) : d \in Payloads}

ASSUME EspAssumption ==
  /\ Paths # {}
  /\ MaxLen \in Nat /\ CacheLimit \in Nat
  /\ Payloads \subseteq Seq(Chunks)
  /\ NoFile \notin Seq(Chunks)
  /\ Ranges \subseteq Nat \X Nat
  /\ Failing \subseteq {"open", "read", "data", "delete", "overwrite_delete",
                 "nvram"}

VARIABLES
  disk,    \* content of every file
  cache,   \* VolumeCache.entries, most recently used first
  used,    \* VolumeCache.used_bytes
  shared,  \* the backend was promoted to BackendOwn::Shared
  op,      \* the EspWriter method running, or the last one that ran
  result,  \* what the last method returned to its caller
  dirty    \* history: targets of methods that failed, until one succeeds

espVars == <<disk, cache, used, shared, op, result, dirty>>

Content == Seq(Chunks) \cup {NoFile}

Methods == {"none", "write", "append", "true_append", "rename", "delete"}
Steps == {"idle", "read", "unlink", "create", "data", "unlink_old"}
Calls == [kind : Methods, step : Steps, path : Paths, to : Paths,
          data : Seq(Chunks), at : Nat, prior : Content, want : Content]

Idle == op.step = "idle"

NoOp == [kind |-> "none", step |-> "idle", path |-> CHOOSE p \in Paths : TRUE,
         to |-> CHOOSE p \in Paths : TRUE, data |-> <<>>, at |-> 0,
         prior |-> NoFile, want |-> NoFile]

EspInit ==
  /\ disk \in [Paths -> {NoFile} \cup Payloads]
  /\ cache = <<>>
  /\ used = 0
  /\ shared = FALSE
  /\ op = NoOp
  /\ result = "none"
  /\ dirty = {}
-----------------------------------------------------------------------------
(* Reading through the cache *)

Bytes(entries) ==
  LET upTo[i \in 0 .. Len(entries)] ==
        IF i = 0 THEN 0 ELSE upTo[i - 1] + Len(entries[i].data)
  IN  upTo[Len(entries)]

\* What a read of range r returns; a full read asks for more than any file has.
Slice(content, r) ==
  SubSeq(content, r[1] + 1, IF r[1] + r[2] < Len(content) THEN r[1] + r[2]
                                                          ELSE Len(content))

CacheHits(p, r) ==
  {i \in DOMAIN cache : cache[i].path = p /\ cache[i].range = r}

CacheGet(p, r) ==
  \E i \in CacheHits(p, r) :
    /\ cache' = <<cache[i]>> \o SubSeq(cache, 1, i - 1) \o SubSeq(cache, i + 1, Len(cache))
    /\ UNCHANGED used

\* Evicts from the back until the new entry fits.
CacheInsert(e) ==
  LET n == Len(e.data)
      fits == {k \in 0 .. Len(cache) :
                 used - Bytes(SubSeq(cache, k + 1, Len(cache))) + n <= CacheLimit}
  IN  IF n > CacheLimit
        THEN UNCHANGED <<cache, used>>
        ELSE LET k == CHOOSE k \in fits : \A j \in fits : j <= k
             IN  /\ cache' = <<e>> \o SubSeq(cache, 1, k)
                 /\ used' = used - Bytes(SubSeq(cache, k + 1, Len(cache))) + n

Monus(m, n) == IF m < n THEN 0 ELSE m - n

\* retain: the entries of other paths, in their order.
Without(entries, ps) ==
  LET upTo[i \in 0 .. Len(entries)] ==
        IF i = 0 THEN <<>>
        ELSE IF entries[i].path \in ps THEN upTo[i - 1] ELSE Append(upTo[i - 1], entries[i])
  IN  upTo[Len(entries)]

\* Seeded defect: only the source of a rename is dropped from the cache.
InvalidateFirst(ps) ==
  LET kept == Without(cache, {op.path})
  IN  cache' = kept /\ used' = Monus(used, Bytes(cache) - Bytes(kept))

Invalidate(ps) ==
  LET kept == Without(cache, ps)
  IN  cache' = kept /\ used' = Monus(used, Bytes(cache) - Bytes(kept))

Read(p, r) ==
  /\ Idle
  /\ \/ CacheGet(p, r)
     \/ /\ CacheHits(p, r) = {}
        /\ disk[p] # NoFile
        /\ CacheInsert([path |-> p, range |-> r, data |-> Slice(disk[p], r)])
  /\ UNCHANGED <<disk, shared, op, result, dirty>>

ShareBackend ==
  /\ Idle
  /\ shared' = TRUE
  /\ UNCHANGED <<disk, cache, used, op, result, dirty>>
-----------------------------------------------------------------------------
(* The methods of EspWriter: each checks sfs_or_err and starts a sequence of *)
(* firmware calls.  prior and want are history: the file before the call and *)
(* the file the caller asked for.                                            *)

Old(p) == IF disk[p] = NoFile THEN <<>> ELSE disk[p]

Begin(kind, p, q, d, first, want) ==
  /\ Idle
  /\ ~shared
  /\ op' = [kind |-> kind, step |-> first, path |-> p, to |-> q, data |-> d,
            at |-> 0, prior |-> disk[p], want |-> want]
  /\ result' = "none"
  /\ UNCHANGED <<disk, cache, used, shared, dirty>>

Write(p, d) == Begin("write", p, p, d, "unlink", d)

AppendRmw(p, d) ==
  /\ Len(Old(p)) + Len(d) <= MaxLen
  /\ Begin("append", p, p, d, "read", Old(p) \o d)

TrueAppend(p, d) ==
  /\ Len(Old(p)) + Len(d) <= MaxLen
  /\ Begin("true_append", p, p, d, "create", Old(p) \o d)

Rename(p, q) == p # q /\ Begin("rename", p, q, <<>>, "read", disk[p])

Delete(p) == Begin("delete", p, p, <<>>, "unlink_old", NoFile)

\* sfs_or_err: a shared backend has no SimpleFileSystem to write through.
Refused ==
  /\ Idle
  /\ shared
  /\ result' = "err"
  /\ op' = NoOp
  /\ UNCHANGED <<disk, cache, used, shared, dirty>>
-----------------------------------------------------------------------------
(* The firmware calls *)

Goto(step) == op' = [op EXCEPT !.step = step]
Return == op' = [op EXCEPT !.step = "idle", !.data = <<>>, !.at = 0]

\* `?`: the method returns early and the cache is left as it is.
Abort ==
  /\ Return
  /\ result' = "err"
  /\ dirty' = dirty \cup {op.to}
  /\ UNCHANGED <<cache, used>>

Finish ==
  /\ Return
  /\ result' = "ok"
  /\ dirty' = dirty \ {op.path, op.to}
  /\ Invalidate({op.path, op.to})

CallFails(call) == call \in Failing /\ Abort /\ UNCHANGED <<disk, shared>>

ReadOld ==
  /\ op.step = "read"
  /\ \/ CallFails("read")
     \/ /\ op.kind = "rename" /\ disk[op.path] = NoFile
        /\ Abort /\ UNCHANGED <<disk, shared>>
     \/ /\ op.kind = "append" \/ disk[op.path] # NoFile
        /\ op' = [op EXCEPT !.step = "unlink", !.data = Old(op.path) \o @]
        /\ UNCHANGED <<disk, cache, used, shared, result, dirty>>

\* Seeded defect: fat_write does not delete the file it replaces.
UnlinkForgotten ==
  /\ op.step = "unlink"
  /\ Goto("create")
  /\ UNCHANGED <<disk, cache, used, shared, result, dirty>>

\* fat_write deletes an existing file and ignores the result.
Unlink ==
  /\ op.step = "unlink"
  /\ \/ CallFails("open")
     \/ /\ Goto("create")
        /\ \/ disk' = [disk EXCEPT ![op.to] = NoFile]
           \/ "overwrite_delete" \in Failing /\ UNCHANGED disk
        /\ UNCHANGED <<cache, used, shared, result, dirty>>

\* Seeded defect: true_append starts writing at offset 0.
CreateNoSeek ==
  /\ op.step = "create"
  /\ \/ CallFails("open")
     \/ /\ disk' = [disk EXCEPT ![op.to] = Old(op.to)]
        /\ op' = [op EXCEPT !.step = "data", !.at = 0]
        /\ UNCHANGED <<cache, used, shared, result, dirty>>

\* CreateReadWrite keeps an existing file; true_append seeks to its end.
Create ==
  /\ op.step = "create"
  /\ \/ CallFails("open")
     \/ /\ disk' = [disk EXCEPT ![op.to] = Old(op.to)]
        /\ op' = [op EXCEPT !.step = "data",
                            !.at = IF op.kind = "true_append"
                                     THEN Len(Old(op.to)) ELSE 0]
        /\ UNCHANGED <<cache, used, shared, result, dirty>>

PutAt(s, i, c) == IF i <= Len(s) THEN [s EXCEPT ![i] = c] ELSE Append(s, c)

WriteChunk ==
  /\ op.step = "data"
  /\ \/ CallFails("data")
     \/ /\ op.data # <<>>
        /\ disk' = [disk EXCEPT ![op.to] = PutAt(@, op.at + 1, Head(op.data))]
        /\ op' = [op EXCEPT !.at = @ + 1, !.data = Tail(@)]
        /\ UNCHANGED <<cache, used, shared, result, dirty>>

\* Seeded defect: a rename goes on to delete the old file before all is copied.
WriteDoneEarly ==
  /\ op.step = "data"
  /\ op.kind = "rename" \/ op.data = <<>>
  /\ IF op.kind = "rename"
       THEN Goto("unlink_old") /\ UNCHANGED <<cache, used, result, dirty>>
       ELSE Finish
  /\ UNCHANGED <<disk, shared>>

WriteDone ==
  /\ op.step = "data"
  /\ op.data = <<>>
  /\ IF op.kind = "rename"
       THEN Goto("unlink_old") /\ UNCHANGED <<cache, used, result, dirty>>
       ELSE Finish
  /\ UNCHANGED <<disk, shared>>

UnlinkOld ==
  /\ op.step = "unlink_old"
  /\ \/ CallFails("delete")
     \/ disk[op.path] = NoFile /\ Abort /\ UNCHANGED <<disk, shared>>
     \/ /\ disk[op.path] # NoFile
        /\ disk' = [disk EXCEPT ![op.path] = NoFile]
        /\ Finish
        /\ UNCHANGED shared

FirmwareCall ==
  ReadOld \/ Unlink \/ Create \/ WriteChunk \/ WriteDone \/ UnlinkOld

\* Everything in memory is gone; the files stay as they are.
PowerLoss ==
  /\ Return
  /\ cache' = <<>>
  /\ used' = 0
  /\ shared' = FALSE
  /\ result' = "none"
  /\ dirty' = {}
  /\ UNCHANGED disk

EspNext ==
  \/ \E p \in Paths, r \in Ranges : Read(p, r)
  \/ \E p \in Paths, d \in Payloads :
       Write(p, d) \/ AppendRmw(p, d) \/ TrueAppend(p, d)
  \/ \E p, q \in Paths : Rename(p, q)
  \/ \E p \in Paths : Delete(p)
  \/ ShareBackend
  \/ Refused
  \/ FirmwareCall
  \/ PowerLoss

EspSpec == EspInit /\ [][EspNext]_espVars
-----------------------------------------------------------------------------
(* Properties *)

\* The accounting of VolumeCache: used_bytes is the size of the entries, stays
\* within limit_bytes, and no key occurs twice (a second copy could outlive an
\* eviction of the first and be served later).
CacheConsistent ==
  /\ used = Bytes(cache)
  /\ used <= CacheLimit
  /\ \A i, j \in DOMAIN cache :
       cache[i].path = cache[j].path /\ cache[i].range = cache[j].range => i = j

\* "The Volume's read cache is invalidated on every write to keep cached reads
\* honest": between two calls, a cached range is what is on disk.  Only a method
\* that fails returns before it invalidates, and then its target alone may be
\* stale, until the next method on it succeeds.
CacheHonest ==
  Idle => \A i \in DOMAIN cache : cache[i].path \notin dirty =>
            /\ disk[cache[i].path] # NoFile
            /\ cache[i].data = Slice(disk[cache[i].path], cache[i].range)

\* VolumeCache keeps its accounts, and what it serves is what is on disk.
CacheSound == CacheConsistent /\ CacheHonest

\* A method that returned Ok did what its caller asked, and nothing else of
\* the target's old content is left.
OkMeansDone ==
  Idle /\ result = "ok" =>
    /\ disk[op.to] = op.want
    /\ op.kind = "rename" => disk[op.path] = NoFile

\* "An interrupted append loses at most the new tail, never the prior log": no
\* step of a true_append, failure or power loss changes what a file holds
\* already.
TrueAppendKeepsLog ==
  [][\A p \in Paths :
       /\ op.kind = "true_append" \/ Idle
       /\ disk[p] # NoFile
       => disk'[p] # NoFile /\ IsRestriction(disk[p], disk'[p])]_espVars
=============================================================================
