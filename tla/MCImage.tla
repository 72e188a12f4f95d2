------------------------------- MODULE MCImage -------------------------------
(* From bytes on a device to a running image: reads of a BlockSource, the     *)
(* native loader on files of every shape, whole boots of a few kernels with   *)
(* drivers, initrd and Secure Boot hooks, and the attempts of a power-on with *)
(* what is verified and recorded of them.  "part" is the one that runs; the   *)
(* others rest.                                                               *)
EXTENDS ImageLoad, BlockSource, BootAttempt

VARIABLE part
-----------------------------------------------------------------------------
(* Files: a good one of two sections, and what may differ from it *)

Code == [vsize |-> 40, vaddr |-> 16, rsize |-> 32, roff |-> 600, exec |-> TRUE]
Data == [vsize |-> 8, vaddr |-> 56, rsize |-> 8, roff |-> 632, exec |-> FALSE]
Bss == [vsize |-> 8, vaddr |-> 64, rsize |-> 0, roff |-> 9999, exec |-> FALSE]
Nothing == [va |-> 0, size |-> 0]
Good ==
  [len |-> 640, mz |-> TRUE, nt |-> 64, pe |-> TRUE, machine |-> "ours",
   magic |-> "pe32+", optSize |-> 240, nSections |-> 2, nRva |-> 16, entry |-> 20,
   base |-> 4096, size |-> 72, subsystem |-> 10, imports |-> Nothing, tls |-> Nothing,
   reloc |-> Nothing, sections |-> <<Code, Data>>, words |-> <<>>]

\* Relocation directories of up to two blocks: fixups at the last place that
\* fits and at the first that does not, padding, unknown types, block sizes too
\* small, odd, past the end; and one or eight bytes too many.
Dir64(off) == 10 * PageSpan + off
HighLow(off) == 3 * PageSpan + off
Entries ==
  {<<>>, <<0>>, <<Dir64(56)>>, <<Dir64(57)>>, <<HighLow(60)>>, <<HighLow(61)>>,
   <<Dir64(24), Dir64(24)>>, <<Dir64(16), 0>>, <<2 * PageSpan>>}
Blocks ==
  {<<8, 0, 8 + 2 * Len(e), 0>> \o e : e \in Entries}
  \cup {<<0, 0, n, 0>> : n \in {0, 4, 9, 10, 200}} \cup {<<0, 1, 8, 0>>}
Directories == {<<>>} \cup Blocks \cup {x \o y : x, y \in Blocks}
Relocating ==
  {[Good EXCEPT !.words = d, !.reloc = [va |-> 40, size |-> 2 * Len(d) + extra]] :
     d \in Directories, extra \in {0, 1, 8}}

\* Sections that just fit, and that do not, in the file and in the image.
Sectioned ==
  {[Good EXCEPT !.sections =
      <<[Code EXCEPT !.vsize = v, !.rsize = r, !.roff = o, !.vaddr = a, !.exec = x], t>>] :
     v \in {0, 40, 56, 57}, r \in {0, 40, 41, 57}, o \in {600, 599, 0, 641},
     a \in {16, 72}, x \in BOOLEAN, t \in {Data, Bss}}

\* Headers cut short, misplaced, of other formats, with other directories.
Headers ==
  {[Good EXCEPT !.len = n, !.nt = m, !.nSections = k, !.optSize = o,
                !.sections = [i \in 1 .. k |-> Code]] :
     n \in {0, 63, 64, 67, 68, 89, 90, 199, 408, 640}, m \in {64, 60, 636, 637},
     k \in {0, 2, 257}, o \in {0, 112, 240}}
  \cup
  {[Good EXCEPT !.machine = ma, !.magic = mg, !.subsystem = su, !.size = si] :
     ma \in {"ours", "other"}, mg \in {"pe32+", "pe32", "junk"}, su \in {10, 12, 3},
     si \in {0, 20, 21, 63, 64, 72, MAX_IMAGE_SIZE, MAX_IMAGE_SIZE + 1}}
  \cup
  {[Good EXCEPT !.imports = im, !.tls = tl, !.nRva = n, !.entry = e, !.base = b, !.reloc = r] :
     im \in {Nothing, [va |-> 8, size |-> 4]}, tl \in {Nothing, [va |-> 8, size |-> 4]},
     n \in {1, 2, 5, 6, 9, 10}, e \in {15, 16, 55, 56, 72}, b \in {0, 4096},
     r \in {Nothing, [va |-> 72, size |-> 8], [va |-> 64, size |-> 8], [va |-> 65, size |-> 8]}}
  \cup {[Good EXCEPT !.mz = FALSE], [Good EXCEPT !.pe = FALSE]}

\* For whole boots: a kernel that is relocated, and one the loader gives up on.
Kernels ==
  {[Good EXCEPT !.reloc = [va |-> 40, size |-> 10], !.words = <<8, 0, 10, 0, Dir64(16)>>],
   [Good EXCEPT !.reloc = [va |-> 70, size |-> 8]]}

MCFiles == Kernels \cup Headers \cup Sectioned \cup Relocating
-----------------------------------------------------------------------------
(* Devices: block sizes that divide the word and that do not, media that end  *)
(* at the largest number; files inside them *)

MCDevices ==
  {[bs |-> 4, last |-> 3], [bs |-> 4, last |-> 8], [bs |-> 3, last |-> 10],
   [bs |-> 5, last |-> 31], [bs |-> 1, last |-> 31], [bs |-> 8, last |-> 2]}
MCRegions == {[base |-> 4, len |-> 6], [base |-> 5, len |-> 3], [base |-> 3, len |-> 0]}
MCOffsets == {0, 3, 4, 5, 15, 16, 26, 29, 30, 31}
MCLengths == {0, 1, 4, 5, 9, 31}
-----------------------------------------------------------------------------
(* Every image that takes a path of its own: what the native loader makes of a *)
(* chainloaded image does not matter, and a tool, which comes before another  *)
(* attempt, is accepted by shim or by db *)

MenuImages ==
  {i \in ImageSet : /\ IsChainload(i) => i.pe
                    /\ i.kind = "tool" => i.shimOk # i.dbOk}
-----------------------------------------------------------------------------
BootRests ==
  /\ fw = [sb |-> FALSE, archs |-> {}, heedsRetain |-> FALSE]
  /\ shimLock = FALSE /\ retain = FALSE
  /\ hooks = <<>> /\ saved = [a \in Archs |-> "none"] /\ active = FALSE /\ guard = FALSE
  /\ bpc = "rests" /\ image = Unset /\ boots = 0 /\ drivers = 0 /\ denials = 0
  /\ ifaces = {} /\ heap = {} /\ registered = FALSE /\ reply = NoReply

LoaderRests == PeInit /\ file = Good

SourceRests ==
  /\ dev = [bs |-> 4, last |-> 3] /\ src = [file |-> FALSE, base |-> 0, len |-> 16]
  /\ position = 0 /\ rpc = "idle" /\ ask = NoAsk /\ out = <<>> /\ touched = Untouched
  /\ rounds = 0

AttemptRests ==
  /\ Init /\ env = [sb |-> FALSE, mode |-> "auto", quirk |-> FALSE] /\ ~shim

MCInit ==
  \/ part = "load" /\ PeInit /\ BootRests /\ SourceRests /\ AttemptRests
  \/ part = "boot" /\ ImageInit /\ SourceRests /\ AttemptRests
  \/ part = "read" /\ SourceInit /\ LoaderRests /\ BootRests /\ AttemptRests
  \/ part = "attempt" /\ Init /\ LoaderRests /\ BootRests /\ SourceRests

MCNext ==
  \/ part = "load" /\ PeNext /\ UNCHANGED <<lendVars, sourceVars, vars, part>>
  \/ part = "boot" /\ ImageNext /\ UNCHANGED <<sourceVars, vars, part>>
  \/ part = "read" /\ SourceNext /\ UNCHANGED <<imageVars, vars, part>>
  \/ part = "attempt" /\ Next /\ UNCHANGED <<imageVars, sourceVars, part>>

MCSpec == MCInit /\ [][MCNext]_<<imageVars, sourceVars, vars, part>>
=============================================================================
