------------------------------- MODULE PeImage -------------------------------
(***************************************************************************)
(* The native PE loader up to a relocated image in memory: the header      *)
(* reader, the validator and the relocation pass of pe_loader_pure.rs and  *)
(* the allocation, the copies and the error paths of pe_loader.rs.         *)
(*                                                                         *)
(* A file is a record of its header fields and of the words its relocation *)
(* directory holds once the sections are copied.  Offsets and lengths are  *)
(* bytes, as in the code: every sum is taken in 64 bits from 32-bit        *)
(* fields, so none of them wraps.  What the loader reads and writes is     *)
(* kept as the intervals it touches.                                       *)
(***************************************************************************)
EXTENDS Integers, Sequences

CONSTANTS
  PeFiles,   \* the files load_pe may be given
  WordBase   \* values of a u16: 65536, or less where TLC cannot hold a u32

VARIABLES
  file,    \* the bytes passed to load_pe
  lpc,     \* where load_pe is
  got,     \* whether the preferred base was allocated
  pages,   \* the image's pages: "none", "held" or "freed"
  sec,     \* sections copied so far
  cursor,  \* the relocation pass: offset of its block in the directory
  item,    \* entries of this block done
  reads,   \* history: intervals read of the file and of the directory
  fixups,  \* history: how often each target was relocated, by width
  freed    \* history: how often the pages were freed

peVars == <<file, lpc, got, pages, sec, cursor, item, reads, fixups, freed>>

MAX_IMAGE_SIZE == 256 * 1024 * 1024
MAX_SECTIONS == 256
Min2(m, n) == IF m < n THEN m ELSE n

Section == [vsize : Nat, vaddr : Nat, rsize : Nat, roff : Nat, exec : BOOLEAN]
Dir == [va : Nat, size : Nat]
FileSet ==
  [len : Nat, mz : BOOLEAN, nt : Nat, pe : BOOLEAN, machine : {"ours", "other"},
   magic : {"pe32+", "pe32", "junk"}, optSize : Nat, nSections : Nat,
   nRva : Nat, entry : Nat, base : Nat, size : Nat, subsystem : Nat,
   imports : Dir, tls : Dir, reloc : Dir,
   sections : Seq(Section), words : Seq(Nat)]

ASSUME PeAssumption ==
  /\ WordBase \in Nat /\ WordBase >= 16
  /\ PeFiles \subseteq FileSet
  /\ \A f \in PeFiles : Len(f.sections) = f.nSections
-----------------------------------------------------------------------------
(* Headers *)

CoffOff(f) == f.nt + 4
OptOff(f) == CoffOff(f) + 20
TableOff(f) == OptOff(f) + f.optSize

\* read_data_dir: directory idx, absent unless the header counts it, the slot
\* is in the file and it is not all zero.
DataDir(f, idx, dir) ==
  IF idx < f.nRva /\ OptOff(f) + 112 + 8 * idx + 8 <= f.len
  THEN dir ELSE [va |-> 0, size |-> 0]

\* parse_headers_with_diag succeeds: each read is in the file, and the section
\* table is there as a whole.
Parses(f) ==
  /\ f.len >= 64 /\ f.mz
  /\ f.nt + 4 <= f.len /\ f.pe
  /\ OptOff(f) + 2 <= f.len
  /\ f.magic = "pe32+" => /\ OptOff(f) + 112 <= f.len
                          /\ f.nSections <= MAX_SECTIONS
                          /\ TableOff(f) + 40 * f.nSections <= f.len

CopyLen(s) == Min2(s.rsize, s.vsize)

\* entry_in_executable_section.
EntryInExec(f) ==
  \E i \in 1..f.nSections :
    /\ f.sections[i].exec
    /\ f.entry >= f.sections[i].vaddr
    /\ f.entry < f.sections[i].vaddr + f.sections[i].vsize

\* Seeded defect: the bytes to copy are checked against the file only.
SectionFitsFile(f, s) == CopyLen(s) > 0 => s.roff + CopyLen(s) <= f.len

\* validate_headers, for one section.
SectionFits(f, s) ==
  /\ s.vaddr + s.vsize <= f.size
  /\ CopyLen(s) > 0 => s.roff + CopyLen(s) <= f.len

\* validate_headers.
Validates(f) ==
  /\ f.machine = "ours"
  /\ f.magic = "pe32+"
  /\ f.subsystem \in {10, 11, 12}
  /\ f.size <= MAX_IMAGE_SIZE
  /\ DataDir(f, 1, f.imports).size = 0
  /\ DataDir(f, 9, f.tls).size = 0
  /\ \A i \in 1..f.nSections : SectionFits(f, f.sections[i])
  /\ f.entry < f.size
  /\ EntryInExec(f)
-----------------------------------------------------------------------------
(* The relocation directory *)

RelocDir(f) == DataDir(f, 5, f.reloc)

\* The u16 at an even offset of the directory, in the zeroed and filled image.
Word(f, off) ==
  LET k == off \div 2 + 1 IN IF k \in DOMAIN f.words THEN f.words[k] ELSE 0
Long(f, off) == Word(f, off) + WordBase * Word(f, off + 2)

BlockVa(f, c) == Long(f, c)
BlockSize(f, c) == Long(f, c + 4)
EntryAt(f, c, i) == Word(f, c + 8 + 2 * i)
PageSpan == WordBase \div 16
EntryType(f, c, i) == EntryAt(f, c, i) \div PageSpan
Target(f, c, i) == BlockVa(f, c) + (EntryAt(f, c, i) % PageSpan)

\* Bytes a relocation of the type changes; the other types are refused.
FixupWidth(type) ==
  CASE type = 10 -> 8     \* REL_DIR64
    [] type = 3  -> 4     \* REL_HIGHLOW
    [] type = 0  -> 0     \* REL_ABSOLUTE
    [] OTHER     -> -1

\* The checks on a block header that is no terminator.
BlockSound(f, c) ==
  /\ BlockSize(f, c) >= 8
  /\ c + BlockSize(f, c) <= RelocDir(f).size
  /\ (BlockSize(f, c) - 8) % 2 = 0

\* A fixup is applied only where all its bytes are in the image.
FixupFits(f, c, i) ==
  LET width == FixupWidth(EntryType(f, c, i))
  IN  width >= 0 /\ (width > 0 => Target(f, c, i) + width <= f.size)
-----------------------------------------------------------------------------
(* load_pe *)

PeInit ==
  /\ file \in PeFiles
  /\ lpc = "parse"
  /\ got = FALSE
  /\ pages = "none"
  /\ sec = 0
  /\ cursor = 0
  /\ item = 0
  /\ reads = {}
  /\ fixups = {}
  /\ freed = 0

\* The header fields that parse_headers reads.
HeaderReads(f) ==
  {[of |-> "file", from |-> 0, to |-> OptOff(f) + 2]} \cup
  (IF f.magic # "pe32+" THEN {}
   ELSE {[of |-> "file", from |-> OptOff(f), to |-> OptOff(f) + 112],
         [of |-> "file", from |-> TableOff(f), to |-> TableOff(f) + 40 * f.nSections]})

ParseAndValidate ==
  /\ lpc = "parse"
  /\ lpc' = IF Parses(file) /\ Validates(file) THEN "allocate" ELSE "failed"
  /\ reads' = reads \cup (IF Parses(file) THEN HeaderReads(file) ELSE {})
  /\ UNCHANGED <<file, got, pages, sec, cursor, item, fixups, freed>>

\* allocate_image_pages: the preferred base if there is one and it is free,
\* else anywhere; and the pages are zeroed.
Allocate ==
  /\ lpc = "allocate"
  /\ \/ /\ got' \in {FALSE} \cup (IF file.base > 0 THEN {TRUE} ELSE {})
        /\ pages' = "held"
        /\ lpc' = "copy"
     \/ UNCHANGED <<got, pages>> /\ lpc' = "failed"
  /\ UNCHANGED <<file, sec, cursor, item, reads, fixups, freed>>

\* The bytes of section sec + 1, if it has any.
Copy ==
  /\ lpc = "copy"
  /\ sec < file.nSections
  /\ LET s == file.sections[sec + 1]
     IN  reads' = IF CopyLen(s) = 0 THEN reads
                  ELSE reads \cup
                    {[of |-> "file", from |-> s.roff, to |-> s.roff + CopyLen(s)],
                     [of |-> "image", from |-> s.vaddr, to |-> s.vaddr + CopyLen(s)]}
  /\ sec' = sec + 1
  /\ UNCHANGED <<file, lpc, got, pages, cursor, item, fixups, freed>>

\* The error paths behind the allocation give the pages back.
Fail ==
  /\ lpc' = "failed"
  /\ pages' = "freed"
  /\ freed' = freed + 1

\* Seeded defect: a directory outside the image fails without freeing.
DecideLeaks ==
  /\ lpc = "copy"
  /\ sec = file.nSections
  /\ IF got \/ RelocDir(file).size = 0
     THEN lpc' = "install" /\ UNCHANGED <<pages, freed>>
     ELSE IF RelocDir(file).va + RelocDir(file).size > file.size
          THEN lpc' = "failed" /\ UNCHANGED <<pages, freed>>
          ELSE lpc' = "block" /\ UNCHANGED <<pages, freed>>
  /\ UNCHANGED <<file, got, sec, cursor, item, reads, fixups>>

\* Whether to relocate.  Without a directory an image that is not at its
\* preferred base is installed as it is (finish_load_without_relocs).
Decide ==
  /\ lpc = "copy"
  /\ sec = file.nSections
  /\ IF got \/ RelocDir(file).size = 0
     THEN lpc' = "install" /\ UNCHANGED <<pages, freed>>
     ELSE IF RelocDir(file).va + RelocDir(file).size > file.size
          THEN Fail
          ELSE lpc' = "block" /\ UNCHANGED <<pages, freed>>
  /\ UNCHANGED <<file, got, sec, cursor, item, reads, fixups>>

\* apply_relocations_to_slice, the header of a block.
Block ==
  /\ lpc = "block"
  /\ IF cursor >= RelocDir(file).size
     THEN lpc' = "install" /\ UNCHANGED <<pages, freed, reads>>
     ELSE IF cursor + 8 > RelocDir(file).size
     THEN Fail /\ UNCHANGED reads
     ELSE /\ reads' = reads \cup
               {[of |-> "dir", from |-> cursor, to |-> cursor + 8]}
          /\ IF BlockSize(file, cursor) = 0
             THEN lpc' = "install" /\ UNCHANGED <<pages, freed>>
             ELSE IF BlockSound(file, cursor)
             THEN lpc' = "fixup" /\ UNCHANGED <<pages, freed>>
             ELSE Fail
  /\ item' = 0
  /\ UNCHANGED <<file, got, sec, cursor, fixups>>

EntryCount(f, c) == (BlockSize(f, c) - 8) \div 2

\* One entry of the block.
Fixup ==
  /\ lpc = "fixup"
  /\ item < EntryCount(file, cursor)
  /\ reads' = reads \cup {[of |-> "dir", from |-> cursor + 8 + 2 * item,
                           to |-> cursor + 10 + 2 * item]}
  /\ IF FixupFits(file, cursor, item)
     THEN /\ fixups' = IF FixupWidth(EntryType(file, cursor, item)) = 0 THEN fixups
                       ELSE fixups \cup
                         {[at |-> Target(file, cursor, item), by |-> <<cursor, item>>,
                           width |-> FixupWidth(EntryType(file, cursor, item))]}
          /\ item' = item + 1
          /\ UNCHANGED <<lpc, pages, freed>>
     ELSE Fail /\ UNCHANGED <<fixups, item>>
  /\ UNCHANGED <<file, got, sec, cursor>>

\* Seeded defect: the cursor moves by the entries and not by their header.
NextBlockStays ==
  /\ lpc = "fixup"
  /\ item = EntryCount(file, cursor)
  /\ cursor' = cursor + BlockSize(file, cursor) - 8
  /\ lpc' = "block"
  /\ UNCHANGED <<file, got, pages, sec, item, reads, fixups, freed>>

NextBlock ==
  /\ lpc = "fixup"
  /\ item = EntryCount(file, cursor)
  /\ cursor' = cursor + BlockSize(file, cursor)
  /\ lpc' = "block"
  /\ UNCHANGED <<file, got, pages, sec, item, reads, fixups, freed>>

\* install_loaded_image_protocol, which may be refused.
Install ==
  /\ lpc = "install"
  /\ \/ lpc' = "loaded" /\ UNCHANGED <<pages, freed>>
     \/ Fail
  /\ UNCHANGED <<file, got, sec, cursor, item, reads, fixups>>

LoadSteps ==
  \/ ParseAndValidate \/ Allocate \/ Copy \/ Decide
  \/ Block \/ Fixup \/ NextBlock \/ Install

\* Drop for LoadedImage, as far as the pages go.
FreePages ==
  /\ lpc = "loaded"
  /\ Fail
  /\ UNCHANGED <<file, got, sec, cursor, item, reads, fixups>>

PeNext == LoadSteps \/ FreePages

PeSpec == PeInit /\ [][PeNext]_peVars /\ WF_peVars(LoadSteps)
-----------------------------------------------------------------------------
(* Properties *)

Extent(of) ==
  CASE of = "file" -> file.len [] of = "image" -> file.size
    [] of = "dir" -> RelocDir(file).size

\* Whatever the headers and the relocation directory say, the loader reads
\* and writes inside the file, the directory and the image: no read of
\* parse_headers or apply_relocations_to_slice panics, and the unchecked
\* copies of load_pe rest on what validate_headers admits.
TouchesOnlyItsOwn ==
  /\ \A r \in reads : r.from >= 0 /\ r.from <= r.to /\ r.to <= Extent(r.of)
  /\ \A x \in fixups : x.at >= 0 /\ x.at + x.width <= file.size

\* Control is passed to an executable section of the image only.
EntryIsCode == lpc = "loaded" => file.entry < file.size /\ EntryInExec(file)

\* The pages are held exactly while the load goes on or has succeeded: each
\* error path behind the allocation frees them, and none frees them twice.
PagesFreedOnce ==
  /\ freed <= 1
  /\ (pages = "held") <=> lpc \in {"copy", "block", "fixup", "install", "loaded"}
  /\ (pages = "freed") <=> (freed = 1)

\* The blocks of a directory, by a definition that does not walk it: the
\* offsets reached from 0 by adding the sizes of at most n blocks.
BlockStarts(f) ==
  LET reached[n \in 0..(RelocDir(f).size \div 8)] ==
        IF n = 0 THEN {0}
        ELSE reached[n - 1] \cup
               {c + BlockSize(f, c) : c \in {d \in reached[n - 1] : BlockSize(f, d) >= 8}}
  IN  {c \in reached[RelocDir(f).size \div 8] :
         c < RelocDir(f).size /\ BlockSize(f, c) >= 8}

ListedFixups(f) ==
  UNION {{[at |-> Target(f, c, i), by |-> <<c, i>>, width |-> FixupWidth(EntryType(f, c, i))] :
            i \in {j \in 0..(EntryCount(f, c) - 1) : FixupWidth(EntryType(f, c, j)) # 0}} :
         c \in BlockStarts(f)}

\* An image that is loaded away from its preferred base had every fixup of
\* its directory applied, each once, and no other; one at its preferred base
\* had none.
RelocatedAsListed ==
  lpc = "loaded" => fixups = IF got \/ RelocDir(file).size = 0 THEN {}
                             ELSE ListedFixups(file)
=============================================================================
