------------------------------ MODULE BootLogs ------------------------------
(***************************************************************************)
(* boot.log (bootlog.rs), which shows how far a boot got, and the verbose  *)
(* breadcrumbs of the boot path (diag.rs), which go to audit.log one by    *)
(* one or, on firmware whose FAT driver couples with the console, through  *)
(* a bounded buffer written once before each handoff.                      *)
(*                                                                         *)
(* A line is its boot, its number in that boot and its length.  EspWriter  *)
(* models the writes themselves: append rewrites the whole file, and a     *)
(* write that fails may leave the old file, a part of the new one or none. *)
(***************************************************************************)
EXTENDS Integers, Sequences, Functions

CONSTANTS
  MAX_LOG_SIZE,   \* cap of the write-through phase
  DIAG_BUF_CAP,   \* cap of the breadcrumb buffer
  LineLengths,    \* lengths of lines and breadcrumbs
  MaxLines,       \* bound: lines, and breadcrumbs, of a boot
  MaxPowerOns,    \* bound: boots
  MaxWriteFaults  \* bound: writes that fail

ASSUME LogsAssumption == LineLengths \subseteq Nat

VARIABLES
  bphase,     \* off, new, init, menu, attempt, started
  blog,       \* BootLog: buffer, through, written
  blogFile,   \* boot.log
  crumbs,     \* DIAG_BUF
  auditFile,  \* the breadcrumbs in audit.log
  dropped,    \* history: the breadcrumbs of this boot that found no room
  said,       \* history: how many breadcrumbs this boot has left
  coalesce,   \* DIAG_COALESCE
  powerOns,   \* boots so far
  wfaults     \* writes that failed

logsVars == <<bphase, blog, blogFile, crumbs, auditFile, dropped, said, coalesce, powerOns,
              wfaults>>

Line(n, size) == [boot |-> powerOns, n |-> n, size |-> size]

Length(s) == FoldFunction(LAMBDA line, sum : line.size + sum, 0, s)

\* What a write that is cut short leaves.
Leading(s) == {SubSeq(s, 1, k) : k \in 0 .. Len(s)}

\* fat_write deletes the old file first.
Written(old, new, ok) ==
  IF ok THEN {new} ELSE {old} \cup Leading(new)

\* fat_true_append never touches what is there.
TrulyAppended(old, more, ok) ==
  IF ok THEN {old \o more} ELSE {old \o p : p \in Leading(more)}

FaultIf(ok) ==
  /\ ok \/ wfaults < MaxWriteFaults
  /\ wfaults' = IF ok THEN wfaults ELSE wfaults + 1

LogsInit ==
  /\ bphase = "off"
  /\ blog = [buffer |-> <<>>, through |-> TRUE, written |-> 0]
  /\ blogFile = <<>> /\ crumbs = <<>> /\ auditFile = <<>>
  /\ dropped = {} /\ said = 0
  /\ coalesce \in BOOLEAN
  /\ powerOns = 0 /\ wfaults = 0

LogsPowerOn ==
  /\ bphase = "off" /\ powerOns < MaxPowerOns
  /\ bphase' = "new"
  /\ blog' = [buffer |-> <<>>, through |-> TRUE, written |-> 0]
  /\ crumbs' = <<>> /\ dropped' = {} /\ said' = 0
  /\ powerOns' = powerOns + 1
  /\ UNCHANGED <<blogFile, auditFile, coalesce, wfaults>>

\* BootLog::start: the header replaces the log of the boot before.
StartLog ==
  /\ bphase = "new"
  /\ \E ok \in BOOLEAN :
       /\ FaultIf(ok)
       /\ blogFile' \in Written(blogFile, <<Line(0, 1)>>, ok)
       /\ blog' = [blog EXCEPT !.buffer = <<Line(0, 1)>>, !.written = IF ok THEN 1 ELSE 0]
  /\ bphase' = "init"
  /\ UNCHANGED <<crumbs, auditFile, dropped, said, coalesce, powerOns>>

\* BootLog::log while write_through; past the cap only the buffer has the line.
LogThrough(size) ==
  LET line == Line(Len(blog.buffer), size)
      fits == blog.written + size <= MAX_LOG_SIZE
  IN  /\ bphase = "init" /\ Len(blog.buffer) < MaxLines
      /\ \E ok \in BOOLEAN :
           /\ fits \/ ok
           /\ FaultIf(ok)
           /\ IF fits THEN blogFile' \in Written(blogFile, Append(blogFile, line), ok)
                      ELSE UNCHANGED blogFile
           /\ blog' = [blog EXCEPT !.buffer = Append(@, line),
                                   !.written = IF fits /\ ok THEN @ + size ELSE @]
      /\ UNCHANGED <<bphase, crumbs, auditFile, dropped, said, coalesce, powerOns>>

SetBuffered ==
  /\ bphase = "init"
  /\ bphase' = "menu"
  /\ blog' = [blog EXCEPT !.through = FALSE]
  /\ UNCHANGED <<blogFile, crumbs, auditFile, dropped, said, coalesce, powerOns, wfaults>>

\* An entry is selected: BootLog::log, now into the buffer only, and BootLog::flush.
LogAndFlush ==
  LET buffer == Append(blog.buffer, Line(Len(blog.buffer), 1))
  IN  /\ bphase = "menu" /\ Len(blog.buffer) < MaxLines + 1
      /\ \E ok \in BOOLEAN : FaultIf(ok) /\ blogFile' \in Written(blogFile, buffer, ok)
      /\ blog' = [blog EXCEPT !.buffer = buffer]
      /\ bphase' = "attempt"
      /\ UNCHANGED <<crumbs, auditFile, dropped, said, coalesce, powerOns>>
-----------------------------------------------------------------------------
(* Breadcrumbs *)

\* buffer_push: a breadcrumb without room is dropped, the next may still fit.
BufferPush(crumb) ==
  LET fits == Length(crumbs) + crumb.size <= DIAG_BUF_CAP
  IN  /\ crumbs' = IF fits THEN Append(crumbs, crumb) ELSE crumbs
      /\ dropped' = IF fits THEN dropped ELSE dropped \cup {crumb.n}
      /\ UNCHANGED <<auditFile, wfaults>>

\* diag::append and append_fmt, with diagnostics on.
LeaveCrumb(size) ==
  LET crumb == Line(said + 1, size)
  IN  /\ bphase = "attempt" /\ said < MaxLines
      /\ said' = said + 1
      /\ IF coalesce THEN BufferPush(crumb)
         ELSE /\ \E ok \in BOOLEAN :
                   /\ FaultIf(ok)
                   /\ auditFile' \in TrulyAppended(auditFile, <<crumb>>, ok)
              /\ UNCHANGED <<crumbs, dropped>>
      /\ UNCHANGED <<bphase, blog, blogFile, coalesce, powerOns>>

\* Seeded defect: the image is started without the flush.
HandOffUnflushed ==
  /\ bphase = "attempt"
  /\ bphase' = "started"
  /\ UNCHANGED <<blog, blogFile, crumbs, auditFile, dropped, said, coalesce, powerOns, wfaults>>

\* diag::flush before start_image: one write, and the buffer is cleared whether
\* or not it succeeded.
HandOff ==
  /\ bphase = "attempt"
  /\ \E ok \in BOOLEAN :
       /\ (coalesce /\ crumbs # <<>>) \/ ok
       /\ FaultIf(ok)
       /\ auditFile' \in TrulyAppended(auditFile, crumbs, ok)
       /\ crumbs' = <<>>
  /\ bphase' = "started"
  /\ UNCHANGED <<blog, blogFile, dropped, said, coalesce, powerOns>>

\* The image comes back: a tool, or a loader that is tried again another way.
ImageReturns ==
  /\ bphase = "started"
  /\ bphase' \in {"menu", "attempt"}
  /\ UNCHANGED <<blog, blogFile, crumbs, auditFile, dropped, said, coalesce, powerOns, wfaults>>

\* Power is lost, a system runs, or LamBoot gives up.
LogsPowerOff ==
  /\ bphase # "off"
  /\ bphase' = "off"
  /\ UNCHANGED <<blog, blogFile, crumbs, auditFile, dropped, said, coalesce, powerOns, wfaults>>

LogsNext ==
  \/ LogsPowerOn \/ StartLog \/ SetBuffered \/ LogAndFlush \/ HandOff \/ ImageReturns
  \/ LogsPowerOff
  \/ \E size \in LineLengths : LogThrough(size) \/ LeaveCrumb(size)

LogsSpec == LogsInit /\ [][LogsNext]_logsVars
-----------------------------------------------------------------------------
(* Properties *)

\* boot.log has the lines of one boot in the order they were logged and none
\* twice, through write-through, the flush at every selection and the cap
\* (bootlog.rs 36-113); lines of the boot before are in it only if the write of
\* the header failed.
BootLogInOrder ==
  /\ \A i, j \in DOMAIN blogFile : i < j =>
       \/ blogFile[i].boot < blogFile[j].boot
       \/ blogFile[i].boot = blogFile[j].boot /\ blogFile[i].n < blogFile[j].n
  /\ wfaults = 0 /\ bphase \notin {"off", "new"} =>
       \A i \in DOMAIN blogFile : blogFile[i].boot = powerOns

\* A breadcrumb is in audit.log once, and breadcrumbs are in the order in which they
\* were left, whatever flushes failed and however often images returned
\* (diag.rs 106-118).
CrumbsOnce ==
  \A i, j \in DOMAIN auditFile : i < j =>
    \/ auditFile[i].boot < auditFile[j].boot
    \/ auditFile[i].boot = auditFile[j].boot /\ auditFile[i].n < auditFile[j].n

\* When an image runs, every breadcrumb left so far is in audit.log, but for those
\* that found the buffer full (diag.rs 102-105).
CrumbsBeforeHandoff ==
  bphase = "started" /\ wfaults = 0 =>
    \A n \in 1 .. said : n \in dropped
      \/ \E i \in DOMAIN auditFile : auditFile[i].boot = powerOns /\ auditFile[i].n = n

\* The two logs tell how far a boot got: lines and breadcrumbs once each and in
\* order, and none outstanding when an image takes over.
LogsComplete == BootLogInOrder /\ CrumbsOnce /\ CrumbsBeforeHandoff
=============================================================================
