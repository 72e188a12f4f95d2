---------------------------- MODULE BootCounting ----------------------------
(***************************************************************************)
(* BLS boot counting across boots: bls.rs decrement_boot_count and its     *)
(* caller in run_bootloader, over the FAT volume of EspWriter.             *)
(*                                                                         *)
(* The tries an entry has left are part of its file name                   *)
(* (entry+LEFT[-DONE].conf), and decrementing them is a rename, which on   *)
(* FAT is a copy and a delete.  Power can be lost in the middle of it, the *)
(* menu lists whatever .conf files parse, and the OS blesses the file      *)
(* LoaderBootCountPath names.                                              *)
(***************************************************************************)
EXTENDS EspWriter

CONSTANTS
  Good,   \* the LEFT of a name without a counter
  NoDone, \* the DONE of a name without one
  DashIds, \* entry ids whose last '-' is followed by a digit
  Conf    \* the chunks of a complete entry; the first is its linux line

\* A path is [id, left, done].  An entry keeps the form of its name, so LEFT
\* tells two names of an entry apart.
ASSUME NameAssumption ==
  /\ Good \notin Nat /\ NoDone \notin Nat
  /\ Paths \subseteq [id : {n.id : n \in Paths}, left : Nat \cup {Good},
                      done : Nat \cup {NoDone}]
  /\ \A m, n \in Paths : m.id = n.id /\ m.left = n.left => m = n
  /\ \A n \in Paths : \E m \in Paths : m.id = n.id /\ m.left = Good
  /\ Conf \in Payloads /\ Conf # <<>>

VARIABLES
  phase,   \* where this boot is
  entry,   \* the file of the selected entry
  nvPath   \* LoaderBootCountPath

countVars == <<phase, entry, nvPath>>
vars == <<disk, cache, used, shared, op, result, dirty, phase, entry, nvPath>>

Ids == {n.id : n \in Paths}
Counted(n) == n.left # Good
NoName == [id |-> "none", left |-> Good, done |-> NoDone]

\* BlsEntry::parse needs the linux line, the first chunk of Conf.
Parses(content) == content # NoFile /\ content # <<>> /\ content[1] = Conf[1]

Listed == {n \in Paths : Parses(disk[n])}

Files(id) == {n \in Paths : n.id = id /\ disk[n] # NoFile}

\* DONE is written when count_digits_in_filename finds a digit after the last
\* '-' of the old name, be it in the counter or in the id.
DoneNext(n) ==
  IF n.done # NoDone THEN n.done + 1
  ELSE IF n.id \in DashIds THEN 1 ELSE NoDone

Decrement(n) == [n EXCEPT !.left = @ - 1, !.done = DoneNext(n)]

ASSUME PathsClosed ==
  \A n \in Paths : Counted(n) /\ n.left > 0 => Decrement(n) \in Paths

\* Each entry is one complete file.
Init ==
  /\ EspInit
  /\ \A n \in Paths : disk[n] \in {NoFile, Conf}
  /\ \A id \in Ids : \E n \in Paths : Files(id) = {n}
  /\ phase = "off"
  /\ entry = NoName
  /\ nvPath = NoName

PowerOn ==
  /\ phase = "off"
  /\ phase' = "menu"
  /\ UNCHANGED <<espVars, entry, nvPath>>

Select(n) ==
  /\ phase = "menu"
  /\ n \in Listed
  /\ entry' = n
  /\ phase' = "count"
  /\ UNCHANGED <<espVars, nvPath>>

\* Seeded defect: the last try is not counted.
NothingToCountLast ==
  /\ phase = "count"
  /\ ~Counted(entry) \/ entry.left \in {0, 1}
  /\ phase' = "boot"
  /\ UNCHANGED <<espVars, entry, nvPath>>

\* The file has no counter, or is already bad: decrement_boot_count returns
\* before the rename.
NothingToCount ==
  /\ phase = "count"
  /\ ~Counted(entry) \/ entry.left = 0
  /\ phase' = "boot"
  /\ UNCHANGED <<espVars, entry, nvPath>>

\* The file cannot be read: decrement_boot_count is not called.
EntryUnreadable ==
  /\ phase = "count"
  /\ "read" \in Failing
  /\ result' = "err"
  /\ phase' = "boot"
  /\ UNCHANGED <<disk, cache, used, shared, op, dirty, entry, nvPath>>

\* Seeded defect: a tried entry gets its try back when that name is free.
CountAttemptBack ==
  /\ phase = "count"
  /\ Counted(entry) /\ entry.left > 0
  /\ LET up == {n \in Paths : /\ n.id = entry.id /\ disk[n] = NoFile
                              /\ n.left = entry.left + 1}
     IN  Rename(entry, IF up = {} THEN Decrement(entry) ELSE CHOOSE n \in up : TRUE)
  /\ phase' = "rename"
  /\ UNCHANGED <<entry, nvPath>>

CountAttempt ==
  /\ phase = "count"
  /\ Counted(entry) /\ entry.left > 0
  /\ Rename(entry, Decrement(entry))
  /\ phase' = "rename"
  /\ UNCHANGED <<entry, nvPath>>

RenameStep ==
  /\ phase = "rename"
  /\ FirmwareCall
  /\ UNCHANGED countVars

\* Seeded defect: the variable is set to the name before the rename.
RenamedSetsOld ==
  /\ phase = "rename"
  /\ Idle
  /\ nvPath' = IF result = "ok" THEN entry ELSE nvPath
  /\ phase' = "boot"
  /\ UNCHANGED <<espVars, entry>>

\* The variable is non-volatile, is set only when the rename succeeded, and
\* nobody looks whether that failed.
Renamed ==
  /\ phase = "rename"
  /\ Idle
  /\ \/ result = "ok" /\ nvPath' = Decrement(entry) /\ UNCHANGED result
     \/ result = "ok" /\ "nvram" \in Failing /\ result' = "err" /\ UNCHANGED nvPath
     \/ result # "ok" /\ UNCHANGED <<nvPath, result>>
  /\ phase' = "boot"
  /\ UNCHANGED <<disk, cache, used, shared, op, dirty, entry>>

ReachOs ==
  /\ phase = "boot"
  /\ phase' = "os"
  /\ UNCHANGED <<espVars, entry, nvPath>>

\* systemd-bless-boot: renames the file the variable names to the name without
\* a counter, unless that exists.
Bless ==
  /\ phase = "os"
  /\ nvPath # NoName
  /\ disk[nvPath] # NoFile
  /\ LET good == CHOOSE m \in Paths : m.id = nvPath.id /\ m.left = Good
     IN  /\ disk[good] = NoFile
         /\ disk' = [disk EXCEPT ![nvPath] = NoFile, ![good] = disk[nvPath]]
         /\ op' = NoOp
  /\ UNCHANGED <<cache, used, shared, result, dirty, countVars>>

\* Power loss, crash, or an orderly shutdown.
Off ==
  /\ phase # "off"
  /\ PowerLoss
  /\ phase' = "off"
  /\ entry' = NoName
  /\ UNCHANGED <<nvPath>>

Next ==
  \/ PowerOn
  \/ \E n \in Paths : Select(n)
  \/ NothingToCount
  \/ EntryUnreadable
  \/ CountAttempt
  \/ RenameStep
  \/ Renamed
  \/ ReachOs
  \/ Bless
  \/ Off

Spec == Init /\ [][Next]_vars
-----------------------------------------------------------------------------
(* Properties *)

Complete(n) == disk[n] = Conf

\* Whatever fails and whenever power is lost, every entry is still there as a
\* complete file under one of its names.
EntryNeverLost == \A id \in Ids : \E n \in Paths : n.id = id /\ Complete(n)

\* An interrupted or failed rename never gives an entry more tries than it had:
\* a counted file in the menu stands for one listed before with at least as many.
TriesNeverGrow ==
  [][\A n \in Listed' : Counted(n) =>
       \E m \in Listed : m.id = n.id /\ Counted(m) /\ m.left >= n.left]_vars

\* "LamBoot decrements the counter on each boot attempt": once a counted entry
\* is handed off and no firmware call failed in this boot, it is no longer listed
\* with the tries it was selected with, whatever earlier boots left behind.
AttemptCounted ==
  phase \in {"boot", "os"} /\ Counted(entry) /\ entry.left > 0 /\ result # "err" =>
    disk[entry] = NoFile

\* The OS of such a boot finds LoaderBootCountPath naming the file of the entry
\* that is running, or that file already blessed.
BlessTargetIsRunning ==
  phase = "os" /\ Counted(entry) /\ entry.left > 0 /\ result # "err" =>
    /\ nvPath = Decrement(entry)
    /\ \E n \in Files(entry.id) : n = nvPath \/ ~Counted(n)
=============================================================================
