------------------------------ MODULE Preflight ------------------------------
(***************************************************************************)
(* The advisory checks of preflight.rs on the discovered entries, one      *)
(* entry after the other before the menu is shown, and beside them how     *)
(* boot.rs later looks for the same files.                                 *)
(***************************************************************************)
EXTENDS Discovery

VARIABLES
  marks,    \* entry.preflight: the status of the entries checked so far
  checked,  \* history: the file whose PE header was checked, for each entry
  panicked  \* an index out of bounds: the loader stops

preflightVars == <<discVars, marks, checked, panicked>>

PreflightInit == DiscInit /\ marks = <<>> /\ checked = <<>> /\ panicked = FALSE

Discover == DiscNext /\ UNCHANGED <<marks, checked, panicked>>
-----------------------------------------------------------------------------
(* Finding a file *)

\* The \boot\ form of a path.  Only for files in the root directory does some
\* volume have one.
Prefixed(path) == IF path[1] = "root" THEN <<"boot", path[2]>> ELSE path

\* exists_with_boot_fallback: the path under which a volume has the file.
ExistsWithBootFallback(v, path) ==
  IF path \in v.files THEN path
  ELSE IF Prefixed(path) \in v.files THEN Prefixed(path) ELSE NoPath

\* The first volume that has the file, ESP first; 0 when none has.
FirstWith(path) ==
  LET having == {i \in DOMAIN Volumes : ExistsWithBootFallback(Volumes[i], path) # NoPath}
  IN  IF having = {} THEN 0 ELSE Min(having)

\* Seeded defect: the path as written is read, not the one that was found.
ResolvedAsWritten(path) == <<FirstWith(path), path>>

\* find_volume_with_file, and the path resolved again on that volume.
Resolved(path) ==
  LET i == FirstWith(path)
  IN  <<i, IF i = 0 THEN NoPath ELSE ExistsWithBootFallback(Volumes[i], path)>>

\* Where the boot takes an entry's image from: chainload_efi and boot_uki read
\* the path as written on the ESP, boot_linux looks on every volume.
BootResolves(e) ==
  LET onEsp == ExistsWithBootFallback(Volumes[1], e.path)
      having == {i \in 2 .. Len(Volumes) : ExistsWithBootFallback(Volumes[i], e.path) # NoPath}
  IN  IF e.kind # "LinuxLegacy"
      THEN IF e.path \in Volumes[1].files THEN <<1, e.path>> ELSE <<0, NoPath>>
      ELSE IF onEsp # NoPath THEN <<1, onEsp>>
      ELSE IF having = {} THEN <<0, NoPath>>
      ELSE <<Min(having), ExistsWithBootFallback(Volumes[Min(having)], e.path)>>
-----------------------------------------------------------------------------
(* The checks *)

\* The header of a file; all but one file have a good one.
Header(at) == IF at = disk.odd.at THEN disk.odd ELSE disk.good

\* check_pe_header on the first 256 bytes: the signature is known to be inside,
\* the machine type behind it is not.
CheckPeHeader(h) ==
  IF h.len < 64 \/ ~h.mz \/ h.peOffset + 4 > h.len \/ ~h.signature THEN "warning"
  ELSE IF h.peOffset + 6 > h.len THEN "panic"
  ELSE IF h.native THEN "ok" ELSE "warning"

\* check_secure_boot: shim's verdict or the firmware's db.
CheckSecureBoot(h) ==
  IF \/ disk.secureBoot = "Disabled"
     \/ disk.secureBoot = "ActiveWithShim" /\ h.shim
     \/ h.db
  THEN "ok" ELSE "warning"

FileChecks(path) ==
  IF FirstWith(path) = 0 THEN {"error"}
  ELSE LET h == Header(Resolved(path)) IN {CheckPeHeader(h), CheckSecureBoot(h)}

\* file_exists_any for an initrd, which is <<directory, kind, version>>.
InitrdExists(f) ==
  \E i \in DOMAIN Volumes :
    \/ f \in Volumes[i].initrds
    \/ f[1] = "root" /\ <<"boot", f[2], f[3]>> \in Volumes[i].initrds

InitrdChecks(e) ==
  IF \E k \in DOMAIN e.initrd : ~InitrdExists(e.initrd[k]) THEN {"warning"} ELSE {}

\* check_root_param: a malformed UUID.
RootCheck(e) == IF "root=bad" \in Range(e.options) THEN {"warning"} ELSE {}

Checks(e) ==
  CASE e.kind \in {"Chainload", "Uki"} -> FileChecks(e.path)
    [] e.kind = "LinuxLegacy" -> FileChecks(e.path) \cup InitrdChecks(e) \cup RootCheck(e)
    [] e.kind = "IsoFile" -> IF FirstWith(e.path) = 0 THEN {"error"} ELSE {}
    [] e.kind = "IsoOptical" -> {}

\* PreflightResult::from_checks: the worst of them.
FromChecks(checks) ==
  IF "error" \in checks THEN "error" ELSE IF "warning" \in checks THEN "warning" ELSE "ok"

RunPreflight ==
  /\ dpc = "menu" /\ ~panicked /\ Len(marks) < Len(entries)
  /\ LET e == entries[Len(marks) + 1]
     IN  IF "panic" \in Checks(e)
         THEN panicked' = TRUE /\ UNCHANGED <<marks, checked>>
         ELSE /\ marks' = Append(marks, FromChecks(Checks(e)))
              /\ checked' = Append(checked, IF e.path = NoPath THEN <<0, NoPath>> ELSE Resolved(e.path))
              /\ UNCHANGED panicked
  /\ UNCHANGED discVars

PreflightNext == Discover \/ RunPreflight

PreflightSpec == PreflightInit /\ [][PreflightNext]_preflightVars
-----------------------------------------------------------------------------
(* Properties *)

\* The menu's mark is about the file that will be booted: a Linux entry is
\* marked as an error just when its boot would not find the kernel, and
\* otherwise the header that was checked is that of the file the boot reads
\* (Bug 21).  A chainload entry or UKI is found by its boot on the ESP only.
MarksWhatBoots ==
  \A k \in DOMAIN marks :
    LET e == entries[k]
        onEsp == e.kind \in {"Chainload", "Uki"} /\ e.path \in Volumes[1].files
    IN  e.kind = "LinuxLegacy" \/ onEsp =>
          /\ checked[k] = BootResolves(e)
          /\ (marks[k] = "error") = (BootResolves(e)[1] = 0)

\* "NEVER block boot. All results are advisory." (preflight.rs:9)
PreflightNeverBlocks == ~panicked
=============================================================================
