----------------------------- MODULE BootAttempt -----------------------------
(***************************************************************************)
(* One power-on of LamBoot, from Secure Boot detection to the hand-off:    *)
(* boot.rs (verify, choose the loader, load, start), the part of main.rs's *)
(* menu loop around it, and the trust log and report that describe it.     *)
(*                                                                         *)
(* An image is described by what decides its fate: the entry kind, whether *)
(* shim (MOK) and the firmware db accept it, and whether the native PE     *)
(* loader can load it.  "iso" is an ISO file on another volume or an       *)
(* optical disc, "espIso" an ISO file on the ESP.                          *)
(***************************************************************************)
EXTENDS TrustLog

CONSTANTS
  Images,       \* the images behind the menu's entries
  MaxAttempts,  \* bound on the selections made from the menu
  ByteFaults    \* whether the bytes may change between verify and load

VARIABLES
  env,      \* the machine and its policy.toml: sb, mode, quirk
  shim,     \* whether ShimLock is installed
  posture,  \* sb_state, detected once
  pc,       \* where the control is
  try,      \* number of selections made
  img,      \* the selected image
  report,   \* boot.json: verified_via and loader
  seen,     \* VerifiedBytes: verified_via and sb_state
  shared,   \* whether the ESP's backend was promoted to Shared
  pcr4,     \* history: the attempts whose image extended PCR 4
  started   \* history: every StartImage: the image, the loader, the attempt

attemptVars == <<env, shim, posture, pc, try, img, report, seen, shared, pcr4, started>>
vars == <<logVars, attemptVars>>

Kinds == {"tool", "chainload", "uki", "linux", "iso", "espIso"}
ImageSet == [kind : Kinds, shimOk : BOOLEAN, dbOk : BOOLEAN, pe : BOOLEAN]
Postures == {"Disabled", "ActiveWithShim", "ActiveDirect"}

ASSUME AttemptAssumption ==
  Images \subseteq ImageSet /\ MaxAttempts \in Nat /\ ByteFaults \in BOOLEAN

None == [kind |-> "none"]

TrustEvent(name, via, status) ==
  [name |-> name, via |-> via, status |-> status, try |-> try]

\* An event that carries neither a verdict nor a status.
Note(name) == TrustEvent(name, "", "")
-----------------------------------------------------------------------------
(* Decisions *)

\* classify_secure_boot over the first read and the one retry of the variable.
\* "blip" is an empty payload or an error that says nothing.
ClassifySecureBoot(first, retry) ==
  LET read == IF first = "blip" THEN retry ELSE first
  IN  read \in {"on", "blip"}

\* What firmware with Secure Boot on, or off (or without it), answers.
SbReads == {IF env.sb THEN "on" ELSE "off", "blip"}

\* report_verified_via, which is also verify_kernel_bytes' success path.
VerifiedVia(p) ==
  CASE p = "Disabled"       -> "degraded_trust_sb_off"
    [] p = "ActiveDirect"   -> "degraded_trust_sb_direct"
    [] p = "ActiveWithShim" -> "shim_mok"

IsChainload(i) == i.kind \in {"tool", "chainload"}

\* Seeded defect: only a pinned native loader is reported as native.
ReportLoaderPinned(i) ==
  IF IsChainload(i) \/ env.mode # "always" THEN "firmware" ELSE "native"

\* report_loader.
ReportLoader(i) ==
  IF IsChainload(i) \/ env.mode = "never" THEN "firmware" ELSE "native"

\* The posture verify_kernel_bytes acts on: ShimLock is probed again.
Reprobed ==
  IF posture = "ActiveWithShim" /\ ~shim THEN "ActiveDirect" ELSE posture

\* decide_load_route.
DecideLoadRoute(mode, p) ==
  CASE mode = "never"  -> "firmware"
    [] mode = "always" -> "native"
    [] mode = "auto"   -> IF p = "ActiveDirect" THEN "firmware" ELSE "native"

\* LoadImage under the SecurityOverride: ShimLock is asked first, then db.
LoadImageMayAccept(i) == ~env.sb \/ (shim /\ i.shimOk) \/ i.dbOk

\* Whether ShimLock survives a StartImage that returns: shim 15.8 and later
\* heed ShimRetainProtocol, earlier ones uninstall it.
ShimAfterStart == {shim, FALSE}
-----------------------------------------------------------------------------
(* Writing the trust log *)

Log(evs) == trust' = Recorded(trust, evs) /\ UNCHANGED <<logFile, bootNo>>

LogAndFlush(evs) ==
  Flush(Recorded(trust, evs), ~shared) /\ UNCHANGED bootNo

\* The flushes that conout_fat_coupling turns off.
LogAndFlushUnlessQuirk(evs) ==
  IF env.quirk THEN Log(evs) ELSE LogAndFlush(evs)
-----------------------------------------------------------------------------
Init ==
  /\ LogInit
  /\ env \in [sb : BOOLEAN, mode : {"auto", "always", "never"},
              quirk : BOOLEAN]
  /\ shim \in BOOLEAN
  /\ posture = "Disabled"
  /\ pc = "detect"
  /\ try = 0
  /\ img = None
  /\ report = None
  /\ seen = None
  /\ shared = FALSE
  /\ pcr4 = {}
  /\ started = <<>>

\* detect_secure_boot, and the trust log's first records.
Detect ==
  /\ pc = "detect"
  /\ \E first, retry \in SbReads :
       posture' = IF ~ClassifySecureBoot(first, retry) THEN "Disabled"
                  ELSE IF shim THEN "ActiveWithShim" ELSE "ActiveDirect"
  /\ Log(<<Note("boot_start")>>)
  /\ pc' = "drivers"
  /\ UNCHANGED <<env, shim, try, img, report, seen, shared, pcr4, started>>

\* load_drivers: each driver is started and returns.  The flush is the one
\* after preflight, which no quirk turns off.
LoadDrivers ==
  /\ pc = "drivers"
  /\ \E loaded \in BOOLEAN :
       /\ shim' \in IF loaded THEN ShimAfterStart ELSE {shim}
       /\ LogAndFlush(IF loaded THEN <<Note("legacy_driver_loaded")>> ELSE <<>>)
  /\ pc' = "menu"
  /\ UNCHANGED <<env, posture, try, img, report, seen, shared, pcr4, started>>

\* A selection: boot.json, the two records and the pre-handoff flush.
Select(i) ==
  /\ pc = "menu"
  /\ try < MaxAttempts
  /\ try' = try + 1
  /\ img' = i
  /\ report' = [via |-> IF IsChainload(i) THEN "" ELSE VerifiedVia(posture),
                loader |-> ReportLoader(i)]
  /\ seen' = None
  /\ LogAndFlushUnlessQuirk(<<[Note("entry_selected") EXCEPT !.try = try + 1],
                              [Note("boot_attempt") EXCEPT !.try = try + 1]>>)
  /\ pc' = "read"
  /\ UNCHANGED <<env, shim, posture, shared, pcr4, started>>

\* write_boot_report fails: its ? leaves run_bootloader.
ReportFails ==
  /\ pc = "menu"
  /\ try < MaxAttempts
  /\ pc' = "exit"
  /\ UNCHANGED <<logVars, env, shim, posture, try, img, report, seen, shared,
                 pcr4, started>>
-----------------------------------------------------------------------------
(* Reading and measuring the image *)

\* chainload_efi and boot_uki read the image off the ESP.
ReadImage ==
  /\ pc = "read"
  /\ IsChainload(img) \/ img.kind = "uki"
  /\ pc' \in {"measure", "failed"}
  /\ UNCHANGED <<logVars, env, shim, posture, try, img, report, seen, shared,
                 pcr4, started>>

\* boot_linux, up to its first flush.
ResolveKernel ==
  /\ pc = "read"
  /\ img.kind = "linux"
  /\ LogAndFlushUnlessQuirk(<<Note("kernel_load_phase")>>)
  /\ pc' = "kernel"
  /\ UNCHANGED <<env, shim, posture, try, img, report, seen, shared, pcr4, started>>

\* boot_linux: the kernel is on no volume, cannot be read, or is read.
ReadKernel ==
  /\ pc = "kernel"
  /\ \/ LogAndFlushUnlessQuirk(<<Note("kernel_load_phase")>>) /\ pc' = "failed"
     \/ Log(<<Note("kernel_load_phase")>>) /\ pc' = "failed"
     \/ /\ LogAndFlushUnlessQuirk(<<Note("kernel_load_phase"),
               Note("kernel_load_phase"), Note("kernel_load_phase")>>)
        /\ pc' = "measure"
  /\ UNCHANGED <<env, shim, posture, try, img, report, seen, shared, pcr4, started>>

\* boot_iso, boot_iso_optical: the volume that holds the ISO is promoted before
\* anything can fail; then mounting, or finding the kernel in it, may.
MountIso ==
  /\ pc = "read"
  /\ img.kind \in {"iso", "espIso"}
  /\ shared' = (shared \/ img.kind = "espIso")
  /\ \/ Log(<<>>) /\ pc' = "failed"
     \/ Log(<<Note("iso_mounted")>>) /\ pc' = "failed"
     \/ Log(<<Note("iso_mounted"), Note("iso_path_a_resolved")>>) /\ pc' = "measure"
  /\ UNCHANGED <<env, shim, posture, try, img, report, seen, pcr4, started>>

\* measure_kernel_logged, and the same code in chainload_efi.
Measure ==
  /\ pc = "measure"
  /\ \/ pcr4' = pcr4 \cup {try} /\ Log(<<Note("kernel_measured")>>)
     \/ pcr4' = pcr4 /\ Log(<<Note("kernel_measurement_skipped")>>)
  /\ pc' = IF IsChainload(img) THEN "load" ELSE "verify"
  /\ UNCHANGED <<env, shim, posture, try, img, report, seen, shared, started>>
-----------------------------------------------------------------------------
(* Verifying *)

\* Seeded defect: what is left to the firmware counts as verified.
VerifyStatusOptimistic(p, accepted) ==
  CASE p = "Disabled"     -> "SKIPPED"
    [] p = "ActiveDirect" -> "SUCCESS"
    [] OTHER              -> IF accepted THEN "SUCCESS" ELSE "REJECTED"

\* The verdict under posture p: ShimLock's answer counts only behind shim.
VerifyStatus(p, accepted) ==
  CASE p = "Disabled"     -> "SKIPPED"
    [] p = "ActiveDirect" -> "DEFERRED"
    [] OTHER              -> IF accepted THEN "SUCCESS" ELSE "REJECTED"

\* verify_kernel_bytes.  ShimLock may fail to open, which is a rejection too.
Verify ==
  /\ pc = "verify"
  /\ \E accepted \in {img.shimOk, FALSE} :
     LET status == VerifyStatus(Reprobed, accepted)
         via == IF status = "REJECTED" THEN "shim_rejected" ELSE VerifiedVia(Reprobed)
     IN  /\ Log(<<TrustEvent("image_verified", via, status)>>)
         /\ seen' = [via |-> via, sb |-> Reprobed]
         /\ pc' = IF status = "REJECTED" THEN "failed" ELSE "load"
  /\ UNCHANGED <<env, shim, posture, try, img, report, shared, pcr4, started>>

\* boot_linux: an initrd that exists cannot be read.
ReadInitrdFails ==
  /\ pc = "load"
  /\ img.kind = "linux"
  /\ pc' = "failed"
  /\ UNCHANGED <<logVars, env, shim, posture, try, img, report, seen, shared,
                 pcr4, started>>
-----------------------------------------------------------------------------
(* Loading and starting *)

\* Seeded defect: the route is chosen from the posture detected at power-on.
LoadPathStale == DecideLoadRoute(env.mode, posture)

\* choose_load_path.
LoadPath == DecideLoadRoute(env.mode, seen.sb)

\* StartImage, or a jump to the entry point of a natively loaded image.
Start(by) ==
  /\ started' = Append(started, [img |-> img, by |-> by, try |-> try])
  /\ pc' = "running"

\* Seeded defect: the trail is left for a later flush.
NativeLoadUnflushed ==
  /\ pc = "load" /\ ~IsChainload(img) /\ LoadPath = "native"
  /\ img.pe
  /\ Log(<<TrustEvent("image_loaded_native", seen.via, "SUCCESS")>>)
  /\ Start("native")
  /\ UNCHANGED <<env, shim, posture, try, img, report, seen, shared, pcr4>>

\* native_load_and_start.
NativeLoad ==
  /\ pc = "load" /\ ~IsChainload(img) /\ LoadPath = "native"
  /\ img.pe
  /\ LogAndFlushUnlessQuirk(<<TrustEvent("image_loaded_native", seen.via, "SUCCESS")>>)
  /\ Start("native")
  /\ UNCHANGED <<env, shim, posture, try, img, report, seen, shared, pcr4>>

\* native_load_and_start returns an error: the options cannot be encoded, the
\* loader refuses the image, or its SHA-256 is not the verified one (the note
\* stands in the place of the status).  A UKI's boot fails; a kernel's falls
\* back to the firmware, whatever the error.
NativeFails ==
  /\ pc = "load" /\ ~IsChainload(img) /\ LoadPath = "native"
  /\ \/ Log(<<>>)
     \/ ~img.pe /\ Log(<<TrustEvent("image_load_failed", "native_pe_loader", "")>>)
     \/ /\ img.pe /\ ByteFaults
        /\ LogAndFlushUnlessQuirk(
             <<TrustEvent("image_load_failed", "native_pe_loader", "mismatch")>>)
  /\ pc' = IF img.kind = "uki" THEN "failed" ELSE "fallback"
  /\ UNCHANGED <<env, shim, posture, try, img, report, seen, shared, pcr4, started>>

\* Whether firmware_load_and_start is called, and what is recorded on the way.
FirmwareTurn ==
  \/ pc = "load" /\ ~IsChainload(img) /\ LoadPath = "firmware"
  \/ pc = "fallback"

FirmwareTrail ==
  (IF pc = "fallback" THEN <<Note("native_load_fallback")>> ELSE <<>>)
    \o <<Note("legacy_loadimage_used")>>

\* firmware_load_and_start; its flush heeds no quirk.
FirmwareLoad ==
  /\ FirmwareTurn
  /\ LoadImageMayAccept(img)
  /\ LogAndFlush(FirmwareTrail \o
       <<TrustEvent("image_loaded_firmware", "firmware_loadimage", "SUCCESS")>>)
  /\ Start("firmware")
  /\ UNCHANGED <<env, shim, posture, try, img, report, seen, shared, pcr4>>

\* LoadImage refuses the image, or the options cannot be set.
FirmwareFails ==
  /\ FirmwareTurn
  /\ Log(FirmwareTrail)
  /\ pc' = "failed"
  /\ UNCHANGED <<env, shim, posture, try, img, report, seen, shared, pcr4, started>>

\* chainload_efi, from LoadImage on.
ChainLoad ==
  /\ pc = "load" /\ IsChainload(img)
  /\ LoadImageMayAccept(img)
  /\ LogAndFlushUnlessQuirk(
       <<TrustEvent("image_chainloaded", "firmware_loadimage", "SUCCESS")>>)
  /\ Start("firmware")
  /\ UNCHANGED <<env, shim, posture, try, img, report, seen, shared, pcr4>>

ChainFails ==
  /\ pc = "load" /\ IsChainload(img)
  /\ pc' = "failed"
  /\ UNCHANGED <<logVars, env, shim, posture, try, img, report, seen, shared,
                 pcr4, started>>
-----------------------------------------------------------------------------
(* After StartImage *)

\* A tool goes back to the menu; any other entry leaves run_bootloader.
AfterBoot == IF img.kind = "tool" THEN "menu" ELSE "exit"

\* ExitBootServices: the image does not come back.
HandOff ==
  /\ pc = "running"
  /\ pc' = "os"
  /\ UNCHANGED <<logVars, env, shim, posture, try, img, report, seen, shared,
                 pcr4, started>>

\* The image returns.  The native loader hands on any status as Ok(status);
\* behind StartImage an error status is an Err.
Return ==
  /\ pc = "running"
  /\ IF started[Len(started)].by = "native"
     THEN pc' = AfterBoot /\ shim' = shim
     ELSE pc' \in {AfterBoot, "failed"} /\ shim' \in ShimAfterStart
  /\ UNCHANGED <<logVars, env, posture, try, img, report, seen, shared, pcr4, started>>

\* boot_entry returned an Err.
Failed ==
  /\ pc = "failed"
  /\ LogAndFlush(<<Note("kernel_load_failed")>>)
  /\ pc' = AfterBoot
  /\ UNCHANGED <<env, shim, posture, try, img, report, seen, shared, pcr4, started>>

Next ==
  \/ Detect \/ LoadDrivers
  \/ \E i \in Images : Select(i)
  \/ ReportFails
  \/ ReadImage \/ ResolveKernel \/ ReadKernel \/ MountIso \/ Measure
  \/ Verify \/ ReadInitrdFails
  \/ NativeLoad \/ NativeFails \/ FirmwareLoad \/ FirmwareFails
  \/ ChainLoad \/ ChainFails
  \/ HandOff \/ Return \/ Failed

Spec == Init /\ [][Next]_vars
-----------------------------------------------------------------------------
(* Properties *)

\* Everything recorded since power-on, flushed or not.
Trail == trust.committed \o trust.events
EventsOf(n) == {e \in {Trail[k] : k \in 1 .. Len(Trail)} : e.try = n}

\* With Secure Boot on, and unless policy says native_pe = "always", nothing is
\* started that neither shim nor the firmware db accepts: not when ShimLock
\* vanishes after it was detected, not through the native loader, not through
\* the fallback (boot.rs, choose_load_path).
Authorised ==
  env.sb /\ env.mode # "always" =>
    \A k \in 1 .. Len(started) : started[k].img.shimOk \/ started[k].img.dbOk

\* When an image runs, everything recorded so far is in the file, in order,
\* unless the firmware is quirky or the ESP holds the ISO ("so events persist
\* when the kernel ExitBootServices-es").
AuditBeforeStart ==
  pc \in {"running", "os"} /\ ~env.quirk /\ ~shared /\ ~AppendFails =>
    /\ trust.events = <<>>
    /\ [k \in 1 .. Len(logFile) |-> logFile[k].ev] = trust.committed

\* The trail says what happened.  SUCCESS of image_verified and a shim_mok load
\* are of images shim accepts; an image logged as loaded by the firmware is one
\* it accepts; a rejected image is not started; and every start has one load
\* record of its attempt, naming the loader that ran.
HonestAudit ==
  /\ \A k \in 1 .. Len(started) :
       LET s == started[k]
           loads == {e \in EventsOf(s.try) : e.name \in
             {"image_loaded_native", "image_loaded_firmware", "image_chainloaded"}}
       IN  /\ \A e \in EventsOf(s.try) : e.status # "REJECTED"
           /\ \E l \in loads : loads = {l}
           /\ \A e \in loads :
                /\ (e.name = "image_loaded_native") = (s.by = "native")
                /\ e.via = "shim_mok" => s.img.shimOk
                /\ e.via = "firmware_loadimage" =>
                     ~env.sb \/ s.img.shimOk \/ s.img.dbOk
  /\ \A e \in EventsOf(try) :
       e.name = "image_verified" /\ e.status = "SUCCESS" => img.shimOk

\* The log says kernel_measured of an attempt exactly when PCR 4 was extended
\* in it, and an image that runs was measured or logged as not measured.
HonestMeasurement ==
  /\ \A n \in 1 .. try :
       (\E e \in EventsOf(n) : e.name = "kernel_measured") <=> n \in pcr4
  /\ \A k \in 1 .. Len(started) : \E e \in EventsOf(started[k].try) :
       e.name \in {"kernel_measured", "kernel_measurement_skipped"}

\* What the trust log says of verification, loading and measurement is what
\* happened.
HonestRecords == HonestAudit /\ HonestMeasurement

\* boot.json, written before the image is looked at, errs in two ways only.  It
\* says native of an image that the firmware loads in the end, never the other
\* way round.  And it says shim_mok of one that was verified after ShimLock was
\* gone, for verify_kernel_bytes probes again: PostureAgrees shows that case.
HonestReport ==
  pc = "running" =>
    /\ report.loader = "firmware" => started[Len(started)].by = "firmware"
    /\ ~IsChainload(img) /\ report.via # seen.via =>
         report.via = "shim_mok" /\ ~shim

\* boot.json's verified_via is "derived from the same single `sb_state` the
\* verify path uses ..., so the posture here cannot disagree with it"
\* (report.rs:138); trust_log_pure.rs:117 and main.rs:125 say the same.
PostureAgrees ==
  pc = "running" /\ ~IsChainload(img) => report.via = seen.via

\* One selection starts one image: a kernel that ran and returned is not run
\* again by the fallback.
StartedOnce ==
  \A j, k \in 1 .. Len(started) : started[j].try = started[k].try => j = k
=============================================================================
