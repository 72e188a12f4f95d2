----------------------------- MODULE BootHealth -----------------------------
(***************************************************************************)
(* Boot-health bookkeeping in NVRAM: health.rs, and the points of          *)
(* run_bootloader (main.rs) that call it.                                  *)
(*                                                                         *)
(* The machine is power-cycled again and again.  Each boot assesses the    *)
(* variables the previous boot left behind, writes new ones one            *)
(* SetVariable at a time, decides whether it is in a crash loop, shows a   *)
(* menu and starts an image.  Power can be lost between any two writes.    *)
(* The OS-side success marker is not part of the repository's Rust code    *)
(* and is modelled from what the docs say it writes.                       *)
(*                                                                         *)
(* LamBootTimestamp, LamBootVersion and LoaderInfo are written beside the  *)
(* variables below, are never read back and have no variable here.         *)
(***************************************************************************)
EXTENDS Integers

CONSTANTS
  CounterMax,      \* largest value of the u8 crash counter (255)
  CrashThreshold,  \* policy.crash_threshold
  GenIds,          \* VM generation ids the hypervisor hands out
  NoGenId,         \* no generation id readable, or none stored
  FlakyWrites      \* variables whose SetVariable may fail

ASSUME CounterMaxAssumption == CounterMax \in Nat \ {0}
ASSUME ThresholdAssumption == CrashThreshold \in 0 .. CounterMax
ASSUME GenIdAssumption == NoGenId \notin GenIds
ASSUME FlakyAssumption == FlakyWrites \subseteq {"state", "count", "genid"}

VARIABLES
  nvState,      \* LamBootState
  nvCount,      \* LamBootCrashCount
  nvGenId,      \* LamBootVmGenId
  genid,        \* what fw_cfg reports as the generation; NoGenId on metal
  phase,        \* where this boot is
  counter,      \* crash_count: what assess_boot_health computed
  inCrashLoop,  \* main.rs in_crash_loop
  imageStatus,  \* status a started image came back with
  attempts,     \* history: boots begun since a success or a new generation
  launched      \* history: of those, boots that completed the assessment

nvram == <<nvState, nvCount, nvGenId>>
history == <<attempts, launched>>
vars == <<nvState, nvCount, nvGenId, genid, phase, counter, inCrashLoop,
          imageStatus, attempts, launched>>

\* CrashLoop can be read back (value 3) but no code path writes it.
BootState == {"Fresh", "Booting", "BootedOK", "CrashLoop"}

Phases == {"off", "assess", "reset_state", "reset_count", "store_genid",
           "write_count", "write_state", "ready", "menu", "tool", "image",
           "mark_state", "mark_count", "os"}

\* What a SetVariable of `new` over `old` may leave in the store.
Stored(name, old, new) == IF name \in FlakyWrites THEN {old, new} ELSE {new}

\* u8 saturating_add(1); the histories saturate one above the counter.
SaturatingAdd1(n, max) == IF n < max THEN n + 1 ELSE max

TypeOK ==
  /\ nvState \in BootState
  /\ nvCount \in 0 .. CounterMax
  /\ nvGenId \in GenIds \cup {NoGenId}
  /\ genid \in GenIds \cup {NoGenId}
  /\ phase \in Phases
  /\ counter \in 0 .. CounterMax
  /\ inCrashLoop \in BOOLEAN
  /\ imageStatus \in {"none", "success", "error"}
  /\ attempts \in 0 .. CounterMax + 1
  /\ launched \in 0 .. CounterMax + 1

\* A machine that has never run LamBoot: no variable exists, and get_state
\* and get_crash_counter read a missing variable as Fresh and 0.
Init ==
  /\ nvState = "Fresh"
  /\ nvCount = 0
  /\ nvGenId = NoGenId
  /\ genid \in GenIds \cup {NoGenId}
  /\ phase = "off"
  /\ counter = 0
  /\ inCrashLoop = FALSE
  /\ imageStatus = "none"
  /\ attempts = 0
  /\ launched = 0
-----------------------------------------------------------------------------
(* Power and the hypervisor *)

PowerOn ==
  /\ phase = "off"
  /\ phase' = "assess"
  /\ counter' = 0
  /\ inCrashLoop' = FALSE
  /\ imageStatus' = "none"
  /\ attempts' = SaturatingAdd1(attempts, CounterMax + 1)
  /\ UNCHANGED <<nvram, genid, launched>>

\* Power loss, watchdog, panic, an operator's reset or an OS shutdown.
Reset ==
  /\ phase # "off"
  /\ phase' = "off"
  /\ UNCHANGED <<nvram, genid, counter, inCrashLoop, imageStatus, history>>

\* Snapshot restore or template clone of a stopped VM.
NewGeneration ==
  /\ phase = "off"
  /\ genid # NoGenId
  /\ genid' \in GenIds \ {genid}
  /\ UNCHANGED <<nvram, phase, counter, inCrashLoop, imageStatus, history>>
-----------------------------------------------------------------------------
(* assess_boot_health *)

GenerationChanged == genid # NoGenId /\ nvGenId # genid

BeginReset ==
  /\ phase = "assess"
  /\ GenerationChanged
  /\ phase' = "reset_state"
  /\ UNCHANGED <<nvram, genid, counter, inCrashLoop, imageStatus, history>>

\* Seeded defect: a new generation resets the counter but not the state.
ResetStateForgotten ==
  /\ phase = "reset_state"
  /\ phase' = "reset_count"
  /\ UNCHANGED <<nvram, genid, counter, inCrashLoop, imageStatus, history>>

ResetState ==
  /\ phase = "reset_state"
  /\ nvState' \in Stored("state", nvState, "Fresh")
  /\ phase' = "reset_count"
  /\ UNCHANGED <<nvCount, nvGenId, genid, counter, inCrashLoop, imageStatus,
                 history>>

\* The histories start again once the counter has been forgotten.
ResetCount ==
  /\ phase = "reset_count"
  /\ nvCount' \in Stored("count", nvCount, 0)
  /\ phase' = "store_genid"
  /\ IF nvCount' = 0
       THEN attempts' = 1 /\ launched' = 0
       ELSE UNCHANGED history
  /\ UNCHANGED <<nvState, nvGenId, genid, counter, inCrashLoop, imageStatus>>

\* The early `return 0`: the state is left at Fresh.
StoreGenId ==
  /\ phase = "store_genid"
  /\ nvGenId' \in Stored("genid", nvGenId, genid)
  /\ counter' = 0
  /\ phase' = "ready"
  /\ launched' = SaturatingAdd1(launched, CounterMax + 1)
  /\ UNCHANGED <<nvState, nvCount, genid, inCrashLoop, imageStatus, attempts>>

\* Seeded defect: a successful boot does not restart the count.
CrashCountKeptOnSuccess(state, count) ==
  IF state = "Booting" THEN SaturatingAdd1(count, CounterMax) ELSE count

\* Seeded defect: an unfinished boot is noticed but not added.
CrashCountNotAdded(state, count) ==
  IF state \in {"BootedOK", "Fresh"} THEN 0 ELSE count

CrashCount(state, count) ==
  CASE state = "Booting" -> SaturatingAdd1(count, CounterMax)
    [] state \in {"BootedOK", "Fresh"} -> 0
    [] state = "CrashLoop" -> count

ReadHealth ==
  /\ phase = "assess"
  /\ ~ GenerationChanged
  /\ counter' = CrashCount(nvState, nvCount)
  /\ phase' = "write_count"
  /\ UNCHANGED <<nvram, genid, inCrashLoop, imageStatus, history>>

WriteCount ==
  /\ phase = "write_count"
  /\ nvCount' \in Stored("count", nvCount, counter)
  /\ phase' = "write_state"
  /\ UNCHANGED <<nvState, nvGenId, genid, counter, inCrashLoop, imageStatus,
                 history>>

WriteState ==
  /\ phase = "write_state"
  /\ nvState' \in Stored("state", nvState, "Booting")
  /\ phase' = "ready"
  /\ launched' = SaturatingAdd1(launched, CounterMax + 1)
  /\ UNCHANGED <<nvCount, nvGenId, genid, counter, inCrashLoop, imageStatus,
                 attempts>>
-----------------------------------------------------------------------------
(* run_bootloader *)

\* Phase 8 reads the stored counter again, not the computed one.
CheckCrashLoop ==
  /\ phase = "ready"
  /\ inCrashLoop' = (nvCount >= CrashThreshold)
  /\ phase' = "menu"
  /\ UNCHANGED <<nvram, genid, counter, imageStatus, history>>

\* The menu's reboot and firmware-setup rows; both end in a cold reset.
MenuReboot ==
  /\ phase = "menu"
  /\ phase' = "off"
  /\ UNCHANGED <<nvram, genid, counter, inCrashLoop, imageStatus, history>>

StartTool ==
  /\ phase = "menu"
  /\ phase' = "tool"
  /\ UNCHANGED <<nvram, genid, counter, inCrashLoop, imageStatus, history>>

\* A tool, or an Err from loading it, goes back to the menu.
ToolReturned ==
  /\ phase = "tool"
  /\ phase' = "menu"
  /\ inCrashLoop' = FALSE
  /\ UNCHANGED <<nvram, genid, counter, imageStatus, history>>

StartImage ==
  /\ phase = "menu"
  /\ phase' = "image"
  /\ UNCHANGED <<nvram, genid, counter, inCrashLoop, imageStatus, history>>

\* boot_entry failed before anything was started: Err, back to firmware.
LoadFailed ==
  /\ phase = "image"
  /\ phase' = "off"
  /\ UNCHANGED <<nvram, genid, counter, inCrashLoop, imageStatus, history>>

\* native_load_and_start returns Ok(status) whatever the status; on the
\* firmware path start_image turns an error status into Err.
BootResult(route, status) ==
  IF route = "firmware" /\ status = "error" THEN "Err" ELSE "Ok"

ImageReturned(route, status) ==
  /\ phase = "image"
  /\ imageStatus' = status
  /\ phase' = IF BootResult(route, status) = "Ok" THEN "mark_state" ELSE "off"
  /\ UNCHANGED <<nvram, genid, counter, inCrashLoop, history>>

\* mark_boot_success: the `?` on the state write skips the counter.
MarkState ==
  /\ phase = "mark_state"
  /\ \/ /\ nvState' = "BootedOK"
        /\ phase' = "mark_count"
        /\ attempts' = 0
        /\ launched' = 0
     \/ /\ "state" \in FlakyWrites
        /\ phase' = "off"
        /\ UNCHANGED <<nvState, history>>
  /\ UNCHANGED <<nvCount, nvGenId, genid, counter, inCrashLoop, imageStatus>>

MarkCount ==
  /\ phase = "mark_count"
  /\ nvCount' \in Stored("count", nvCount, 0)
  /\ phase' = "off"
  /\ UNCHANGED <<nvState, nvGenId, genid, counter, inCrashLoop, imageStatus,
                 history>>

ImageTakesOver ==
  /\ phase = "image"
  /\ phase' = "os"
  /\ UNCHANGED <<nvram, genid, counter, inCrashLoop, imageStatus, history>>
-----------------------------------------------------------------------------
(* lamboot-mark-success.service: two variable writes, in either order *)

OsMarkState ==
  /\ phase = "os"
  /\ nvState' = "BootedOK"
  /\ attempts' = 0
  /\ launched' = 0
  /\ UNCHANGED <<nvCount, nvGenId, genid, phase, counter, inCrashLoop,
                 imageStatus>>

\* With the counter gone and the state not yet BootedOK, only this boot can
\* still be taken for a crash.
OsMarkCount ==
  /\ phase = "os"
  /\ nvCount' = 0
  /\ launched' = IF launched = 0 THEN 0 ELSE 1
  /\ UNCHANGED <<nvState, nvGenId, genid, phase, counter, inCrashLoop,
                 imageStatus, attempts>>
-----------------------------------------------------------------------------
Assess ==
  \/ BeginReset \/ ResetState \/ ResetCount \/ StoreGenId
  \/ ReadHealth \/ WriteCount \/ WriteState

BootLoop ==
  \/ CheckCrashLoop \/ MenuReboot \/ StartTool \/ ToolReturned
  \/ StartImage \/ LoadFailed
  \/ \E route \in {"native", "firmware"}, status \in {"success", "error"} :
       ImageReturned(route, status)
  \/ MarkState \/ MarkCount \/ ImageTakesOver

Environment == PowerOn \/ Reset \/ NewGeneration \/ OsMarkState \/ OsMarkCount

Next == Assess \/ BootLoop \/ Environment

Spec == Init /\ [][Next]_vars

\* A loader that keeps reaching the crash-loop check is not cut off there
\* every single time.  Nothing else is assumed: no boot has to happen.
FairSpec == Spec /\ SF_vars(CheckCrashLoop)
-----------------------------------------------------------------------------
(* Properties *)

\* Crash-loop handling starts only after at least crash_threshold earlier
\* boots were begun, none of which was marked successful or predates the
\* current VM generation (is_crash_loop on the stored counter).
NoFalseCrashLoop ==
  inCrashLoop /\ phase \in {"menu", "tool", "image"} => attempts > CrashThreshold

\* On metal, when crash_threshold earlier boots got as far as the menu and none
\* was marked successful, Phase 8 of this boot turns crash-loop handling on.
NoMissedCrash ==
  [][genid = NoGenId /\ phase = "ready" /\ phase' = "menu"
       /\ launched > CrashThreshold
       => inCrashLoop']_vars

\* Health bookkeeping implements the abstract crash counter: whatever is
\* lost by power failures between two SetVariable calls, a boot is charged
\* at most once, and only a success or a new generation forgets.
Charged ==
  IF phase = "write_state"
    THEN nvState = "Booting"
    ELSE phase \in {"ready", "menu", "tool", "image", "mark_state",
                    "mark_count", "os"}

Abstract == INSTANCE CrashCounter WITH
  Limit <- CounterMax + 1,
  Threshold <- CrashThreshold,
  unfinished <- IF nvState = "Booting" THEN nvCount + 1 ELSE 0,
  charged <- Charged,
  verdict <- inCrashLoop

ImplementsCrashCounter == Abstract!Spec

\* A machine that keeps booting as far as Phase 8 without ever being marked
\* successful ends up in crash-loop handling again and again, whatever writes
\* were lost before, once those of the state and the generation id are kept.
CrashLoopEngages ==
  /\ []<>(phase = "ready")
  /\ <>[][/\ ~ (MarkState \/ OsMarkState \/ OsMarkCount \/ NewGeneration)
          /\ WriteState => nvState' = "Booting"
          /\ StoreGenId => nvGenId' = genid]_vars
  => []<>inCrashLoop

\* What main.rs says of an image that comes back: success is marked only
\* when the boot did not fail.
OnlySuccessIsMarked ==
  phase \in {"mark_state", "mark_count"} => imageStatus # "error"
=============================================================================
