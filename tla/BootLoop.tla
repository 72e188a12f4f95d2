------------------------------ MODULE BootLoop ------------------------------
(***************************************************************************)
(* The menu loop of run_bootloader (main.rs), with the two menus' (gui.rs, *)
(* console.rs) and policy.rs's choice of a default: which entry is booted, *)
(* on whose decision, and what becomes of the mounted volumes when a tool  *)
(* comes back.  BootAttempt models what boot_entry does with the entry.    *)
(*                                                                         *)
(* Entry ids are numbers, in the order of version_compare.  Two entries    *)
(* have the same id when BLS files of the same name on two volumes differ. *)
(***************************************************************************)
EXTENDS Integers, Sequences, FiniteSets, FiniteSetsExt, Functions

CONSTANTS
  Esp,        \* the ESP
  Extras,     \* the other volumes, in the order of mounting
  EntryLists, \* the entry lists discovery may return
  Policies    \* the policies: fallback (ids), pattern (ids), default, timeout

ASSUME LoopAssumption ==
  /\ Extras \in Seq(Range(Extras)) /\ Esp \notin Range(Extras)
  /\ Cardinality(Range(Extras)) = Len(Extras)
  /\ \A l \in EntryLists : l \in Seq(Range(l)) /\ l # <<>> /\ \A k \in 1 .. Len(l) :
       /\ l[k].id \in Nat /\ l[k].tool \in BOOLEAN /\ l[k].error \in BOOLEAN
       /\ l[k].home \in {Esp} \cup Range(Extras)
       /\ l[k].tool => l[k].home = Esp
  /\ \A p \in Policies : p.fallback \in Seq(Nat)

VARIABLES
  entries,      \* what discovery found
  policy,       \* policy.toml
  esp, extras,  \* the mounted volumes
  inCrashLoop,  \* in_crash_loop
  pc,           \* menu, boot, os (handed off), exit, setup (firmware setup)
  sel,          \* index of the selected entry
  how           \* history: who decided: fallback, user, timeout, recovery

vars == <<entries, policy, esp, extras, inCrashLoop, pc, sel, how>>

Bootable == {k \in DOMAIN entries : ~entries[k].tool}

\* source_volume_index: the place of an entry's volume when it was discovered.
SourceVolumeIndex(e) == CHOOSE i \in 0 .. Len(Extras) : (<<Esp>> \o Extras)[i + 1] = e.home

\* The volume the loop takes for an entry's.
SourceVolume(e) ==
  LET i == SourceVolumeIndex(e)
  IN  IF i = 0 \/ i > Len(extras) THEN esp ELSE extras[i]
-----------------------------------------------------------------------------
(* Choosing an entry; 0 is None *)

First(S) == IF S = {} THEN 0 ELSE Min(S)

\* select_fallback.
SelectFallback ==
  LET found(i) == {k \in DOMAIN entries : entries[k].id = policy.fallback[i]}
      i == First({j \in DOMAIN policy.fallback : found(j) # {}})
  IN  IF i = 0 THEN 0 ELSE Min(found(i))

\* select_crash_recovery_entry.
SelectCrashRecovery ==
  LET clean == {k \in Bootable : ~entries[k].error}
  IN  IF clean # {} THEN Min(clean) ELSE First(Bootable)

\* select_default_entry: the highest id the pattern matches, else default_entry.
SelectDefault(pattern, default, eligible) ==
  LET matching == {k \in eligible : entries[k].id \in pattern}
      newest == {k \in matching : \A j \in matching : entries[j].id <= entries[k].id}
  IN  IF matching # {} THEN Min(newest)
      ELSE First({k \in eligible : entries[k].id = default})

\* What the graphical and the text menu boot when the time is up.
GuiDefault(pattern, default) ==
  LET k == SelectDefault(pattern, default, Bootable)
  IN  IF k = 0 THEN First(Bootable) ELSE k

TextDefault(pattern, default) ==
  LET k == SelectDefault(pattern, default, DOMAIN entries)
  IN  IF k = 0 THEN 1 ELSE k

\* The policy the menu runs under: in a crash loop the recovery entry is the
\* default, after 8 seconds whatever policy.toml says.
Recovering == inCrashLoop /\ SelectCrashRecovery # 0

\* Seeded defect: the pattern of policy.toml is kept.
MenuPatternKept == policy.pattern

MenuPattern == IF Recovering THEN {} ELSE policy.pattern
MenuDefault == IF Recovering THEN entries[SelectCrashRecovery].id ELSE policy.default
MenuTimeout == (Recovering \/ policy.timeout) /\ Bootable # {}
-----------------------------------------------------------------------------
Init ==
  /\ entries \in EntryLists
  /\ policy \in Policies
  /\ esp = Esp /\ extras = Extras
  /\ inCrashLoop \in BOOLEAN
  /\ pc = "menu"
  /\ sel = 0
  /\ how = "none"

\* The selection k, made by who.
Choose(k, who) ==
  /\ k # 0
  /\ sel' = k
  /\ how' = who
  /\ pc' = "boot"
  /\ UNCHANGED <<entries, policy, esp, extras, inCrashLoop>>

\* The menu is not shown.
NoMenu == inCrashLoop /\ SelectFallback # 0

BootFallback == pc = "menu" /\ NoMenu /\ Choose(SelectFallback, "fallback")

PickEntry ==
  /\ pc = "menu" /\ ~NoMenu
  /\ \E k \in DOMAIN entries : Choose(k, "user")

\* F2 or F12, or the menu's last two lines.
PickSystemAction ==
  /\ pc = "menu" /\ ~NoMenu
  /\ pc' = "setup"
  /\ UNCHANGED <<entries, policy, esp, extras, inCrashLoop, sel, how>>

\* run_menu_with_fallback: the text menu runs when the graphical one cannot.
TimeUp ==
  /\ pc = "menu" /\ ~NoMenu /\ MenuTimeout
  /\ \/ Choose(GuiDefault(MenuPattern, MenuDefault), "timeout")
     \/ Choose(TextDefault(MenuPattern, MenuDefault), "timeout")

\* The graphical menu fails while it runs.
MenuFails ==
  /\ pc = "menu" /\ ~NoMenu
  /\ IF SelectCrashRecovery = 0
     THEN /\ pc' = "setup"
          /\ UNCHANGED <<entries, policy, esp, extras, inCrashLoop, sel, how>>
     ELSE Choose(SelectCrashRecovery, "recovery")

\* write_boot_report's ?.
ReportFails ==
  /\ pc = "boot"
  /\ pc' = "exit"
  /\ UNCHANGED <<entries, policy, esp, extras, inCrashLoop, sel, how>>

TakeOver ==
  /\ pc = "boot"
  /\ pc' = "os"
  /\ UNCHANGED <<entries, policy, esp, extras, inCrashLoop, sel, how>>

\* all_volumes, and Vec::swap_remove(0): the last one moves to the front.
AllVolumes == <<esp>> \o extras
SwapRemove(s) ==
  IF Len(s) = 1 THEN <<>> ELSE <<s[Len(s)]>> \o SubSeq(s, 2, Len(s) - 1)

\* Seeded defect: the crash loop is not left.
ToolReturnsInLoop ==
  /\ pc = "boot" /\ entries[sel].tool
  /\ esp' = AllVolumes[1]
  /\ extras' = SwapRemove(AllVolumes)
  /\ pc' = "menu"
  /\ UNCHANGED <<entries, policy, inCrashLoop, sel, how>>

\* A tool comes back, or could not be started.
ToolReturns ==
  /\ pc = "boot" /\ entries[sel].tool
  /\ esp' = AllVolumes[1]
  /\ extras' = SwapRemove(AllVolumes)
  /\ inCrashLoop' = FALSE
  /\ pc' = "menu"
  /\ UNCHANGED <<entries, policy, sel, how>>

\* Any other entry comes back, or could not be started.
BootReturns ==
  /\ pc = "boot" /\ ~entries[sel].tool
  /\ pc' = "exit"
  /\ UNCHANGED <<entries, policy, esp, extras, inCrashLoop, sel, how>>

Next ==
  \/ BootFallback \/ PickEntry \/ PickSystemAction \/ TimeUp \/ MenuFails
  \/ ReportFails \/ TakeOver \/ ToolReturns \/ BootReturns

Spec == Init /\ [][Next]_vars

\* The boot loader runs on, a countdown ends, and a started image hands off or
\* returns; but nobody need come, and no menu need fail.
Progress ==
  BootFallback \/ TimeUp \/ ReportFails \/ TakeOver \/ ToolReturns \/ BootReturns

LiveSpec == Spec /\ WF_vars(Progress)
-----------------------------------------------------------------------------
(* Properties *)

\* In a crash loop the first fallback of the operator's order that exists is
\* booted (select_fallback).
FallbackInOrder ==
  pc = "boot" /\ how = "fallback" =>
    \E i \in DOMAIN policy.fallback :
      /\ entries[sel].id = policy.fallback[i]
      /\ \A j \in 1 .. i - 1, k \in DOMAIN entries : entries[k].id # policy.fallback[j]

\* An entry booted because the menu failed is no tool, and no entry known to be
\* broken while a sound one exists ("so a non-interactive recovery boot does
\* not deterministically pick a known-broken entry").
RecoverySound ==
  pc = "boot" /\ how = "recovery" =>
    /\ ~entries[sel].tool
    /\ entries[sel].error => \A k \in Bootable : entries[k].error

\* The countdown of a crash loop boots an entry that has the id of a sound one when
\* a sound one exists: the recovery entry is handed to the menu as an id, in place
\* of policy.toml's default and pattern ("a headless host still boots the recovery
\* pick").  Where two volumes have entries of one id, the first with it is booted.
CountdownSound ==
  pc = "boot" /\ how = "timeout" /\ inCrashLoop =>
    \E k \in Bootable :
      /\ entries[k].id = entries[sel].id
      /\ entries[k].error => \A j \in Bootable : entries[j].error

\* What a machine in a crash loop boots without a user: the operator's order
\* first; else, when the countdown ends or the menu fails, a sound entry if there
\* is one (for the countdown: an entry of its id).
CrashLoopChoice == FallbackInOrder /\ RecoverySound /\ CountdownSound

\* The countdown can never end in a tool.
NoToolByDefault ==
  \A k \in DOMAIN entries :
    entries[k].tool => k # 1 /\ entries[k].id \notin policy.pattern \cup {policy.default}

\* With a countdown configured, once nobody picks entries any more the loop
\* ends: an image takes over or LamBoot leaves ("This cannot spin"), even when
\* the configured fallback is a tool that keeps coming back.
EndsUnattended ==
  /\ policy.timeout /\ NoToolByDefault /\ Bootable # {}
  /\ <>[][~PickEntry]_vars
  => <>(pc \in {"os", "exit", "setup"})
-----------------------------------------------------------------------------
(* What a comment says, and the code does not do *)

\* "Split back (preserve order: esp stays index 0, extras 1..n)": the volume the
\* loop measures, counts and mounts for the selected entry is its own.
SourceVolumeRight == pc = "boot" => SourceVolume(entries[sel]) = entries[sel].home
=============================================================================
