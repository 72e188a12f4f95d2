---------------------------- MODULE CrashCounter ----------------------------
(***************************************************************************)
(* What boot-health bookkeeping promises, with no NVRAM and no phases: a   *)
(* number of unfinished boots that grows by at most one per power cycle,   *)
(* is forgotten only by a success or a new VM generation, and is compared  *)
(* with the threshold to give the crash-loop verdict.                      *)
(***************************************************************************)
EXTENDS Integers

CONSTANTS Limit, Threshold

VARIABLES
  unfinished,  \* boots charged since the last success, this one included
  charged,     \* this boot has been accounted for
  verdict      \* crash-loop handling is on

cvars == <<unfinished, charged, verdict>>

Init == unfinished = 0 /\ charged = FALSE /\ verdict = FALSE

PowerCycle ==
  /\ charged' = FALSE
  /\ verdict' \in {verdict, FALSE}
  /\ UNCHANGED unfinished

Charge ==
  /\ ~ charged
  /\ charged' = TRUE
  /\ unfinished' = IF unfinished < Limit THEN unfinished + 1 ELSE Limit
  /\ UNCHANGED verdict

\* A success, or a new VM generation; the boot that notices the latter is
\* itself never charged.
Forget ==
  /\ unfinished' = 0
  /\ charged' \in {charged, TRUE}
  /\ UNCHANGED verdict

\* The OS has cleared the counter but not yet the state.
ForgetEarlier ==
  /\ charged
  /\ unfinished' = IF unfinished = 0 THEN 0 ELSE 1
  /\ UNCHANGED <<charged, verdict>>

Earlier == IF unfinished = 0 THEN 0 ELSE unfinished - 1

Decide ==
  /\ charged
  /\ verdict' = (Earlier >= Threshold)
  /\ UNCHANGED <<unfinished, charged>>

\* A tool came back: no automatic recovery for the rest of this boot.
Withdraw ==
  /\ charged
  /\ verdict' = FALSE
  /\ UNCHANGED <<unfinished, charged>>

Next == PowerCycle \/ Charge \/ Forget \/ ForgetEarlier \/ Decide \/ Withdraw

Spec == Init /\ [][Next]_cvars
=============================================================================
