------------------------------ MODULE MCStored ------------------------------
(* What a boot leaves behind, one store at a time: the names of counted     *)
(* entries, the trust log, the boot log and the breadcrumbs, the Boot####   *)
(* variables.  The stores are files and variables of their own; "store"     *)
(* names the one that changes, the others rest as on a new machine.         *)
EXTENDS BootCounting, TrustLog, BootLogs, SelfInstall

CONSTANTS Tries

VARIABLE store

MCConf == <<"linux", "options">>
MCPayloads == {MCConf}

Name(id, left, done) == [id |-> id, left |-> left, done |-> done]

\* An entry that starts as e1+Tries.conf; its id makes DONE appear (DashIds).
DoneAppears ==
  {Name("e1", n, IF n = Tries THEN NoDone ELSE Tries - n) : n \in 0 .. Tries}
    \cup {Name("e1", Good, NoDone)}

\* e1 still has its counter when the machine is first switched on.
StartsCounted ==
  Init /\ \A n \in Paths : disk[n] # NoFile /\ n.id = "e1" => n.left = Tries

InstallRests ==
  /\ bootVar = [n \in Slots |-> NoEntry] /\ bootOrder = <<>> /\ wanted = FALSE
  /\ ipc = "off" /\ slot = 0 /\ installed = "none"
  /\ misread = FALSE /\ cut = FALSE /\ faults = 0 /\ edits = 0

StoredInit ==
  /\ store \in {"counting", "trust log", "logs", "install"}
  /\ StartsCounted /\ LogInit /\ LogsInit
  /\ IF store = "install" THEN InstallInit ELSE InstallRests

StoredNext ==
  \/ store = "counting" /\ Next /\ UNCHANGED <<logVars, logsVars, installVars, store>>
  \/ store = "trust log" /\ LogNext /\ UNCHANGED <<vars, logsVars, installVars, store>>
  \/ store = "logs" /\ LogsNext /\ UNCHANGED <<vars, logVars, installVars, store>>
  \/ store = "install" /\ InstallNext /\ UNCHANGED <<vars, logVars, logsVars, store>>

StoredSpec ==
  StoredInit /\ [][StoredNext]_<<vars, logVars, logsVars, installVars, store>>
  /\ WF_installVars(store = "install" /\ BootSteps /\ UNCHANGED <<vars, logVars, logsVars, store>>)
=============================================================================
