------------------------------ MODULE MCSession ------------------------------
(* The session with the user: the boot loop, in which a menu is one step, and *)
(* the menu with a pointing device of each sort and two keyboards.  "looking" *)
(* is TRUE while the menu is followed key by key.                             *)
EXTENDS BootLoop, Menu

VARIABLE looking

TwoExtras == <<"x1", "x2">>

Entry == [id : {1, 2}, tool : {FALSE}, error : BOOLEAN, home : {"esp", "x1", "x2"}]
Tool == [id |-> 9, tool |-> TRUE, error |-> FALSE, home |-> "esp"]

\* Two entries and a tool, the first entry not from the last volume; entries of
\* one id come from different volumes.  And a list with nothing to boot.
Lists ==
  {<<a, b, Tool>> : a \in {e \in Entry : e.home # "x2"}, b \in Entry} \cup {<<Tool>>}
DiscoveredLists ==
  {l \in Lists : Len(l) = 3 => (l[1].id = l[2].id => l[1].home # l[2].home)}

\* Fallback orders with a missing id, a tool, two entries; every kind of
\* default.
AllPolicies ==
  [fallback : {<<>>, <<9>>, <<5, 2, 1>>}, pattern : {{}, {1, 2}},
   default : {0, 2, 9}, timeout : BOOLEAN]

MCDevices == <<"tablet", "mouse", "key", "key">>
MCMenus == {<<0, 1, 0>>, <<3, 1, 3>>}
MCPoints == {<<30, 199>>, <<30, 203>>, <<400, 198>>}

\* The part not looked at has ended.
LoopRests ==
  /\ entries = <<>> /\ esp = Esp /\ extras = Extras /\ inCrashLoop = FALSE
  /\ policy = [fallback |-> <<>>, pattern |-> {}, default |-> 0, timeout |-> FALSE]
  /\ pc = "exit" /\ sel = 0 /\ how = "none"

MenuRests ==
  /\ kind = "text" /\ boots = 0 /\ tools = 0 /\ default = -1 /\ height = 256 /\ timeout = 0
  /\ at = "system" /\ asking = 1 /\ handles = {}
  /\ pending = [d \in DOMAIN Devices |-> NoReport]
  /\ pointer = <<0, 0>> /\ buttonDown = FALSE /\ touchedAt = Never /\ reports = 0
  /\ selCol = "left" /\ selIdx = 0 /\ scrollLeft = 0 /\ scrollRight = 0 /\ cursor = pointer
  /\ interacted = FALSE /\ elapsed = 0 /\ dirty = FALSE /\ lastSecond = -1 /\ shown = Picture
  /\ outcome = NoTile /\ by = <<"none", pointer>>

SessionInit ==
  \/ looking = FALSE /\ Init /\ MenuRests
  \/ looking = TRUE /\ MenuInit /\ LoopRests

SessionNext ==
  \/ ~looking /\ Next /\ UNCHANGED <<menuVars, looking>>
  \/ looking /\ MenuNext /\ UNCHANGED <<vars, looking>>

SessionSpec ==
  /\ SessionInit /\ [][SessionNext]_<<vars, menuVars, looking>>
  /\ WF_vars(~looking /\ Progress /\ UNCHANGED <<menuVars, looking>>)
  /\ WF_menuVars(looking /\ MenuSteps /\ UNCHANGED <<vars, looking>>)
=============================================================================
