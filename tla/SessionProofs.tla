---------------------------- MODULE SessionProofs ----------------------------
(***************************************************************************)
(* For every list of entries, policy, screen, set of input devices and     *)
(* timeout: what the boot loop boots without a user in a crash loop, and   *)
(* what the menu shows, boots and waits for.                               *)
(***************************************************************************)
EXTENDS BootLoop, Menu, Induction

-----------------------------------------------------------------------------
(* The boot loop *)

\* The least of a set of places.
LEMMA LeastPlace ==
  ASSUME NEW S, S \subseteq Nat, S # {}
  PROVE  Min(S) \in S /\ \A y \in S : Min(S) <= y
<1>1. \E x \in S : \A y \in S : x <= y
  BY LeastNat, Zenon
<1> QED
  BY <1>1, Zenon DEF Min

\* First is no place only for the empty set.
LEMMA FirstPlace ==
  ASSUME NEW S, S \subseteq Nat \ {0}
  PROVE  /\ (First(S) = 0) <=> (S = {})
         /\ S # {} => First(S) \in S /\ \A y \in S : First(S) <= y
<1>1. CASE S = {}
  BY <1>1 DEF First
<1>2. CASE S # {}
  <2>1. First(S) = Min(S)
    BY <1>2, Zenon DEF First
  <2>2. Min(S) \in S /\ \A y \in S : Min(S) <= y
    BY <1>2, LeastPlace, Zenon
  <2> QED
    BY <1>2, <2>1, <2>2, Zenon
<1> QED
  BY <1>1, <1>2

\* What discovery and the policy give does not change, and the entry that is
\* booted was chosen from it.
LoopInv ==
  /\ entries \in EntryLists
  /\ policy \in Policies
  /\ pc = "boot" /\ how = "fallback" => SelectFallback # 0 /\ sel = SelectFallback
  /\ pc = "boot" /\ how = "recovery" => SelectCrashRecovery # 0 /\ sel = SelectCrashRecovery
  /\ CountdownSound

\* Places in the list, and in the operator's order.
LEMMA Places ==
  ASSUME LoopInv
  PROVE  /\ DOMAIN entries \subseteq Nat \ {0}
         /\ DOMAIN policy.fallback = 1 .. Len(policy.fallback)
         /\ DOMAIN policy.fallback \subseteq Nat \ {0}
         /\ Len(policy.fallback) \in Nat
<1>1. entries \in Seq(Range(entries)) /\ policy.fallback \in Seq(Nat)
  BY LoopAssumption DEF LoopInv
<1>2. DOMAIN entries = 1 .. Len(entries) /\ Len(entries) \in Nat
  BY <1>1, LenProperties
<1>3. DOMAIN policy.fallback = 1 .. Len(policy.fallback) /\ Len(policy.fallback) \in Nat
  BY <1>1, LenProperties
<1> QED
  BY <1>2, <1>3

\* select_fallback takes the first of the operator's order that exists.
LEMMA FallbackFirst ==
  ASSUME LoopInv, SelectFallback # 0
  PROVE  \E i \in DOMAIN policy.fallback :
           /\ SelectFallback \in DOMAIN entries
           /\ entries[SelectFallback].id = policy.fallback[i]
           /\ \A j \in 1 .. i - 1, k \in DOMAIN entries : entries[k].id # policy.fallback[j]
<1> DEFINE found(i) == {k \in DOMAIN entries : entries[k].id = policy.fallback[i]}
           S == {j \in DOMAIN policy.fallback : found(j) # {}}
<1>1. SelectFallback = IF First(S) = 0 THEN 0 ELSE Min(found(First(S)))
  BY Zenon DEF SelectFallback
<1>2. S \subseteq Nat \ {0} /\ \A i : found(i) \subseteq Nat
  BY Places
<1> HIDE DEF S
<1>3. First(S) # 0 /\ SelectFallback = Min(found(First(S)))
  BY <1>1
<1>4. First(S) \in S /\ \A y \in S : First(S) <= y
  BY <1>2, <1>3, FirstPlace, Zenon
<1> DEFINE i == First(S)
<1>5. i \in DOMAIN policy.fallback /\ found(i) # {}
  BY <1>4, Zenon DEF S
<1>6. SelectFallback \in found(i)
  <2> HIDE DEF found
  <2> QED
    BY <1>2, <1>3, <1>5, LeastPlace
<1>7. ASSUME NEW j \in 1 .. i - 1, NEW k \in DOMAIN entries PROVE entries[k].id # policy.fallback[j]
  <2>1. i \in 1 .. Len(policy.fallback) /\ Len(policy.fallback) \in Nat
    BY <1>5, Places
  <2>2. j \in DOMAIN policy.fallback /\ ~(i <= j)
    BY <2>1, Places
  <2>3. j \notin S
    BY <1>4, <2>2
  <2>4. found(j) = {}
    BY <2>2, <2>3 DEF S
  <2> QED
    BY <2>4
<1> QED
  BY <1>5, <1>6, <1>7

\* select_crash_recovery_entry takes no tool, and a sound entry if there is one.
LEMMA RecoveryChoice ==
  ASSUME LoopInv, SelectCrashRecovery # 0
  PROVE  /\ SelectCrashRecovery \in Bootable
         /\ entries[SelectCrashRecovery].error => \A k \in Bootable : entries[k].error
<1> DEFINE clean == {k \in Bootable : ~entries[k].error}
<1>1. SelectCrashRecovery = IF clean # {} THEN Min(clean) ELSE First(Bootable)
  BY Zenon DEF SelectCrashRecovery
<1>2. clean \subseteq Nat /\ Bootable \subseteq Nat \ {0}
  BY Places DEF Bootable
<1>3. CASE clean # {}
  <2>1. Min(clean) \in clean
    <3> HIDE DEF clean
    <3> QED
      BY <1>2, <1>3, LeastPlace, Zenon
  <2> QED
    BY <1>1, <1>3, <2>1
<1>4. CASE clean = {}
  <2>1. SelectCrashRecovery = First(Bootable)
    BY <1>1, <1>4
  <2>2. First(Bootable) \in Bootable
    BY <1>2, <2>1, FirstPlace, Zenon
  <2> QED
    BY <1>4, <2>1, <2>2
<1> QED
  BY <1>3, <1>4

\* While there is a system to boot, the menu of a crash loop has the recovery entry
\* for its default.
LEMMA RecoveryExists ==
  ASSUME LoopInv, inCrashLoop, Bootable # {}
  PROVE  /\ SelectCrashRecovery # 0
         /\ MenuPattern = {} /\ MenuDefault = entries[SelectCrashRecovery].id
<1> DEFINE clean == {k \in Bootable : ~entries[k].error}
<1>1. SelectCrashRecovery = IF clean # {} THEN Min(clean) ELSE First(Bootable)
  BY Zenon DEF SelectCrashRecovery
<1>2. clean \subseteq Nat \ {0} /\ Bootable \subseteq Nat \ {0} /\ clean \subseteq Nat
  BY Places DEF Bootable
<1>3. First(Bootable) # 0
  BY <1>2, FirstPlace, Zenon
<1>4. clean # {} => Min(clean) \in clean
  <2> HIDE DEF clean
  <2> QED
    BY <1>2, LeastPlace, Zenon
<1> HIDE DEF clean
<1>5. SelectCrashRecovery # 0
  BY <1>1, <1>2, <1>3, <1>4
<1> QED
  BY <1>5, Zenon DEF Recovering, MenuPattern, MenuDefault

\* Without a pattern the default is the first entry of its id, where there is one.
LEMMA DefaultById ==
  ASSUME LoopInv, NEW E, E \subseteq DOMAIN entries, NEW r \in E
  PROVE  LET k == SelectDefault({}, entries[r].id, E)
         IN  k # 0 /\ k \in E /\ entries[k].id = entries[r].id
<1> DEFINE S == {j \in E : entries[j].id = entries[r].id}
<1>1. SelectDefault({}, entries[r].id, E) = First(S)
  <2>1. {j \in E : entries[j].id \in {}} = {}
    OBVIOUS
  <2> QED
    BY <2>1, Zenon DEF SelectDefault
<1>2. S \subseteq Nat \ {0}
  BY Places
<1>3. r \in S
  OBVIOUS
<1>4. First(S) # 0 /\ First(S) \in S
  <2> HIDE DEF S
  <2> QED
    BY <1>2, <1>3, FirstPlace, Zenon
<1> QED
  BY <1>1, <1>4

\* The countdown of a crash loop, whichever menu it runs in, ends with the recovery
\* entry's id.
LEMMA CountdownChoice ==
  ASSUME LoopInv, inCrashLoop, Bootable # {}, NEW k,
         \/ k = GuiDefault(MenuPattern, MenuDefault)
         \/ k = TextDefault(MenuPattern, MenuDefault)
  PROVE  entries[k].id = entries[SelectCrashRecovery].id
<1> DEFINE r == SelectCrashRecovery
<1>1. r \in Bootable /\ MenuPattern = {} /\ MenuDefault = entries[r].id
  BY RecoveryExists, RecoveryChoice
<1>2. Bootable \subseteq DOMAIN entries
  BY DEF Bootable
<1> HIDE DEF r
<1>3. CASE k = GuiDefault(MenuPattern, MenuDefault)
  <2>1. LET x == SelectDefault({}, entries[r].id, Bootable) IN x # 0 /\ entries[x].id = entries[r].id
    BY <1>1, <1>2, DefaultById
  <2> QED
    BY <1>1, <1>3, <2>1 DEF GuiDefault, r
<1>4. CASE k = TextDefault(MenuPattern, MenuDefault)
  <2>1. LET x == SelectDefault({}, entries[r].id, DOMAIN entries)
        IN  x # 0 /\ entries[x].id = entries[r].id
    BY <1>1, <1>2, DefaultById
  <2> QED
    BY <1>1, <1>4, <2>1 DEF TextDefault, r
<1> QED
  BY <1>3, <1>4

\* The choices depend on the entries and the policy alone.
LEMMA SameChoices ==
  ASSUME UNCHANGED <<entries, policy>>
  PROVE  /\ SelectFallback' = SelectFallback /\ SelectCrashRecovery' = SelectCrashRecovery
         /\ Bootable' = Bootable
<1>1. entries' = entries /\ policy' = policy
  OBVIOUS
<1> QED
  BY <1>1, Zenon DEF SelectFallback, SelectCrashRecovery, Bootable

\* Every step of the loop keeps the reason of its choice.
LEMMA LoopStep == LoopInv /\ [Next]_vars => LoopInv'
<1> SUFFICES ASSUME LoopInv, [Next]_vars PROVE LoopInv'
  OBVIOUS
<1>1. UNCHANGED <<entries, policy>>
  BY Zenon DEF Next, vars, BootFallback, PickEntry, PickSystemAction, TimeUp, MenuFails,
     ReportFails,
         TakeOver, ToolReturns, BootReturns, Choose
<1>2. entries' \in EntryLists /\ policy' \in Policies
  BY <1>1 DEF LoopInv
<1>3. SelectFallback' = SelectFallback /\ SelectCrashRecovery' = SelectCrashRecovery
  BY <1>1, SameChoices
<1>0. entries' = entries /\ Bootable' = Bootable
  BY <1>1, SameChoices
<1>4. CASE BootFallback
  <2>1. how' = "fallback" /\ sel' = SelectFallback /\ SelectFallback # 0
    BY <1>4, Zenon DEF BootFallback, Choose
  <2> QED
    BY <1>2, <1>3, <2>1 DEF LoopInv, CountdownSound
<1>5. CASE MenuFails
  <2>1. \/ pc' = "setup"
        \/ how' = "recovery" /\ sel' = SelectCrashRecovery /\ SelectCrashRecovery # 0
    BY <1>5, Zenon DEF MenuFails, Choose
  <2> QED
    BY <1>2, <1>3, <2>1 DEF LoopInv, CountdownSound
<1>6. CASE PickEntry
  <2>1. how' = "user"
    BY <1>6 DEF PickEntry, Choose
  <2> QED
    BY <1>2, <2>1 DEF LoopInv, CountdownSound
<1>9. CASE TimeUp
  <2>1. /\ how' = "timeout" /\ inCrashLoop' = inCrashLoop /\ Bootable # {}
        /\ \/ sel' = GuiDefault(MenuPattern, MenuDefault)
           \/ sel' = TextDefault(MenuPattern, MenuDefault)
    BY <1>9 DEF TimeUp, Choose, MenuTimeout
  <2>2. CountdownSound'
    <3> SUFFICES ASSUME inCrashLoop
                 PROVE  \E k \in Bootable :
                          /\ entries[k].id = entries[sel'].id
                          /\ entries[k].error => \A j \in Bootable : entries[j].error
      BY <1>0, <2>1, Zenon DEF CountdownSound
    <3>1. entries[sel'].id = entries[SelectCrashRecovery].id
      BY <2>1, CountdownChoice
    <3>2. /\ SelectCrashRecovery \in Bootable
          /\ entries[SelectCrashRecovery].error => \A k \in Bootable : entries[k].error
      BY <2>1, RecoveryExists, RecoveryChoice
    <3> QED
      BY <3>1, <3>2, Zenon
  <2> QED
    BY <1>2, <2>1, <2>2 DEF LoopInv
<1>7. CASE PickSystemAction \/ ReportFails \/ TakeOver \/ ToolReturns \/ BootReturns
  <2>1. pc' # "boot"
    BY <1>7, Zenon DEF PickSystemAction, ReportFails, TakeOver, ToolReturns, BootReturns
  <2> QED
    BY <1>2, <2>1 DEF LoopInv, CountdownSound
<1>8. CASE UNCHANGED vars
  <2>1. pc' = pc /\ how' = how /\ sel' = sel /\ inCrashLoop' = inCrashLoop
    BY <1>8 DEF vars
  <2> QED
    BY <1>0, <1>2, <1>3, <2>1, Zenon DEF LoopInv, CountdownSound
<1> QED
  BY <1>4, <1>5, <1>6, <1>7, <1>8, <1>9 DEF Next

\* In a crash loop the first existing entry of the operator's order is booted; when
\* there is none, the countdown of either menu ends with an entry of the recovery
\* entry's id, and when the menu cannot run the recovery entry is booted: no tool,
\* and none known to be broken while a sound one exists (main.rs 1187-1216,
\* select_fallback and select_crash_recovery_entry; policy.rs select_default_entry).
THEOREM CrashLoopChoiceHolds == Spec => []CrashLoopChoice
<1>1. Init => LoopInv
  BY DEF Init, LoopInv, CountdownSound
<1>2. LoopInv => CrashLoopChoice
  <2> SUFFICES ASSUME LoopInv PROVE CrashLoopChoice
    OBVIOUS
  <2>1. FallbackInOrder
    BY FallbackFirst, Zenon DEF LoopInv, FallbackInOrder
  <2>2. RecoverySound
    BY RecoveryChoice DEF LoopInv, RecoverySound, Bootable
  <2> QED
    BY <2>1, <2>2 DEF CrashLoopChoice, LoopInv
<1> QED
  BY <1>1, <1>2, LoopStep, PTL DEF Spec
-----------------------------------------------------------------------------
(* The menu *)

PointerReport == [to : Points, moved : BOOLEAN, pressed : BOOLEAN]

MenuTyped ==
  /\ kind \in {"gui", "text"} /\ boots \in Nat /\ tools \in Nat
  /\ height \in Nat /\ timeout \in Nat
  /\ at \in {"new", "top", "poll", "help", "booted", "system"}
  /\ selCol \in {"left", "right"}
  /\ elapsed \in Nat /\ interacted \in BOOLEAN /\ dirty \in BOOLEAN

InputTyped ==
  /\ pointer \in Int \X Int
  /\ DOMAIN pending = DOMAIN Devices
  /\ \A d \in DOMAIN Devices : Devices[d] # "key" => pending[d] \in PointerReport \cup {NoReport}

\* What is known of the screen: while the graphical menu waits it is fresh, and
\* at the top of the loop it is unless something asks for a repaint.
GuiScreen ==
  /\ at = "help" => dirty
  /\ at \in {"new", "top"} /\ ~dirty /\ lastSecond = CountdownSecond => shown = Picture
  /\ at = "poll" => ~dirty /\ lastSecond = CountdownSecond /\ shown = Picture

TextScreen == at # "help" /\ (at \in {"new", "top", "poll"} => shown.sel[2] = selIdx)

MenuInv ==
  /\ MenuTyped /\ InputTyped /\ SelectionInRange
  /\ kind = "gui" => GuiScreen
  /\ kind = "text" => TextScreen
  /\ at \notin {"booted", "system"} => by[1] = "none"
  /\ ChosenAsShown

\* At least one system fits on the screen.
LEMMA VisibleTyped ==
  ASSUME MenuTyped
  PROVE  MaxVisible \in Nat \ {0}
<1> DEFINE c == Larger(0, Larger(0, height - FOOTER_H) - HEADER_H)
<1>1. c \in Nat
  BY DEF MenuTyped, Larger, FOOTER_H, HEADER_H
<1>2. MaxVisible = Larger(1, c \div 66)
  BY DEF MaxVisible, BOOT_TILE_H, TILE_GAP
<1> HIDE DEF c
<1>3. c \div 66 \in Nat
  BY <1>1
<1> QED
  BY <1>2, <1>3 DEF Larger

\* The layout is that of the menu and the screen, and the countdown that of the clock.
LEMMA SameLayout ==
  ASSUME UNCHANGED facts
  PROVE  /\ MaxVisible' = MaxVisible /\ RightCount' = RightCount
         /\ UNCHANGED <<interacted, elapsed>> => CountdownSecond' = CountdownSecond
<1>1. kind' = kind /\ boots' = boots /\ tools' = tools /\ height' = height /\ timeout' = timeout
  BY DEF facts
<1> QED
  BY <1>1 DEF MaxVisible, RightCount, CountdownSecond, Counting, ElapsedMs, Frame

\* The picture is made of what the menu shows and of the countdown.
LEMMA SamePicture ==
  ASSUME UNCHANGED viewVars, CountdownSecond' = CountdownSecond
  PROVE  Picture' = Picture
  BY DEF viewVars, Picture

\* A step of a menu that goes on.
LEMMA GoesOn ==
  ASSUME MenuInv, at \notin {"booted", "system"}, at' \notin {"booted", "system"},
         UNCHANGED endVars
  PROVE  by'[1] = "none" /\ ChosenAsShown'
  BY Zenon DEF MenuInv, endVars, ChosenAsShown

\* The selection and the view stay as they are.
LEMMA SameSelection ==
  ASSUME MenuInv, UNCHANGED <<facts, selCol, selIdx, scrollLeft>>
  PROVE  SelectionInRange'
<1>1. kind' = kind /\ boots' = boots /\ tools' = tools
  BY DEF facts
<1> QED
  BY <1>1, SameLayout, Zenon DEF MenuInv, SelectionInRange, RightCount

\* A device is asked and the menu hears nothing of it.
LEMMA Unheard ==
  ASSUME MenuInv, at \notin {"booted", "system"},
         UNCHANGED <<facts, at, viewVars, clockVars, endVars>>, InputTyped'
  PROVE  MenuInv'
<1>1. MenuTyped'
  BY Zenon DEF MenuInv, MenuTyped, facts, viewVars, clockVars
<1>2. SelectionInRange'
  BY SameSelection DEF viewVars
<1>3. by'[1] = "none" /\ ChosenAsShown'
  BY GoesOn
<1>4. CountdownSecond' = CountdownSecond /\ Picture' = Picture
  BY SameLayout, SamePicture DEF clockVars
<1>5. kind' = kind /\ at' = at /\ selIdx' = selIdx
  BY DEF facts, viewVars
<1>6. dirty' = dirty /\ lastSecond' = lastSecond /\ shown' = shown
  BY DEF clockVars
<1>7. kind' = "gui" => GuiScreen'
  BY <1>4, <1>5, <1>6, Zenon DEF MenuInv, GuiScreen
<1>8. kind' = "text" => TextScreen'
  BY <1>5, <1>6, Zenon DEF MenuInv, TextScreen
<1> QED
  BY <1>1, <1>2, <1>3, <1>7, <1>8 DEF MenuInv

\* The menu is over.
LEMMA StaysOver ==
  ASSUME MenuInv, UNCHANGED menuVars
  PROVE  MenuInv'
<1>0. /\ kind' = kind /\ boots' = boots /\ tools' = tools /\ height' = height
      /\ timeout' = timeout /\ at' = at /\ shown' = shown /\ outcome' = outcome /\ by' = by
      /\ selCol' = selCol /\ selIdx' = selIdx /\ scrollLeft' = scrollLeft
      /\ interacted' = interacted /\ elapsed' = elapsed /\ dirty' = dirty
      /\ lastSecond' = lastSecond /\ pointer' = pointer /\ pending' = pending
      /\ UNCHANGED facts /\ UNCHANGED viewVars
  BY Zenon DEF menuVars, facts, viewVars, clockVars, endVars, inputVars
<1>1. MenuTyped' /\ InputTyped'
  BY <1>0, Zenon DEF MenuInv, MenuTyped, InputTyped
<1>2. SelectionInRange'
  BY <1>0, SameSelection
<1>4. CountdownSecond' = CountdownSecond /\ Picture' = Picture
  BY <1>0, SameLayout, SamePicture, Zenon
<1>7. kind' = "gui" => GuiScreen'
  BY <1>0, <1>4, Zenon DEF MenuInv, GuiScreen
<1>8. kind' = "text" => TextScreen'
  BY <1>0, Zenon DEF MenuInv, TextScreen
<1>9. TilesAt(shown, by[2])' = TilesAt(shown, by[2])
  <2>1. MaxVisible' = MaxVisible
    BY <1>0, SameLayout
  <2>2. RightTiles' = RightTiles
    BY <1>0, Zenon DEF RightTiles, RightTop, RightCount
  <2>3. LeftTiles(shown.scroll)' = LeftTiles(shown.scroll)
    BY <1>0, <2>1, Zenon DEF LeftTiles
  <2> QED
    BY <1>0, <2>2, <2>3, Zenon DEF TilesAt
<1>10. ChosenAsShown'
  BY <1>0, <1>9, Zenon DEF MenuInv, ChosenAsShown, TileOf
<1> QED
  BY <1>0, <1>1, <1>2, <1>7, <1>8, <1>10, Zenon DEF MenuInv

\* MenuInv is kept by InputManager::new.
LEMMA InputNewStep == ASSUME MenuInv, InputNew PROVE MenuInv'
<1>0. /\ at = "new" /\ at' = "top" /\ pending' = pending /\ pointer' = pointer
      /\ UNCHANGED facts /\ UNCHANGED viewVars /\ UNCHANGED clockVars /\ UNCHANGED endVars
  BY DEF InputNew
<1>1. MenuTyped' /\ InputTyped'
  BY <1>0, Zenon DEF MenuInv, MenuTyped, InputTyped, facts, viewVars, clockVars
<1>2. SelectionInRange'
  BY <1>0, SameSelection DEF viewVars
<1>3. by'[1] = "none" /\ ChosenAsShown'
  BY <1>0, GoesOn
<1>4. CountdownSecond' = CountdownSecond /\ Picture' = Picture
  BY <1>0, SameLayout, SamePicture DEF clockVars
<1>5. /\ kind' = kind /\ selIdx' = selIdx
      /\ dirty' = dirty /\ lastSecond' = lastSecond /\ shown' = shown
  BY <1>0 DEF facts, viewVars, clockVars
<1>6. kind' = "gui" => GuiScreen'
  BY <1>0, <1>4, <1>5 DEF MenuInv, GuiScreen
<1>7. kind' = "text" => TextScreen'
  BY <1>0, <1>5 DEF MenuInv, TextScreen
<1> QED
  BY <1>1, <1>2, <1>3, <1>6, <1>7, Zenon DEF MenuInv

\* The menu ends when the time is up.
LEMMA EndsByTime ==
  ASSUME NEW tile, End(tile, "timeout", cursor)
  PROVE  at' \in {"booted", "system"} /\ ChosenAsShown'
<1>1. at' \in {"booted", "system"} /\ by'[1] = "timeout"
  BY DEF End
<1>2. ChosenAsShown'
  BY <1>1 DEF ChosenAsShown
<1> QED
  BY <1>1, <1>2

\* MenuInv is kept by the head of the graphical loop.
LEMMA GuiTopStep == ASSUME MenuInv, GuiTop PROVE MenuInv'
<1>0. /\ at = "top" /\ kind = "gui" /\ dirty' = FALSE
      /\ UNCHANGED facts /\ UNCHANGED inputVars /\ UNCHANGED viewVars
      /\ interacted' = interacted /\ elapsed' = elapsed
  BY DEF GuiTop
<1>1. CountdownSecond' = CountdownSecond /\ Picture' = Picture
  BY <1>0, SameLayout, SamePicture
<1>2. kind' = "gui" /\ SelectionInRange' /\ InputTyped'
  BY <1>0, SameSelection DEF facts, viewVars, inputVars, MenuInv, InputTyped
<1>3. shown' = Picture /\ lastSecond' = CountdownSecond
  <2>1. kind = "gui" /\ at \in {"new", "top"} /\ dirty \in BOOLEAN
    BY <1>0 DEF MenuInv, MenuTyped
  <2>2. ~dirty /\ lastSecond = CountdownSecond => shown = Picture
    BY <2>1 DEF MenuInv, GuiScreen
  <2>3. /\ shown' = IF dirty \/ CountdownSecond # lastSecond THEN Picture ELSE shown
        /\ lastSecond' = IF dirty \/ CountdownSecond # lastSecond THEN CountdownSecond
                                                                  ELSE lastSecond
    BY DEF GuiTop
  <2> QED
    BY <2>2, <2>3
<1>4. at' \in {"poll", "booted", "system"}
  BY DEF GuiTop, End, Stay
<1>5. MenuTyped'
  BY <1>0, <1>4, Zenon DEF MenuInv, MenuTyped, facts, viewVars
<1>6. GuiScreen'
  BY <1>0, <1>1, <1>3, <1>4 DEF GuiScreen
<1>7. CASE TimeIsUp
  <2>1. End(TileOf(GuiTimeoutEntry), "timeout", cursor)
    BY <1>7 DEF GuiTop
  <2>2. at' \in {"booted", "system"} /\ ChosenAsShown'
    BY <2>1, EndsByTime
  <2> QED
    BY <1>2, <1>5, <1>6, <2>2 DEF MenuInv
<1>8. CASE ~TimeIsUp
  <2>1. Stay("poll")
    BY <1>8 DEF GuiTop
  <2>2. by'[1] = "none" /\ ChosenAsShown'
    BY <1>0, <2>1, GoesOn DEF Stay
  <2> QED
    BY <1>2, <1>5, <1>6, <2>2 DEF MenuInv
<1> QED
  BY <1>7, <1>8

\* MenuInv is kept by the head of the text loop.
LEMMA TextTopStep == ASSUME MenuInv, TextTop PROVE MenuInv'
<1>0. /\ at = "top" /\ kind = "text" /\ dirty' = dirty
      /\ UNCHANGED facts /\ UNCHANGED inputVars /\ UNCHANGED viewVars
      /\ interacted' = interacted /\ elapsed' = elapsed
  BY DEF TextTop
<1>2. kind' = "text" /\ SelectionInRange' /\ InputTyped' /\ selIdx' = selIdx
  BY <1>0, SameSelection DEF facts, viewVars, inputVars, MenuInv, InputTyped
<1>3. shown.sel[2] = selIdx
  BY <1>0 DEF MenuInv, TextScreen
<1>4. at' \in {"poll", "booted", "system"}
  BY DEF TextTop, End, Stay
<1>5. MenuTyped'
  BY <1>0, <1>4 DEF MenuInv, MenuTyped, facts, viewVars
<1>7. CASE TimeIsUp
  <2>1. End(TileOf(TextTimeoutEntry), "timeout", cursor)
    BY <1>7 DEF TextTop
  <2>2. at' \in {"booted", "system"} /\ ChosenAsShown'
    BY <2>1, EndsByTime
  <2>3. TextScreen'
    BY <2>2 DEF TextScreen
  <2> QED
    BY <1>2, <1>5, <2>2, <2>3 DEF MenuInv
<1>8. CASE ~TimeIsUp
  <2>1. Stay("poll") /\ (shown' = Picture \/ shown' = shown)
    BY <1>8 DEF TextTop
  <2>2. by'[1] = "none" /\ ChosenAsShown'
    BY <1>0, <2>1, GoesOn DEF Stay
  <2>3. shown'.sel[2] = selIdx
    BY <1>3, <2>1 DEF Picture
  <2>4. TextScreen'
    BY <1>2, <2>1, <2>3 DEF TextScreen, Stay
  <2> QED
    BY <1>2, <1>5, <2>1, <2>2, <2>4 DEF MenuInv, Stay
<1> QED
  BY <1>7, <1>8

\* MenuInv is kept when a device has nothing to say.
LEMMA SkipStep == ASSUME MenuInv, Skip PROVE MenuInv'
<1>1. InputTyped' /\ at \notin {"booted", "system"}
  BY DEF MenuInv, InputTyped, Skip, Polling
<1> QED
  BY <1>1, Unheard DEF Skip

\* A frame passes: the countdown may have reached another second.
LEMMA QuietStep == ASSUME MenuInv, Quiet PROVE MenuInv'
<1>0. /\ at \in {"poll", "help"} /\ at' = IF at = "help" THEN "help" ELSE "top"
      /\ UNCHANGED facts /\ UNCHANGED viewVars /\ UNCHANGED endVars
      /\ pending' = pending /\ pointer' = pointer
      /\ interacted' = interacted /\ dirty' = dirty /\ lastSecond' = lastSecond /\ shown' = shown
      /\ elapsed' = IF Counting /\ at = "poll" THEN elapsed + 1 ELSE elapsed
  BY DEF Quiet, Polling
<1>1. MenuTyped' /\ InputTyped'
  <2>1. elapsed' \in Nat
    BY <1>0 DEF MenuInv, MenuTyped
  <2> QED
    BY <1>0, <2>1 DEF MenuInv, MenuTyped, InputTyped, facts, viewVars
<1>2. SelectionInRange'
  BY <1>0, SameSelection DEF viewVars
<1>3. by'[1] = "none" /\ ChosenAsShown'
  BY <1>0, GoesOn
<1>4. kind' = kind /\ selIdx' = selIdx
  BY <1>0 DEF facts, viewVars
<1>5. kind = "gui" => GuiScreen'
  <2>1. CASE at = "help"
    BY <1>0, <2>1 DEF MenuInv, GuiScreen
  <2>2. CASE at = "poll"
    <3>1. CountdownSecond' = CountdownSecond => Picture' = Picture
      BY <1>0, SamePicture
    <3> QED
      BY <1>0, <2>2, <3>1 DEF MenuInv, GuiScreen
  <2> QED
    BY <1>0, <2>1, <2>2
<1>6. kind = "text" => TextScreen'
  BY <1>0, <1>4 DEF MenuInv, TextScreen
<1> QED
  BY <1>1, <1>2, <1>3, <1>4, <1>5, <1>6 DEF MenuInv
-----------------------------------------------------------------------------
(* Input *)

\* A report is read from a device.
LEMMA ReadsTyped ==
  ASSUME MenuInv, NEW d \in DOMAIN Devices, Reads(d), pointer' \in Int \X Int
  PROVE  InputTyped' /\ at \in {"poll", "help"}
<1>1. pending' = [pending EXCEPT ![d] = NoReport] /\ DOMAIN pending = DOMAIN Devices
  BY DEF Reads, MenuInv, InputTyped
<1>2. \A e \in DOMAIN Devices : pending'[e] = IF e = d THEN NoReport ELSE pending[e]
  BY <1>1
<1>3. DOMAIN pending' = DOMAIN Devices
  BY <1>1
<1> QED
  BY <1>2, <1>3 DEF MenuInv, InputTyped, Reads, Polling

\* The pointer is on the screen's plane.
LEMMA PointedTyped ==
  ASSUME MenuInv, NEW d \in DOMAIN Devices, ReadsPointer(d)
  PROVE  /\ Pointed(d) \in Int \X Int
         /\ InputTyped' /\ at \in {"poll", "help"}
<1>1. Reads(d) /\ pointer' = Pointed(d) /\ Devices[d] # "key" /\ pending[d] # NoReport
  BY DEF ReadsPointer, Reads
<1>2. pending[d] \in PointerReport
  BY <1>1 DEF MenuInv, InputTyped
<1>3. pending[d].to \in Int \X Int
  BY <1>2, MenuAssumption DEF PointerReport
<1>4. Pointed(d) \in Int \X Int
  BY <1>3 DEF Pointed, MenuInv, InputTyped
<1> QED
  BY <1>1, <1>4, ReadsTyped

\* MenuInv is kept when the pointer has not moved.
LEMMA PointerRestsStep ==
  ASSUME MenuInv, NEW d \in DOMAIN Devices, PointerRests(d) PROVE MenuInv'
<1>1. ReadsPointer(d)
  BY DEF PointerRests
<1>2. InputTyped' /\ at \in {"poll", "help"}
  BY <1>1, PointedTyped
<1>3. UNCHANGED <<facts, at, viewVars, clockVars, endVars>>
  BY DEF PointerRests, ReadsPointer
<1> QED
  BY <1>2, <1>3, Unheard

\* MenuInv is kept by pointer events nobody listens to.
LEMMA PointerIgnoredStep ==
  ASSUME MenuInv, NEW d \in DOMAIN Devices, PointerIgnored(d) PROVE MenuInv'
<1>1. ReadsPointer(d)
  BY DEF PointerIgnored
<1>2. InputTyped' /\ at \in {"poll", "help"}
  BY <1>1, PointedTyped
<1>3. /\ UNCHANGED facts /\ UNCHANGED viewVars /\ UNCHANGED clockVars /\ UNCHANGED endVars
      /\ at' = IF at = "help" THEN "help" ELSE "top"
      /\ kind = "text" \/ at = "help"
  BY DEF PointerIgnored, ReadsPointer
<1>4. CASE at = "help"
  <2>1. at' = at
    BY <1>3, <1>4
  <2> QED
    BY <1>2, <1>3, <2>1, Unheard
<1>5. CASE at = "poll"
  <2>1. at' = "top" /\ kind = "text" /\ kind' = "text"
    BY <1>3, <1>5 DEF facts
  <2>2. MenuTyped'
    BY <1>3, <2>1 DEF MenuInv, MenuTyped, facts, viewVars, clockVars
  <2>3. SelectionInRange'
    BY <1>3, SameSelection DEF viewVars
  <2>4. by'[1] = "none" /\ ChosenAsShown'
    BY <1>3, <1>5, <2>1, GoesOn
  <2>5. TextScreen'
    BY <1>3, <1>5, <2>1 DEF MenuInv, TextScreen, viewVars, clockVars
  <2> QED
    BY <1>2, <2>1, <2>2, <2>3, <2>4, <2>5 DEF MenuInv
<1> QED
  BY <1>2, <1>4, <1>5

\* hit_test finds a tile of the menu.
LEMMA HitInRange ==
  ASSUME MenuInv, kind = "gui", NEW p, HitTest(p) # NoTile
  PROVE  /\ HitTest(p)[1] \in {"left", "right"} /\ HitTest(p)[2] \in Nat
         /\ HitTest(p) = <<HitTest(p)[1], HitTest(p)[2]>>
         /\ HitTest(p)[1] = "left" => HitTest(p)[2] < boots
         /\ HitTest(p)[1] = "right" => HitTest(p)[2] < RightCount
<1> DEFINE rows == {v \in 0 .. Smaller(MaxVisible, boots) - 1 :
                      Within(p[2], HEADER_H + v * (BOOT_TILE_H + TILE_GAP), BOOT_TILE_H)}
           right == {i \in 0 .. RightCount - 1 : Within(p[2], RightTop(i), TOOL_TILE_H)}
           v == CHOOSE v \in rows : TRUE
           i == CHOOSE i \in right : TRUE
<1>1. HitTest(p) = IF InLeft(p[1]) /\ rows # {} THEN <<"left", scrollLeft + v>>
                   ELSE IF InRight(p[1]) /\ right # {} THEN <<"right", i>> ELSE NoTile
  BY Zenon DEF HitTest
<1>2. rows # {} => v \in rows
  BY Zenon
<1>3. right # {} => i \in right
  BY Zenon
<1>4. v \in rows => v \in 0 .. Smaller(MaxVisible, boots) - 1
  BY Zenon
<1>5. i \in right => i \in 0 .. RightCount - 1
  BY Zenon
<1> HIDE DEF rows, right, v, i
<1>6. /\ boots \in Nat /\ scrollLeft \in Nat /\ RightCount \in Nat /\ MaxVisible \in Nat
      /\ Smaller(MaxVisible, boots) \in Nat /\ scrollLeft + Smaller(MaxVisible, boots) <= boots
  BY VisibleTyped DEF MenuInv, MenuTyped, SelectionInRange, RightCount, Smaller
<1>7. CASE InLeft(p[1]) /\ rows # {}
  <2>1. HitTest(p) = <<"left", scrollLeft + v>> /\ v \in 0 .. Smaller(MaxVisible, boots) - 1
    BY <1>1, <1>2, <1>4, <1>7
  <2> QED
    BY <1>6, <2>1
<1>8. CASE ~(InLeft(p[1]) /\ rows # {})
  <2>1. HitTest(p) = <<"right", i>> /\ i \in 0 .. RightCount - 1
    BY <1>1, <1>3, <1>5, <1>8
  <2> QED
    BY <1>6, <2>1
<1> QED
  BY <1>7, <1>8

\* The selection moves to a tile; the view stays.
LEMMA SelectsTile ==
  ASSUME MenuInv, kind = "gui", UNCHANGED <<facts, scrollLeft>>,
         selIdx' \in Nat, selCol' \in {"left", "right"},
         selCol' = "left" => selIdx' <= Larger(boots - 1, 0),
         selCol' = "right" => selIdx' < RightCount
  PROVE  SelectionInRange'
<1>1. kind' = kind /\ boots' = boots /\ tools' = tools
  BY DEF facts
<1> QED
  BY <1>1, SameLayout DEF MenuInv, SelectionInRange

\* The pointer's tile is selected, or the selection stays.
LEMMA HitSelected ==
  ASSUME MenuInv, kind = "gui", NEW p, UNCHANGED <<facts, scrollLeft>>,
         \/ HitTest(p) # NoTile /\ selCol' = HitTest(p)[1] /\ selIdx' = HitTest(p)[2]
         \/ UNCHANGED <<selCol, selIdx>>
  PROVE  SelectionInRange' /\ selCol' \in {"left", "right"}
<1>1. CASE UNCHANGED <<selCol, selIdx>>
  BY <1>1, SameSelection DEF MenuInv, MenuTyped
<1>2. CASE HitTest(p) # NoTile /\ selCol' = HitTest(p)[1] /\ selIdx' = HitTest(p)[2]
  <2>1. /\ selCol' \in {"left", "right"} /\ selIdx' \in Nat
        /\ selCol' = "left" => selIdx' < boots
        /\ selCol' = "right" => selIdx' < RightCount
    BY <1>2, HitInRange
  <2>2. selCol' = "left" => selIdx' <= Larger(boots - 1, 0)
    BY <2>1 DEF Larger, MenuInv, MenuTyped
  <2> QED
    BY <2>1, <2>2, SelectsTile
<1> QED
  BY <1>1, <1>2

\* MenuInv is kept when the pointer moves over the tiles.
LEMMA HoverStep ==
  ASSUME MenuInv, NEW d \in DOMAIN Devices, Hover(d) PROVE MenuInv'
<1> DEFINE hit == HitTest(Pointed(d))
           tile == IF hit = NoTile THEN <<selCol, selIdx>> ELSE hit
<1>0. /\ ReadsPointer(d) /\ kind = "gui" /\ at = "poll" /\ at' = "top" /\ UNCHANGED endVars
      /\ UNCHANGED facts /\ cursor' = Pointed(d)
      /\ scrollLeft' = scrollLeft /\ scrollRight' = scrollRight
      /\ interacted' = interacted /\ elapsed' = elapsed /\ lastSecond' = lastSecond
      /\ shown' = shown
  BY Zenon DEF Hover, ReadsPointer, Stay
<1>1. /\ dirty' = (dirty \/ cursor # Pointed(d) \/ tile # <<selCol, selIdx>>)
      /\ selCol' = tile[1] /\ selIdx' = tile[2]
  BY DEF Hover
<1>2. InputTyped'
  BY <1>0, PointedTyped
<1>3. \/ hit # NoTile /\ selCol' = hit[1] /\ selIdx' = hit[2]
      \/ UNCHANGED <<selCol, selIdx>>
  BY <1>1
<1>4. SelectionInRange' /\ selCol' \in {"left", "right"}
  BY <1>0, <1>3, HitSelected
<1>5. MenuTyped'
  BY <1>0, <1>1, <1>4 DEF MenuInv, MenuTyped, facts
<1>6. by'[1] = "none" /\ ChosenAsShown'
  BY <1>0, GoesOn
<1>7. CountdownSecond' = CountdownSecond
  BY <1>0, SameLayout
<1>8. ~dirty' => Picture' = Picture
  <2> SUFFICES ASSUME ~dirty' PROVE Picture' = Picture
    OBVIOUS
  <2>1. cursor' = cursor /\ tile = <<selCol, selIdx>>
    BY <1>0, <1>1, Zenon
  <2>2. selCol' = selCol /\ selIdx' = selIdx
    BY <1>1, <2>1
  <2> QED
    BY <1>0, <1>7, <2>1, <2>2 DEF Picture
<1>9. GuiScreen'
  BY <1>0, <1>7, <1>8 DEF MenuInv, GuiScreen
<1>10. kind' = "gui"
  BY <1>0 DEF facts
<1> QED
  BY <1>0, <1>2, <1>4, <1>5, <1>6, <1>9, <1>10 DEF MenuInv

\* The two columns do not overlap.
LEMMA ColumnsApart ==
  ASSUME NEW x \in Int
  PROVE  ~(InLeft(x) /\ InRight(x))
<1>1. LeftColW = 319
  BY DEF LeftColW, WIDTH, MARGIN, COL_GAP
<1> QED
  BY <1>1 DEF InLeft, InRight, RightColX, MARGIN, COL_GAP

\* Nor do two tiles of a column.
LEMMA RowsApart ==
  ASSUME NEW y \in Int, NEW v \in Int, NEW w \in Int,
         Within(y, HEADER_H + v * (BOOT_TILE_H + TILE_GAP), BOOT_TILE_H),
         Within(y, HEADER_H + w * (BOOT_TILE_H + TILE_GAP), BOOT_TILE_H)
  PROVE  v = w
  BY DEF Within, HEADER_H, BOOT_TILE_H, TILE_GAP

\* A point is within one row of the right column at most.
LEMMA RightRowsApart ==
  ASSUME NEW y \in Int, NEW i \in Int, NEW j \in Int, tools \in Nat,
         Within(y, RightTop(i), TOOL_TILE_H), Within(y, RightTop(j), TOOL_TILE_H)
  PROVE  i = j
  BY DEF Within, RightTop, HEADER_H, TOOL_TILE_H, TILE_GAP

\* The tiles of the left column that a picture has under a point, and the right
\* column's.
LeftUnder(scroll, p) ==
  {<<"left", t[1]>> : t \in
     {u \in LeftTiles(scroll) : InLeft(p[1]) /\ Within(p[2], u[2], BOOT_TILE_H)}}
RightUnder(p) ==
  {<<"right", t[1]>> : t \in
     {u \in RightTiles : InRight(p[1]) /\ Within(p[2], u[2], TOOL_TILE_H)}}

\* A tile of the left column is under a point when its row is.
LEMMA LeftUnderPoint ==
  ASSUME NEW p \in Int \X Int, NEW s, NEW x
  PROVE  x \in LeftUnder(s, p) <=>
           \E b \in s .. Smaller(s + MaxVisible, boots) - 1 :
             /\ InLeft(p[1])
             /\ Within(p[2], HEADER_H + (b - s) * (BOOT_TILE_H + TILE_GAP), BOOT_TILE_H)
             /\ x = <<"left", b>>
<1> DEFINE T(b) == <<b, HEADER_H + (b - s) * (BOOT_TILE_H + TILE_GAP)>>
           B == s .. Smaller(s + MaxVisible, boots) - 1
           W(y) == InLeft(p[1]) /\ Within(p[2], y, BOOT_TILE_H)
<1>1. LeftTiles(s) = {T(b) : b \in B}
  BY Zenon DEF LeftTiles
<1>2. \A b : T(b)[1] = b /\ T(b)[2] = HEADER_H + (b - s) * (BOOT_TILE_H + TILE_GAP)
  OBVIOUS
<1>3. LeftUnder(s, p) = {<<"left", t[1]>> : t \in {u \in LeftTiles(s) : W(u[2])}}
  BY Zenon DEF LeftUnder
<1> HIDE DEF T, B, W
<1>4. x \in LeftUnder(s, p) <=> \E b \in B : W(T(b)[2]) /\ x = <<"left", T(b)[1]>>
  BY <1>1, <1>3, Zenon
<1> QED
  BY <1>2, <1>4, Zenon DEF B, W

\* A tile of the right column is under a point when its row is.
LEMMA RightUnderPoint ==
  ASSUME NEW p \in Int \X Int, NEW x
  PROVE  x \in RightUnder(p) <=>
           \E i \in 0 .. RightCount - 1 :
             /\ InRight(p[1]) /\ Within(p[2], RightTop(i), TOOL_TILE_H)
             /\ x = <<"right", i>>
<1> DEFINE T(i) == <<i, RightTop(i)>>
           W(y) == InRight(p[1]) /\ Within(p[2], y, TOOL_TILE_H)
<1>1. RightTiles = {T(i) : i \in 0 .. RightCount - 1}
  BY Zenon DEF RightTiles
<1>2. \A i : T(i)[1] = i /\ T(i)[2] = RightTop(i)
  OBVIOUS
<1>3. RightUnder(p) = {<<"right", t[1]>> : t \in {u \in RightTiles : W(u[2])}}
  BY Zenon DEF RightUnder
<1> HIDE DEF T, W
<1>4. x \in RightUnder(p) <=>
        \E i \in 0 .. RightCount - 1 : W(T(i)[2]) /\ x = <<"right", T(i)[1]>>
  BY <1>1, <1>3, Zenon
<1> QED
  BY <1>2, <1>4, Zenon DEF W

\* What hit_test finds is the one tile that the drawing has there.
LEMMA HitIsDrawn ==
  ASSUME MenuInv, kind = "gui", NEW p \in Int \X Int, HitTest(p) # NoTile
  PROVE  LeftUnder(scrollLeft, p) \cup RightUnder(p) = {HitTest(p)}
<1> DEFINE rows == {v \in 0 .. Smaller(MaxVisible, boots) - 1 :
                      Within(p[2], HEADER_H + v * (BOOT_TILE_H + TILE_GAP), BOOT_TILE_H)}
           right == {i \in 0 .. RightCount - 1 : Within(p[2], RightTop(i), TOOL_TILE_H)}
           v == CHOOSE v \in rows : TRUE
           i == CHOOSE i \in right : TRUE
<1>1. HitTest(p) = IF InLeft(p[1]) /\ rows # {} THEN <<"left", scrollLeft + v>>
                   ELSE IF InRight(p[1]) /\ right # {} THEN <<"right", i>> ELSE NoTile
  BY Zenon DEF HitTest
<1>2. rows # {} => /\ v \in 0 .. Smaller(MaxVisible, boots) - 1
                   /\ Within(p[2], HEADER_H + v * (BOOT_TILE_H + TILE_GAP), BOOT_TILE_H)
  <2>1. rows # {} => v \in rows
    BY Zenon
  <2> HIDE DEF v
  <2> QED
    BY <2>1, Zenon
<1>3. right # {} => i \in 0 .. RightCount - 1 /\ Within(p[2], RightTop(i), TOOL_TILE_H)
  <2>1. right # {} => i \in right
    BY Zenon
  <2> HIDE DEF i
  <2> QED
    BY <2>1, Zenon
<1> HIDE DEF rows, right, v, i
<1>4. /\ boots \in Nat /\ tools \in Nat /\ scrollLeft \in Nat /\ RightCount \in Nat
      /\ MaxVisible \in Nat
      /\ Smaller(MaxVisible, boots) \in Nat /\ scrollLeft + Smaller(MaxVisible, boots) <= boots
  BY VisibleTyped DEF MenuInv, MenuTyped, SelectionInRange, RightCount, Smaller
<1>5. p[1] \in Int /\ p[2] \in Int
  OBVIOUS
<1> DEFINE s == scrollLeft
           B == s .. Smaller(s + MaxVisible, boots) - 1
<1>6. \A x : x \in LeftUnder(s, p) <=>
        \E b \in B : /\ InLeft(p[1])
                     /\ Within(p[2], HEADER_H + (b - s) * (BOOT_TILE_H + TILE_GAP), BOOT_TILE_H)
                     /\ x = <<"left", b>>
  BY LeftUnderPoint, Zenon
<1>7. \A x : x \in RightUnder(p) <=>
        \E j \in 0 .. RightCount - 1 :
          InRight(p[1]) /\ Within(p[2], RightTop(j), TOOL_TILE_H) /\ x = <<"right", j>>
  BY RightUnderPoint, Zenon
<1>8. CASE InLeft(p[1]) /\ rows # {}
  <2>1. HitTest(p) = <<"left", s + v>>
    BY <1>1, <1>8
  <2>2. /\ v \in 0 .. Smaller(MaxVisible, boots) - 1
        /\ Within(p[2], HEADER_H + v * (BOOT_TILE_H + TILE_GAP), BOOT_TILE_H)
    BY <1>2, <1>8
  <2>3. s + v \in B /\ (s + v) - s = v
    BY <1>4, <2>2 DEF Smaller
  <2>4. <<"left", s + v>> \in LeftUnder(s, p)
    BY <1>6, <1>8, <2>2, <2>3
  <2>5. ASSUME NEW x, x \in LeftUnder(s, p) PROVE x = <<"left", s + v>>
    <3>1. PICK b \in B :
            /\ Within(p[2], HEADER_H + (b - s) * (BOOT_TILE_H + TILE_GAP), BOOT_TILE_H)
            /\ x = <<"left", b>>
      BY <1>6, <2>5
    <3>2. b \in Int /\ b - s \in Int /\ v \in Int
      BY <1>4, <2>2
    <3>3. b - s = v
      BY <1>5, <2>2, <3>1, <3>2, RowsApart
    <3>4. b = s + v
      BY <1>4, <3>2, <3>3
    <3> QED
      BY <3>1, <3>4
  <2>6. RightUnder(p) = {}
    BY <1>5, <1>7, <1>8, ColumnsApart
  <2> HIDE DEF B, s
  <2> QED
    BY <2>1, <2>4, <2>5, <2>6, Zenon DEF s
<1>9. CASE ~(InLeft(p[1]) /\ rows # {})
  <2>1. InRight(p[1]) /\ right # {} /\ HitTest(p) = <<"right", i>>
    BY <1>1, <1>9
  <2>2. i \in 0 .. RightCount - 1 /\ Within(p[2], RightTop(i), TOOL_TILE_H)
    BY <1>3, <2>1
  <2>3. <<"right", i>> \in RightUnder(p)
    BY <1>7, <2>1, <2>2
  <2>4. ASSUME NEW x, x \in RightUnder(p) PROVE x = <<"right", i>>
    <3>1. PICK j \in 0 .. RightCount - 1 :
            Within(p[2], RightTop(j), TOOL_TILE_H) /\ x = <<"right", j>>
      BY <1>7, <2>4
    <3>2. j \in Int /\ i \in Int
      BY <1>4, <2>2
    <3>3. j = i
      BY <1>4, <1>5, <2>2, <3>1, <3>2, RightRowsApart
    <3> QED
      BY <3>1, <3>3
  <2>5. LeftUnder(s, p) = {}
    BY <1>5, <1>6, <2>1, ColumnsApart
  <2> HIDE DEF B, s
  <2> QED
    BY <2>1, <2>3, <2>4, <2>5, Zenon DEF s
<1> QED
  BY <1>8, <1>9

\* The tiles of the picture are a matter of the menu and the screen.
LEMMA SameTiles ==
  ASSUME UNCHANGED facts
  PROVE  TilesAt(shown, by[2])' = LeftUnder(shown'.scroll, by'[2]) \cup RightUnder(by'[2])
<1>1. boots' = boots /\ tools' = tools /\ MaxVisible' = MaxVisible
  BY SameLayout DEF facts
<1> QED
  BY <1>1, Zenon DEF TilesAt, LeftUnder, RightUnder, LeftTiles, RightTiles, RightTop, RightCount

\* MenuInv is kept by a click.
LEMMA ClickStep ==
  ASSUME MenuInv, NEW d \in DOMAIN Devices, Click(d) PROVE MenuInv'
<1> DEFINE p == Pointed(d)
           hit == HitTest(p)
<1>0. /\ ReadsPointer(d) /\ kind = "gui" /\ at = "poll"
      /\ interacted' = TRUE /\ dirty' = TRUE
      /\ UNCHANGED facts /\ scrollLeft' = scrollLeft /\ elapsed' = elapsed /\ shown' = shown
  BY Zenon DEF Click, ReadsPointer
<1>1. \/ Stay("top") /\ UNCHANGED <<selCol, selIdx>>
      \/ /\ hit # NoTile /\ selCol' = hit[1] /\ selIdx' = hit[2]
         /\ End(hit, "click", p) \/ Stay("top")
  BY Zenon DEF Click
<1>2. p \in Int \X Int /\ InputTyped'
  BY <1>0, PointedTyped
<1>3. SelectionInRange' /\ selCol' \in {"left", "right"}
  BY <1>0, <1>1, HitSelected
<1>4. at' \in {"top", "booted", "system"}
  BY <1>1, Zenon DEF End, Stay
<1>5. MenuTyped' /\ kind' = "gui"
  BY <1>0, <1>3, <1>4 DEF MenuInv, MenuTyped, facts
<1>6. GuiScreen'
  BY <1>0, <1>4 DEF GuiScreen
<1>7. CASE Stay("top")
  <2>1. by'[1] = "none" /\ ChosenAsShown'
    BY <1>0, <1>7, GoesOn DEF Stay
  <2> QED
    BY <1>2, <1>3, <1>5, <1>6, <2>1 DEF MenuInv
<1>8. CASE hit # NoTile /\ End(hit, "click", p)
  <2>1. at' \in {"booted", "system"} /\ by' = <<"click", p>> /\ outcome' = hit
    BY <1>8 DEF End
  <2>2. by'[1] = "click" /\ by'[2] = p
    BY <2>1
  <2>3. shown.scroll = scrollLeft
    BY <1>0 DEF MenuInv, GuiScreen, Picture
  <2>4. TilesAt(shown, by[2])' = LeftUnder(scrollLeft, p) \cup RightUnder(p)
    BY <1>0, <2>2, <2>3, SameTiles
  <2>5. TilesAt(shown, by[2])' = {outcome'}
    BY <1>0, <1>2, <1>8, <2>1, <2>4, HitIsDrawn
  <2>6. ChosenAsShown'
    BY <2>2, <2>5, Zenon DEF ChosenAsShown
  <2> QED
    BY <1>2, <1>3, <1>5, <1>6, <2>1, <2>6 DEF MenuInv
<1> QED
  BY <1>1, <1>7, <1>8
-----------------------------------------------------------------------------
(* Keys *)

\* A key is read.
LEMMA KeyTyped ==
  ASSUME MenuInv, NEW d \in DOMAIN Devices, NEW k, ReadsKey(d, k)
  PROVE  InputTyped' /\ at \in {"poll", "help"}
<1>1. Reads(d) /\ pointer' = pointer
  BY DEF ReadsKey
<1>2. pointer' \in Int \X Int
  BY <1>1 DEF MenuInv, InputTyped
<1> QED
  BY <1>1, <1>2, ReadsTyped

\* MenuInv is kept by a key that means nothing.
LEMMA KeyUnmappedStep ==
  ASSUME MenuInv, NEW d \in DOMAIN Devices, KeyUnmapped(d) PROVE MenuInv'
<1>1. PICK k : ReadsKey(d, k)
  BY DEF KeyUnmapped
<1>2. UNCHANGED <<facts, at, viewVars, clockVars, endVars>>
  BY <1>1 DEF KeyUnmapped, ReadsKey
<1> QED
  BY <1>1, <1>2, KeyTyped, Unheard

\* MenuInv is kept when the help page is left.
LEMMA LeaveHelpStep ==
  ASSUME MenuInv, NEW d \in DOMAIN Devices, LeaveHelp(d) PROVE MenuInv'
<1>0. PICK k : ReadsKey(d, k)
  BY DEF LeaveHelp
<1>1. /\ at = "help" /\ at' = "top" /\ UNCHANGED endVars
      /\ UNCHANGED facts /\ UNCHANGED viewVars /\ UNCHANGED clockVars
  BY <1>0, Zenon DEF LeaveHelp, ReadsKey, Stay
<1>2. InputTyped'
  BY <1>0, KeyTyped
<1>3. MenuTyped' /\ kind' = "gui" /\ dirty'
  BY <1>1, Zenon DEF MenuInv, MenuTyped, GuiScreen, TextScreen, facts, viewVars, clockVars
<1>4. SelectionInRange'
  BY <1>1, SameSelection DEF viewVars
<1>5. by'[1] = "none" /\ ChosenAsShown'
  BY <1>1, GoesOn
<1>6. GuiScreen'
  BY <1>1, <1>3 DEF GuiScreen
<1> QED
  BY <1>2, <1>3, <1>4, <1>5, <1>6 DEF MenuInv

\* The selection moves within its column, and the view follows it.
LEMMA Scrolled ==
  ASSUME MenuInv, kind = "gui", UNCHANGED facts, NEW i \in Nat, Select(i),
         selCol = "left" => i < boots, selCol = "right" => i < RightCount
  PROVE  SelectionInRange' /\ selCol' = selCol
<1>1. /\ kind' = kind /\ boots' = boots /\ tools' = tools /\ MaxVisible' = MaxVisible
      /\ RightCount' = RightCount
  BY SameLayout DEF facts
<1>2. /\ boots \in Nat /\ scrollLeft \in Nat /\ MaxVisible \in Nat \ {0}
      /\ scrollLeft + Smaller(MaxVisible, boots) <= boots /\ selCol \in {"left", "right"}
  BY VisibleTyped DEF MenuInv, MenuTyped, SelectionInRange
<1>3. selIdx' = i /\ selCol' = selCol
  BY DEF Select
<1>4. scrollLeft' = IF selCol = "left" THEN AdjustScroll(i, scrollLeft) ELSE scrollLeft
  BY DEF Select
<1>5. ASSUME selCol = "left"
      PROVE  /\ AdjustScroll(i, scrollLeft) \in Nat
             /\ AdjustScroll(i, scrollLeft) + Smaller(MaxVisible, boots) <= boots
  <2>1. i < boots
    BY <1>5
  <2>2. CASE i < scrollLeft
    <3>1. AdjustScroll(i, scrollLeft) = i
      BY <2>2, <1>2 DEF AdjustScroll
    <3> QED
      BY <1>2, <2>1, <2>2, <3>1 DEF Smaller
  <2>3. CASE ~(i < scrollLeft) /\ i >= scrollLeft + MaxVisible
    <3>1. AdjustScroll(i, scrollLeft) = i + 1 - MaxVisible
      BY <2>3, <1>2 DEF AdjustScroll
    <3> QED
      BY <1>2, <2>1, <2>3, <3>1 DEF Smaller
  <2>4. CASE ~(i < scrollLeft) /\ ~(i >= scrollLeft + MaxVisible)
    <3>1. AdjustScroll(i, scrollLeft) = scrollLeft
      BY <2>4, <1>2 DEF AdjustScroll
    <3> QED
      BY <1>2, <3>1
  <2> QED
    BY <2>2, <2>3, <2>4
<1>6. scrollLeft' \in Nat /\ scrollLeft' + Smaller(MaxVisible, boots) <= boots
  BY <1>2, <1>4, <1>5
<1>7. selCol = "left" => i <= Larger(boots - 1, 0)
  BY <1>2 DEF Larger
<1> QED
  BY <1>1, <1>2, <1>3, <1>6, <1>7 DEF SelectionInRange

\* The selection moves to the other column.
LEMMA Switched ==
  ASSUME MenuInv, kind = "gui", UNCHANGED facts, NEW col \in {"left", "right"}, NEW n,
         n = (IF col = "left" THEN boots ELSE RightCount), SwitchColumn(col, n)
  PROVE  SelectionInRange' /\ selCol' \in {"left", "right"}
<1>1. boots \in Nat /\ RightCount \in Nat \ {0} /\ selIdx \in Nat
  BY DEF MenuInv, MenuTyped, SelectionInRange, RightCount
<1>2. /\ selCol' = col /\ selIdx' = Smaller(selIdx, Larger(n - 1, 0))
      /\ scrollLeft' = scrollLeft
  BY DEF SwitchColumn
<1>3. /\ selIdx' \in Nat
      /\ selCol' = "left" => selIdx' <= Larger(boots - 1, 0)
      /\ selCol' = "right" => selIdx' < RightCount
  BY <1>1, <1>2 DEF Smaller, Larger
<1> QED
  BY <1>2, <1>3, SelectsTile

\* A key in the graphical menu moves the selection, ends the menu or opens the help.
LEMMA GuiKeyEffect ==
  ASSUME MenuInv, kind = "gui", UNCHANGED facts, NEW k, GuiKeyDoes(k)
  PROVE  /\ SelectionInRange' /\ selCol' \in {"left", "right"}
         /\ \/ Stay("top") \/ Stay("help")
            \/ End(<<selCol, selIdx>>, "enter", cursor)
            \/ \E t : End(t, "key", cursor)
<1> DEFINE unmoved == UNCHANGED <<selCol, selIdx, scrollLeft, scrollRight>>
<1>0. /\ boots \in Nat /\ RightCount \in Nat /\ selIdx \in Nat /\ selCol \in {"left", "right"}
      /\ selCol = "left" => selIdx <= Larger(boots - 1, 0)
      /\ selCol = "right" => selIdx < RightCount
      /\ Rows = IF selCol = "left" THEN boots ELSE RightCount
  BY DEF MenuInv, MenuTyped, SelectionInRange, RightCount, Rows
<1>1. ASSUME unmoved PROVE SelectionInRange' /\ selCol' \in {"left", "right"}
  BY <1>0, <1>1, SameSelection
<1>2. CASE k = "up" /\ selIdx > 0
  <2>1. Select(selIdx - 1) /\ Stay("top")
    BY <1>2 DEF GuiKeyDoes
  <2>2. /\ selIdx - 1 \in Nat
        /\ selCol = "left" => selIdx - 1 < boots
        /\ selCol = "right" => selIdx - 1 < RightCount
    BY <1>0, <1>2 DEF Larger
  <2> QED
    BY <1>0, <2>1, <2>2, Scrolled
<1>3. CASE k = "down" /\ selIdx + 1 < Rows
  <2>1. Select(selIdx + 1) /\ Stay("top")
    BY <1>3 DEF GuiKeyDoes
  <2>2. /\ selIdx + 1 \in Nat
        /\ selCol = "left" => selIdx + 1 < boots
        /\ selCol = "right" => selIdx + 1 < RightCount
    BY <1>0, <1>3
  <2> QED
    BY <1>0, <2>1, <2>2, Scrolled
<1>4. CASE k = "left" /\ selCol = "right"
  <2>1. SwitchColumn("left", boots) /\ Stay("top")
    BY <1>4 DEF GuiKeyDoes
  <2> QED
    BY <2>1, Switched
<1>5. CASE k = "right" /\ selCol = "left"
  <2>1. SwitchColumn("right", RightCount) /\ Stay("top")
    BY <1>5 DEF GuiKeyDoes
  <2> QED
    BY <2>1, Switched
<1>6. CASE k = "enter" /\ selIdx < Rows
  <2>1. End(<<selCol, selIdx>>, "enter", cursor) /\ unmoved
    BY <1>6 DEF GuiKeyDoes
  <2> QED
    BY <1>1, <2>1
<1>7. CASE k = "f2"
  <2>1. End(<<"right", tools>>, "key", cursor) /\ unmoved
    BY <1>7 DEF GuiKeyDoes
  <2> QED
    BY <1>1, <2>1
<1>8. CASE k = "f12"
  <2>1. End(<<"right", tools + 1>>, "key", cursor) /\ unmoved
    BY <1>8 DEF GuiKeyDoes
  <2> QED
    BY <1>1, <2>1
<1>9. CASE k = "f1"
  <2>1. Stay("help") /\ unmoved
    BY <1>9 DEF GuiKeyDoes
  <2> QED
    BY <1>1, <2>1
<1>10. CASE /\ ~(k = "up" /\ selIdx > 0) /\ ~(k = "down" /\ selIdx + 1 < Rows)
            /\ ~(k = "left" /\ selCol = "right") /\ ~(k = "right" /\ selCol = "left")
            /\ ~(k = "enter" /\ selIdx < Rows) /\ k # "f2" /\ k # "f12" /\ k # "f1"
  <2>1. Stay("top") /\ unmoved
    BY <1>10 DEF GuiKeyDoes
  <2> QED
    BY <1>1, <2>1
<1> QED
  BY <1>2, <1>3, <1>4, <1>5, <1>6, <1>7, <1>8, <1>9, <1>10, Zenon

\* The menu ends with a key.
LEMMA EndsByKey ==
  ASSUME NEW t, End(t, "key", cursor)
  PROVE  at' \in {"booted", "system"} /\ ChosenAsShown'
<1>1. at' \in {"booted", "system"} /\ by'[1] = "key"
  BY DEF End
<1> QED
  BY <1>1, Zenon DEF ChosenAsShown

\* MenuInv is kept by a key in the graphical menu.
LEMMA GuiKeyStep ==
  ASSUME MenuInv, NEW d \in DOMAIN Devices, GuiKey(d) PROVE MenuInv'
<1>0. PICK k : ReadsKey(d, k) /\ GuiKeyDoes(k)
  BY DEF GuiKey
<1>1. /\ kind = "gui" /\ at = "poll" /\ interacted' = TRUE /\ dirty' = TRUE
      /\ elapsed' = elapsed /\ shown' = shown /\ UNCHANGED facts
  BY <1>0, Zenon DEF GuiKey, ReadsKey
<1>2. InputTyped'
  BY <1>0, KeyTyped
<1>3. /\ SelectionInRange' /\ selCol' \in {"left", "right"}
      /\ \/ Stay("top") \/ Stay("help")
         \/ End(<<selCol, selIdx>>, "enter", cursor)
         \/ \E t : End(t, "key", cursor)
  BY <1>0, <1>1, GuiKeyEffect
<1>4. at' \in {"top", "help", "booted", "system"}
  BY <1>3 DEF End, Stay
<1>5. MenuTyped' /\ kind' = "gui"
  BY <1>1, <1>3, <1>4 DEF MenuInv, MenuTyped, facts
<1>6. GuiScreen'
  BY <1>1, <1>4 DEF GuiScreen
<1>7. CASE Stay("top") \/ Stay("help")
  <2>1. by'[1] = "none" /\ ChosenAsShown'
    BY <1>1, <1>7, GoesOn DEF Stay
  <2> QED
    BY <1>2, <1>3, <1>5, <1>6, <2>1 DEF MenuInv
<1>8. CASE End(<<selCol, selIdx>>, "enter", cursor)
  <2>1. /\ at' \in {"booted", "system"} /\ by'[1] = "enter" /\ outcome' = <<selCol, selIdx>>
    BY <1>8 DEF End
  <2>2. shown'.sel = <<selCol, selIdx>>
    BY <1>1 DEF MenuInv, GuiScreen, Picture
  <2>3. ChosenAsShown'
    BY <1>5, <2>1, <2>2, Zenon DEF ChosenAsShown
  <2> QED
    BY <1>2, <1>3, <1>5, <1>6, <2>1, <2>3 DEF MenuInv
<1>9. CASE \E t : End(t, "key", cursor)
  <2>1. at' \in {"booted", "system"} /\ ChosenAsShown'
    BY <1>9, EndsByKey
  <2> QED
    BY <1>2, <1>3, <1>5, <1>6, <2>1 DEF MenuInv
<1> QED
  BY <1>3, <1>7, <1>8, <1>9

\* A key in the text menu selects a line, which is redrawn, or ends the menu.
LEMMA TextKeyEffect ==
  ASSUME MenuInv, kind = "text", at = "poll", NEW k \in MappedKeys, TextKeyDoes(k)
  PROVE  /\ selIdx' \in Nat /\ selIdx' < boots + tools + 2
         /\ \/ Stay("top") /\ shown'.sel[2] = selIdx'
            \/ selIdx' = selIdx /\ shown' = shown /\ End(TileOf(selIdx), "enter", cursor)
            \/ \E t : End(t, "key", cursor)
<1>0. /\ boots \in Nat /\ tools \in Nat /\ selIdx \in Nat /\ selIdx < boots + tools + 2
      /\ shown.sel[2] = selIdx
  BY Zenon DEF MenuInv, MenuTyped, SelectionInRange, TextScreen
<1> DEFINE n == boots + tools
           redrawn(i) == [Picture EXCEPT !.sel = <<"left", i>>, !.footer = -1]
<1>1. \A i : redrawn(i).sel[2] = i
  BY DEF Picture
<1>2. DigitOf(k) \in 0 .. 10
  BY DEF DigitOf
<1>9. k \in {"up", "down", "enter", "f2", "f12"} => ~(DigitOf(k) < Smaller(10, n))
  BY <1>0 DEF DigitOf, Smaller
<1>3. CASE k = "up"
  <2>1. selIdx' = Larger(selIdx - 1, 0) /\ shown' = redrawn(Larger(selIdx - 1, 0)) /\ Stay("top")
    BY <1>3, <1>9 DEF TextKeyDoes
  <2>2. Larger(selIdx - 1, 0) \in Nat /\ Larger(selIdx - 1, 0) < n + 2
    BY <1>0 DEF Larger
  <2> HIDE DEF redrawn
  <2> QED
    BY <1>1, <2>1, <2>2, Zenon
<1>4. CASE k = "down"
  <2> DEFINE i == Smaller(selIdx + 1, n + 1)
  <2>1. selIdx' = i /\ shown' = redrawn(i) /\ Stay("top")
    BY <1>4, <1>9 DEF TextKeyDoes
  <2>2. i \in Nat /\ i < n + 2
    BY <1>0 DEF Smaller
  <2> HIDE DEF redrawn, i
  <2> QED
    BY <1>1, <2>1, <2>2, Zenon
<1>5. CASE k = "enter"
  <2>1. selIdx' = selIdx /\ shown' = shown /\ End(TileOf(selIdx), "enter", cursor)
    BY <1>5, <1>9 DEF TextKeyDoes
  <2> QED
    BY <1>0, <2>1, Zenon
<1>6. CASE k = "f2" \/ k = "f12"
  <2>1. selIdx' = selIdx /\ \E t : End(t, "key", cursor)
    BY <1>6, <1>9 DEF TextKeyDoes
  <2> QED
    BY <1>0, <2>1, Zenon
<1>7. CASE k \notin {"up", "down", "enter", "f2", "f12"} /\ DigitOf(k) < Smaller(10, n)
  <2>1. selIdx' = DigitOf(k) /\ End(TileOf(DigitOf(k)), "key", cursor)
    BY <1>7 DEF TextKeyDoes
  <2>2. DigitOf(k) \in Nat /\ DigitOf(k) < n + 2
    BY <1>0, <1>2, <1>7 DEF Smaller
  <2> QED
    BY <2>1, <2>2
<1>8. CASE k \notin {"up", "down", "enter", "f2", "f12"} /\ ~(DigitOf(k) < Smaller(10, n))
  <2>1. Stay("top") /\ selIdx' = selIdx /\ shown' = shown
    BY <1>8 DEF TextKeyDoes
  <2> QED
    BY <1>0, <2>1, Zenon
<1> QED
  BY <1>3, <1>4, <1>5, <1>6, <1>7, <1>8, Zenon

\* MenuInv is kept by a key in the text menu.
LEMMA TextKeyStep ==
  ASSUME MenuInv, NEW d \in DOMAIN Devices, TextKey(d) PROVE MenuInv'
<1>0. PICK k \in MappedKeys : ReadsKey(d, k) /\ TextKeyDoes(k)
  BY DEF TextKey
<1>1. /\ kind = "text" /\ at = "poll" /\ interacted' = TRUE /\ dirty' = dirty
      /\ selCol' = selCol /\ scrollLeft' = scrollLeft
      /\ elapsed' = elapsed /\ UNCHANGED facts
  BY <1>0, Zenon DEF TextKey, ReadsKey
<1>2. InputTyped'
  BY <1>0, KeyTyped
<1>3. /\ selIdx' \in Nat /\ selIdx' < boots + tools + 2
      /\ \/ Stay("top") /\ shown'.sel[2] = selIdx'
         \/ selIdx' = selIdx /\ shown' = shown /\ End(TileOf(selIdx), "enter", cursor)
         \/ \E t : End(t, "key", cursor)
  BY <1>0, <1>1, TextKeyEffect, Zenon
<1>4. kind' = "text" /\ boots' = boots /\ tools' = tools /\ MaxVisible' = MaxVisible
  BY <1>1, SameLayout DEF facts
<1>5. SelectionInRange'
  BY <1>1, <1>3, <1>4, Zenon DEF MenuInv, SelectionInRange
<1>6. at' \in {"top", "booted", "system"}
  BY <1>3, Zenon DEF End, Stay
<1>7. MenuTyped'
  BY <1>1, <1>6 DEF MenuInv, MenuTyped, facts
<1>8. CASE Stay("top") /\ shown'.sel[2] = selIdx'
  <2>1. by'[1] = "none" /\ ChosenAsShown'
    BY <1>1, <1>8, GoesOn, Zenon DEF Stay
  <2>2. TextScreen'
    BY <1>8 DEF TextScreen, Stay
  <2> QED
    BY <1>2, <1>4, <1>5, <1>7, <2>1, <2>2 DEF MenuInv
<1>9. CASE selIdx' = selIdx /\ shown' = shown /\ End(TileOf(selIdx), "enter", cursor)
  <2>1. at' \in {"booted", "system"} /\ by'[1] = "enter" /\ outcome' = TileOf(selIdx)
    BY <1>9 DEF End
  <2>2. TextScreen'
    BY <2>1 DEF TextScreen
  <2>3. shown.sel[2] = selIdx
    BY <1>1 DEF MenuInv, TextScreen
  <2>4. TileOf(shown.sel[2])' = outcome'
    BY <1>4, <1>9, <2>1, <2>3, Zenon DEF TileOf
  <2>5. ChosenAsShown'
    BY <1>4, <2>1, <2>4, Zenon DEF ChosenAsShown
  <2> QED
    BY <1>2, <1>4, <1>5, <1>7, <2>1, <2>2, <2>5 DEF MenuInv
<1>10. CASE \E t : End(t, "key", cursor)
  <2>1. at' \in {"booted", "system"} /\ ChosenAsShown'
    BY <1>10, EndsByKey
  <2>2. TextScreen'
    BY <2>1 DEF TextScreen
  <2> QED
    BY <1>2, <1>4, <1>5, <1>7, <2>1, <2>2 DEF MenuInv
<1> QED
  BY <1>3, <1>8, <1>9, <1>10, Zenon

\* A device has a new report.
LEMMA ArrivesStep ==
  ASSUME MenuInv, NEW d \in DOMAIN Devices, Arrives(d) PROVE MenuInv'
<1>1. PICK r \in Reports(d) : pending' = [pending EXCEPT ![d] = r]
  BY Zenon DEF Arrives
<1>2. Devices[d] # "key" => r \in PointerReport
  BY <1>1 DEF Reports, PointerReport
<1>3. DOMAIN pending = DOMAIN Devices /\ pointer' = pointer
  BY DEF MenuInv, InputTyped, Arrives
<1>4. /\ DOMAIN pending' = DOMAIN Devices
      /\ \A e \in DOMAIN Devices : pending'[e] = IF e = d THEN r ELSE pending[e]
  BY <1>1, <1>3
<1>5. InputTyped'
  BY <1>2, <1>3, <1>4, Zenon DEF MenuInv, InputTyped
<1>6. at \notin {"booted", "system"} /\ UNCHANGED <<facts, at, viewVars, clockVars, endVars>>
  BY DEF Arrives, Polling
<1> QED
  BY <1>5, <1>6, Unheard

\* The menu as it opens.
LEMMA MenuStarts == MenuInit => MenuInv
<1> SUFFICES ASSUME MenuInit PROVE MenuInv
  OBVIOUS
<1>1. MenuTyped
  <2>1. PICK m \in Menus : boots = m[1] /\ tools = m[2]
    BY DEF MenuInit
  <2>2. boots \in Nat /\ tools \in Nat
    BY <2>1, MenuAssumption
  <2>3. PICK t \in Timeouts : timeout = (IF boots > 0 THEN t ELSE 0)
    BY DEF MenuInit
  <2>4. timeout \in Nat
    BY <2>3, MenuAssumption
  <2>5. height \in Nat
    BY MenuAssumption DEF MenuInit
  <2> QED
    BY <2>2, <2>4, <2>5, Zenon DEF MenuInit, MenuTyped
<1>2. InputTyped
  <2>1. height \div 2 \in Int /\ WIDTH \div 2 \in Int
    BY <1>1 DEF MenuTyped, WIDTH
  <2>2. pointer \in Int \X Int
    BY <2>1 DEF MenuInit
  <2> QED
    BY <2>2 DEF MenuInit, InputTyped
<1>3. SelectionInRange
  <2>1. MaxVisible \in Nat \ {0} /\ boots \in Nat /\ tools \in Nat
    BY <1>1, VisibleTyped DEF MenuTyped
  <2> QED
    BY <2>1 DEF MenuInit, SelectionInRange, Smaller, Larger, RightCount
<1>4. GuiScreen
  BY DEF MenuInit, GuiScreen
<1>5. TextScreen
  BY Zenon DEF MenuInit, TextScreen, Picture
<1>6. by[1] = "none" /\ at = "new"
  BY DEF MenuInit
<1> QED
  BY <1>1, <1>2, <1>3, <1>4, <1>5, <1>6, Zenon DEF MenuInv, ChosenAsShown

\* Every step of the menu keeps its invariant.
LEMMA MenuStep == MenuInv /\ [MenuNext]_menuVars => MenuInv'
<1> SUFFICES ASSUME MenuInv, [MenuNext]_menuVars PROVE MenuInv'
  OBVIOUS
<1>1. CASE InputNew \/ GuiTop \/ TextTop \/ Skip \/ Quiet
  BY <1>1, InputNewStep, GuiTopStep, TextTopStep, SkipStep, QuietStep
<1>2. ASSUME NEW d \in DOMAIN Devices, Asks(d) PROVE MenuInv'
  BY <1>2, PointerRestsStep, PointerIgnoredStep, HoverStep, ClickStep, KeyUnmappedStep,
     LeaveHelpStep, GuiKeyStep, TextKeyStep DEF Asks
<1>3. ASSUME NEW d \in DOMAIN Devices, Arrives(d) PROVE MenuInv'
  BY <1>3, ArrivesStep
<1>4. CASE Over \/ UNCHANGED menuVars
  BY <1>4, StaysOver DEF Over
<1> QED
  BY <1>1, <1>2, <1>3, <1>4 DEF MenuNext, MenuSteps

\* MenuInv is an invariant.
LEMMA MenuInvHolds == MenuSpec => []MenuInv
<1> QED
  BY MenuStarts, MenuStep, PTL DEF MenuSpec

-----------------------------------------------------------------------------
(* The view follows the selection *)

\* A tile of the left column that hit_test finds is among those drawn.
LEMMA HitInView ==
  ASSUME MenuInv, kind = "gui", NEW p, HitTest(p) # NoTile, HitTest(p)[1] = "left"
  PROVE  scrollLeft <= HitTest(p)[2] /\ HitTest(p)[2] < scrollLeft + MaxVisible
<1> DEFINE rows == {v \in 0 .. Smaller(MaxVisible, boots) - 1 :
                      Within(p[2], HEADER_H + v * (BOOT_TILE_H + TILE_GAP), BOOT_TILE_H)}
           right == {i \in 0 .. RightCount - 1 : Within(p[2], RightTop(i), TOOL_TILE_H)}
           v == CHOOSE v \in rows : TRUE
           i == CHOOSE i \in right : TRUE
<1>1. HitTest(p) = IF InLeft(p[1]) /\ rows # {} THEN <<"left", scrollLeft + v>>
                   ELSE IF InRight(p[1]) /\ right # {} THEN <<"right", i>> ELSE NoTile
  BY Zenon DEF HitTest
<1>2. rows # {} => v \in 0 .. Smaller(MaxVisible, boots) - 1
  <2>1. rows # {} => v \in rows
    BY Zenon
  <2> HIDE DEF v
  <2> QED
    BY <2>1, Zenon
<1> HIDE DEF rows, right, v, i
<1>3. rows # {} /\ HitTest(p) = <<"left", scrollLeft + v>>
  BY <1>1
<1>4. /\ boots \in Nat /\ scrollLeft \in Nat /\ MaxVisible \in Nat
      /\ Smaller(MaxVisible, boots) <= MaxVisible /\ Smaller(MaxVisible, boots) \in Nat
  BY VisibleTyped DEF MenuInv, MenuTyped, SelectionInRange, Smaller
<1> QED
  BY <1>2, <1>3, <1>4

\* adjust_scroll brings the selection into view.
LEMMA ScrolledInView ==
  ASSUME MenuInv, NEW i \in Nat
  PROVE  /\ AdjustScroll(i, scrollLeft) <= i
         /\ i < AdjustScroll(i, scrollLeft) + MaxVisible
<1>1. scrollLeft \in Nat /\ MaxVisible \in Nat \ {0}
  BY VisibleTyped DEF MenuInv, SelectionInRange
<1>2. CASE i < scrollLeft
  <2>1. AdjustScroll(i, scrollLeft) = i
    BY <1>1, <1>2 DEF AdjustScroll
  <2> QED
    BY <1>1, <2>1
<1>3. CASE ~(i < scrollLeft) /\ i >= scrollLeft + MaxVisible
  <2>1. AdjustScroll(i, scrollLeft) = i + 1 - MaxVisible
    BY <1>1, <1>3 DEF AdjustScroll
  <2> QED
    BY <1>1, <2>1
<1>4. CASE ~(i < scrollLeft) /\ ~(i >= scrollLeft + MaxVisible)
  <2>1. AdjustScroll(i, scrollLeft) = scrollLeft
    BY <1>1, <1>4 DEF AdjustScroll
  <2> QED
    BY <1>1, <1>4, <2>1
<1> QED
  BY <1>2, <1>3, <1>4

\* Nothing moves.
LEMMA ViewRests ==
  ASSUME UNCHANGED <<facts, selCol, selIdx, scrollLeft>>
  PROVE  ViewFollows
<1>1. kind' = kind /\ MaxVisible' = MaxVisible
  BY SameLayout DEF facts
<1> QED
  BY <1>1, Zenon DEF ViewFollows, InView

\* The pointer's tile is in view.
LEMMA HitFollowed ==
  ASSUME MenuInv, kind = "gui", NEW p, UNCHANGED <<facts, scrollLeft>>,
         \/ HitTest(p) # NoTile /\ selCol' = HitTest(p)[1] /\ selIdx' = HitTest(p)[2]
         \/ UNCHANGED <<selCol, selIdx>>
  PROVE  ViewFollows
<1>1. CASE UNCHANGED <<selCol, selIdx>>
  BY <1>1, ViewRests
<1>2. CASE HitTest(p) # NoTile /\ selCol' = HitTest(p)[1] /\ selIdx' = HitTest(p)[2]
  <2>1. MaxVisible' = MaxVisible
    BY SameLayout
  <2>2. selCol' = "left" => scrollLeft <= selIdx' /\ selIdx' < scrollLeft + MaxVisible
    BY <1>2, HitInView, Zenon
  <2> QED
    BY <2>1, <2>2 DEF ViewFollows, InView
<1> QED
  BY <1>1, <1>2

\* A key moves the selection within its column and the view with it, or takes the
\* selection to the other column.
LEMMA KeyFollowed ==
  ASSUME MenuInv, UNCHANGED facts, NEW k, GuiKeyDoes(k)
  PROVE  ViewFollows
<1> DEFINE unmoved == UNCHANGED <<selCol, selIdx, scrollLeft, scrollRight>>
<1>1. ASSUME unmoved PROVE ViewFollows
  BY <1>1, ViewRests
<1>2. ASSUME NEW i \in Nat, Select(i) PROVE ViewFollows
  <2>1. MaxVisible' = MaxVisible
    BY SameLayout
  <2>2. /\ selIdx' = i /\ selCol' = selCol
        /\ selCol = "left" => scrollLeft' = AdjustScroll(i, scrollLeft)
    BY <1>2 DEF Select
  <2>3. AdjustScroll(i, scrollLeft) <= i /\ i < AdjustScroll(i, scrollLeft) + MaxVisible
    BY ScrolledInView
  <2> QED
    BY <2>1, <2>2, <2>3, Zenon DEF ViewFollows, InView
<1>3. ASSUME NEW n, SwitchColumn("right", n) PROVE ViewFollows
  BY <1>3 DEF SwitchColumn, ViewFollows, InView
<1>4. ASSUME NEW n, selCol = "right", SwitchColumn("left", n) PROVE ViewFollows
  BY <1>4 DEF SwitchColumn, ViewFollows
<1>5. \/ unmoved
      \/ selIdx > 0 /\ Select(selIdx - 1)
      \/ Select(selIdx + 1)
      \/ SwitchColumn("right", RightCount)
      \/ selCol = "right" /\ SwitchColumn("left", boots)
  <2>1. CASE k = "up" /\ selIdx > 0
    BY <2>1 DEF GuiKeyDoes
  <2>2. CASE k = "down" /\ selIdx + 1 < Rows
    BY <2>2 DEF GuiKeyDoes
  <2>3. CASE k = "left" /\ selCol = "right"
    BY <2>3 DEF GuiKeyDoes
  <2>4. CASE k = "right" /\ selCol = "left"
    BY <2>4 DEF GuiKeyDoes
  <2>5. CASE k = "enter" /\ selIdx < Rows
    BY <2>5 DEF GuiKeyDoes
  <2>6. CASE k = "f2" \/ k = "f12" \/ k = "f1"
    BY <2>6 DEF GuiKeyDoes
  <2>7. CASE /\ ~(k = "up" /\ selIdx > 0) /\ ~(k = "down" /\ selIdx + 1 < Rows)
             /\ ~(k = "left" /\ selCol = "right") /\ ~(k = "right" /\ selCol = "left")
             /\ ~(k = "enter" /\ selIdx < Rows) /\ k # "f2" /\ k # "f12" /\ k # "f1"
    BY <2>7 DEF GuiKeyDoes
  <2> QED
    BY <2>1, <2>2, <2>3, <2>4, <2>5, <2>6, <2>7, Zenon
<1>6. selIdx \in Nat /\ selIdx + 1 \in Nat /\ (selIdx > 0 => selIdx - 1 \in Nat)
  BY DEF MenuInv, SelectionInRange
<1> QED
  BY <1>1, <1>2, <1>3, <1>4, <1>5, <1>6, Zenon

\* Every step keeps a moved selection in view.
LEMMA ViewStep == MenuInv /\ [MenuNext]_menuVars => ViewFollows
<1> SUFFICES ASSUME MenuInv, [MenuNext]_menuVars PROVE ViewFollows
  OBVIOUS
<1>1. CASE InputNew \/ GuiTop \/ TextTop \/ Skip \/ Quiet
  <2>1. UNCHANGED facts /\ UNCHANGED viewVars
    BY <1>1, Zenon DEF InputNew, GuiTop, TextTop, Skip, Quiet
  <2> QED
    BY <2>1, ViewRests DEF viewVars
<1>2. ASSUME NEW d \in DOMAIN Devices, Asks(d) PROVE ViewFollows
  <2>1. CASE PointerRests(d) \/ PointerIgnored(d)
    <3>1. UNCHANGED facts /\ UNCHANGED viewVars
      BY <2>1, Zenon DEF PointerRests, PointerIgnored, ReadsPointer
    <3> QED
      BY <3>1, ViewRests DEF viewVars
  <2>2. CASE KeyUnmapped(d) \/ LeaveHelp(d)
    <3>1. UNCHANGED facts /\ UNCHANGED viewVars
      BY <2>2, Zenon DEF KeyUnmapped, LeaveHelp, ReadsKey
    <3> QED
      BY <3>1, ViewRests DEF viewVars
  <2>3. CASE Hover(d)
    <3> DEFINE hit == HitTest(Pointed(d))
               tile == IF hit = NoTile THEN <<selCol, selIdx>> ELSE hit
    <3>1. /\ kind = "gui" /\ UNCHANGED facts /\ scrollLeft' = scrollLeft
          /\ selCol' = tile[1] /\ selIdx' = tile[2]
      BY <2>3, Zenon DEF Hover, ReadsPointer
    <3>2. \/ hit # NoTile /\ selCol' = hit[1] /\ selIdx' = hit[2]
          \/ UNCHANGED <<selCol, selIdx>>
      BY <3>1
    <3> QED
      BY <3>1, <3>2, HitFollowed
  <2>4. CASE Click(d)
    <3> DEFINE hit == HitTest(Pointed(d))
    <3>1. kind = "gui" /\ UNCHANGED facts /\ scrollLeft' = scrollLeft
      BY <2>4, Zenon DEF Click, ReadsPointer
    <3>2. \/ hit # NoTile /\ selCol' = hit[1] /\ selIdx' = hit[2]
          \/ UNCHANGED <<selCol, selIdx>>
      BY <2>4, Zenon DEF Click
    <3> QED
      BY <3>1, <3>2, HitFollowed
  <2>5. CASE GuiKey(d)
    <3>1. PICK k : ReadsKey(d, k) /\ GuiKeyDoes(k)
      BY <2>5 DEF GuiKey
    <3> QED
      BY <3>1, KeyFollowed, Zenon DEF ReadsKey
  <2>6. CASE TextKey(d)
    <3>1. kind = "text" /\ UNCHANGED facts
      BY <2>6, Zenon DEF TextKey, ReadsKey
    <3> QED
      BY <3>1 DEF facts, ViewFollows, InView
  <2> QED
    BY <1>2, <2>1, <2>2, <2>3, <2>4, <2>5, <2>6 DEF Asks
<1>3. ASSUME NEW d \in DOMAIN Devices, Arrives(d) PROVE ViewFollows
  BY <1>3, ViewRests, Zenon DEF Arrives, viewVars
<1>4. CASE Over \/ UNCHANGED menuVars
  BY <1>4, ViewRests, Zenon DEF Over, menuVars, viewVars
<1> QED
  BY <1>1, <1>2, <1>3, <1>4 DEF MenuNext, MenuSteps

\* However keys and pointer alternate, the selection is a tile of the menu; whenever
\* the menu waits for input the screen is what a repaint would give, although most
\* frames are not repainted; and the view follows the selection, except where the
\* left key carries a row into a column scrolled elsewhere (gui.rs 370-410, 440-539,
\* adjust_scroll; console.rs).
THEOREM SelectionShownHolds == MenuSpec => SelectionShown
<1>1. MenuInv /\ [MenuNext]_menuVars
        => [SelectionInRange' /\ ScreenFresh' /\ ViewFollows]_menuVars
  <2> SUFFICES ASSUME MenuInv, [MenuNext]_menuVars
               PROVE  SelectionInRange' /\ ScreenFresh' /\ ViewFollows
    OBVIOUS
  <2>1. MenuInv'
    BY MenuStep
  <2>2. SelectionInRange' /\ ScreenFresh'
    BY <2>1, Zenon DEF MenuInv, MenuTyped, GuiScreen, TextScreen, ScreenFresh
  <2> QED
    BY <2>2, ViewStep
<1> QED
  BY <1>1, MenuInvHolds, PTL DEF MenuSpec, SelectionShown

\* Enter boots the line the screen highlights, and a click the one tile the screen
\* has under the pointer, for every screen and however far the list is scrolled:
\* hit_test and the two draw functions, which compute the places of the tiles
\* separately, agree (gui.rs).
THEOREM ChosenAsShownHolds == MenuSpec => []ChosenAsShown
<1>1. MenuInv => ChosenAsShown
  BY DEF MenuInv
<1> QED
  BY <1>1, MenuInvHolds, PTL

-----------------------------------------------------------------------------
(* The user's touch *)

\* The frames that passed are worth the timeout.
TimeEnough == timeout > 0 /\ elapsed * Frame >= timeout

\* No frame is counted after the first touch: either it was seen, or its key still
\* waits at a keyboard that poll has not come to.
TouchInv ==
  /\ touchedAt # Never => touchedAt = elapsed /\ (interacted \/ KeyWaits)
  /\ asking \in Nat
  /\ \A d \in DOMAIN Devices : d < asking => pending[d] = NoReport
  /\ at # "new" => handles = DOMAIN Devices
  /\ at = "help" => interacted
  /\ by[1] = "timeout" => ~interacted /\ TimeEnough

\* The counter wraps, so what has passed is never less than what it says.
LEMMA TimeIsUpMeans ==
  ASSUME MenuInv, TimeIsUp
  PROVE  ~interacted /\ timeout > 0 /\ elapsed * Frame >= timeout
<1> DEFINE x == elapsed * Frame
<1>1. x \in Nat /\ timeout \in Nat /\ UWrap \in Nat \ {0}
  BY MenuAssumption DEF MenuInv, MenuTyped, Frame
<1>2. Counting /\ x % UWrap >= timeout
  BY DEF TimeIsUp, ElapsedMs
<1> HIDE DEF x
<1>3. x % UWrap <= x
  BY <1>1
<1>4. x % UWrap \in Int
  BY <1>1
<1>5. x >= timeout
  BY <1>1, <1>2, <1>3, <1>4
<1> QED
  BY <1>2, <1>5 DEF Counting, x

\* The devices are numbered from one.
LEMMA DevicePlaces == DOMAIN Devices = 1 .. Len(Devices) /\ Len(Devices) \in Nat
  BY DevicesAssumption, LenProperties

\* A mapped key is a report.
LEMMA KeyIsReport == \A k \in MappedKeys : KeyReport(k) # NoReport
<1> SUFFICES ASSUME NEW k \in MappedKeys PROVE KeyReport(k) # NoReport
  OBVIOUS
<1>1. k # "none"
  BY DEF MappedKeys
<1>2. KeyReport(k).key = k /\ NoReport.key = "none"
  BY DEF KeyReport, NoReport
<1> QED
  BY <1>1, <1>2

\* A report is of one key.
LEMMA KeysApart == \A j, k : KeyReport(j) = KeyReport(k) => j = k
<1> SUFFICES ASSUME NEW j, NEW k, KeyReport(j) = KeyReport(k) PROVE j = k
  OBVIOUS
<1>1. KeyReport(j).key = j /\ KeyReport(k).key = k
  BY DEF KeyReport
<1> QED
  BY <1>1

\* What has passed is a matter of the clock.
LEMMA SameTime ==
  ASSUME UNCHANGED facts, elapsed' = elapsed
  PROVE  TimeEnough' = TimeEnough
  BY Zenon DEF TimeEnough, Frame, facts

\* A touch is kept while the clock and the keys are.
LEMMA TouchRests ==
  ASSUME MenuInv, TouchInv, UNCHANGED <<facts, interacted, elapsed, touchedAt, pending>>,
         asking' \in Nat,
         \A d \in DOMAIN Devices : d < asking' => pending[d] = NoReport,
         at' # "new" => handles' = DOMAIN Devices,
         at' = "help" => interacted,
         by'[1] = "timeout" => ~interacted /\ TimeEnough
  PROVE  TouchInv'
<1>1. KeyWaits' = KeyWaits /\ TimeEnough' = TimeEnough
  BY SameTime, Zenon DEF KeyWaits
<1>2. touchedAt' # Never => touchedAt' = elapsed' /\ (interacted' \/ KeyWaits')
  BY <1>1, Zenon DEF TouchInv
<1>3. \A d \in DOMAIN Devices : d < asking' => pending'[d] = NoReport
  OBVIOUS
<1>4. by'[1] = "timeout" => ~interacted' /\ TimeEnough'
  BY <1>1, Zenon
<1> QED
  BY <1>2, <1>3, <1>4, Zenon DEF TouchInv

\* poll goes on to the next device, or starts again, when a report is read.
LEMMA ReadsInOrder ==
  ASSUME MenuInv, TouchInv, NEW d \in DOMAIN Devices, Reads(d), asking' \in {1, asking + 1}
  PROVE  /\ asking' \in Nat
         /\ \A e \in DOMAIN Devices : e < asking' => pending'[e] = NoReport
<1>1. /\ asking = d /\ asking \in Nat /\ DOMAIN pending = DOMAIN Devices
      /\ pending' = [pending EXCEPT ![d] = NoReport]
      /\ \A e \in DOMAIN Devices : e < asking => pending[e] = NoReport
  BY DEF Reads, TouchInv, MenuInv, InputTyped
<1>2. \A e \in DOMAIN Devices : pending'[e] = IF e = d THEN NoReport ELSE pending[e]
  BY <1>1
<1>3. ASSUME NEW e \in DOMAIN Devices, e < asking' PROVE e = d \/ e < asking
  BY <1>1, <1>3, DevicePlaces
<1> QED
  BY <1>1, <1>2, <1>3

\* A key that waits goes on waiting when another report is read.
LEMMA KeyStillWaits ==
  ASSUME MenuInv, NEW d \in DOMAIN Devices, Reads(d), KeyWaits,
         Devices[d] = "key" => \A k \in MappedKeys : pending[d] # KeyReport(k)
  PROVE  KeyWaits'
<1>1. PICK e \in DOMAIN Devices :
        Devices[e] = "key" /\ \E k \in MappedKeys : pending[e] = KeyReport(k)
  BY DEF KeyWaits
<1>2. e # d
  BY <1>1
<1>3. pending' = [pending EXCEPT ![d] = NoReport] /\ DOMAIN pending = DOMAIN Devices
  BY DEF Reads, MenuInv, InputTyped
<1>4. pending'[e] = pending[e]
  BY <1>2, <1>3
<1> QED
  BY <1>1, <1>4, Zenon DEF KeyWaits

\* A report is read, and the menu has seen a touch it tells of.
LEMMA ReadKeepsTouch ==
  ASSUME MenuInv, TouchInv, NEW d \in DOMAIN Devices, Reads(d), asking' \in {1, asking + 1},
         UNCHANGED <<facts, handles, elapsed>>, at' # "new", at' = "help" => interacted',
         by'[1] # "timeout", touchedAt' \in {touchedAt, elapsed},
         \/ interacted' = TRUE
         \/ /\ interacted' = interacted /\ touchedAt' = touchedAt
            /\ Devices[d] = "key" => \A k \in MappedKeys : pending[d] # KeyReport(k)
  PROVE  TouchInv'
<1>1. handles' = DOMAIN Devices
  BY DEF Reads, Polling, TouchInv
<1>2. asking' \in Nat /\ \A e \in DOMAIN Devices : e < asking' => pending'[e] = NoReport
  BY ReadsInOrder
<1>3. touchedAt' # Never => touchedAt' = elapsed'
  BY Zenon DEF TouchInv
<1>4. touchedAt' # Never => interacted' \/ KeyWaits'
  BY KeyStillWaits, Zenon DEF TouchInv
<1> QED
  BY <1>1, <1>2, <1>3, <1>4, Zenon DEF TouchInv

\* While the menu runs nothing has been chosen.
LEMMA NotChosen ==
  ASSUME MenuInv, at \in {"new", "top", "poll", "help"}, UNCHANGED endVars
  PROVE  by'[1] # "timeout" /\ by[1] # "timeout"
  BY Zenon DEF MenuInv, endVars

\* What is chosen by the user was not chosen by time.
LEMMA EndsByUser ==
  ASSUME NEW tile, NEW means, NEW p, means # "timeout", End(tile, means, p)
  PROVE  by'[1] # "timeout" /\ at' # "new"
<1>1. by' = <<means, p>> /\ (at' = "system" \/ at' = "booted")
  BY Zenon DEF End
<1>2. \A a, b : <<a, b>>[1] = a
  OBVIOUS
<1>3. by'[1] # "timeout"
  BY <1>1, <1>2, Zenon
<1>4. at' # "new"
  BY <1>1
<1> QED
  BY <1>3, <1>4, Zenon

\* A menu that stays has nothing chosen.
LEMMA StaysUnchosen ==
  ASSUME MenuInv, at \in {"new", "top", "poll", "help"}, NEW place, place # "new", Stay(place)
  PROVE  by'[1] # "timeout" /\ at' # "new"
BY NotChosen, Zenon DEF Stay

\* The head of either loop: nothing is read, and time may be up.
LEMMA TopKeepsTouch == ASSUME MenuInv, TouchInv, GuiTop \/ TextTop PROVE TouchInv'
<1>1. /\ at = "top" /\ UNCHANGED facts /\ UNCHANGED inputVars
      /\ interacted' = interacted /\ elapsed' = elapsed
  BY Zenon DEF GuiTop, TextTop
<1>2. \/ TimeIsUp /\ \E t : End(t, "timeout", cursor)
      \/ Stay("poll")
  BY Zenon DEF GuiTop, TextTop
<1>3. at' \in {"poll", "booted", "system"}
  BY <1>2, Zenon DEF End, Stay
<1>4. by'[1] = "timeout" => ~interacted /\ TimeEnough
  <2>1. CASE TimeIsUp
    BY <2>1, TimeIsUpMeans DEF TimeEnough
  <2>2. CASE Stay("poll")
    BY <1>1, <2>2, NotChosen DEF Stay
  <2> QED
    BY <1>2, <2>1, <2>2
<1>5. UNCHANGED <<asking, handles, pending, touchedAt>>
  BY <1>1 DEF inputVars
<1>6. /\ asking' \in Nat /\ handles' = DOMAIN Devices
      /\ \A d \in DOMAIN Devices : d < asking' => pending[d] = NoReport
  BY <1>1, <1>5 DEF TouchInv
<1>7. at' # "help"
  BY <1>3
<1> QED
  BY <1>1, <1>4, <1>5, <1>6, <1>7, TouchRests

\* The handles are listed, or the device asked has nothing to say.
LEMMA SkipKeepsTouch == ASSUME MenuInv, TouchInv, InputNew \/ Skip PROVE TouchInv'
<1>1. /\ UNCHANGED facts /\ UNCHANGED clockVars /\ UNCHANGED endVars
      /\ UNCHANGED <<touchedAt, pending>>
  BY Zenon DEF InputNew, Skip
<1>2. interacted' = interacted /\ elapsed' = elapsed
  BY <1>1 DEF clockVars
<1>3. at \in {"new", "poll", "help"} /\ at' \in {"top", at}
  BY DEF InputNew, Skip, Polling
<1>4. by'[1] # "timeout"
  BY <1>1, <1>3, NotChosen
<1>5. CASE InputNew
  <2>1. /\ asking' \in Nat /\ handles' = DOMAIN Devices /\ at' = "top"
        /\ \A d \in DOMAIN Devices : d < asking' => pending[d] = NoReport
    BY <1>5 DEF InputNew, TouchInv
  <2>2. at' # "help"
    BY <2>1
  <2> QED
    BY <1>1, <1>2, <1>4, <2>1, <2>2, TouchRests
<1>6. CASE Skip
  <2>1. /\ asking' = asking + 1 /\ asking \in Nat /\ at' = at /\ at # "new"
        /\ handles' = handles /\ handles = DOMAIN Devices
        /\ asking \notin handles \/ pending[asking] = NoReport
    BY <1>6, Zenon DEF Skip, Polling, TouchInv
  <2>2. ASSUME NEW d \in DOMAIN Devices, d < asking' PROVE pending[d] = NoReport
    <3>1. d = asking \/ d < asking
      BY <2>1, <2>2, DevicePlaces
    <3> QED
      BY <2>1, <3>1 DEF TouchInv
  <2>3. asking' \in Nat
    BY <2>1
  <2>4. at' = "help" => interacted
    BY <2>1 DEF TouchInv
  <2> QED
    BY <1>1, <1>2, <1>4, <2>1, <2>2, <2>3, <2>4, TouchRests
<1> QED
  BY <1>5, <1>6

\* A frame passes: every device was asked, so no key waits and no touch is unseen.
LEMMA QuietKeepsTouch == ASSUME MenuInv, TouchInv, Quiet PROVE TouchInv'
<1>1. /\ at \in {"poll", "help"} /\ at' = (IF at = "help" THEN "help" ELSE "top")
      /\ asking > Len(Devices) /\ asking' = 1 /\ interacted' = interacted
      /\ UNCHANGED facts /\ UNCHANGED endVars /\ UNCHANGED <<handles, pending, touchedAt>>
      /\ elapsed' = IF Counting /\ at = "poll" THEN elapsed + 1 ELSE elapsed
  BY DEF Quiet, Polling
<1>2. asking \in Nat /\ \A d \in DOMAIN Devices : d < asking => pending[d] = NoReport
  BY DEF TouchInv
<1>3. \A d \in DOMAIN Devices : pending[d] = NoReport
  BY <1>1, <1>2, DevicePlaces
<1>4. ~KeyWaits
  BY <1>3, KeyIsReport, Zenon DEF KeyWaits
<1>5. touchedAt # Never => interacted
  BY <1>4 DEF TouchInv
<1>6. touchedAt # Never => elapsed' = elapsed
  BY <1>1, <1>5 DEF Counting
<1>7. touchedAt' # Never => touchedAt' = elapsed' /\ interacted'
  BY <1>1, <1>5, <1>6 DEF TouchInv
<1>8. by'[1] # "timeout"
  BY <1>1, NotChosen
<1>9. /\ at' # "new" /\ handles' = DOMAIN Devices
      /\ at' = "help" => interacted'
  BY <1>1 DEF TouchInv
<1>10. asking' \in Nat /\ \A d \in DOMAIN Devices : d < asking' => pending'[d] = NoReport
  BY <1>1, <1>3
<1> QED
  BY <1>7, <1>8, <1>9, <1>10, Zenon DEF TouchInv

\* A report of a pointing device: a click that counts is seen.
LEMMA PointerKeepsTouch ==
  ASSUME MenuInv, TouchInv, NEW d \in DOMAIN Devices,
         PointerRests(d) \/ PointerIgnored(d) \/ Hover(d) \/ Click(d)
  PROVE  TouchInv'
<1>1. ReadsPointer(d)
  BY Zenon DEF PointerRests, PointerIgnored, Hover, Click
<1>2. /\ Reads(d) /\ UNCHANGED facts /\ handles' = handles /\ Devices[d] # "key"
      /\ touchedAt' = IF kind = "gui" /\ Clicks(d) /\ touchedAt = Never THEN elapsed ELSE touchedAt
  BY <1>1, Zenon DEF ReadsPointer, Touch
<1>3. at \in {"poll", "help"} /\ touchedAt' \in {touchedAt, elapsed}
  BY <1>2 DEF Reads, Polling
<1>4. CASE PointerRests(d)
  <2>1. /\ asking' = asking + 1 /\ at' = at /\ UNCHANGED clockVars /\ UNCHANGED endVars
        /\ ~Clicks(d)
    BY <1>4 DEF PointerRests
  <2>2. interacted' = interacted /\ elapsed' = elapsed /\ touchedAt' = touchedAt
    BY <1>2, <2>1 DEF clockVars
  <2>3. by'[1] # "timeout" /\ at' # "new" /\ (at' = "help" => interacted')
    BY <1>3, <2>1, <2>2, NotChosen DEF TouchInv
  <2> QED
    BY <1>2, <1>3, <2>1, <2>2, <2>3, ReadKeepsTouch, Zenon
<1>5. CASE PointerIgnored(d)
  <2>1. /\ asking' = 1 /\ at' = (IF at = "help" THEN "help" ELSE "top")
        /\ UNCHANGED clockVars /\ UNCHANGED endVars /\ (kind = "text" \/ at = "help")
    BY <1>5 DEF PointerIgnored
  <2>2. interacted' = interacted /\ elapsed' = elapsed /\ (at = "help" => interacted)
    BY <2>1 DEF clockVars, TouchInv
  <2>3. by'[1] # "timeout" /\ at' # "new" /\ (at' = "help" => interacted')
    BY <1>3, <2>1, <2>2, NotChosen
  <2>4. interacted' = TRUE \/ (interacted' = interacted /\ touchedAt' = touchedAt)
    <3>1. CASE kind = "text"
      BY <1>2, <2>2, <3>1
    <3>2. CASE at = "help"
      BY <2>2, <3>2 DEF MenuInv, MenuTyped
    <3> QED
      BY <2>1, <3>1, <3>2, Zenon
  <2> QED
    BY <1>2, <1>3, <2>1, <2>2, <2>3, <2>4, ReadKeepsTouch, Zenon
<1>6. CASE Hover(d)
  <2>1. /\ asking' = 1 /\ at' = "top" /\ interacted' = interacted /\ elapsed' = elapsed
        /\ UNCHANGED endVars /\ ~Clicks(d)
    BY <1>6, Zenon DEF Hover, Stay, Moves
  <2>2. by'[1] # "timeout" /\ at' # "new" /\ at' # "help" /\ touchedAt' = touchedAt
    BY <1>2, <1>3, <2>1, NotChosen
  <2> QED
    BY <1>2, <1>3, <2>1, <2>2, ReadKeepsTouch, Zenon
<1>7. CASE Click(d)
  <2>1. asking' = 1 /\ interacted' = TRUE /\ elapsed' = elapsed
    BY <1>7, Zenon DEF Click
  <2>2. Stay("top") \/ \E t, p : End(t, "click", p)
    BY <1>7, Zenon DEF Click
  <2>3. by'[1] # "timeout" /\ at' # "new"
    <3>1. CASE Stay("top")
      BY <1>3, <3>1, NotChosen DEF Stay
    <3>2. ASSUME NEW t, NEW p, End(t, "click", p) PROVE by'[1] # "timeout" /\ at' # "new"
      BY <3>2, Zenon DEF End
    <3> QED
      BY <2>2, <3>1, <3>2, Zenon
  <2> QED
    BY <1>2, <1>3, <2>1, <2>3, ReadKeepsTouch, Zenon
<1> QED
  BY <1>4, <1>5, <1>6, <1>7

\* A key is read: a mapped one is seen, or has been.
LEMMA KeyKeepsTouch ==
  ASSUME MenuInv, TouchInv, NEW d \in DOMAIN Devices,
         KeyUnmapped(d) \/ LeaveHelp(d) \/ GuiKey(d) \/ TextKey(d)
  PROVE  TouchInv'
<1>1. PICK k : ReadsKey(d, k)
  BY Zenon DEF KeyUnmapped, LeaveHelp, GuiKey, TextKey
<1>2. Reads(d) /\ UNCHANGED facts /\ handles' = handles /\ touchedAt' = touchedAt
  BY <1>1, Zenon DEF ReadsKey
<1>3. at \in {"poll", "help"} /\ touchedAt' \in {touchedAt, elapsed}
  BY <1>2 DEF Reads, Polling
<1>4. CASE KeyUnmapped(d)
  <2>1. /\ asking' = asking + 1 /\ at' = at /\ UNCHANGED clockVars /\ UNCHANGED endVars
    BY <1>4, Zenon DEF KeyUnmapped
  <2>2. interacted' = interacted /\ elapsed' = elapsed
    BY <2>1 DEF clockVars
  <2>3. by'[1] # "timeout" /\ at' # "new" /\ (at' = "help" => interacted')
    BY <1>3, <2>1, <2>2, NotChosen DEF TouchInv
  <2>4. \A j \in MappedKeys : pending[d] # KeyReport(j)
    <3>1. PICK j \in KeysUsed \ MappedKeys : pending[d] = KeyReport(j)
      BY <1>4, Zenon DEF KeyUnmapped, ReadsKey
    <3>2. j \notin MappedKeys
      OBVIOUS
    <3> QED
      BY <3>1, <3>2, KeysApart, Zenon
  <2> QED
    BY <1>2, <1>3, <2>1, <2>2, <2>3, <2>4, ReadKeepsTouch, Zenon
<1>5. CASE LeaveHelp(d)
  <2>1. asking' = 1 /\ at = "help" /\ at' = "top" /\ UNCHANGED clockVars /\ UNCHANGED endVars
    BY <1>5, Zenon DEF LeaveHelp, Stay
  <2>2. interacted' = interacted /\ elapsed' = elapsed /\ interacted = TRUE
    BY <2>1 DEF clockVars, TouchInv, MenuInv, MenuTyped
  <2>3. by'[1] # "timeout" /\ at' # "new" /\ at' # "help"
    BY <1>3, <2>1, NotChosen
  <2> QED
    BY <1>2, <1>3, <2>1, <2>2, <2>3, ReadKeepsTouch, Zenon
<1>6. CASE GuiKey(d)
  <2>1. asking' = 1 /\ interacted' = TRUE /\ elapsed' = elapsed
    BY <1>6 DEF GuiKey
  <2>2. \/ Stay("top") \/ Stay("help") \/ End(<<selCol, selIdx>>, "enter", cursor)
        \/ \E t : End(t, "key", cursor)
    <3>1. PICK j : ReadsKey(d, j) /\ GuiKeyDoes(j)
      BY <1>6 DEF GuiKey
    <3> QED
      BY <1>2, <1>6, <3>1, GuiKeyEffect, Zenon DEF GuiKey
  <2>3. by'[1] # "timeout" /\ at' # "new"
    <3>1. at \in {"new", "top", "poll", "help"}
      BY <1>3
    <3>2. "top" # "new" /\ "help" # "new" /\ "enter" # "timeout" /\ "key" # "timeout"
      OBVIOUS
    <3> QED
      BY <2>2, <3>1, <3>2, StaysUnchosen, EndsByUser, Zenon
  <2> QED
    BY <1>2, <1>3, <2>1, <2>3, ReadKeepsTouch, Zenon
<1>7. CASE TextKey(d)
  <2>1. asking' = 1 /\ interacted' = TRUE /\ elapsed' = elapsed
    BY <1>7 DEF TextKey
  <2>2. \/ Stay("top") \/ End(TileOf(selIdx), "enter", cursor) \/ \E t : End(t, "key", cursor)
    <3>1. PICK j \in MappedKeys : ReadsKey(d, j) /\ TextKeyDoes(j)
      BY <1>7 DEF TextKey
    <3> QED
      BY <1>7, <3>1, TextKeyEffect, Zenon DEF TextKey
  <2>3. by'[1] # "timeout" /\ at' # "new"
    <3>1. at \in {"new", "top", "poll", "help"}
      BY <1>3
    <3>2. "top" # "new" /\ "help" # "new" /\ "enter" # "timeout" /\ "key" # "timeout"
      OBVIOUS
    <3> QED
      BY <2>2, <3>1, <3>2, StaysUnchosen, EndsByUser, Zenon
  <2> QED
    BY <1>2, <1>3, <2>1, <2>3, ReadKeepsTouch, Zenon
<1> QED
  BY <1>4, <1>5, <1>6, <1>7

\* A report arrives: a key waits at its keyboard, behind none.
LEMMA ArrivalKeepsTouch ==
  ASSUME MenuInv, TouchInv, NEW d \in DOMAIN Devices, Arrives(d) PROVE TouchInv'
<1>1. PICK r \in Reports(d) :
        /\ pending' = [pending EXCEPT ![d] = r]
        /\ Touch(Devices[d] = "key" /\ r.key \in MappedKeys)
  BY Zenon DEF Arrives
<1> DEFINE real == Devices[d] = "key" /\ r.key \in MappedKeys
<1>2. /\ at \in {"top", "poll", "help"} /\ at' = at /\ asking = 1 /\ asking' = 1
      /\ UNCHANGED facts /\ UNCHANGED clockVars /\ UNCHANGED endVars /\ handles' = handles
  BY DEF Arrives, Polling
<1>3. touchedAt' = IF real /\ touchedAt = Never THEN elapsed ELSE touchedAt
  BY <1>1, Zenon DEF Touch
<1>4. \A e \in DOMAIN Devices : pending'[e] = IF e = d THEN r ELSE pending[e]
  BY <1>1 DEF MenuInv, InputTyped
<1>5. interacted' = interacted /\ elapsed' = elapsed
  BY <1>2 DEF clockVars
<1>6. touchedAt' # Never => touchedAt' = elapsed'
  BY <1>3, <1>5, Zenon DEF TouchInv
<1>7. ASSUME real PROVE KeyWaits'
  <2>1. r = KeyReport(r.key)
    BY <1>1, <1>7 DEF Reports, KeyReport
  <2> QED
    BY <1>4, <1>7, <2>1, Zenon DEF KeyWaits
<1>8. ASSUME KeyWaits PROVE KeyWaits'
  <2>1. PICK e \in DOMAIN Devices :
          Devices[e] = "key" /\ \E k \in MappedKeys : pending[e] = KeyReport(k)
    BY <1>8, Zenon DEF KeyWaits
  <2>2. Devices[d] = "key" => pending[d] = NoReport
    BY <1>1 DEF Reports
  <2>3. e # d
    BY <2>1, <2>2, KeyIsReport, Zenon
  <2> QED
    BY <1>4, <2>1, <2>3, Zenon DEF KeyWaits
<1>9. touchedAt' # Never => interacted' \/ KeyWaits'
  <2>1. CASE real /\ touchedAt = Never
    BY <1>7, <2>1
  <2>2. CASE ~(real /\ touchedAt = Never)
    <3>1. touchedAt' = touchedAt
      BY <1>3, <2>2, Zenon
    <3> QED
      BY <1>5, <1>8, <3>1, Zenon DEF TouchInv
  <2> QED
    BY <2>1, <2>2
<1>10. by'[1] # "timeout"
  BY <1>2, NotChosen
<1>11. /\ asking' \in Nat /\ handles' = DOMAIN Devices /\ at' # "new"
       /\ at' = "help" => interacted'
  BY <1>2, <1>5 DEF TouchInv
<1>12. \A e \in DOMAIN Devices : ~(e < asking')
  BY <1>2, DevicePlaces
<1> QED
  BY <1>6, <1>9, <1>10, <1>11, <1>12, Zenon DEF TouchInv

\* Every step keeps TouchInv.
LEMMA TouchStep == MenuInv /\ TouchInv /\ [MenuNext]_menuVars => TouchInv'
<1> SUFFICES ASSUME MenuInv, TouchInv, [MenuNext]_menuVars PROVE TouchInv'
  OBVIOUS
<1>1. CASE InputNew \/ GuiTop \/ TextTop \/ Skip \/ Quiet
  BY <1>1, TopKeepsTouch, SkipKeepsTouch, QuietKeepsTouch
<1>2. ASSUME NEW d \in DOMAIN Devices, Asks(d) PROVE TouchInv'
  BY <1>2, PointerKeepsTouch, KeyKeepsTouch DEF Asks
<1>3. ASSUME NEW d \in DOMAIN Devices, Arrives(d) PROVE TouchInv'
  BY <1>3, ArrivalKeepsTouch
<1>4. CASE Over \/ UNCHANGED menuVars
  <2>1. /\ UNCHANGED <<facts, interacted, elapsed, touchedAt, pending>>
        /\ asking' = asking /\ at' = at /\ handles' = handles /\ by' = by
    BY <1>4, Zenon DEF Over, menuVars, inputVars, clockVars, endVars
  <2> QED
    BY <2>1, TouchRests, Zenon DEF TouchInv
<1> QED
  BY <1>1, <1>2, <1>3, <1>4 DEF MenuNext, MenuSteps

\* Time decides only when it is up, even if the millisecond counter wraps, and the
\* user touched nothing: the clock stands still from the first key or click on, and a
\* key waits unread only if it was pressed in the last frame of all (gui.rs 412-431,
\* console.rs 65-88, input.rs poll).
THEOREM TimeoutOnlyUntouchedHolds == MenuSpec => []TimeoutOnlyUntouched
<1>1. MenuInit => TouchInv
  <2> SUFFICES ASSUME MenuInit PROVE TouchInv
    OBVIOUS
  <2>1. /\ touchedAt = Never /\ asking = 1 /\ at = "new" /\ by[1] = "none"
        /\ \A d \in DOMAIN Devices : pending[d] = NoReport
    BY DEF MenuInit
  <2> QED
    BY <2>1 DEF TouchInv
<1>2. TouchInv => TimeoutOnlyUntouched
  BY Zenon DEF TouchInv, TimeoutOnlyUntouched, TimeEnough
<1> QED
  BY <1>1, <1>2, TouchStep, MenuInvHolds, PTL DEF MenuSpec
=============================================================================
