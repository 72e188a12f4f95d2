-------------------------------- MODULE Menu --------------------------------
(***************************************************************************)
(* The boot menu while it is shown: the graphical one (gui.rs), the text   *)
(* one it falls back to (console.rs), and the input devices both poll      *)
(* (input.rs).  BootLoop models what becomes of the choice.                *)
(*                                                                         *)
(* discovery lists the tools last, so an entry is its index: those below   *)
(* boots are systems, the next ones are tools.  A tile is a place of the   *)
(* menu: <<"left", i>> is the i-th system, <<"right", i>> the i-th tool or *)
(* after them one of the two system actions.  Geometry is in pixels; time  *)
(* is what the loop itself counts, a frame for each poll that finds        *)
(* nothing.  A pointing device holds the state it will report until it is  *)
(* read; a newer state replaces it.                                        *)
(***************************************************************************)
EXTENDS Integers, Sequences

CONSTANTS
  Devices,    \* the kinds of the devices, in the order poll asks them
  Menus,      \* <<systems, tools, default>>: entries, and policy's default or -1
  Heights,    \* the heights of the screen
  Timeouts,   \* default_timeout_ms
  Points,     \* where the pointer may be moved to
  KeysUsed,   \* the keys that may be pressed
  GuiFrame, TextFrame, Second, \* 16, 100 and 1000 ms
  UWrap,      \* 2^32, where elapsed_ms wraps
  MaxReports  \* bound: reports of all devices together

BOOT_TILE_H == 60
TOOL_TILE_H == 40
TILE_GAP == 6
HEADER_H == 140
FOOTER_H == 50
MARGIN == 20
COL_GAP == 20
WIDTH == 640

\* USB tablet, then SimplePointer, AbsolutePointer and SimpleTextInput handles.
ASSUME DevicesAssumption ==
  /\ Devices \in Seq({"tablet", "mouse", "touch", "key"})
  /\ \A i, j \in DOMAIN Devices :
       i < j => /\ Devices[j] = "tablet" => Devices[i] = "tablet"
                /\ Devices[j] = "mouse" => Devices[i] \in {"tablet", "mouse"}
                /\ Devices[i] = "key" => Devices[j] = "key"

ASSUME MenuAssumption ==
  /\ Menus \subseteq Nat \X Nat \X Int
  /\ \A m \in Menus : m[3] \in -1 .. m[1] + m[2] - 1
  /\ Heights \subseteq Nat
  /\ Timeouts \subseteq Nat
  /\ Points \subseteq Int \X Int
  /\ GuiFrame \in Nat \ {0} /\ TextFrame \in Nat \ {0} /\ Second \in Nat \ {0}
  /\ UWrap \in Nat \ {0}
  \* A later timeout than this wraps around before it is reached.
  /\ \A t \in Timeouts : t + GuiFrame <= UWrap /\ t + TextFrame <= UWrap
  /\ MaxReports \in Nat

VARIABLES
  kind,          \* gui or text
  boots, tools,  \* how many entries of either sort
  height,        \* of the screen
  timeout,       \* timeout_ms
  default,       \* the entry policy names as the default, -1 for none
  at,            \* new, top (of the loop), poll, help, booted, system
  asking,        \* the device poll asks next
  handles,       \* the devices InputManager::new found
  pending,       \* what each device will report
  pointer,       \* InputManager::mouse_x, mouse_y
  buttonDown,    \* InputManager::mouse_button_down
  selCol, selIdx, scrollLeft, scrollRight, \* of the GuiContext; selected_index
  cursor,        \* GuiContext::mouse_x, mouse_y
  interacted,    \* user_interacted
  elapsed,       \* elapsed_frames, counted while the countdown runs
  dirty, lastSecond, \* what is known of the picture on the screen
  shown,         \* history: the picture on the screen
  outcome,       \* the tile the menu ended with
  by,            \* history: how it was chosen, and where the pointer was
  touchedAt,     \* history: elapsed when a key was first pressed or a click read
  reports        \* reports so far

facts == <<kind, boots, tools, height, timeout, default>>
inputVars == <<asking, handles, pending, pointer, buttonDown, touchedAt, reports>>
viewVars == <<selCol, selIdx, scrollLeft, scrollRight, cursor>>
clockVars == <<interacted, elapsed, dirty, lastSecond, shown>>
endVars == <<outcome, by>>
menuVars == <<facts, at, inputVars, viewVars, clockVars, endVars>>

KeyReport(k) == [key |-> k]
NoReport == KeyReport("none")
NoTile == <<"none", 0>>
Never == -1
-----------------------------------------------------------------------------
(* Layout *)

Larger(a, b) == IF a > b THEN a ELSE b
Smaller(a, b) == IF a < b THEN a ELSE b

LeftColW == ((WIDTH - 2 * MARGIN - COL_GAP) * 55) \div 100
RightColX == MARGIN + LeftColW + COL_GAP
RightColW == WIDTH - RightColX - MARGIN

\* max_visible_boot; content_height saturates.
MaxVisible ==
  Larger(1, Larger(0, Larger(0, height - FOOTER_H) - HEADER_H) \div (BOOT_TILE_H + TILE_GAP))

RightCount == tools + 2

InLeft(x) == MARGIN <= x /\ x < MARGIN + LeftColW
InRight(x) == RightColX <= x /\ x < RightColX + RightColW

\* Does y fall in a tile of this height whose top is there?
Within(y, top, h) == top <= y /\ y < top + h

\* Where the right column's i-th tile begins; twelve pixels set the actions off.
RightTop(i) ==
  HEADER_H + i * (TOOL_TILE_H + TILE_GAP) + (IF i < tools THEN 0 ELSE 12)

\* Seeded defect: the scroll position is forgotten.
HitTestUnscrolled(p) ==
  LET rows == {v \in 0 .. Smaller(MaxVisible, boots) - 1 :
                 Within(p[2], HEADER_H + v * (BOOT_TILE_H + TILE_GAP), BOOT_TILE_H)}
      right == {i \in 0 .. RightCount - 1 : Within(p[2], RightTop(i), TOOL_TILE_H)}
  IN  IF InLeft(p[1]) /\ rows # {} THEN <<"left", CHOOSE v \in rows : TRUE>>
      ELSE IF InRight(p[1]) /\ right # {} THEN <<"right", CHOOSE i \in right : TRUE>>
      ELSE NoTile

\* hit_test.
HitTest(p) ==
  LET rows == {v \in 0 .. Smaller(MaxVisible, boots) - 1 :
                 Within(p[2], HEADER_H + v * (BOOT_TILE_H + TILE_GAP), BOOT_TILE_H)}
      right == {i \in 0 .. RightCount - 1 : Within(p[2], RightTop(i), TOOL_TILE_H)}
  IN  IF InLeft(p[1]) /\ rows # {} THEN <<"left", scrollLeft + CHOOSE v \in rows : TRUE>>
      ELSE IF InRight(p[1]) /\ right # {} THEN <<"right", CHOOSE i \in right : TRUE>>
      ELSE NoTile

\* draw_left_column: the systems drawn, each with its top.
LeftTiles(scroll) ==
  {<<b, HEADER_H + (b - scroll) * (BOOT_TILE_H + TILE_GAP)>> :
     b \in scroll .. Smaller(scroll + MaxVisible, boots) - 1}

\* draw_right_column: all of it, from the top.
RightTiles == {<<i, RightTop(i)>> : i \in 0 .. RightCount - 1}

\* The tiles a picture has under a point.
TilesAt(picture, p) ==
     {<<"left", t[1]>> : t \in
        {u \in LeftTiles(picture.scroll) : InLeft(p[1]) /\ Within(p[2], u[2], BOOT_TILE_H)}}
  \cup
     {<<"right", t[1]>> : t \in
        {u \in RightTiles : InRight(p[1]) /\ Within(p[2], u[2], TOOL_TILE_H)}}

\* adjust_scroll, for the column with the selection at i and scrolled by s.
AdjustScroll(i, s) ==
  CASE i < s              -> i
    [] i >= s + MaxVisible -> i + 1 - MaxVisible
    [] OTHER              -> s
-----------------------------------------------------------------------------
(* The countdown and the picture *)

Frame == IF kind = "gui" THEN GuiFrame ELSE TextFrame

ElapsedMs == (elapsed * Frame) % UWrap

Counting == ~interacted /\ timeout > 0

TimeIsUp == Counting /\ ElapsedMs >= timeout

\* countdown_second, or -1.
CountdownSecond ==
  IF Counting THEN Larger(0, timeout - ElapsedMs) \div Second ELSE -1

\* What a repaint puts on the screen.  The footer has the countdown, or else
\* the status of the selected entry.
Picture ==
  [scroll |-> scrollLeft, sel |-> <<selCol, selIdx>>,
   footer |-> CountdownSecond, cursor |-> cursor]

\* The tile of the text menu's k-th line, and of an entry.
TileOf(k) == IF k < boots THEN <<"left", k>> ELSE <<"right", k - boots>>

Selected == IF kind = "gui" THEN <<selCol, selIdx>> ELSE TileOf(selIdx)

\* What the two menus boot when the time is up (select_default_entry and the
\* callers' own choice).
GuiTimeoutEntry == IF default \in 0 .. boots - 1 THEN default ELSE 0
TextTimeoutEntry == IF default # -1 THEN default ELSE selIdx
-----------------------------------------------------------------------------
MenuInit ==
  /\ kind \in {"gui", "text"}
  /\ \E m \in Menus : boots = m[1] /\ tools = m[2] /\ default = m[3]
  /\ height \in Heights
  /\ \E t \in Timeouts : timeout = (IF boots > 0 THEN t ELSE 0)
  /\ at = "new"
  /\ asking = 1
  /\ handles = {}
  /\ pending = [d \in DOMAIN Devices |-> NoReport]
  /\ pointer = <<WIDTH \div 2, height \div 2>>
  /\ buttonDown = FALSE
  /\ selCol = "left" /\ selIdx = 0 /\ scrollLeft = 0 /\ scrollRight = 0
  /\ cursor = pointer
  /\ interacted = FALSE /\ elapsed = 0 /\ dirty = TRUE /\ lastSecond = -1
  /\ shown = Picture
  /\ outcome = NoTile /\ by = <<"none", pointer>>
  /\ touchedAt = Never
  /\ reports = 0

\* InputManager::new.  find_usb_tablet opens the USB handles exclusively, which
\* takes their drivers off; connect_controller puts a driver on every one, and
\* only then are the handles listed.
InputNew ==
  /\ at = "new"
  /\ handles' = DOMAIN Devices
  /\ at' = "top"
  /\ UNCHANGED <<facts, asking, pending, pointer, buttonDown, touchedAt, reports, viewVars,
                 clockVars, endVars>>

\* The menu ends with this tile.
End(tile, how, p) ==
  /\ outcome' = tile
  /\ by' = <<how, p>>
  /\ at' = IF tile[1] = "right" /\ tile[2] >= tools THEN "system" ELSE "booted"

Stay(place) == at' = place /\ UNCHANGED endVars

\* The top of the graphical menu's loop: repaint, then see whether time is up.
GuiTop ==
  /\ at = "top" /\ kind = "gui"
  /\ LET repaint == dirty \/ CountdownSecond # lastSecond
     IN  /\ shown' = IF repaint THEN Picture ELSE shown
         /\ lastSecond' = IF repaint THEN CountdownSecond ELSE lastSecond
  /\ dirty' = FALSE
  /\ IF TimeIsUp THEN End(TileOf(GuiTimeoutEntry), "timeout", cursor) ELSE Stay("poll")
  /\ UNCHANGED <<facts, inputVars, viewVars, interacted, elapsed>>

\* The top of the text menu's loop.
TextTop ==
  /\ at = "top" /\ kind = "text"
  /\ IF TimeIsUp
     THEN /\ End(TileOf(TextTimeoutEntry), "timeout", cursor)
          /\ UNCHANGED shown
     ELSE /\ Stay("poll")
          /\ shown' = IF Counting /\ elapsed % 10 = 0 THEN Picture ELSE shown
  /\ UNCHANGED <<facts, inputVars, viewVars, interacted, elapsed, dirty, lastSecond>>
-----------------------------------------------------------------------------
(* poll asks one device after the other; the first event is the answer *)

Polling == at \in {"poll", "help"}

\* The device asked has nothing, and the next one is asked.
Skip ==
  /\ Polling /\ asking <= Len(Devices)
  /\ asking \notin handles \/ pending[asking] = NoReport
  /\ asking' = asking + 1
  /\ UNCHANGED <<facts, at, handles, pending, pointer, buttonDown, touchedAt, reports, viewVars,
                 clockVars, endVars>>

\* The report of device d is read.
Reads(d) ==
  /\ Polling /\ asking = d /\ d \in handles
  /\ pending[d] # NoReport
  /\ pending' = [pending EXCEPT ![d] = NoReport]

\* Where the pointer is after a report; a mouse reports movements.
Pointed(d) ==
  IF Devices[d] = "mouse" /\ ~pending[d].moved THEN pointer ELSE pending[d].to

Clicks(d) == pending[d].pressed /\ ~buttonDown

\* A tablet or a touch screen reports a movement whether or not it moved.
Moves(d) == ~Clicks(d) /\ (Devices[d] = "mouse" => pending[d].moved)

\* A touch is remembered by the time of the first one.
Touch(real) == touchedAt' = IF real /\ touchedAt = Never THEN elapsed ELSE touchedAt

\* A pointing device's report is read: process_pointer_state and its likes.
ReadsPointer(d) ==
  /\ Reads(d) /\ Devices[d] # "key"
  /\ pointer' = Pointed(d)
  /\ buttonDown' = pending[d].pressed
  /\ Touch(kind = "gui" /\ Clicks(d))
  /\ UNCHANGED <<facts, handles, reports>>

\* A report that is no event: the next device is asked.
PointerRests(d) ==
  /\ ReadsPointer(d)
  /\ ~Clicks(d) /\ ~Moves(d)
  /\ asking' = asking + 1
  /\ UNCHANGED <<at, viewVars, clockVars, endVars>>

\* The text menu and the help screen take no pointer events.
PointerIgnored(d) ==
  /\ ReadsPointer(d)
  /\ Clicks(d) \/ Moves(d)
  /\ kind = "text" \/ at = "help"
  /\ asking' = 1
  /\ at' = IF at = "help" THEN "help" ELSE "top"
  /\ UNCHANGED <<viewVars, clockVars, endVars>>

\* Seeded defect: only the cursor's place is looked at.
HoverMissesSelection(d) ==
  /\ ReadsPointer(d) /\ Moves(d)
  /\ kind = "gui" /\ at = "poll"
  /\ LET hit == HitTest(Pointed(d))
         tile == IF hit = NoTile THEN <<selCol, selIdx>> ELSE hit
     IN  /\ dirty' = (dirty \/ cursor # Pointed(d))
         /\ selCol' = tile[1] /\ selIdx' = tile[2]
  /\ cursor' = Pointed(d)
  /\ asking' = 1
  /\ Stay("top")
  /\ UNCHANGED <<scrollLeft, scrollRight, interacted, elapsed, lastSecond, shown>>

\* InputEvent::MouseMove: what the pointer is over becomes the selection.
Hover(d) ==
  /\ ReadsPointer(d) /\ Moves(d)
  /\ kind = "gui" /\ at = "poll"
  /\ LET hit == HitTest(Pointed(d))
         tile == IF hit = NoTile THEN <<selCol, selIdx>> ELSE hit
     IN  /\ dirty' = (dirty \/ cursor # Pointed(d) \/ tile # <<selCol, selIdx>>)
         /\ selCol' = tile[1] /\ selIdx' = tile[2]
  /\ cursor' = Pointed(d)
  /\ asking' = 1
  /\ Stay("top")
  /\ UNCHANGED <<scrollLeft, scrollRight, interacted, elapsed, lastSecond, shown>>

\* Seeded defect: a click beside the tiles does not stop the countdown.
ClickBeside(d) ==
  /\ ReadsPointer(d) /\ Clicks(d)
  /\ kind = "gui" /\ at = "poll"
  /\ interacted' = (interacted \/ HitTest(Pointed(d)) # NoTile) /\ dirty' = TRUE
  /\ LET hit == HitTest(Pointed(d))
     IN  IF hit = NoTile
         THEN Stay("top") /\ UNCHANGED <<selCol, selIdx>>
         ELSE /\ selCol' = hit[1] /\ selIdx' = hit[2]
              /\ IF hit[1] = "right" \/ hit[2] < boots
                 THEN End(hit, "click", Pointed(d)) ELSE Stay("top")
  /\ asking' = 1
  /\ UNCHANGED <<scrollLeft, scrollRight, cursor, elapsed, lastSecond, shown>>

\* InputEvent::MouseClick.  The cursor stays where it was drawn.
Click(d) ==
  /\ ReadsPointer(d) /\ Clicks(d)
  /\ kind = "gui" /\ at = "poll"
  /\ interacted' = TRUE /\ dirty' = TRUE
  /\ LET hit == HitTest(Pointed(d))
     IN  IF hit = NoTile
         THEN Stay("top") /\ UNCHANGED <<selCol, selIdx>>
         ELSE /\ selCol' = hit[1] /\ selIdx' = hit[2]
              /\ IF hit[1] = "right" \/ hit[2] < boots
                 THEN End(hit, "click", Pointed(d)) ELSE Stay("top")
  /\ asking' = 1
  /\ UNCHANGED <<scrollLeft, scrollRight, cursor, elapsed, lastSecond, shown>>

\* Seeded defect: moving the pointer stops the clock.
QuietUnlessMoved ==
  /\ Polling /\ asking > Len(Devices)
  /\ asking' = 1
  /\ elapsed' = IF Counting /\ at = "poll" /\ pointer[2] = height \div 2
                THEN elapsed + 1 ELSE elapsed
  /\ at' = IF at = "help" THEN "help" ELSE "top"
  /\ UNCHANGED <<facts, handles, pending, pointer, buttonDown, touchedAt, reports, viewVars,
                 interacted, dirty, lastSecond, shown, endVars>>

\* No device had an event: a frame passes.
Quiet ==
  /\ Polling /\ asking > Len(Devices)
  /\ asking' = 1
  /\ elapsed' = IF Counting /\ at = "poll" THEN elapsed + 1 ELSE elapsed
  /\ at' = IF at = "help" THEN "help" ELSE "top"
  /\ UNCHANGED <<facts, handles, pending, pointer, buttonDown, touchedAt, reports, viewVars,
                 interacted, dirty, lastSecond, shown, endVars>>
-----------------------------------------------------------------------------
(* Keys *)

\* uefi_key_to_event has no event for the others.
MappedKeys ==
  {"up", "down", "left", "right", "enter", "escape", "f1", "f2", "f12", "0", "1", "9"}

DigitOf(k) == CASE k = "0" -> 0 [] k = "1" -> 1 [] k = "9" -> 9 [] OTHER -> 10

ReadsKey(d, k) ==
  /\ Reads(d) /\ Devices[d] = "key" /\ pending[d] = KeyReport(k)
  /\ UNCHANGED <<facts, handles, pointer, buttonDown, touchedAt, reports>>

\* A key without an event is lost, and the next keyboard is asked.
KeyUnmapped(d) ==
  /\ \E k \in KeysUsed \ MappedKeys : ReadsKey(d, k)
  /\ asking' = asking + 1
  /\ UNCHANGED <<at, viewVars, clockVars, endVars>>

\* wait_for_key: any key leaves the help screen.
LeaveHelp(d) ==
  /\ at = "help"
  /\ \E k \in KeysUsed \cap MappedKeys : ReadsKey(d, k)
  /\ asking' = 1
  /\ Stay("top")
  /\ UNCHANGED <<viewVars, clockVars>>

Rows == IF selCol = "left" THEN boots ELSE RightCount

\* A new selection in the column.
Select(i) ==
  /\ selIdx' = i
  /\ scrollLeft' = IF selCol = "left" THEN AdjustScroll(i, scrollLeft) ELSE scrollLeft
  /\ scrollRight' = IF selCol = "right" THEN AdjustScroll(i, scrollRight) ELSE scrollRight
  /\ UNCHANGED selCol

\* The other column; the view is not adjusted.
SwitchColumn(col, rows) ==
  /\ selCol' = col
  /\ selIdx' = Smaller(selIdx, Larger(rows - 1, 0))
  /\ UNCHANGED <<scrollLeft, scrollRight>>

\* What a key does in the graphical menu.
GuiKeyDoes(k) ==
  LET unmoved == UNCHANGED <<selCol, selIdx, scrollLeft, scrollRight>>
  IN  CASE k = "up" /\ selIdx > 0              -> Select(selIdx - 1) /\ Stay("top")
        [] k = "down" /\ selIdx + 1 < Rows     -> Select(selIdx + 1) /\ Stay("top")
        [] k = "left" /\ selCol = "right"      -> SwitchColumn("left", boots) /\ Stay("top")
        [] k = "right" /\ selCol = "left"      -> SwitchColumn("right", RightCount) /\ Stay("top")
        [] k = "enter" /\ selIdx < Rows        -> End(<<selCol, selIdx>>, "enter", cursor) /\ unmoved
        [] k = "f2"                            -> End(<<"right", tools>>, "key", cursor) /\ unmoved
        [] k = "f12"                           -> End(<<"right", tools + 1>>, "key", cursor) /\ unmoved
        [] k = "f1"                            -> Stay("help") /\ unmoved
        [] OTHER                               -> Stay("top") /\ unmoved

\* InputEvent::KeyPress in the graphical menu.
GuiKey(d) ==
  /\ kind = "gui" /\ at = "poll"
  /\ \E k \in KeysUsed \cap MappedKeys : ReadsKey(d, k) /\ GuiKeyDoes(k)
  /\ interacted' = TRUE
  /\ dirty' = TRUE
  /\ asking' = 1
  /\ UNCHANGED <<cursor, elapsed, lastSecond, shown>>

\* What a key does in the text menu; up and down redraw it.
TextKeyDoes(k) ==
  LET entries == boots + tools
      select(i) == /\ selIdx' = i
                   /\ shown' = [Picture EXCEPT !.sel = <<"left", i>>, !.footer = -1]
                   /\ Stay("top")
      choose(i) == selIdx' = i /\ End(TileOf(i), "enter", cursor) /\ UNCHANGED shown
      unmoved == UNCHANGED <<selIdx, shown>>
  IN  CASE k = "up"                 -> select(Larger(selIdx - 1, 0))
        [] k = "down"               -> select(Smaller(selIdx + 1, entries + 1))
        [] k = "enter"              -> choose(selIdx)
        [] k = "f2"                 -> End(TileOf(entries), "key", cursor) /\ unmoved
        [] k = "f12"                -> End(TileOf(entries + 1), "key", cursor) /\ unmoved
        [] DigitOf(k) < Smaller(10, entries) ->
             selIdx' = DigitOf(k) /\ End(TileOf(DigitOf(k)), "key", cursor) /\ UNCHANGED shown
        [] OTHER                    -> Stay("top") /\ unmoved

\* InputEvent::KeyPress in the text menu.
TextKey(d) ==
  /\ kind = "text" /\ at = "poll"
  /\ \E k \in KeysUsed \cap MappedKeys : ReadsKey(d, k) /\ TextKeyDoes(k)
  /\ interacted' = TRUE
  /\ asking' = 1
  /\ UNCHANGED <<selCol, scrollLeft, scrollRight, cursor, elapsed, dirty, lastSecond>>
-----------------------------------------------------------------------------
(* The user *)

\* A key waits its turn; a pointing device has only its latest state.
Reports(d) ==
  IF Devices[d] = "key"
  THEN {KeyReport(k) : k \in {j \in KeysUsed : pending[d] = NoReport}}
  ELSE {r \in [to : Points, moved : BOOLEAN, pressed : BOOLEAN] :
          IF Devices[d] = "mouse" THEN r.moved \/ r.to = pointer ELSE r.moved}

\* Between two polls: what arrives during one is as if it came before, or after.
\* In the frame before the top of the loop it comes before the look at the clock.
Arrives(d) ==
  /\ at = "top" \/ Polling
  /\ asking = 1
  /\ reports < MaxReports
  /\ \E r \in Reports(d) :
       /\ pending' = [pending EXCEPT ![d] = r]
       /\ Touch(Devices[d] = "key" /\ r.key \in MappedKeys)
  /\ reports' = reports + 1
  /\ UNCHANGED <<facts, at, asking, handles, pointer, buttonDown, viewVars, clockVars, endVars>>

Asks(d) ==
  \/ PointerRests(d) \/ PointerIgnored(d) \/ Hover(d) \/ Click(d)
  \/ KeyUnmapped(d) \/ LeaveHelp(d) \/ GuiKey(d) \/ TextKey(d)

MenuSteps ==
  \/ InputNew \/ GuiTop \/ TextTop \/ Skip \/ Quiet
  \/ \E d \in DOMAIN Devices : Asks(d)

Over == at \in {"booted", "system"} /\ UNCHANGED menuVars

MenuNext == MenuSteps \/ (\E d \in DOMAIN Devices : Arrives(d)) \/ Over

MenuSpec == MenuInit /\ [][MenuNext]_menuVars /\ WF_menuVars(MenuSteps)
-----------------------------------------------------------------------------
(* Properties *)

\* The selection is always a tile of its column, and the view never begins past
\* the last screenful: so the index arithmetic of Enter and hit_test
\* (sel_idx - tool_entries.len(), boot_entries[idx]) stays in range however keys
\* and pointer alternate (gui.rs 440-482, 506-539).
SelectionInRange ==
  /\ selIdx \in Nat /\ scrollLeft \in Nat
  /\ kind = "gui" /\ selCol = "left" => selIdx <= Larger(boots - 1, 0)
  /\ kind = "gui" /\ selCol = "right" => selIdx < RightCount
  /\ kind = "text" => selIdx < boots + tools + 2
  /\ scrollLeft + Smaller(MaxVisible, boots) <= boots

\* The picture on the screen is the one a repaint would give whenever the menu
\* waits for input, although most frames are not repainted (gui.rs 370-410).
ScreenFresh ==
  at = "poll" =>
    IF kind = "gui" THEN shown = Picture ELSE shown.sel[2] = selIdx

\* The selected system is among the tiles draw_left_column draws.
InView ==
  kind = "gui" /\ selCol = "left" =>
    scrollLeft <= selIdx /\ selIdx < scrollLeft + MaxVisible

\* A selection that is moved is in view; one out of view was out of view before and
\* has not moved.  The left key alone takes a selection out of view: it carries the
\* row over into a column that may be scrolled elsewhere (gui.rs 454-457).
ViewFollows ==
  InView' \/ (~InView /\ selIdx' = selIdx) \/ (selCol = "right" /\ selCol' = "left")

\* The screen shows the selection there is, after every step: it is a tile of the
\* menu, whenever the menu waits the picture is the one a repaint would give, and
\* the view follows the selection, but for the left key.
SelectionShown == [][SelectionInRange' /\ ScreenFresh' /\ ViewFollows]_menuVars

\* What is booted is what the screen had: the highlighted line for Enter, the tile
\* drawn under the pointer for a click (gui.rs 462-482, 514-539; hit_test and
\* draw_left_column, draw_right_column each compute the places of the tiles).
ChosenAsShown ==
  at \in {"booted", "system"} =>
    /\ by[1] = "enter" =>
         outcome = (IF kind = "gui" THEN shown.sel ELSE TileOf(shown.sel[2]))
    /\ by[1] = "click" => TilesAt(shown, by[2]) = {outcome}

\* A key that stops the countdown waits at a keyboard.
KeyWaits ==
  \E d \in DOMAIN Devices :
    Devices[d] = "key" /\ \E k \in MappedKeys : pending[d] = KeyReport(k)

\* Time decides only when the frames that passed are worth the timeout and the user
\* has neither pressed a key nor clicked: no report of a pointer that comes first
\* and no click beside the tiles lets the countdown run on.  A press in the very
\* last frame, which poll has not been asked for yet, comes too late (gui.rs
\* 412-431, console.rs 65-88, input.rs poll).
TimeoutOnlyUntouched ==
  by[1] = "timeout" =>
    /\ timeout > 0 /\ elapsed * Frame >= timeout
    /\ touchedAt # Never => touchedAt = elapsed /\ KeyWaits

\* An unattended menu with a timeout boots something in the end: reports of the
\* pointer delay it and no more (gui.rs 495-496, 540-543).
AutoBoots ==
  timeout > 0 ~> (interacted \/ at = "booted")
=============================================================================
