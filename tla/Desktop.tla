------------------------------ MODULE Desktop ------------------------------
(* The desktop under the mouse: the packets of the mouse's interrupt, the   *)
(* loop of PumpInteractiveInput that takes them one by one with the current *)
(* position, the hit test, and what a click or a drag does to the windows.  *)
(* StartDesktop's painting is the order of the things it paints.  Points    *)
(* are <<x, y>>; indices count from 1.                                      *)
EXTENDS Integers, Sequences, SequencesExt

CONSTANTS
    Spot,               \* points the mouse moves to
    Probe,              \* points where painting and hit test are compared
    Packets,            \* how many packets the mouse sends (bound)
    MaxWindows,         \* of the layout: 8
    RING,               \* slots of the mouse's s_ring
    ScreenW, ScreenH

VARIABLES
    s_ring, s_x, s_y, sent,    \* mouse.cpp
    button,                    \* is the button down (ghost)
    pc, packet,                \* the loop's place; packet, mx and my
    windows, open,             \* s_desktop_layout: windows, StartMenuOpen and its copies
    pointer, drag,             \* s_pointer_state, s_dragging and s_drag_*
    held                       \* the window that was pressed (ghost)

mouse == <<s_ring, s_x, s_y, sent, button>>
vars == <<mouse, pc, packet, windows, open, pointer, drag, held>>

----------------------------------------------------------------------------
\* desktopmodel.cpp: the layout the session begins with.
ShellWindow(t, x, y, w, h) == [Title |-> t, X |-> x, Y |-> y, Width |-> w, Height |-> h]

BuildXpRedesignLayout ==
    << ShellWindow("My Computer", 228, 38, 665, 430),
       ShellWindow("Documents", 1015, 58, 620, 365),
       ShellWindow("Network", 645, 420, 575, 290),
       ShellWindow("Control Panel", 1238, 420, 600, 360),
       ShellWindow("Media Player", 430, 708, 720, 260) >>

Icons == <<"Computer", "Documents", "Network", "Media", "Control", "Recycle">>

ButtonW == 44
Slot == ButtonW + 6

ComputeTaskbar(n) ==
    LET cluster == (n + 1) * ButtonW + n * 6
        x == IF ScreenW > cluster THEN (ScreenW - cluster) \div 2 ELSE 0
        tray == IF ScreenW >= 640 THEN 200 ELSE 120
    IN  [Y |-> ScreenH - (IF ScreenH >= 720 THEN 48 ELSE 40),
         StartX |-> x, FirstButtonX |-> x + Slot,
         TrayX |-> IF ScreenW > tray THEN ScreenW - tray ELSE 0]

Bar(ws) == ComputeTaskbar(Len(ws))

InRect(p, x, y, w, h) == p[1] >= x /\ p[2] >= y /\ p[1] < x + w /\ p[2] < y + h

MenuX == IF ScreenW > 640 THEN (ScreenW - 640) \div 2 ELSE 0
MenuY(ws) == IF Bar(ws).Y > 732 THEN Bar(ws).Y - 732 ELSE 0
InMenu(p, ws) == InRect(p, MenuX, MenuY(ws), 640, 720)

----------------------------------------------------------------------------
\* shellinput.cpp: what is under the pointer.
Last1(S) == CHOOSE i \in S : \A j \in S : j <= i

\* Mutant: the buttons are looked for from the Start button on.
HitTaskbarStart(p, ws) ==
    LET b == Bar(ws) IN
    IF p[1] >= b.StartX /\ p[1] < b.StartX + ButtonW THEN <<"StartButton", 1>>
    ELSE IF p[1] >= b.TrayX THEN <<"Tray", 1>>
    ELSE IF p[1] >= b.StartX /\ p[1] < b.StartX + Len(ws) * Slot
         THEN <<"Taskbar", (p[1] - b.StartX) \div Slot + 1>>
         ELSE <<"Taskbar", 1>>

HitTaskbar(p, ws) ==
    LET b == Bar(ws) IN
    IF p[1] >= b.StartX /\ p[1] < b.StartX + ButtonW THEN <<"StartButton", 1>>
    ELSE IF p[1] >= b.TrayX THEN <<"Tray", 1>>
    ELSE IF p[1] >= b.FirstButtonX /\ p[1] < b.FirstButtonX + Len(ws) * Slot
         THEN <<"Taskbar", (p[1] - b.FirstButtonX) \div Slot + 1>>
         ELSE <<"Taskbar", 1>>

HitMenu(p, ws) ==
    <<"StartMenu", IF p[2] > MenuY(ws) + 120
                   THEN (p[2] - MenuY(ws) - 120) \div 96 + 1 ELSE 1>>

OnClose(p, w) == InRect(p, w.X + w.Width - 46, w.Y, 46, 32)
OnWindow(p, w) == OnClose(p, w) \/ InRect(p, w.X, w.Y, w.Width, w.Height)
OnIcon(p, i) == InRect(p, 18, 14 + (i - 1) * 92, 96, 84)

ResolveHitTarget(p, ws, menu) ==
    LET under == {i \in DOMAIN ws : OnWindow(p, ws[i])}
        icons == {i \in DOMAIN Icons : OnIcon(p, i)}
    IN  IF p[2] >= Bar(ws).Y THEN HitTaskbar(p, ws)
        ELSE IF menu /\ InMenu(p, ws) THEN HitMenu(p, ws)
        ELSE IF under # {} THEN <<IF OnClose(p, ws[Last1(under)]) THEN "WindowClose"
                                  ELSE "ShellWindow", Last1(under)>>
        ELSE IF icons # {} THEN <<"DesktopIcon", Last1(icons)>>
        ELSE <<"Desktop", 1>>

----------------------------------------------------------------------------
\* vga.cpp: what StartDesktop paints at a point; the Terminal comes last.
Terminal ==
    LET x == IF ScreenW >= 1280 THEN 210 ELSE 96 IN
    ShellWindow("Terminal", x, IF ScreenH >= 900 THEN 540 ELSE 360,
                IF ScreenW >= 1280 THEN 760 ELSE ScreenW - x - 24,
                IF ScreenH >= 900 THEN 360 ELSE 290)

\* A window that would leave the screen is painted inside it.
Painted(w, ws) ==
    LET within(at, size, end) ==
            IF at + size < end THEN at
            ELSE IF end > size + 18 THEN end - size - 18 ELSE 12
    IN  [w EXCEPT !.X = within(w.X, w.Width, ScreenW),
                  !.Y = within(w.Y, w.Height, Bar(ws).Y)]

PaintedBar(p, ws) ==
    LET b == Bar(ws)
        buttons == {i \in DOMAIN ws : LET x == b.FirstButtonX + (i - 1) * Slot IN
                                      p[1] >= x /\ p[1] < x + ButtonW}
    IN  IF buttons # {} THEN <<"Taskbar", Last1(buttons)>>
        ELSE IF p[1] >= b.StartX /\ p[1] < b.StartX + ButtonW THEN <<"StartButton", 1>>
        ELSE <<"bar", 1>>

StartDesktop(p, ws, menu) ==
    LET under == {i \in DOMAIN ws : OnWindow(p, Painted(ws[i], ws))}
        icons == {i \in DOMAIN Icons : OnIcon(p, i)}
    IN  IF OnWindow(p, Terminal) THEN <<"Terminal", 1>>
        ELSE IF menu /\ InMenu(p, ws) THEN <<"StartMenu", 1>>
        ELSE IF p[2] >= Bar(ws).Y THEN PaintedBar(p, ws)
        ELSE IF under # {} THEN <<"Window", Last1(under)>>
        ELSE IF icons # {} THEN <<"DesktopIcon", Last1(icons)>>
        ELSE <<"Desktop", 1>>

----------------------------------------------------------------------------
\* What a click does.
OpenWindow(ws, title) ==
    LET kept == IF Len(ws) >= MaxWindows THEN Tail(ws) ELSE ws IN
    Append(kept, ShellWindow(title, 320 + 28 * Len(kept), 140 + 28 * Len(kept), 560, 360))

CloseWindow(ws, i) == IF i > Len(ws) THEN ws ELSE RemoveAt(ws, i)

\* To the top, that is to the end.
FocusWindow(ws, i) == IF i >= Len(ws) THEN ws ELSE Append(RemoveAt(ws, i), ws[i])

kStartApps ==
    <<"Edge", "Files", "Settings", "Store", "Photos", "Mail", "Notepad", "Terminal">>

HandleShellClick(target) ==
    LET kind == target[1]
        i == target[2] IN
    /\ windows' = CASE kind = "StartMenu"   -> OpenWindow(windows, kStartApps[i])
                    [] kind = "DesktopIcon" -> OpenWindow(windows, Icons[i])
                    [] kind = "WindowClose" -> CloseWindow(windows, i)
                    [] kind \in {"ShellWindow", "Taskbar"} -> FocusWindow(windows, i)
                    [] OTHER -> windows
    /\ open' = CASE kind = "StartButton" -> ~open
                 [] kind = "StartMenu"   -> FALSE
                 [] OTHER -> open

----------------------------------------------------------------------------
NoDrag == [on |-> FALSE, win |-> 1, dx |-> 0, dy |-> 0]

\* ClickPointer at the second window ends the start of the session.
Init == /\ s_ring = <<>> /\ s_x = 1700 /\ s_y = 560 /\ sent = 0 /\ button = FALSE
        /\ pc = "read" /\ packet = [left |-> FALSE, x |-> 0]
        /\ windows = BuildXpRedesignLayout /\ open = FALSE
        /\ pointer = [at |-> <<1040, 82>>, down |-> FALSE,
                      target |-> ResolveHitTarget(<<1040, 82>>, windows, open)]
        /\ drag = NoDrag /\ held = "nothing"

Clamp(v, size) == IF v > size THEN size ELSE v

\* The interrupt of a packet's third byte; a full ring drops the packet.
ApplyPacket(p, left) ==
    /\ sent < Packets /\ sent' = sent + 1 /\ button' = left
    /\ s_x' = Clamp(p[1], ScreenW - 24) /\ s_y' = Clamp(p[2], ScreenH - 32)
    /\ s_ring' = IF Len(s_ring) = RING - 1 THEN s_ring ELSE Append(s_ring, left)
    /\ UNCHANGED <<pc, packet, windows, open, pointer, drag, held>>

TryRead ==
    /\ pc = "read" /\ s_ring # <<>> /\ pc' = "x"
    /\ packet' = [packet EXCEPT !.left = Head(s_ring)] /\ s_ring' = Tail(s_ring)
    /\ UNCHANGED <<s_x, s_y, sent, button, windows, open, pointer, drag, held>>

\* CurrentPosition: s_x here, s_y with what follows.
CurrentPosition ==
    /\ pc = "x" /\ pc' = "y" /\ packet' = [packet EXCEPT !.x = s_x]
    /\ UNCHANGED <<mouse, windows, open, pointer, drag, held>>

ProcessPointer ==
    /\ pc = "y" /\ pc' = "read"
    /\ LET p == <<packet.x, s_y>> IN
       pointer' = [at |-> p, down |-> packet.left,
                   target |-> ResolveHitTarget(p, windows, open)]
    /\ UNCHANGED <<mouse, packet>>

AtLeast0(v) == IF v > 0 THEN v ELSE 0

Drag ==
    /\ drag.on /\ ProcessPointer
    /\ IF packet.left /\ drag.win <= Len(windows)
       THEN /\ windows' = [windows EXCEPT ![drag.win].X = AtLeast0(packet.x - drag.dx),
                                          ![drag.win].Y = AtLeast0(s_y - drag.dy)]
            /\ UNCHANGED <<drag, held>>
       ELSE drag' = NoDrag /\ held' = "nothing" /\ UNCHANGED windows
    /\ UNCHANGED open

OnTitle(target, y) ==
    /\ target[1] = "ShellWindow" /\ target[2] <= Len(windows)
    /\ y < windows[target[2]].Y + 32

Pressed == ~pointer.down /\ packet.left /\ OnTitle(pointer'.target, s_y)

\* Mutant: the window is dragged by the index it had before it was raised.
GrabBefore ==
    /\ ~drag.on /\ ProcessPointer /\ Pressed
    /\ LET i == pointer'.target[2] IN
       /\ windows' = FocusWindow(windows, i) /\ held' = windows[i].Title
       /\ drag' = [on |-> TRUE, win |-> i, dx |-> packet.x - windows[i].X,
                   dy |-> s_y - windows[i].Y]
    /\ UNCHANGED open

Grab ==
    /\ ~drag.on /\ ProcessPointer /\ Pressed
    /\ LET i == pointer'.target[2] IN
       /\ windows' = FocusWindow(windows, i) /\ held' = windows[i].Title
       /\ drag' = [on |-> TRUE, win |-> Len(windows),
                   dx |-> packet.x - Last(windows').X, dy |-> s_y - Last(windows').Y]
    /\ UNCHANGED open

\* A click is the release of the button.
Click ==
    /\ ~drag.on /\ ProcessPointer /\ ~Pressed
    /\ IF pointer.down /\ ~packet.left THEN HandleShellClick(pointer'.target)
       ELSE UNCHANGED <<windows, open>>
    /\ UNCHANGED <<drag, held>>

Next == \/ \E p \in Spot, left \in BOOLEAN : ApplyPacket(p, left)
        \/ TryRead \/ CurrentPosition \/ Drag \/ Grab \/ Click

Spec == Init /\ [][Next]_vars

----------------------------------------------------------------------------
(* While a window is dragged, the window that moves is the one that was     *)
(* pressed, and the pointer stays at the point of it where it was pressed,  *)
(* but for the upper and left edges of the screen.                          *)
DragHolds ==
    drag.on => /\ drag.win \in DOMAIN windows
               /\ windows[drag.win].Title = held
               /\ windows[drag.win].X = AtLeast0(pointer.at[1] - drag.dx)
               /\ windows[drag.win].Y = AtLeast0(pointer.at[2] - drag.dy)

(* The Start button and the buttons of the taskbar answer where they are    *)
(* painted, for the windows open now: desktopmodel.h says of their measures *)
(* that renderer and hit test "never disagree".                             *)
TaskbarAgrees ==
    \A p \in Probe : p[2] >= Bar(windows).Y =>
        LET shown == StartDesktop(p, windows, open) IN
        shown[1] \in {"StartButton", "Taskbar"} =>
            ResolveHitTarget(p, windows, open) = shown

(* The window under a click is the window painted there; not so with the    *)
(* Terminal and with windows moved past the edge.                           *)
ClickIsShown ==
    \A p \in Probe :
        LET hit == ResolveHitTarget(p, windows, open) IN
        hit[1] \in {"ShellWindow", "WindowClose"} =>
            StartDesktop(p, windows, open) = <<"Window", hit[2]>>

(* With the button up and no packet waiting nothing is dragged; not so when *)
(* the release met a full ring.                                             *)
DragEnds == (s_ring = <<>> /\ pc = "read" /\ drag.on) => button
=============================================================================
