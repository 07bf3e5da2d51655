-------------------------------- MODULE Use ---------------------------------
(***************************************************************************)
(* What meets the hardware and the user: the start of programs, the boot   *)
(* loader up to the kernel's first interrupts, the console with its line   *)
(* editor, and the desktop under the mouse.  They share no state, so each  *)
(* has constants and variables of its own, and a behaviour may show one of *)
(* them only: the one in `sight`, which then is all a property looks at.   *)
(***************************************************************************)
EXTENDS Loader

CONSTANTS
  Top, Fixed, Linked, Firmware, Pool, Dir, FILES_MAX, Slack, Attempts, Below4G, FlagAtEntry

VARIABLES
  bPc, page, base, held, bDir, files, room, map, key, tries, step, flag, lines, handler, served

B == INSTANCE Bootloader WITH
  Mapped <- Below4G, pc <- bPc, dir <- bDir, current <- key, k <- step, open <- lines

CONSTANTS
  Reader, Code, Keys, RING, Cols, Rows, Indent, MaxLine, HIST_N, HIST_MAX, Commands,
  Handled, Texts

VARIABLES
  s_ring, s_head, s_tail, mode, sent, due, lost, cPc, ch, line, pos,
  hist, hist_count, hist_head, entered, scr

C == INSTANCE Console WITH pc <- cPc

CONSTANTS
  Spot, Probe, Packets, MaxWindows, MouseRing, ScreenW, ScreenH

VARIABLES
  dRing, s_x, s_y, dSent, button, dPc, packet, windows, menuOpen, pointer, drag, dHeld

D == INSTANCE Desktop WITH
  RING <- MouseRing, s_ring <- dRing, sent <- dSent, pc <- dPc, open <- menuOpen, held <- dHeld

VARIABLE sight

-----------------------------------------------------------------------------
(* What Bootloader, Console and Desktop promise, by the same names.        *)

\* The kernel gets a map in which nothing it uses is free.
HandOff == sight = "boot" => B!HandOff

\* No interrupt comes that nothing is there for.
InterruptsServed == sight = "boot" => B!InterruptsServed

\* Each key reaches one line, once, in the order of typing.
KeysOnce == sight = "console" => C!KeysOnce

\* The arrows bring back the last lines, the newest first.
HistoryNewest == sight = "console" => C!HistoryNewest

\* While the button is down, the window that was pressed is the one that moves.
DragHolds == sight = "desktop" => D!DragHolds

\* A click on the taskbar hits the button that is painted there.
TaskbarAgrees == sight = "desktop" => D!TaskbarAgrees
=============================================================================
