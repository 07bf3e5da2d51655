------------------------------- MODULE MCUse --------------------------------
(* What meets the hardware and the user, for TLC.  One component at a time  *)
(* is examined: the one in `sight`; the others stay as they begin.          *)
EXTENDS MCLoader, Use

CONSTANT shell

\* The entries of /boot.
Entries == <<"dir", "exe", "other", "exe">>

\* Six keys, one of them extended.
Down(k) == [key |-> k, up |-> FALSE]
Typed == {Down(k) : k \in {"a", "E0", "8", "\n", "bs", "\t", "shift"}}
Known == {<<"a", "b">>, <<"8">>}
Done == {<<"a", "b">>}

\* Two title bars, a close button, Start, a button, a pinned app and an icon;
\* a row of points across the taskbar.
Spots == {<<300, 50>>, <<1040, 82>>, <<1600, 60>>, <<830, 1040>>, <<900, 1040>>,
          <<700, 500>>, <<40, 40>>}
Probes == {<<22 * i, 1050>> : i \in 33..55}

bVars == <<bPc, page, base, held, bDir, files, room, map, key, tries, step, flag, lines,
           handler, served>>

cVars == <<s_ring, s_head, s_tail, mode, sent, due, lost, cPc, ch, line, pos,
           hist, hist_count, hist_head, entered, scr>>

dVars == <<dRing, s_x, s_y, dSent, button, dPc, packet, windows, menuOpen, pointer, drag, dHeld>>

UseInit ==
  /\ sight \in {"boot", "console", "desktop", "programs"}
  /\ Init /\ B!Init /\ C!Init /\ D!Init

UseNext ==
  /\ UNCHANGED sight
  /\ \/ sight = "boot" /\ B!Next /\ UNCHANGED <<vars, cVars, dVars>>
     \/ sight = "console" /\ C!Next /\ UNCHANGED <<vars, bVars, dVars>>
     \/ sight = "desktop" /\ D!Next /\ UNCHANGED <<vars, bVars, cVars>>
     \/ sight = "programs" /\ Next /\ UNCHANGED <<bVars, cVars, dVars>>

UseSpec == UseInit /\ [][UseNext]_<<sight, vars, bVars, cVars, dVars>>
=============================================================================
