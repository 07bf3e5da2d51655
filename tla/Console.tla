------------------------------ MODULE Console ------------------------------
(* The text console: the keyboard's interrupt handler and its ring, the     *)
(* line editor of NT_READ_LINE with its history and completion, and the     *)
(* cells PutChar, PrintUser and the memory bar write.  Row 0 is the header  *)
(* and the last row the status bar; between them text scrolls.  A character *)
(* is a string; a scan code is the key's unshifted character and whether    *)
(* the key goes up.  Programs that print come in at any time.               *)
EXTENDS Naturals, Sequences, SequencesExt

CONSTANTS
    Reader,     \* threads inside NT_READ_LINE
    Code,       \* scan codes the keyboard sends
    Keys,       \* how many it sends (bound)
    RING,       \* slots of s_ring
    Cols, Rows, \* of the screen
    Indent,     \* width of the prompt
    MaxLine,    \* maxlen
    HIST_N, HIST_MAX,
    Commands,   \* s_cmds of the completion
    Handled,    \* lines the kernel answers itself: ps, kill, bg, winexec, ...
    Texts       \* what programs may print: sequences, "clear" or "Memory"

VARIABLES
    s_ring, s_head, s_tail, mode, sent,  \* keyboard.cpp
    due, lost,        \* keys accepted and not yet taken; one taken wrongly (ghosts)
    pc, ch, line, pos,                   \* the editor of each reader
    hist, hist_count, hist_head,         \* the history, shared
    entered,          \* the last HIST_N lines that differ from the one before (ghost)
    scr               \* cells, row and column

keyboard == <<s_ring, s_head, s_tail, mode, sent, due, lost>>
history == <<hist, hist_count, hist_head, entered>>
editor == <<pc, ch, line, pos>>
vars == <<keyboard, editor, history, scr>>

----------------------------------------------------------------------------
\* The screen.
Row == 0..(Rows - 1)
Col == 0..(Cols - 1)
MaxRow == IF Rows > 1 THEN Rows - 2 ELSE 1

Blank == [c \in Col |-> " "]
Filled(text) == [c \in Col |-> IF c < Len(text) THEN text[c + 1] ELSE " "]

SetCell(s, r, c, x) ==
    IF r \in Row /\ c \in Col THEN [s EXCEPT !.cell[r][c] = x] ELSE s

SetRow(s, r, x) == IF r \in Row THEN [s EXCEPT !.cell[r] = x] ELSE s

Scroll(s) ==
    [s EXCEPT !.row = MaxRow,
              !.cell = [r \in Row |-> CASE r = MaxRow -> Blank
                                        [] r \in 1..(MaxRow - 1) -> s.cell[r + 1]
                                        [] OTHER -> s.cell[r]]]

\* Mutant: the row may go one further before the text scrolls.
NewLineLate(s) ==
    IF s.row > MaxRow THEN Scroll(s) ELSE [s EXCEPT !.row = @ + 1]

NewLine(s) ==
    IF s.row + 1 > MaxRow THEN Scroll(s) ELSE [s EXCEPT !.row = @ + 1]

PutChar(s, x) ==
    CASE x = "bs" -> IF s.col = 0 THEN s
                     ELSE [SetCell(s, s.row, s.col - 1, " ") EXCEPT !.col = @ - 1]
      [] x = "\n" -> NewLine([s EXCEPT !.col = 0])
      [] OTHER    -> LET w == SetCell(s, s.row, s.col, x) IN
                     IF s.col + 1 >= Cols THEN NewLine([w EXCEPT !.col = 0])
                                          ELSE [w EXCEPT !.col = @ + 1]

PutAll(s, text) == FoldLeft(PutChar, s, text)

Clamp(s) == IF s.row > MaxRow THEN Scroll(s) ELSE s

\* The prompt stays on its row; any other text has a row of its own.
Prompt(s) == [SetRow(Clamp(s), Clamp(s).row, Filled(<<"u", ">">>))
                 EXCEPT !.col = Indent]

\* Each row of the memory bar scrolls before it is written, not after.
TryDrawMemBar(s) ==
    LET bar(t, i) == [SetRow(Clamp(t), Clamp(t).row, Filled(<<"m">>))
                         EXCEPT !.row = @ + 1]
    IN  [FoldLeft(bar, s, <<1, 2, 3>>) EXCEPT !.col = 0]

ClearScreen(s) ==
    [cell |-> [r \in Row |-> IF r = 0 THEN s.cell[0] ELSE Blank],
     row |-> 1, col |-> 0]

PrintUser(s, text) ==
    CASE text = "clear"  -> ClearScreen(s)
      [] text = "Memory" -> TryDrawMemBar(Clamp(s))
      [] OTHER -> NewLine([SetRow(Clamp(s), Clamp(s).row, Filled(<<text>>))
                              EXCEPT !.col = 0])

UpdateStatusBar(s) ==
    [s EXCEPT !.cell[0] = [c \in Col |-> "header"],
              !.cell[Rows - 1] = [c \in Col |-> "status"]]

----------------------------------------------------------------------------
\* The keyboard.
None == <<>>
Letter == {"a", "b"}
Shifted(x) == CASE x = "a" -> "A" [] x = "b" -> "B" [] x = "1" -> "!" [] OTHER -> x

Arrow(x) == CASE x = "8" -> "up" [] x = "2" -> "down" [] x = "4" -> "left"
              [] x = "6" -> "right" [] OTHER -> "no key"

\* Mutant: a full ring is not looked for.
PushAlways(x) ==
    /\ s_ring' = [s_ring EXCEPT ![s_tail] = x]
    /\ s_tail' = (s_tail + 1) % RING
    /\ due' = Append(due, x)

Push(x) ==
    LET next == (s_tail + 1) % RING IN
    IF next = s_head THEN UNCHANGED <<s_ring, s_tail, due>>
    ELSE /\ s_ring' = [s_ring EXCEPT ![s_tail] = x]
         /\ s_tail' = next
         /\ due' = Append(due, x)

HandleIrq(c) ==
    /\ sent < Keys /\ sent' = sent + 1
    /\ IF c.key = "E0"
       THEN mode' = [mode EXCEPT !.ext = TRUE] /\ UNCHANGED <<s_ring, s_tail, due>>
       ELSE IF mode.ext
       THEN /\ mode' = [mode EXCEPT !.ext = FALSE]
            /\ IF c.up \/ Arrow(c.key) = "no key"
               THEN UNCHANGED <<s_ring, s_tail, due>> ELSE Push(Arrow(c.key))
       ELSE IF c.key = "shift"
       THEN mode' = [mode EXCEPT !.shift = ~c.up] /\ UNCHANGED <<s_ring, s_tail, due>>
       ELSE IF c.key = "caps" /\ ~c.up
       THEN mode' = [mode EXCEPT !.caps = ~@] /\ UNCHANGED <<s_ring, s_tail, due>>
       ELSE /\ UNCHANGED mode
            /\ IF c.up \/ c.key = "caps" THEN UNCHANGED <<s_ring, s_tail, due>>
               ELSE Push(IF mode.shift # (c.key \in Letter /\ mode.caps)
                         THEN Shifted(c.key) ELSE c.key)
    /\ UNCHANGED <<s_head, lost, editor, history, scr>>

\* TryRead: the character, then the head, with interrupts on between.
TryRead(r) ==
    /\ pc[r] = "edit" /\ s_head # s_tail
    /\ ch' = [ch EXCEPT ![r] = s_ring[s_head]]
    /\ pc' = [pc EXCEPT ![r] = "advance"]
    /\ UNCHANGED <<keyboard, line, pos, history, scr>>

Advance(r) ==
    /\ pc[r] = "advance" /\ pc' = [pc EXCEPT ![r] = "key"]
    /\ s_head' = (s_head + 1) % RING
    /\ lost' = (lost \/ due = <<>> \/ (due # <<>> /\ Head(due) # ch[r]))
    /\ due' = IF due = <<>> THEN due ELSE Tail(due)
    /\ UNCHANGED <<s_ring, s_tail, mode, sent, ch, line, pos, history, scr>>

----------------------------------------------------------------------------
\* The line editor.
Cut(l) == SubSeq(l, 1, IF Len(l) < HIST_MAX - 1 THEN Len(l) ELSE HIST_MAX - 1)

HistGet(back) ==
    IF back = 0 \/ back > hist_count THEN None
    ELSE hist[(hist_head + HIST_N - back) % HIST_N]

\* Mutant: the count stops the ring.
HistAddFull(l) ==
    IF l = <<>> \/ HistGet(1) = l \/ hist_count = HIST_N
    THEN UNCHANGED <<hist, hist_count, hist_head>>
    ELSE /\ hist' = [hist EXCEPT ![hist_head] = Cut(l)]
         /\ hist_head' = (hist_head + 1) % HIST_N
         /\ hist_count' = hist_count + 1

HistAdd(l) ==
    IF l = <<>> \/ HistGet(1) = l THEN UNCHANGED <<hist, hist_count, hist_head>>
    ELSE /\ hist' = [hist EXCEPT ![hist_head] = Cut(l)]
         /\ hist_head' = (hist_head + 1) % HIST_N
         /\ hist_count' = IF hist_count < HIST_N THEN hist_count + 1 ELSE HIST_N

\* The one command that goes on from l, or none.
TabComplete(l) ==
    LET further == {c \in Commands : IsStrictPrefix(l, c)} IN
    IF \E c \in further : further = {c} THEN CHOOSE c \in further : TRUE ELSE l

Erased(n) == [i \in 1..n |-> "bs"]

Init == /\ s_ring = [i \in 0..(RING - 1) |-> " "] /\ s_head = 0 /\ s_tail = 0
        /\ mode = [ext |-> FALSE, shift |-> FALSE, caps |-> FALSE] /\ sent = 0
        /\ due = <<>> /\ lost = FALSE
        /\ pc = [r \in Reader |-> "shell"] /\ ch = [r \in Reader |-> " "]
        /\ line = [r \in Reader |-> <<>>] /\ pos = [r \in Reader |-> 0]
        /\ hist = [i \in 0..(HIST_N - 1) |-> <<>>]
        /\ hist_count = 0 /\ hist_head = 0 /\ entered = <<>>
        /\ scr = UpdateStatusBar([cell |-> [r \in Row |-> Blank], row |-> 1, col |-> 0])

\* The shell prints its prompt and asks for a line.
ReadLine(r) ==
    /\ pc[r] = "shell" /\ pc' = [pc EXCEPT ![r] = "edit"]
    /\ line' = [line EXCEPT ![r] = <<>>] /\ pos' = [pos EXCEPT ![r] = 0]
    /\ scr' = Prompt(scr)
    /\ UNCHANGED <<keyboard, ch, history>>

\* The line shown is erased and another written, as far as there is room.
Replace(r, new) ==
    LET fit == SubSeq(new, 1, IF Len(new) < MaxLine THEN Len(new) ELSE MaxLine) IN
    /\ line' = [line EXCEPT ![r] = fit]
    /\ scr' = PutAll(scr, Erased(Len(line[r])) \o fit)

\* A full line ends as if Enter had come.
After(r) == pc' = [pc EXCEPT ![r] = IF Len(line'[r]) >= MaxLine THEN "enter" ELSE "edit"]

EditKey(r) ==
    /\ pc[r] = "key"
    /\ LET x == ch[r]
           l == line[r]
           up == IF x = "up" THEN pos[r] + 1
                 ELSE IF pos[r] = 0 THEN 0 ELSE pos[r] - 1 IN
       \/ /\ x = "\n"
          /\ scr' = PutChar(scr, x) /\ pc' = [pc EXCEPT ![r] = "enter"]
          /\ UNCHANGED <<line, pos>>
       \/ /\ x = "bs" /\ l # <<>>
          /\ line' = [line EXCEPT ![r] = Front(l)] /\ scr' = PutChar(scr, x)
          /\ pc' = [pc EXCEPT ![r] = "edit"] /\ UNCHANGED pos
       \/ /\ x = "\t"
          /\ LET c == TabComplete(l)
                 to == IF Len(c) < MaxLine THEN Len(c) ELSE MaxLine IN
             /\ line' = [line EXCEPT ![r] = SubSeq(c, 1, to)]
             /\ scr' = PutAll(scr, SubSeq(c, Len(l) + 1, to))
          /\ After(r) /\ UNCHANGED pos
       \/ /\ x \in {"up", "down"} /\ (up = 0 \/ HistGet(up) # None)
          /\ pos' = [pos EXCEPT ![r] = up]
          /\ Replace(r, HistGet(up)) /\ After(r)
       \/ /\ \/ x = "bs" /\ l = <<>>
             \/ x \in {"up", "down"} /\ up # 0 /\ HistGet(up) = None
          /\ pc' = [pc EXCEPT ![r] = "edit"]
          /\ UNCHANGED <<line, pos, scr>>
       \/ /\ x \notin {"\n", "bs", "\t", "up", "down"}
          /\ line' = [line EXCEPT ![r] = Append(l, x)] /\ scr' = PutChar(scr, x)
          /\ After(r) /\ UNCHANGED pos
    /\ UNCHANGED <<keyboard, ch, history>>

\* What the kernel prints when it has done a command itself.
Reply == <<"!", "\n">>

\* The line goes to the history, and to the shell unless the kernel does it.
EndLine(r) ==
    /\ pc[r] = "enter" /\ pc' = [pc EXCEPT ![r] = "shell"]
    /\ HistAdd(line[r])
    /\ entered' = IF line[r] = <<>> \/ (entered # <<>> /\ Last(entered) = line[r])
                  THEN entered
                  ELSE LET e == Append(entered, Cut(line[r])) IN
                       IF Len(e) > HIST_N THEN Tail(e) ELSE e
    /\ scr' = IF line[r] \in Handled THEN PutAll(scr, Reply) ELSE scr
    /\ UNCHANGED <<keyboard, ch, line, pos>>

\* A program prints, the shell or another; the timer redraws the bars.
Program ==
    /\ \/ \E t \in Texts : scr' = PrintUser(scr, t)
       \/ scr' = UpdateStatusBar(scr)
    /\ UNCHANGED <<keyboard, editor, history>>

Edit(r) == TryRead(r) \/ Advance(r) \/ ReadLine(r) \/ EditKey(r) \/ EndLine(r)

Next == Program \/ (\E c \in Code : HandleIrq(c)) \/ \E r \in Reader : Edit(r)

Spec == Init /\ [][Next]_vars

----------------------------------------------------------------------------
(* Every key the ring took is given to the reader once, in the order the    *)
(* keys came; a full ring drops the key that comes, never an earlier one.   *)
KeysOnce ==
    /\ ~lost
    /\ Len(due) = (s_tail + RING - s_head) % RING
    /\ \A i \in 1..Len(due) : s_ring[(s_head + i - 1) % RING] = due[i]

(* The arrow keys bring back the last HIST_N lines entered, newest first,   *)
(* without the repetitions.                                                 *)
HistoryNewest ==
    \A back \in 1..(HIST_N + 1) :
        HistGet(back) = IF back > Len(entered) THEN None
                        ELSE entered[Len(entered) + 1 - back]

(* What is typed and printed never comes onto the header and the status     *)
(* bar; not so with the memory bar, see the README.                         *)
TextInside ==
    /\ \A c \in Col : scr.cell[0][c] = "header"
    /\ \A c \in Col : scr.cell[Rows - 1][c] \in {"status", " "}

(* Erasing on the screen erases in the line: while a line is edited, the    *)
(* cells before the cursor are the line; not so past the end of a row.      *)
LineShown ==
    \A r \in Reader : pc[r] = "edit" /\ Len(line[r]) < Cols =>
        \A i \in 1..Len(line[r]) :
            LET at == scr.row * Cols + scr.col - Len(line[r]) + i - 1 IN
            scr.cell[at \div Cols][at % Cols] = line[r][i]
=============================================================================
