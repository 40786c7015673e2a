---------------------------- MODULE LcdConsole -----------------------------
(***************************************************************************)
(* The console on the display: LCDConsole.cpp.  Threads write characters   *)
(* into a ring under a mutex; a thread of low priority copies the ring     *)
(* under the mutex when the semaphore says that it has changed, and draws  *)
(* the copy.  Where the text begins in the ring it looks up only after it  *)
(* has given the mutex back.                                               *)
(*                                                                         *)
(* A printable character is told by who wrote it (each stream has its      *)
(* colour), BLANK stands for 0.  The second use of the thread, to draw     *)
(* load and time below the text when nothing comes for a second, does not  *)
(* touch the ring and is left out.                                         *)
(***************************************************************************)
EXTENDS Integers

CONSTANTS
  Printers,     \* threads that write
  Blank,        \* an empty cell
  Nobody,       \* owner of a free mutex
  TextWidth,    \* characters of a line
  TextHeight,   \* lines
  MaxPrinted    \* bound on the characters written

\* The display has more than one line (main.cpp:84).
ASSUME ConsoleAssumption ==
  /\ TextWidth \in Nat \ {0} /\ TextHeight \in Nat \ {0, 1}
  /\ MaxPrinted \in Nat /\ Nobody \notin Printers

VARIABLES
  buffer, head, tail,  \* the ring
  lcdMutex,            \* owner of the mutex
  sem,                 \* sem_update
  drawer,              \* "wait", "copy" or "draw"
  buffer0,             \* the copy
  drawn,               \* what the display shows
  signalled,           \* the writer has released the semaphore
  printed,             \* number of characters written
  page                 \* what was written, on a terminal: [cell, cursor]

lcdVars == <<buffer, head, tail, lcdMutex, sem, drawer, buffer0, drawn,
             signalled, printed, page>>

Size == TextWidth * TextHeight      \* buffersize
Cells == 0..(Size - 1)
Empty0 == [i \in Cells |-> Blank]

Controls == {"backspace", "return", "newline"}

\* From the line the text begins with, as the drawing loop walks it.
Unrolled(ring, h) == [i \in Cells |-> ring[(h + i) % Size]]

-----------------------------------------------------------------------------
(* write.                                                                  *)

Position == (tail - head + Size) % Size          \* currpos

LineStart(pos) == pos - (pos % TextWidth)

\* Fault: the line that comes in at the bottom keeps what was at the top.
ScrollKeeping(ring, t, h) == ring

\* From the tail up to the new head.
Scroll(ring, t, h) ==
  [i \in Cells |-> IF (i - t + Size) % Size < (h - t + Size) % Size
                   THEN Blank ELSE ring[i]]

NewHead == (head + TextWidth) % Size

\* The character c by thread p; "print" for a printable one.
Wrote(p, c) ==
  LET next == (tail + 1) % Size
      line == LineStart(Position)
  IN  \/ /\ c = "print" /\ next # head
         /\ buffer' = [buffer EXCEPT ![tail] = p]
         /\ tail' = next /\ UNCHANGED head
      \/ /\ c = "print" /\ next = head
         /\ buffer' = Scroll([buffer EXCEPT ![tail] = p], next, NewHead)
         /\ tail' = next /\ head' = NewHead
      \/ /\ c = "backspace"
         /\ tail' = IF tail = head THEN tail ELSE (tail - 1 + Size) % Size
         /\ UNCHANGED <<buffer, head>>
      \/ /\ c = "return"
         /\ tail' = (head + line) % Size
         /\ UNCHANGED <<buffer, head>>
      \/ /\ c = "newline" /\ line + TextWidth < Size
         /\ tail' = (head + line + TextWidth) % Size
         /\ UNCHANGED <<buffer, head>>
      \/ /\ c = "newline" /\ line + TextWidth >= Size
         /\ tail' = (head + line + TextWidth) % Size
         /\ buffer' = Scroll(buffer, tail', NewHead)
         /\ head' = NewHead

\* The same character on a terminal that keeps lines and a cursor.
UpOneLine(cell) ==
  [i \in Cells |-> IF i + TextWidth < Size THEN cell[i + TextWidth] ELSE Blank]

AtCursor(cell, n) ==
  IF n < Size THEN [cell |-> cell, cursor |-> n]
  ELSE [cell |-> UpOneLine(cell), cursor |-> n - TextWidth]

Typed(p, c) ==
  LET line == LineStart(page.cursor)
  IN  CASE c = "print" ->
             AtCursor([page.cell EXCEPT ![page.cursor] = p], page.cursor + 1)
        [] c = "backspace" ->
             [page EXCEPT !.cursor = IF @ = 0 THEN 0 ELSE @ - 1]
        [] c = "return"  -> [page EXCEPT !.cursor = line]
        [] c = "newline" -> AtCursor(page.cell, line + TextWidth)

Lock(p) ==
  /\ lcdMutex = Nobody
  /\ printed < MaxPrinted
  /\ lcdMutex' = p
  /\ UNCHANGED <<buffer, head, tail, sem, drawer, buffer0, drawn, signalled,
                 printed, page>>

Write(p) ==
  /\ lcdMutex = p /\ ~signalled
  /\ printed < MaxPrinted
  /\ \E c \in Controls \cup {"print"} : Wrote(p, c) /\ page' = Typed(p, c)
  /\ printed' = printed + 1
  /\ UNCHANGED <<lcdMutex, sem, drawer, buffer0, drawn, signalled>>

\* The semaphore counts to 1.
Release(p) ==
  /\ lcdMutex = p /\ ~signalled
  /\ sem' = 1 /\ signalled' = TRUE
  /\ UNCHANGED <<buffer, head, tail, lcdMutex, drawer, buffer0, drawn, printed,
                 page>>

LcdUnlock(p) ==
  /\ lcdMutex = p /\ signalled
  /\ lcdMutex' = Nobody /\ signalled' = FALSE
  /\ UNCHANGED <<buffer, head, tail, sem, drawer, buffer0, drawn, printed, page>>

-----------------------------------------------------------------------------
(* task_thread.                                                            *)

WaitUpdate ==
  /\ drawer = "wait" /\ sem = 1
  /\ sem' = 0 /\ drawer' = "copy"
  /\ UNCHANGED <<buffer, head, tail, lcdMutex, buffer0, drawn, signalled,
                 printed, page>>

Copy ==
  /\ drawer = "copy" /\ lcdMutex = Nobody
  /\ buffer0' = buffer /\ drawer' = "draw"
  /\ UNCHANGED <<buffer, head, tail, lcdMutex, sem, drawn, signalled, printed,
                 page>>

\* The head as it is now.
Draw ==
  /\ drawer = "draw"
  /\ drawn' = Unrolled(buffer0, head) /\ drawer' = "wait"
  /\ UNCHANGED <<buffer, head, tail, lcdMutex, sem, buffer0, signalled, printed,
                 page>>

LcdInit ==
  /\ buffer = Empty0 /\ head = 0 /\ tail = 0
  /\ lcdMutex = Nobody /\ sem = 0 /\ signalled = FALSE
  /\ drawer = "wait" /\ buffer0 = Empty0 /\ drawn = Empty0
  /\ printed = 0 /\ page = [cell |-> Empty0, cursor |-> 0]

LcdNext ==
  \/ \E p \in Printers : Lock(p) \/ Write(p) \/ Release(p) \/ LcdUnlock(p)
  \/ WaitUpdate \/ Copy \/ Draw

LcdSpec == LcdInit /\ [][LcdNext]_lcdVars

-----------------------------------------------------------------------------
LcdTypeOK ==
  /\ buffer \in [Cells -> Printers \cup {Blank}]
  /\ head \in Cells /\ head % TextWidth = 0 /\ tail \in Cells
  /\ lcdMutex \in Printers \cup {Nobody} /\ sem \in {0, 1}

\* A frame may be drawn from a copy and a head that do not belong together
\* (LCDConsole.cpp:112), but when nobody writes and the drawing thread waits,
\* the display shows what was written, as a terminal would, whatever lines
\* scrolled out while it was drawn.
DrawnIsWritten ==
  (lcdMutex = Nobody /\ sem = 0 /\ drawer = "wait") => drawn = page.cell
=============================================================================
