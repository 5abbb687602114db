------------------------------ MODULE Console -------------------------------
(***************************************************************************)
(* The console (kernel/console.cpp) and the part of kernel/fonts.cpp it     *)
(* draws with.  Tasks print with interrupts on and without a lock, so the   *)
(* timer may switch from one PutChar to another between its test of the     *)
(* cursor, the drawing and the move of the cursor.                          *)
(***************************************************************************)
EXTENDS Integers, Sequences, FiniteSets

CONSTANTS
    Writer,           \* tasks that print
    kRows, kColumns   \* 25 and 80

ASSUME SizeAssumption == kRows \in Nat \ {0} /\ kColumns \in Nat \ {0}

VARIABLES
    buffer,         \* buffer_
    screen,         \* what the frame buffer shows in each cell
    cursor_row, cursor_column,
    put,            \* what each writer has left to print, and where it is in PutChar
    overlapped,     \* a PutChar has been interrupted by another
    raced,          \* a NewLine found a row below that others were about to take
    returned        \* rows written since a carriage return in them
consoleVars == <<buffer, screen, cursor_row, cursor_column, put, overlapped, raced, returned>>

Row == 0..(kRows - 1)
Column == 0..kColumns   \* one more than the screen has: the end of the string
EmptyRow == [c \in Column |-> "NUL"]

\* What a character looks like: GetFont has no glyph for a byte above 127.
Glyph(c) == IF c \in {"NUL", " ", "high"} THEN "blank" ELSE c
BlankRow == [c \in 0..(kColumns + 1) |-> "blank"]

Idle == [text |-> <<>>, at |-> "test"]

ConsoleInit ==
    /\ buffer = [r \in Row |-> EmptyRow]
    /\ screen = [r \in Row |-> BlankRow]
    /\ cursor_row = 0 /\ cursor_column = 0
    /\ put = [w \in Writer |-> Idle]
    /\ overlapped = FALSE /\ raced = FALSE
    /\ returned = {}

\* A string as PutString prints it: up to its NUL.
CString(s) ==
    LET end == {i \in 1..Len(s) : s[i] = "NUL"}
    IN  IF end = {} THEN s ELSE SubSeq(s, 1, (CHOOSE i \in end : \A j \in end : i <= j) - 1)

\* WriteAscii draws sixteen pixels where a cell has eight: the cell to the right
\* of the character becomes blank.
WriteAscii(row, col, c) ==
    IF c = "high" THEN row ELSE [row EXCEPT ![col] = Glyph(c), ![col + 1] = "blank"]

\* What WriteString draws on an empty row: up to the first NUL.
WriteString(text) ==
    [c \in 0..(kColumns + 1) |->
        IF c \in Column /\ \A d \in 0..c : text[d] # "NUL" THEN Glyph(text[c]) ELSE "blank"]

-----------------------------------------------------------------------------
(* PutChar of the next character of a writer. *)

\* Fault: the last column is used too.
RoomInRow_Last(col) == col < kColumns

RoomInRow(col) == col < kColumns - 1
RoomBelow(row) == row < kRows - 1

Overlap(w) == overlapped' = (overlapped \/ \E v \in Writer \ {w} : put[v].at # "test")
Next1(w) == put' = [put EXCEPT ![w] = [text |-> Tail(@.text), at |-> "test"]]
GoTo(w, at) == put' = [put EXCEPT ![w].at = at]

Moving == Cardinality({v \in Writer : put[v].at = "row"})

\* The test of the character and of the cursor.
PutCharTest(w) ==
    LET c == Head(put[w].text)
    IN  /\ put[w].text # <<>> /\ put[w].at = "test"
        /\ Overlap(w)
        /\ \/ /\ c = "NL"
              /\ cursor_column' = 0
              /\ GoTo(w, IF RoomBelow(cursor_row) THEN "row" ELSE "scroll")
              /\ raced' = (raced \/ /\ RoomBelow(cursor_row)
                                    /\ ~RoomBelow(cursor_row + Moving))
              /\ UNCHANGED returned
           \/ /\ c = "CR"
              /\ cursor_column' = 0
              /\ returned' = returned \cup {cursor_row}
              /\ Next1(w)
              /\ UNCHANGED raced
           \/ /\ c \notin {"NL", "CR"}
              /\ IF RoomInRow(cursor_column) THEN GoTo(w, "write") ELSE Next1(w)
              /\ UNCHANGED <<cursor_column, raced, returned>>
        /\ UNCHANGED <<buffer, screen, cursor_row>>

PutCharWrite(w) ==
    LET c == Head(put[w].text)
    IN  /\ put[w].at = "write"
        /\ screen' = [screen EXCEPT ![cursor_row] = WriteAscii(@, cursor_column, c)]
        /\ buffer' = [buffer EXCEPT ![cursor_row][cursor_column] = c]
        /\ GoTo(w, "col")
        /\ Overlap(w)
        /\ UNCHANGED <<cursor_row, cursor_column, raced, returned>>

PutCharMove(w) ==
    /\ put[w].at = "col"
    /\ cursor_column' = cursor_column + 1
    /\ Next1(w)
    /\ Overlap(w)
    /\ UNCHANGED <<buffer, screen, cursor_row, raced, returned>>

NewLineMove(w) ==
    /\ put[w].at = "row"
    /\ cursor_row' = cursor_row + 1
    /\ Next1(w)
    /\ Overlap(w)
    /\ UNCHANGED <<buffer, screen, cursor_column, raced, returned>>

\* Fault: the last row keeps its text.
Scrolled_KeepsLast(b) == [r \in Row |-> IF r < kRows - 1 THEN b[r + 1] ELSE b[r]]

Scrolled(b) == [r \in Row |-> IF r < kRows - 1 THEN b[r + 1] ELSE EmptyRow]

\* The whole screen is made blank, and all rows but the last are drawn again.
NewLineScroll(w) ==
    /\ put[w].at = "scroll"
    /\ buffer' = Scrolled(buffer)
    /\ screen' = [r \in Row |-> IF r < kRows - 1 THEN WriteString(buffer[r + 1]) ELSE BlankRow]
    /\ returned' = {}
    /\ Next1(w)
    /\ Overlap(w)
    /\ UNCHANGED <<cursor_row, cursor_column, raced>>

\* Once the cursor has left the buffer what happens is not followed.
PutChar(w) ==
    /\ cursor_row < kRows
    /\ \/ PutCharTest(w) \/ PutCharWrite(w) \/ PutCharMove(w)
       \/ NewLineMove(w) \/ NewLineScroll(w)

\* The effect of Clear, the command of the same name.
Clear(w) ==
    /\ put[w].text = <<>>
    /\ screen' = [r \in Row |-> BlankRow]
    /\ buffer' = [r \in Row |-> EmptyRow]
    /\ cursor_row' = 0 /\ cursor_column' = 0
    /\ returned' = {}
    /\ Overlap(w)
    /\ UNCHANGED <<put, raced>>

-----------------------------------------------------------------------------
(* Properties. *)

\* However the writers interleave, the column passes the last one by less than
\* there are writers, which the string of a row has room for with two; and the
\* row stays on the screen unless two NewLines both found the same row left.
CursorOnScreen ==
    /\ cursor_column <= kColumns - 2 + Cardinality(Writer)
    /\ ~raced => cursor_row \in Row

\* Between two characters, as long as no PutChar interrupted another, the screen
\* shows the buffer.  Not so for what follows a NUL, which a key without a
\* character prints: scrolling does not draw it again.  Nor for a row written
\* after a carriage return, where a character blanks the one to its right.
ScreenShowsBuffer ==
    ~overlapped /\ (\A w \in Writer : put[w].at = "test") =>
        \A r \in Row \ returned : \A c \in 0..(kColumns - 1) :
            \/ screen[r][c] = Glyph(buffer[r][c])
            \/ screen[r][c] = "blank" /\ \E d \in 0..(c - 1) : buffer[r][d] = "NUL"

=============================================================================
