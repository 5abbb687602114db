-------------------------- MODULE TerminalIOProofs --------------------------
(***************************************************************************)
(* The console stays on its screen and shows its buffer, and the keyboard's *)
(* modifiers follow the keys, for every size of the screen, every set of    *)
(* characters that programs print and any number of keys.                   *)
(***************************************************************************)
EXTENDS TerminalIO, SequenceTheorems, FiniteSetTheorems, WellFoundedInduction, TLAPS

-----------------------------------------------------------------------------
(* The inductive invariant of the console. *)

Char == Output \cup {"d", "D", "NL", "NUL", ">", " ", "^"}
PutAt == {"test", "write", "col", "row", "scroll"}

ConsoleType ==
    /\ buffer \in [Row -> [Column -> Char]]
    /\ screen \in [Row -> [0..(kColumns + 1) -> Char \cup {"blank"}]]
    /\ cursor_row \in 0..kRows /\ cursor_column \in Nat
    /\ put \in [Writer -> [text : Seq(Char), at : PutAt]]
    /\ overlapped \in BOOLEAN /\ raced \in BOOLEAN

\* A writer with nothing to print is not in PutChar, and one that draws or moves
\* down found room on a screen that has it.
WriterPart ==
    \A w \in Writer :
        /\ put[w].at # "test" => put[w].text # <<>>
        /\ put[w].at \in {"write", "col"} => kColumns >= 2
        /\ put[w].at = "row" => kRows >= 2

\* The writers that are going to move the cursor are counted with it.
Busy(w) == IF put[w].at \in {"write", "col"} THEN 1 ELSE 0
Down(w) == IF put[w].at = "row" THEN 1 ELSE 0
ColumnPart ==
    \A v, w \in Writer : v # w => cursor_column + Busy(v) + Busy(w) <= kColumns
RowPart ==
    ~raced => \A v, w \in Writer : v # w => cursor_row + Down(v) + Down(w) <= kRows - 1

\* As long as no PutChar has interrupted another, one writer at most is in one,
\* and the cursor is where that writer found it.
OnePart ==
    /\ \A v, w \in Writer : v # w => put[v].at = "test" \/ put[w].at = "test"
    /\ ~raced
    /\ \A w \in Writer :
           /\ put[w].at = "write" => cursor_column <= kColumns - 2
           /\ put[w].at = "row" => cursor_row < kRows - 1 /\ cursor_column = 0
           /\ put[w].at = "scroll" => cursor_row = kRows - 1 /\ cursor_column = 0

\* What the screen shows in a cell.
Shown(r, c) ==
    \/ screen[r][c] = Glyph(buffer[r][c])
    \/ screen[r][c] = "blank" /\ \E d \in 0..(c - 1) : buffer[r][d] = "NUL"
ShownPart == \A r \in Row \ returned : \A c \in 0..(kColumns - 1) : Shown(r, c)

\* From the cursor on its row is empty, unless it was returned in or left by a
\* NewLine under way, and so are the rows below.
AtColumn == IF \E w \in Writer : put[w].at = "col" THEN cursor_column + 1 ELSE cursor_column
FreshPart ==
    (\A w \in Writer : put[w].at \notin {"row", "scroll"}) /\ cursor_row \notin returned =>
        \A c \in Column : c >= AtColumn =>
            buffer[cursor_row][c] = "NUL" /\ screen[cursor_row][c] = "blank"
BelowPart ==
    \A r \in Row : r > cursor_row => buffer[r] = EmptyRow /\ screen[r] = BlankRow /\ r \notin returned

ScreenPart == ~overlapped => OnePart /\ ShownPart /\ FreshPart /\ BelowPart

ConsoleInv == ConsoleType /\ WriterPart /\ ColumnPart /\ RowPart /\ ScreenPart

-----------------------------------------------------------------------------
(* The inductive invariant of the keyboard. *)

KbType == [shift : SUBSET {1, 16}, ctrl : BOOLEAN, alt : BOOLEAN]
KeyByte == {Code[k] : k \in Key} \cup {Code[k] + kBreakMask : k \in Key}

\* The modifiers kb are those of the keys held; of two keys for one modifier the
\* first released may count.
Follows(mods) ==
    /\ mods.shift = (IF "LShift" \in down THEN {16} ELSE {})
                        \cup (IF "RShift" \in down THEN {1} ELSE {})
    /\ mods.ctrl => "LCtrl" \in down \/ "RCtrl" \in down
    /\ ~mods.ctrl /\ "ctrl" \notin doubled => "LCtrl" \notin down /\ "RCtrl" \notin down
    /\ mods.alt => "LAlt" \in down \/ "RAlt" \in down
    /\ ~mods.alt /\ "alt" \notin doubled => "LAlt" \notin down /\ "RAlt" \notin down

\* Two keys held for one modifier have doubled it.
DoubledPart ==
    /\ "LCtrl" \in down /\ "RCtrl" \in down => "ctrl" \in doubled
    /\ "LAlt" \in down /\ "RAlt" \in down => "alt" \in doubled

\* On the wire are the last bytes of one key, and they make the modifiers follow.
WirePart ==
    \/ wire = <<>> /\ Follows(kb)
    \/ \E b \in KeyByte : /\ wire = <<b>> \/ wire = <<224, b>>
                          /\ Follows(Modifiers(kb, b))

KeyboardType ==
    /\ down \subseteq Key /\ kb \in KbType
    /\ queue \in Seq([char : Char, ctrl : BOOLEAN])

KeyboardInv == KeyboardType /\ DoubledPart /\ WirePart

IInv == ConsoleInv /\ KeyboardInv

-----------------------------------------------------------------------------
(* The writers. *)

LEMMA SizeFacts ==
    /\ kRows \in Nat /\ kRows >= 1 /\ kColumns \in Nat /\ kColumns >= 1
    /\ Row = 0..(kRows - 1) /\ Column = 0..kColumns
BY SizeAssumption DEF Row, Column

LEMMA WriterFacts ==
    /\ Terminal \in Writer /\ Subtask \in Writer /\ Terminal # Subtask
    /\ \A w \in Writer : w = Terminal \/ w = Subtask
    /\ IsFiniteSet(Writer) /\ Cardinality(Writer) = 2
<1>1. Writer = {Terminal, Subtask} /\ Terminal # Subtask
  BY WriterAssumption
<1>2. IsFiniteSet({Terminal, Subtask}) /\ Cardinality({Terminal, Subtask}) = 2
  <2>1. IsFiniteSet({Terminal}) /\ Cardinality({Terminal}) = 1 /\ Subtask \notin {Terminal}
    BY <1>1, FS_Singleton
  <2>2. {Terminal} \cup {Subtask} = {Terminal, Subtask}
    OBVIOUS
  <2>3. /\ IsFiniteSet({Terminal} \cup {Subtask})
        /\ Cardinality({Terminal} \cup {Subtask}) = 1 + 1
    BY <2>1, FS_AddElement
  <2> QED
    BY <2>2, <2>3
<1> QED
  BY <1>1, <1>2

\* The number of writers about to move down.
LEMMA MovingFacts ==
    /\ Moving \in Nat
    /\ \A v \in Writer : put[v].at = "row" => Moving >= 1
    /\ (\A v \in Writer : put[v].at # "row") => Moving = 0
<1> DEFINE M == {v \in Writer : put[v].at = "row"}
<1>1. IsFiniteSet(M)
  BY WriterFacts, FS_Subset
<1>2. Cardinality(M) \in Nat
  BY <1>1, FS_CardinalityType
<1>3. Cardinality(M) = 0 <=> M = {}
  BY <1>1, FS_EmptySet
<1>4. (\A v \in Writer : put[v].at # "row") => M = {}
  OBVIOUS
<1>5. \A v \in Writer : put[v].at = "row" => M # {}
  OBVIOUS
<1>6. Moving = Cardinality(M)
  BY DEF Moving
<1> HIDE DEF M
<1> QED
  BY <1>2, <1>3, <1>4, <1>5, <1>6

PutType == [Writer -> [text : Seq(Char), at : PutAt]]

LEMMA Next1Facts ==
    ASSUME put \in PutType, NEW w \in Writer, put[w].text # <<>>, Next1(w)
    PROVE  /\ put' \in PutType
           /\ put'[w].at = "test"
           /\ \A v \in Writer \ {w} : put'[v] = put[v]
<1>1. put[w].text \in Seq(Char)
  BY DEF PutType
<1>2. Tail(put[w].text) \in Seq(Char)
  BY <1>1, HeadTailProperties
<1>3. put' = [put EXCEPT ![w] = [text |-> Tail(put[w].text), at |-> "test"]]
  BY DEF Next1
<1>4. [text |-> Tail(put[w].text), at |-> "test"] \in [text : Seq(Char), at : PutAt]
  BY <1>2 DEF PutAt
<1>5. put'[w] = [text |-> Tail(put[w].text), at |-> "test"]
  BY <1>3 DEF PutType
<1>6. put' \in PutType
  BY <1>3, <1>4 DEF PutType
<1>7. \A v \in Writer \ {w} : put'[v] = put[v]
  BY <1>3 DEF PutType
<1> QED
  BY <1>5, <1>6, <1>7

LEMMA GoToFacts ==
    ASSUME put \in PutType, NEW w \in Writer, NEW at \in PutAt, GoTo(w, at)
    PROVE  /\ put' \in PutType
           /\ put'[w].at = at /\ put'[w].text = put[w].text
           /\ \A v \in Writer \ {w} : put'[v] = put[v]
BY DEF GoTo, PutType

\* A step of w that has no other writer in PutChar around it.
LEMMA OverlapFacts ==
    ASSUME NEW w \in Writer, Overlap(w), overlapped \in BOOLEAN
    PROVE  /\ overlapped' \in BOOLEAN
           /\ ~overlapped' => ~overlapped /\ \A v \in Writer \ {w} : put[v].at = "test"
BY Zenon DEF Overlap

LEMMA TwoWriters == \A u, v, w \in Writer : u # v => w = u \/ w = v
BY WriterFacts

LEMMA ColumnOfStep ==
    ASSUME NEW w \in Writer, cursor_column' \in Nat,
           \A v \in Writer \ {w} : cursor_column' + Busy(v)' + Busy(w)' <= kColumns
    PROVE  ColumnPart'
<1>1. \A v \in Writer : Busy(v)' \in {0, 1}
  BY DEF Busy
<1> SUFFICES ASSUME NEW u \in Writer, NEW v \in Writer, u # v
             PROVE  cursor_column' + Busy(u)' + Busy(v)' <= kColumns
  BY DEF ColumnPart
<1>2. CASE w = u
  BY <1>1, <1>2, SizeFacts
<1>3. CASE w = v
  <2>1. cursor_column' + Busy(u)' + Busy(v)' <= kColumns
    BY <1>3
  <2> QED
    BY <2>1
<1> QED
  BY <1>2, <1>3, TwoWriters

LEMMA RowOfStep ==
    ASSUME NEW w \in Writer, cursor_row' \in Nat,
           ~raced' => \A v \in Writer \ {w} : cursor_row' + Down(v)' + Down(w)' <= kRows - 1
    PROVE  RowPart'
<1>1. \A v \in Writer : Down(v)' \in {0, 1}
  BY DEF Down
<1> SUFFICES ASSUME ~raced', NEW u \in Writer, NEW v \in Writer, u # v
             PROVE  cursor_row' + Down(u)' + Down(v)' <= kRows - 1
  BY DEF RowPart
<1>2. CASE w = u
  BY <1>1, <1>2, SizeFacts
<1>3. CASE w = v
  BY <1>3
<1> QED
  BY <1>2, <1>3, TwoWriters

\* What one step of a writer does to the counts.
LEMMA CountsOfStep ==
    ASSUME NEW w \in Writer, \A v \in Writer \ {w} : put'[v] = put[v]
    PROVE  /\ \A v \in Writer \ {w} : Busy(v)' = Busy(v) /\ Down(v)' = Down(v)
           /\ \A v \in Writer : Busy(v) \in {0, 1} /\ Down(v) \in {0, 1}
BY DEF Busy, Down

-----------------------------------------------------------------------------
(* The test of PutChar. *)

LEMMA TestCounts ==
    ASSUME ConsoleInv, NEW w \in Writer, cursor_row < kRows, PutCharTest(w)
    PROVE  ConsoleType' /\ WriterPart' /\ ColumnPart' /\ RowPart'
<1> DEFINE c == Head(put[w].text)
<1>1. /\ ConsoleType /\ WriterPart /\ ColumnPart /\ RowPart
      /\ put \in PutType /\ put[w].text # <<>> /\ put[w].at = "test" /\ Overlap(w)
      /\ UNCHANGED <<buffer, screen, cursor_row>>
      /\ cursor_row \in Nat /\ cursor_column \in Nat /\ overlapped \in BOOLEAN
  BY SizeFacts DEF ConsoleInv, ConsoleType, PutType, PutCharTest
<1>2. overlapped' \in BOOLEAN
  BY <1>1, OverlapFacts
<1>3. Busy(w) = 0 /\ Down(w) = 0
  BY <1>1 DEF Busy, Down
<1>4. CASE /\ c = "NL" /\ cursor_column' = 0
           /\ GoTo(w, IF RoomBelow(cursor_row) THEN "row" ELSE "scroll")
           /\ raced' = (raced \/ (RoomBelow(cursor_row) /\ ~RoomBelow(cursor_row + Moving)))
           /\ UNCHANGED returned
  <2> DEFINE at == IF RoomBelow(cursor_row) THEN "row" ELSE "scroll"
  <2>1. /\ put' \in PutType /\ put'[w].at = at /\ put'[w].text = put[w].text
        /\ \A v \in Writer \ {w} : put'[v] = put[v]
    <3>1. at \in PutAt
      BY DEF PutAt
    <3> QED
      BY <1>1, <1>4, <3>1, GoToFacts
  <2>2. at = "row" => RoomBelow(cursor_row)
    OBVIOUS
  <2>3. at \in {"row", "scroll"}
    OBVIOUS
  <2> HIDE DEF at
  <2>4. /\ \A v \in Writer \ {w} : Busy(v)' = Busy(v) /\ Down(v)' = Down(v)
        /\ \A v \in Writer : Busy(v) \in {0, 1} /\ Down(v) \in {0, 1}
    BY <2>1, CountsOfStep
  <2>5. Busy(w)' = 0 /\ Down(w)' \in {0, 1}
    BY <2>1, <2>3 DEF Busy, Down
  <2>6. raced' \in BOOLEAN
    BY <1>4, Zenon
  <2>7. ConsoleType'
    BY <1>1, <1>2, <1>4, <2>1, <2>6 DEF ConsoleType, PutType
  <2>8. WriterPart'
    <3>1. ASSUME NEW v \in Writer
          PROVE  /\ put'[v].at # "test" => put'[v].text # <<>>
                 /\ put'[v].at \in {"write", "col"} => kColumns >= 2
                 /\ put'[v].at = "row" => kRows >= 2
      <4>1. CASE v = w
        BY <1>1, <2>1, <2>2, <2>3, <4>1, SizeFacts DEF RoomBelow
      <4>2. CASE v # w
        BY <1>1, <2>1, <4>2 DEF WriterPart
      <4> QED
        BY <4>1, <4>2
    <3> QED
      BY <3>1 DEF WriterPart
  <2>9. ColumnPart'
    <3>1. ASSUME NEW v \in Writer \ {w}
          PROVE  cursor_column' + Busy(v)' + Busy(w)' <= kColumns
      BY <1>4, <2>4, <2>5, SizeFacts
    <3> QED
      BY <1>4, <3>1, ColumnOfStep
  <2>10. RowPart'
    <3>1. ASSUME ~raced', NEW v \in Writer \ {w}
          PROVE  cursor_row' + Down(v)' + Down(w)' <= kRows - 1
      <4>1. ~raced /\ (RoomBelow(cursor_row) => RoomBelow(cursor_row + Moving))
        <5>1. raced' = (raced \/ (RoomBelow(cursor_row) /\ ~RoomBelow(cursor_row + Moving)))
          BY <1>4
        <5> QED
          BY <3>1, <5>1, Zenon
      <4>2. cursor_row + Down(v) + Down(w) <= kRows - 1
        BY <1>1, <4>1 DEF RowPart
      <4>3. CASE at = "row"
        <5>1. Moving \in Nat /\ (Down(v) = 1 => Moving >= 1)
          BY MovingFacts DEF Down
        <5>2. cursor_row + Moving < kRows - 1
          BY <2>2, <4>1, <4>3 DEF RoomBelow
        <5>3. cursor_row + Down(v) + 1 <= kRows - 1
          BY <1>1, <2>4, <5>1, <5>2, SizeFacts
        <5>4. cursor_row' = cursor_row /\ Down(v)' = Down(v) /\ Down(w)' = 1
          BY <1>1, <2>1, <2>4, <4>3 DEF Down
        <5> QED
          BY <5>3, <5>4
      <4>4. CASE at = "scroll"
        <5>1. Down(w)' = 0
          BY <2>1, <4>4 DEF Down
        <5> QED
          BY <1>1, <1>3, <2>4, <4>2, <5>1
      <4> QED
        BY <2>3, <4>3, <4>4
    <3> QED
      BY <1>1, <3>1, RowOfStep
  <2> QED
    BY <2>7, <2>8, <2>9, <2>10
<1>5. CASE /\ c = "CR" /\ cursor_column' = 0 /\ returned' = returned \cup {cursor_row}
           /\ Next1(w) /\ UNCHANGED raced
  <2>1. /\ put' \in PutType /\ put'[w].at = "test"
        /\ \A v \in Writer \ {w} : put'[v] = put[v]
    BY <1>1, <1>5, Next1Facts
  <2>2. /\ \A v \in Writer \ {w} : Busy(v)' = Busy(v) /\ Down(v)' = Down(v)
        /\ \A v \in Writer : Busy(v) \in {0, 1} /\ Down(v) \in {0, 1}
    BY <2>1, CountsOfStep
  <2>3. Busy(w)' = 0 /\ Down(w)' = 0
    BY <2>1 DEF Busy, Down
  <2>4. ConsoleType'
    BY <1>1, <1>2, <1>5, <2>1 DEF ConsoleType, PutType
  <2>5. WriterPart'
    BY <1>1, <2>1 DEF WriterPart
  <2>6. ColumnPart'
    <3>1. ASSUME NEW v \in Writer \ {w}
          PROVE  cursor_column' + Busy(v)' + Busy(w)' <= kColumns
      BY <1>5, <2>2, <2>3, SizeFacts
    <3> QED
      BY <1>5, <3>1, ColumnOfStep
  <2>7. RowPart'
    <3>1. ASSUME ~raced', NEW v \in Writer \ {w}
          PROVE  cursor_row' + Down(v)' + Down(w)' <= kRows - 1
      <4>1. cursor_row + Down(v) + Down(w) <= kRows - 1
        BY <1>1, <1>5, <3>1 DEF RowPart
      <4> QED
        BY <1>1, <1>3, <2>2, <2>3, <4>1
    <3> QED
      BY <1>1, <3>1, RowOfStep
  <2> QED
    BY <2>4, <2>5, <2>6, <2>7
<1>6. CASE /\ IF RoomInRow(cursor_column) THEN GoTo(w, "write") ELSE Next1(w)
           /\ UNCHANGED <<cursor_column, raced, returned>>
  <2>1. /\ put' \in PutType
        /\ \A v \in Writer \ {w} : put'[v] = put[v]
        /\ \/ put'[w].at = "write" /\ put'[w].text = put[w].text /\ RoomInRow(cursor_column)
           \/ put'[w].at = "test"
    <3>1. CASE RoomInRow(cursor_column)
      <4>1. GoTo(w, "write") /\ "write" \in PutAt
        BY <1>6, <3>1 DEF PutAt
      <4> QED
        BY <1>1, <3>1, <4>1, GoToFacts
    <3>2. CASE ~RoomInRow(cursor_column)
      BY <1>1, <1>6, <3>2, Next1Facts
    <3> QED
      BY <3>1, <3>2
  <2>2. /\ \A v \in Writer \ {w} : Busy(v)' = Busy(v) /\ Down(v)' = Down(v)
        /\ \A v \in Writer : Busy(v) \in {0, 1} /\ Down(v) \in {0, 1}
    BY <2>1, CountsOfStep
  <2>3. Down(w)' = 0 /\ (Busy(w)' = 0 \/ (Busy(w)' = 1 /\ RoomInRow(cursor_column)))
    <3>1. CASE put'[w].at = "write" /\ RoomInRow(cursor_column)
      BY <3>1 DEF Busy, Down
    <3>2. CASE put'[w].at = "test"
      BY <3>2 DEF Busy, Down
    <3> QED
      BY <2>1, <3>1, <3>2
  <2>4. ConsoleType'
    BY <1>1, <1>2, <1>6, <2>1 DEF ConsoleType, PutType
  <2>5. WriterPart'
    <3>1. RoomInRow(cursor_column) => kColumns >= 2
      BY <1>1, SizeFacts DEF RoomInRow
    <3> QED
      BY <1>1, <2>1, <3>1 DEF WriterPart
  <2>6. ColumnPart'
    <3>1. ASSUME NEW v \in Writer \ {w}
          PROVE  cursor_column' + Busy(v)' + Busy(w)' <= kColumns
      <4>1. cursor_column + Busy(v) + Busy(w) <= kColumns
        BY <1>1 DEF ColumnPart
      <4> QED
        BY <1>1, <1>3, <1>6, <2>2, <2>3, <4>1, SizeFacts DEF RoomInRow
    <3> QED
      BY <1>1, <1>6, <3>1, ColumnOfStep
  <2>7. RowPart'
    <3>1. ASSUME ~raced', NEW v \in Writer \ {w}
          PROVE  cursor_row' + Down(v)' + Down(w)' <= kRows - 1
      <4>1. cursor_row + Down(v) + Down(w) <= kRows - 1
        BY <1>1, <1>6, <3>1 DEF RowPart
      <4> QED
        BY <1>1, <1>3, <2>2, <2>3, <4>1
    <3> QED
      BY <1>1, <3>1, RowOfStep
  <2> QED
    BY <2>4, <2>5, <2>6, <2>7
<1> QED
  BY <1>4, <1>5, <1>6, Zenon DEF PutCharTest

-----------------------------------------------------------------------------
(* The other steps of PutChar, and Clear: types and counts. *)

\* A writer that ends its PutChar, or goes on in it, keeps WriterPart.
LEMMA WriterOfStep ==
    ASSUME WriterPart, NEW w \in Writer, \A v \in Writer \ {w} : put'[v] = put[v],
           \/ put'[w].at = "test"
           \/ /\ put'[w].at = "col" /\ put[w].at = "write"
              /\ put'[w].text = put[w].text
    PROVE  WriterPart'
<1>1. ASSUME NEW v \in Writer
      PROVE  /\ put'[v].at # "test" => put'[v].text # <<>>
             /\ put'[v].at \in {"write", "col"} => kColumns >= 2
             /\ put'[v].at = "row" => kRows >= 2
  <2>1. CASE v # w
    BY <2>1 DEF WriterPart
  <2>2. CASE v = w /\ put'[w].at = "test"
    BY <2>2
  <2>3. CASE v = w /\ put'[w].at = "col" /\ put[w].at = "write" /\ put'[w].text = put[w].text
    BY <2>3 DEF WriterPart
  <2> QED
    BY <2>1, <2>2, <2>3
<1> QED
  BY <1>1 DEF WriterPart

LEMMA WriteCounts ==
    ASSUME ConsoleInv, NEW w \in Writer, cursor_row < kRows, PutCharWrite(w)
    PROVE  ConsoleType' /\ WriterPart' /\ ColumnPart' /\ RowPart'
<1> DEFINE c == Head(put[w].text)
<1>1. /\ ConsoleType /\ WriterPart /\ ColumnPart /\ RowPart
      /\ put \in PutType /\ put[w].at = "write" /\ Overlap(w) /\ GoTo(w, "col")
      /\ screen' = [screen EXCEPT ![cursor_row] = WriteAscii(screen[cursor_row], cursor_column, c)]
      /\ buffer' = [buffer EXCEPT ![cursor_row][cursor_column] = c]
      /\ UNCHANGED <<cursor_row, cursor_column, raced, returned>>
      /\ cursor_row \in Nat /\ cursor_column \in Nat /\ overlapped \in BOOLEAN
  BY SizeFacts DEF ConsoleInv, ConsoleType, PutType, PutCharWrite
<1>2. overlapped' \in BOOLEAN
  BY <1>1, OverlapFacts
<1>3. c \in Char
  <2>1. put[w].text \in Seq(Char) /\ put[w].text # <<>>
    BY <1>1 DEF PutType, WriterPart
  <2> QED
    BY <2>1, HeadTailProperties
<1>4. /\ put' \in PutType /\ put'[w].at = "col" /\ put'[w].text = put[w].text
      /\ \A v \in Writer \ {w} : put'[v] = put[v]
  <2>1. "col" \in PutAt
    BY DEF PutAt
  <2> QED
    BY <1>1, <2>1, GoToFacts
<1>5. /\ \A v \in Writer \ {w} : Busy(v)' = Busy(v) /\ Down(v)' = Down(v)
      /\ \A v \in Writer : Busy(v) \in {0, 1} /\ Down(v) \in {0, 1}
  BY <1>4, CountsOfStep
<1>6. Busy(w) = 1 /\ Down(w) = 0 /\ Busy(w)' = 1 /\ Down(w)' = 0
  BY <1>1, <1>4 DEF Busy, Down
<1>7. cursor_row \in Row /\ cursor_column \in 0..(kColumns - 1)
  <2>1. PICK v \in Writer : v # w
    BY WriterFacts
  <2>2. cursor_column + Busy(v) + Busy(w) <= kColumns
    BY <1>1, <2>1 DEF ColumnPart
  <2>3. cursor_column + 1 <= kColumns
    BY <1>1, <1>5, <1>6, <2>2, SizeFacts
  <2> QED
    BY <1>1, <2>3, SizeFacts
<1>8. ConsoleType'
  <2>1. buffer' \in [Row -> [Column -> Char]]
    <3>1. cursor_column \in Column
      BY <1>7, SizeFacts
    <3> QED
      BY <1>1, <1>3, <1>7, <3>1 DEF ConsoleType
  <2>2. screen' \in [Row -> [0..(kColumns + 1) -> Char \cup {"blank"}]]
    <3> DEFINE Cells == [0..(kColumns + 1) -> Char \cup {"blank"}]
    <3>1. screen \in [Row -> Cells] /\ screen[cursor_row] \in Cells
      BY <1>1, <1>7 DEF ConsoleType
    <3>2. Glyph(c) \in Char \cup {"blank"}
      BY <1>3 DEF Glyph
    <3>3. WriteAscii(screen[cursor_row], cursor_column, c) \in Cells
      <4> HIDE DEF c
      <4>1. cursor_column \in 0..(kColumns + 1) /\ cursor_column + 1 \in 0..(kColumns + 1)
        BY <1>7, SizeFacts
      <4> QED
        BY <3>1, <3>2, <4>1 DEF WriteAscii
    <3> QED
      BY <1>1, <3>1, <3>3
  <2> QED
    BY <1>1, <1>2, <1>4, <2>1, <2>2 DEF ConsoleType, PutType
<1>9. WriterPart'
  BY <1>1, <1>4, WriterOfStep
<1>10. ColumnPart'
  <2>1. ASSUME NEW v \in Writer \ {w}
        PROVE  cursor_column' + Busy(v)' + Busy(w)' <= kColumns
    BY <1>1, <1>5, <1>6 DEF ColumnPart
  <2> QED
    BY <1>1, <2>1, ColumnOfStep
<1>11. RowPart'
  <2>1. ASSUME ~raced', NEW v \in Writer \ {w}
        PROVE  cursor_row' + Down(v)' + Down(w)' <= kRows - 1
    BY <1>1, <1>5, <1>6, <2>1 DEF RowPart
  <2> QED
    BY <1>1, <2>1, RowOfStep
<1> QED
  BY <1>8, <1>9, <1>10, <1>11

LEMMA MoveCounts ==
    ASSUME ConsoleInv, NEW w \in Writer, cursor_row < kRows,
           PutCharMove(w) \/ NewLineMove(w)
    PROVE  ConsoleType' /\ WriterPart' /\ ColumnPart' /\ RowPart'
<1>1. /\ ConsoleType /\ WriterPart /\ ColumnPart /\ RowPart
      /\ put \in PutType /\ put[w].at # "test" /\ Overlap(w) /\ Next1(w)
      /\ UNCHANGED <<buffer, screen, raced, returned>>
      /\ cursor_row \in Nat /\ cursor_column \in Nat /\ overlapped \in BOOLEAN
  BY SizeFacts DEF ConsoleInv, ConsoleType, PutType, PutCharMove, NewLineMove
<1>2. overlapped' \in BOOLEAN
  BY <1>1, OverlapFacts
<1>3. /\ put' \in PutType /\ put'[w].at = "test"
      /\ \A v \in Writer \ {w} : put'[v] = put[v]
  <2>1. put[w].text # <<>>
    BY <1>1 DEF WriterPart
  <2> QED
    BY <1>1, <2>1, Next1Facts
<1>4. /\ \A v \in Writer \ {w} : Busy(v)' = Busy(v) /\ Down(v)' = Down(v)
      /\ \A v \in Writer : Busy(v) \in {0, 1} /\ Down(v) \in {0, 1}
  BY <1>3, CountsOfStep
<1>5. Busy(w)' = 0 /\ Down(w)' = 0
  BY <1>3 DEF Busy, Down
<1>6. \/ cursor_column' = cursor_column + 1 /\ Busy(w) = 1 /\ cursor_row' = cursor_row
      \/ cursor_column' = cursor_column /\ Down(w) = 1 /\ cursor_row' = cursor_row + 1
  BY DEF PutCharMove, NewLineMove, Busy, Down
<1>7. cursor_column' \in Nat /\ cursor_row' \in 0..kRows
  BY <1>1, <1>6, SizeFacts
<1>8. ConsoleType'
  BY <1>1, <1>2, <1>3, <1>7 DEF ConsoleType, PutType
<1>9. WriterPart'
  BY <1>1, <1>3, WriterOfStep
<1>10. ColumnPart'
  <2>1. ASSUME NEW v \in Writer \ {w}
        PROVE  cursor_column' + Busy(v)' + Busy(w)' <= kColumns
    <3>1. cursor_column + Busy(v) + Busy(w) <= kColumns
      BY <1>1 DEF ColumnPart
    <3> QED
      BY <1>1, <1>4, <1>5, <1>6, <3>1, SizeFacts
  <2> QED
    BY <1>7, <2>1, ColumnOfStep
<1>11. RowPart'
  <2>1. ASSUME ~raced', NEW v \in Writer \ {w}
        PROVE  cursor_row' + Down(v)' + Down(w)' <= kRows - 1
    <3>1. cursor_row + Down(v) + Down(w) <= kRows - 1
      BY <1>1, <2>1 DEF RowPart
    <3> QED
      BY <1>1, <1>4, <1>5, <1>6, <3>1, SizeFacts
  <2> QED
    BY <1>7, <2>1, RowOfStep
<1> QED
  BY <1>8, <1>9, <1>10, <1>11

\* What is drawn from characters is characters and blanks.
LEMMA DrawnTypes ==
    /\ EmptyRow \in [Column -> Char]
    /\ BlankRow \in [0..(kColumns + 1) -> Char \cup {"blank"}]
    /\ \A text \in [Column -> Char] :
           WriteString(text) \in [0..(kColumns + 1) -> Char \cup {"blank"}]
<1>1. "NUL" \in Char
  BY DEF Char
<1>2. \A x \in Char : Glyph(x) \in Char \cup {"blank"}
  BY DEF Glyph
<1>3. ASSUME NEW text \in [Column -> Char]
      PROVE  WriteString(text) \in [0..(kColumns + 1) -> Char \cup {"blank"}]
  BY <1>2 DEF WriteString
<1> QED
  BY <1>1, <1>3 DEF EmptyRow, BlankRow

LEMMA ScrollCounts ==
    ASSUME ConsoleInv, NEW w \in Writer, cursor_row < kRows, NewLineScroll(w)
    PROVE  ConsoleType' /\ WriterPart' /\ ColumnPart' /\ RowPart'
<1>1. /\ ConsoleType /\ WriterPart /\ ColumnPart /\ RowPart
      /\ put \in PutType /\ put[w].at = "scroll" /\ Overlap(w) /\ Next1(w)
      /\ buffer' = Scrolled(buffer)
      /\ screen' = [r \in Row |-> IF r < kRows - 1 THEN WriteString(buffer[r + 1]) ELSE BlankRow]
      /\ UNCHANGED <<cursor_row, cursor_column, raced>>
      /\ cursor_row \in Nat /\ cursor_column \in Nat /\ overlapped \in BOOLEAN
  BY SizeFacts DEF ConsoleInv, ConsoleType, PutType, NewLineScroll
<1>2. overlapped' \in BOOLEAN
  BY <1>1, OverlapFacts
<1>3. /\ put' \in PutType /\ put'[w].at = "test"
      /\ \A v \in Writer \ {w} : put'[v] = put[v]
  <2>1. put[w].text # <<>>
    BY <1>1 DEF WriterPart
  <2> QED
    BY <1>1, <2>1, Next1Facts
<1>4. /\ \A v \in Writer \ {w} : Busy(v)' = Busy(v) /\ Down(v)' = Down(v)
      /\ \A v \in Writer : Busy(v) \in {0, 1} /\ Down(v) \in {0, 1}
  BY <1>3, CountsOfStep
<1>5. Busy(w)' = 0 /\ Down(w)' = 0 /\ Busy(w) = 0 /\ Down(w) = 0
  BY <1>1, <1>3 DEF Busy, Down
<1>6. ConsoleType'
  <2>1. \A r \in Row : r < kRows - 1 => r + 1 \in Row
    BY SizeFacts
  <2>2. buffer' \in [Row -> [Column -> Char]]
    BY <1>1, <2>1, DrawnTypes DEF ConsoleType, Scrolled
  <2>3. screen' \in [Row -> [0..(kColumns + 1) -> Char \cup {"blank"}]]
    BY <1>1, <2>1, DrawnTypes DEF ConsoleType
  <2> QED
    BY <1>1, <1>2, <1>3, <2>2, <2>3 DEF ConsoleType, PutType
<1>7. WriterPart'
  BY <1>1, <1>3, WriterOfStep
<1>8. ColumnPart'
  <2>1. ASSUME NEW v \in Writer \ {w}
        PROVE  cursor_column' + Busy(v)' + Busy(w)' <= kColumns
    BY <1>1, <1>4, <1>5 DEF ColumnPart
  <2> QED
    BY <1>1, <2>1, ColumnOfStep
<1>9. RowPart'
  <2>1. ASSUME ~raced', NEW v \in Writer \ {w}
        PROVE  cursor_row' + Down(v)' + Down(w)' <= kRows - 1
    BY <1>1, <1>4, <1>5, <2>1 DEF RowPart
  <2> QED
    BY <1>1, <2>1, RowOfStep
<1> QED
  BY <1>6, <1>7, <1>8, <1>9

LEMMA ClearCounts ==
    ASSUME ConsoleInv, NEW w \in Writer, Clear(w)
    PROVE  ConsoleType' /\ WriterPart' /\ ColumnPart' /\ RowPart'
<1>1. /\ ConsoleType /\ WriterPart /\ ColumnPart /\ RowPart
      /\ put \in PutType /\ put[w].text = <<>> /\ Overlap(w) /\ overlapped \in BOOLEAN
      /\ screen' = [r \in Row |-> BlankRow] /\ buffer' = [r \in Row |-> EmptyRow]
      /\ cursor_row' = 0 /\ cursor_column' = 0
      /\ UNCHANGED <<put, raced>>
  BY DEF ConsoleInv, ConsoleType, PutType, Clear
<1>2. overlapped' \in BOOLEAN
  BY <1>1, OverlapFacts
<1>3. put[w].at = "test" /\ Busy(w) = 0 /\ Down(w) = 0
  BY <1>1 DEF WriterPart, Busy, Down
<1>4. \A v \in Writer : Busy(v)' = Busy(v) /\ Down(v)' = Down(v)
  BY <1>1 DEF Busy, Down
<1>5. \A v \in Writer : Busy(v) \in {0, 1} /\ (Down(v) = 0 \/ (Down(v) = 1 /\ kRows >= 2))
  BY <1>1 DEF Busy, Down, WriterPart
<1>6. ConsoleType'
  <2>1. buffer' \in [Row -> [Column -> Char]]
    BY <1>1, DrawnTypes
  <2>2. screen' \in [Row -> [0..(kColumns + 1) -> Char \cup {"blank"}]]
    BY <1>1, DrawnTypes
  <2>3. cursor_row' \in 0..kRows /\ cursor_column' \in Nat
    BY <1>1, SizeFacts
  <2> QED
    BY <1>1, <1>2, <2>1, <2>2, <2>3 DEF ConsoleType
<1>7. WriterPart'
  BY <1>1 DEF WriterPart
<1>8. ColumnPart'
  <2>1. ASSUME NEW v \in Writer \ {w}
        PROVE  cursor_column' + Busy(v)' + Busy(w)' <= kColumns
    BY <1>1, <1>3, <1>4, <1>5, SizeFacts
  <2> QED
    BY <1>1, <2>1, ColumnOfStep
<1>9. RowPart'
  <2>1. ASSUME NEW v \in Writer \ {w}
        PROVE  cursor_row' + Down(v)' + Down(w)' <= kRows - 1
    BY <1>1, <1>3, <1>4, <1>5, SizeFacts
  <2> QED
    BY <1>1, <2>1, RowOfStep
<1> QED
  BY <1>6, <1>7, <1>8, <1>9

-----------------------------------------------------------------------------
(* The screen, while no PutChar has interrupted another. *)

\* Every other writer is outside of PutChar.
Alone(w) == \A v \in Writer \ {w} : put[v].at = "test"

\* A step that leaves the screen, the rows and the carriage returns alone.
LEMMA ShownUnchanged ==
    ASSUME ShownPart, BelowPart, UNCHANGED <<buffer, screen, cursor_row>>,
           returned' \subseteq returned \cup {cursor_row}, returned \subseteq returned',
           cursor_row \in Nat
    PROVE  ShownPart' /\ BelowPart'
<1>1. ShownPart'
  BY DEF ShownPart, Shown
<1>2. BelowPart'
  <2>1. ASSUME NEW r \in Row, r > cursor_row
        PROVE  buffer[r] = EmptyRow /\ screen[r] = BlankRow /\ r \notin returned'
    <3>1. r # cursor_row
      BY <2>1, SizeFacts
    <3> QED
      BY <2>1, <3>1 DEF BelowPart
  <2> QED
    BY <2>1 DEF BelowPart
<1> QED
  BY <1>1, <1>2

\* The state that OnePart describes, of the only writer in PutChar.
LEMMA OneOfStep ==
    ASSUME NEW w \in Writer, Alone(w)', ~raced',
           put'[w].at = "write" => cursor_column' <= kColumns - 2,
           put'[w].at = "row" => cursor_row' < kRows - 1 /\ cursor_column' = 0,
           put'[w].at = "scroll" => cursor_row' = kRows - 1 /\ cursor_column' = 0
    PROVE  OnePart'
<1>1. \A u, v \in Writer : u # v => put'[u].at = "test" \/ put'[v].at = "test"
  BY DEF Alone
<1>2. ASSUME NEW v \in Writer
      PROVE  /\ put'[v].at = "write" => cursor_column' <= kColumns - 2
             /\ put'[v].at = "row" => cursor_row' < kRows - 1 /\ cursor_column' = 0
             /\ put'[v].at = "scroll" => cursor_row' = kRows - 1 /\ cursor_column' = 0
  BY DEF Alone
<1> QED
  BY <1>1, <1>2 DEF OnePart

LEMMA AtColumnAlone ==
    ASSUME NEW w \in Writer, Alone(w)
    PROVE  /\ put[w].at = "col" => AtColumn = cursor_column + 1
           /\ put[w].at # "col" => AtColumn = cursor_column
           /\ \A v \in Writer : put[v].at \in {"row", "scroll"} => v = w
<1>1. (\E v \in Writer : put[v].at = "col") <=> put[w].at = "col"
  BY DEF Alone
<1>2. \A v \in Writer : put[v].at \in {"row", "scroll"} => v = w
  BY DEF Alone
<1> QED
  BY <1>1, <1>2 DEF AtColumn

LEMMA AtColumnAloneNext ==
    ASSUME NEW w \in Writer, Alone(w)'
    PROVE  /\ put'[w].at = "col" => AtColumn' = cursor_column' + 1
           /\ put'[w].at # "col" => AtColumn' = cursor_column'
<1>1. (\E v \in Writer : put'[v].at = "col") <=> put'[w].at = "col"
  BY DEF Alone
<1> QED
  BY <1>1 DEF AtColumn

LEMMA TestScreen ==
    ASSUME ConsoleInv, NEW w \in Writer, cursor_row < kRows, PutCharTest(w), ~overlapped'
    PROVE  OnePart' /\ ShownPart' /\ FreshPart' /\ BelowPart'
<1> DEFINE c == Head(put[w].text)
<1>1. /\ ConsoleType /\ WriterPart
      /\ put \in PutType /\ put[w].text # <<>> /\ put[w].at = "test" /\ Overlap(w)
      /\ UNCHANGED <<buffer, screen, cursor_row>>
      /\ cursor_row \in Nat /\ cursor_column \in Nat /\ overlapped \in BOOLEAN
  BY SizeFacts DEF ConsoleInv, ConsoleType, PutType, PutCharTest
<1>2. ~overlapped /\ Alone(w)
  BY <1>1, OverlapFacts DEF Alone
<1>3. OnePart /\ ShownPart /\ FreshPart /\ BelowPart /\ ~raced
  BY <1>2 DEF ConsoleInv, ScreenPart, OnePart
<1>4. Moving = 0
  <2>1. \A v \in Writer : put[v].at # "row"
    BY <1>1, <1>2 DEF Alone
  <2> QED
    BY <2>1, MovingFacts
<1>5. AtColumn = cursor_column /\ \A v \in Writer : put[v].at \notin {"row", "scroll"}
  BY <1>1, <1>2, AtColumnAlone
<1>6. CASE /\ c = "NL" /\ cursor_column' = 0
           /\ GoTo(w, IF RoomBelow(cursor_row) THEN "row" ELSE "scroll")
           /\ raced' = (raced \/ (RoomBelow(cursor_row) /\ ~RoomBelow(cursor_row + Moving)))
           /\ UNCHANGED returned
  <2> DEFINE at == IF RoomBelow(cursor_row) THEN "row" ELSE "scroll"
  <2>1. /\ put'[w].at = at
        /\ \A v \in Writer \ {w} : put'[v] = put[v]
    <3>1. at \in PutAt
      BY DEF PutAt
    <3> QED
      BY <1>1, <1>6, <3>1, GoToFacts
  <2>2. Alone(w)'
    BY <1>2, <2>1 DEF Alone
  <2>3. ~raced'
    <3>1. cursor_row + Moving = cursor_row
      BY <1>1, <1>4
    <3>2. raced' = (raced \/ (RoomBelow(cursor_row) /\ ~RoomBelow(cursor_row)))
      BY <1>6, <3>1
    <3> QED
      BY <1>3, <3>2, Zenon
  <2>4. OnePart'
    <3>1. at = "row" => cursor_row' < kRows - 1
      BY <1>1 DEF RoomBelow
    <3>2. at = "scroll" => cursor_row' = kRows - 1
      BY <1>1, SizeFacts DEF RoomBelow
    <3>3. at # "write"
      OBVIOUS
    <3> HIDE DEF at
    <3> QED
      BY <1>6, <2>1, <2>2, <2>3, <3>1, <3>2, <3>3, OneOfStep
  <2>5. ShownPart' /\ BelowPart'
    BY <1>1, <1>3, <1>6, ShownUnchanged
  <2>6. FreshPart'
    <3>1. put'[w].at \in {"row", "scroll"}
      BY <2>1
    <3> QED
      BY <3>1 DEF FreshPart
  <2> QED
    BY <2>4, <2>5, <2>6
<1>7. CASE /\ c = "CR" /\ cursor_column' = 0 /\ returned' = returned \cup {cursor_row}
           /\ Next1(w) /\ UNCHANGED raced
  <2>1. put'[w].at = "test" /\ \A v \in Writer \ {w} : put'[v] = put[v]
    BY <1>1, <1>7, Next1Facts
  <2>2. Alone(w)'
    BY <1>2, <2>1 DEF Alone
  <2>3. OnePart'
    BY <1>3, <1>7, <2>1, <2>2, OneOfStep
  <2>4. ShownPart' /\ BelowPart'
    BY <1>1, <1>3, <1>7, ShownUnchanged
  <2>5. FreshPart'
    BY <1>1, <1>7 DEF FreshPart
  <2> QED
    BY <2>3, <2>4, <2>5
<1>8. CASE /\ IF RoomInRow(cursor_column) THEN GoTo(w, "write") ELSE Next1(w)
           /\ UNCHANGED <<cursor_column, raced, returned>>
  <2>1. /\ \A v \in Writer \ {w} : put'[v] = put[v]
        /\ \/ put'[w].at = "write" /\ RoomInRow(cursor_column)
           \/ put'[w].at = "test"
    <3>1. CASE RoomInRow(cursor_column)
      <4>1. GoTo(w, "write") /\ "write" \in PutAt
        BY <1>8, <3>1 DEF PutAt
      <4> QED
        BY <1>1, <3>1, <4>1, GoToFacts
    <3>2. CASE ~RoomInRow(cursor_column)
      BY <1>1, <1>8, <3>2, Next1Facts
    <3> QED
      BY <3>1, <3>2
  <2>2. Alone(w)'
    BY <1>2, <2>1 DEF Alone
  <2>3. OnePart'
    <3>1. RoomInRow(cursor_column) => cursor_column' <= kColumns - 2
      BY <1>1, <1>8, SizeFacts DEF RoomInRow
    <3> QED
      BY <1>3, <1>8, <2>1, <2>2, <3>1, OneOfStep
  <2>4. ShownPart' /\ BelowPart'
    BY <1>1, <1>3, <1>8, ShownUnchanged
  <2>5. FreshPart'
    <3>1. AtColumn' = AtColumn
      BY <1>5, <1>8, <2>1, <2>2, AtColumnAloneNext
    <3> QED
      BY <1>1, <1>3, <1>5, <1>8, <3>1 DEF FreshPart
  <2> QED
    BY <2>3, <2>4, <2>5
<1> QED
  BY <1>6, <1>7, <1>8, Zenon DEF PutCharTest

\* Where the row was empty from the cursor on, the cell drawn and the one made
\* blank to its right still show the buffer.
LEMMA WriteScreen ==
    ASSUME ConsoleInv, NEW w \in Writer, cursor_row < kRows, PutCharWrite(w), ~overlapped'
    PROVE  OnePart' /\ ShownPart' /\ FreshPart' /\ BelowPart'
<1> DEFINE ch == Head(put[w].text)
<1> DEFINE R == cursor_row
<1> DEFINE C == cursor_column
<1>1. /\ ConsoleType /\ WriterPart
      /\ put \in PutType /\ put[w].at = "write" /\ Overlap(w) /\ GoTo(w, "col")
      /\ screen' = [screen EXCEPT ![R] = WriteAscii(screen[R], C, ch)]
      /\ buffer' = [buffer EXCEPT ![R][C] = ch]
      /\ UNCHANGED <<cursor_row, cursor_column, raced, returned>>
      /\ R \in Nat /\ C \in Nat /\ overlapped \in BOOLEAN
  BY SizeFacts DEF ConsoleInv, ConsoleType, PutType, PutCharWrite
<1>2. ~overlapped /\ Alone(w)
  BY <1>1, OverlapFacts DEF Alone
<1>3. OnePart /\ ShownPart /\ FreshPart /\ BelowPart /\ ~raced
  BY <1>2 DEF ConsoleInv, ScreenPart, OnePart
<1>4. R \in Row /\ C + 1 \in 0..(kColumns - 1) /\ C \in 0..(kColumns - 1) /\ C \in Column
  <2>1. C <= kColumns - 2
    BY <1>1, <1>3 DEF OnePart
  <2> QED
    BY <1>1, <2>1, SizeFacts
<1>5. put'[w].at = "col" /\ \A v \in Writer \ {w} : put'[v] = put[v]
  <2>1. "col" \in PutAt
    BY DEF PutAt
  <2> QED
    BY <1>1, <2>1, GoToFacts
<1>6. Alone(w)'
  BY <1>2, <1>5 DEF Alone
<1>7. OnePart'
  BY <1>1, <1>3, <1>5, <1>6, OneOfStep
<1>8. AtColumn = C /\ AtColumn' = C + 1 /\ \A v \in Writer : put[v].at \notin {"row", "scroll"}
  BY <1>1, <1>2, <1>5, <1>6, AtColumnAlone, AtColumnAloneNext
<1>9. R \notin returned => \A x \in Column : x >= C => buffer[R][x] = "NUL" /\ screen[R][x] = "blank"
  BY <1>3, <1>8 DEF FreshPart
<1>10. /\ buffer \in [Row -> [Column -> Char]]
       /\ screen \in [Row -> [0..(kColumns + 1) -> Char \cup {"blank"}]]
  BY <1>1 DEF ConsoleType
<1> HIDE DEF ch, R, C
<1>11. /\ \A r \in Row \ {R} : buffer'[r] = buffer[r] /\ screen'[r] = screen[r]
       /\ buffer'[R] = [buffer[R] EXCEPT ![C] = ch]
       /\ screen'[R] = WriteAscii(screen[R], C, ch)
  BY <1>1, <1>4, <1>10
<1>12. buffer'[R][C] = ch /\ \A x \in Column \ {C} : buffer'[R][x] = buffer[R][x]
  BY <1>4, <1>10, <1>11
<1>13. \A x \in 0..(kColumns + 1) :
           /\ x \notin {C, C + 1} => screen'[R][x] = screen[R][x]
           /\ ch # "high" => /\ x = C + 1 => screen'[R][x] = "blank"
                             /\ x = C => screen'[R][x] = Glyph(ch)
           /\ ch = "high" => screen'[R][x] = screen[R][x]
  <2>1. screen[R] \in [0..(kColumns + 1) -> Char \cup {"blank"}]
    BY <1>4, <1>10
  <2>2. CASE ch = "high"
    BY <1>11, <2>2 DEF WriteAscii
  <2>3. CASE ch # "high"
    <3>1. screen'[R] = [screen[R] EXCEPT ![C] = Glyph(ch), ![C + 1] = "blank"]
      BY <1>11, <2>3 DEF WriteAscii
    <3>2. C # C + 1 /\ C \in 0..(kColumns + 1) /\ C + 1 \in 0..(kColumns + 1)
      BY <1>4, SizeFacts
    <3> QED
      BY <2>1, <2>3, <3>1, <3>2
  <2> QED
    BY <2>2, <2>3
<1>14. Glyph("NUL") = "blank" /\ Glyph("high") = "blank"
  BY DEF Glyph
<1>15. ShownPart'
  <2>1. ASSUME NEW r \in Row \ returned', NEW x \in 0..(kColumns - 1) PROVE Shown(r, x)'
    <3>1. r \notin returned /\ Shown(r, x) /\ x \in Column /\ x \in 0..(kColumns + 1)
      BY <1>1, <1>3, SizeFacts DEF ShownPart
    <3>2. CASE r # R
      <4>1. buffer'[r] = buffer[r] /\ screen'[r] = screen[r]
        BY <1>11, <3>2
      <4> QED
        BY <3>1, <4>1 DEF Shown
    <3>3. CASE r = R /\ x = C
      <4>1. buffer[R][C] = "NUL" /\ screen[R][C] = "blank"
        BY <1>1, <1>4, <1>9, <3>1, <3>3 DEF C
      <4>2. screen'[R][C] = Glyph(ch)
        <5>1. CASE ch = "high"
          BY <1>13, <1>14, <3>1, <3>3, <4>1, <5>1
        <5>2. CASE ch # "high"
          BY <1>13, <3>1, <3>3, <5>2
        <5> QED
          BY <5>1, <5>2
      <4> QED
        BY <1>12, <3>3, <4>2 DEF Shown
    <3>4. CASE r = R /\ x > C
      <4>1. buffer[R][x] = "NUL" /\ screen[R][x] = "blank" /\ x # C
        BY <1>1, <1>9, <3>1, <3>4 DEF C
      <4>2. buffer'[R][x] = "NUL"
        BY <1>12, <3>1, <4>1
      <4>3. screen'[R][x] = "blank"
        BY <1>13, <3>1, <4>1
      <4> QED
        BY <1>14, <3>4, <4>2, <4>3 DEF Shown
    <3>5. CASE r = R /\ x < C
      <4>1. x \notin {C, C + 1}
        BY <1>1, <3>5 DEF C
      <4>2. screen'[R][x] = screen[R][x] /\ buffer'[R][x] = buffer[R][x]
        BY <1>12, <1>13, <3>1, <4>1
      <4>3. ASSUME NEW d \in 0..(x - 1) PROVE buffer'[R][d] = buffer[R][d]
        <5>1. d \in Column \ {C}
          BY <1>1, <3>5, SizeFacts DEF C
        <5> QED
          BY <1>12, <5>1
      <4> QED
        BY <3>1, <3>5, <4>2, <4>3 DEF Shown
    <3> QED
      BY <1>4, <3>2, <3>3, <3>4, <3>5, SizeFacts
  <2> QED
    BY <2>1 DEF ShownPart
<1>16. FreshPart'
  <2>1. ASSUME R \notin returned, NEW x \in Column, x >= C + 1
        PROVE  buffer'[R][x] = "NUL" /\ screen'[R][x] = "blank"
    <3>1. x >= C /\ x # C /\ x \in 0..(kColumns + 1)
      BY <1>4, <2>1, SizeFacts
    <3>2. buffer[R][x] = "NUL" /\ screen[R][x] = "blank"
      BY <1>9, <2>1, <3>1
    <3>3. buffer'[R][x] = "NUL"
      BY <1>12, <3>1, <3>2
    <3>4. screen'[R][x] = "blank"
      BY <1>13, <3>1, <3>2
    <3> QED
      BY <3>3, <3>4
  <2>2. cursor_row' = R /\ returned' = returned /\ AtColumn' = C + 1
    BY <1>1, <1>8 DEF R
  <2> QED
    BY <2>1, <2>2 DEF FreshPart
<1>17. BelowPart'
  <2>1. ASSUME NEW r \in Row, r > R
        PROVE  buffer'[r] = EmptyRow /\ screen'[r] = BlankRow /\ r \notin returned
    <3>1. r # R
      BY <1>4, <2>1, SizeFacts
    <3>2. buffer[r] = EmptyRow /\ screen[r] = BlankRow /\ r \notin returned
      BY <1>3, <2>1 DEF BelowPart, R
    <3> QED
      BY <1>11, <3>1, <3>2
  <2>2. cursor_row' = R /\ returned' = returned
    BY <1>1 DEF R
  <2> QED
    BY <2>1, <2>2 DEF BelowPart
<1> QED
  BY <1>7, <1>15, <1>16, <1>17

LEMMA ColumnMoveScreen ==
    ASSUME ConsoleInv, NEW w \in Writer, cursor_row < kRows, PutCharMove(w), ~overlapped'
    PROVE  OnePart' /\ ShownPart' /\ FreshPart' /\ BelowPart'
<1>1. /\ ConsoleType /\ WriterPart
      /\ put \in PutType /\ put[w].at = "col" /\ Overlap(w) /\ Next1(w)
      /\ cursor_column' = cursor_column + 1
      /\ UNCHANGED <<buffer, screen, cursor_row, raced, returned>>
      /\ cursor_row \in Nat /\ cursor_column \in Nat /\ overlapped \in BOOLEAN
  BY SizeFacts DEF ConsoleInv, ConsoleType, PutType, PutCharMove
<1>2. ~overlapped /\ Alone(w)
  BY <1>1, OverlapFacts DEF Alone
<1>3. OnePart /\ ShownPart /\ FreshPart /\ BelowPart /\ ~raced
  BY <1>2 DEF ConsoleInv, ScreenPart, OnePart
<1>4. put'[w].at = "test" /\ \A v \in Writer \ {w} : put'[v] = put[v]
  <2>1. put[w].text # <<>>
    BY <1>1 DEF WriterPart
  <2> QED
    BY <1>1, <2>1, Next1Facts
<1>5. Alone(w)'
  BY <1>2, <1>4 DEF Alone
<1>6. OnePart'
  BY <1>1, <1>3, <1>4, <1>5, OneOfStep
<1>7. ShownPart' /\ BelowPart'
  BY <1>1, <1>3, ShownUnchanged
<1>8. FreshPart'
  <2>1. AtColumn' = AtColumn /\ \A v \in Writer : put[v].at \notin {"row", "scroll"}
    BY <1>1, <1>2, <1>4, <1>5, AtColumnAlone, AtColumnAloneNext
  <2> QED
    BY <1>1, <1>3, <2>1 DEF FreshPart
<1> QED
  BY <1>6, <1>7, <1>8

\* The row below the cursor was empty, so the cursor enters an empty row.
LEMMA RowMoveScreen ==
    ASSUME ConsoleInv, NEW w \in Writer, cursor_row < kRows, NewLineMove(w), ~overlapped'
    PROVE  OnePart' /\ ShownPart' /\ FreshPart' /\ BelowPart'
<1>1. /\ ConsoleType /\ WriterPart
      /\ put \in PutType /\ put[w].at = "row" /\ Overlap(w) /\ Next1(w)
      /\ cursor_row' = cursor_row + 1
      /\ UNCHANGED <<buffer, screen, cursor_column, raced, returned>>
      /\ cursor_row \in Nat /\ cursor_column \in Nat /\ overlapped \in BOOLEAN
  BY SizeFacts DEF ConsoleInv, ConsoleType, PutType, NewLineMove
<1>2. ~overlapped /\ Alone(w)
  BY <1>1, OverlapFacts DEF Alone
<1>3. OnePart /\ ShownPart /\ FreshPart /\ BelowPart /\ ~raced
  BY <1>2 DEF ConsoleInv, ScreenPart, OnePart
<1>4. put'[w].at = "test" /\ \A v \in Writer \ {w} : put'[v] = put[v]
  <2>1. put[w].text # <<>>
    BY <1>1 DEF WriterPart
  <2> QED
    BY <1>1, <2>1, Next1Facts
<1>5. Alone(w)'
  BY <1>2, <1>4 DEF Alone
<1>6. OnePart'
  BY <1>1, <1>3, <1>4, <1>5, OneOfStep
<1>7. cursor_row + 1 \in Row
  <2>1. cursor_row < kRows - 1
    BY <1>1, <1>3 DEF OnePart
  <2> QED
    BY <1>1, <2>1, SizeFacts
<1>8. ShownPart'
  BY <1>1, <1>3 DEF ShownPart, Shown
<1>9. BelowPart'
  <2>1. ASSUME NEW r \in Row, r > cursor_row + 1
        PROVE  buffer[r] = EmptyRow /\ screen[r] = BlankRow /\ r \notin returned
    <3>1. r > cursor_row
      BY <1>1, <2>1, SizeFacts
    <3> QED
      BY <1>3, <3>1 DEF BelowPart
  <2> QED
    BY <1>1, <2>1 DEF BelowPart
<1>10. FreshPart'
  <2>1. buffer[cursor_row + 1] = EmptyRow /\ screen[cursor_row + 1] = BlankRow
    <3>1. cursor_row + 1 > cursor_row
      BY <1>1
    <3> QED
      BY <1>3, <1>7, <3>1 DEF BelowPart
  <2>2. ASSUME NEW x \in Column
        PROVE  buffer[cursor_row + 1][x] = "NUL" /\ screen[cursor_row + 1][x] = "blank"
    <3>1. x \in 0..(kColumns + 1)
      BY SizeFacts
    <3> QED
      BY <2>1, <3>1 DEF EmptyRow, BlankRow
  <2> QED
    BY <1>1, <2>2 DEF FreshPart
<1> QED
  BY <1>6, <1>8, <1>9, <1>10

\* Scrolling draws a row up to its first NUL, and empties the last.
LEMMA ScrollScreen ==
    ASSUME ConsoleInv, NEW w \in Writer, cursor_row < kRows, NewLineScroll(w), ~overlapped'
    PROVE  OnePart' /\ ShownPart' /\ FreshPart' /\ BelowPart'
<1>1. /\ ConsoleType /\ WriterPart
      /\ put \in PutType /\ put[w].at = "scroll" /\ Overlap(w) /\ Next1(w)
      /\ buffer' = [r \in Row |-> IF r < kRows - 1 THEN buffer[r + 1] ELSE EmptyRow]
      /\ screen' = [r \in Row |-> IF r < kRows - 1 THEN WriteString(buffer[r + 1]) ELSE BlankRow]
      /\ returned' = {}
      /\ UNCHANGED <<cursor_row, cursor_column, raced>>
      /\ cursor_row \in Nat /\ cursor_column \in Nat /\ overlapped \in BOOLEAN
  BY SizeFacts DEF ConsoleInv, ConsoleType, PutType, NewLineScroll, Scrolled
<1>2. ~overlapped /\ Alone(w)
  BY <1>1, OverlapFacts DEF Alone
<1>3. OnePart /\ ~raced /\ cursor_row = kRows - 1
  BY <1>1, <1>2 DEF ConsoleInv, ScreenPart, OnePart
<1>4. put'[w].at = "test" /\ \A v \in Writer \ {w} : put'[v] = put[v]
  <2>1. put[w].text # <<>>
    BY <1>1 DEF WriterPart
  <2> QED
    BY <1>1, <2>1, Next1Facts
<1>5. Alone(w)'
  BY <1>2, <1>4 DEF Alone
<1>6. OnePart'
  BY <1>1, <1>3, <1>4, <1>5, OneOfStep
<1>7. /\ kRows - 1 \in Row /\ buffer'[kRows - 1] = EmptyRow /\ screen'[kRows - 1] = BlankRow
      /\ \A x \in Column : EmptyRow[x] = "NUL" /\ BlankRow[x] = "blank"
  <2>1. kRows - 1 \in Row /\ ~(kRows - 1 < kRows - 1)
    BY SizeFacts
  <2>2. \A x \in Column : x \in 0..(kColumns + 1)
    BY SizeFacts
  <2> QED
    BY <1>1, <2>1, <2>2 DEF EmptyRow, BlankRow
<1>8. ShownPart'
  <2>1. ASSUME NEW r \in Row, NEW x \in 0..(kColumns - 1) PROVE Shown(r, x)'
    <3>1. x \in Column /\ x \in 0..(kColumns + 1)
      BY SizeFacts
    <3>2. CASE r = kRows - 1
      <4>1. buffer'[r][x] = "NUL" /\ screen'[r][x] = "blank"
        BY <1>7, <3>1, <3>2
      <4> QED
        BY <4>1 DEF Shown, Glyph
    <3>3. CASE r # kRows - 1
      <4> DEFINE text == buffer[r + 1]
      <4>1. r < kRows - 1
        BY <3>3, SizeFacts
      <4>2. buffer'[r] = text /\ screen'[r] = WriteString(text)
        BY <1>1, <4>1
      <4> HIDE DEF text
      <4>3. CASE \A d \in 0..x : text[d] # "NUL"
        <5>1. screen'[r][x] = Glyph(text[x])
          BY <3>1, <4>2, <4>3 DEF WriteString
        <5> QED
          BY <4>2, <5>1 DEF Shown
      <4>4. ASSUME NEW d \in 0..x, text[d] = "NUL" PROVE Shown(r, x)'
        <5>1. screen'[r][x] = "blank"
          BY <3>1, <4>2, <4>4 DEF WriteString
        <5>2. CASE d = x
          BY <4>2, <4>4, <5>1, <5>2 DEF Shown, Glyph
        <5>3. CASE d # x
          <6>1. d \in 0..(x - 1)
            BY <5>3
          <6> QED
            BY <4>2, <4>4, <5>1, <6>1 DEF Shown
        <5> QED
          BY <5>2, <5>3
      <4> QED
        BY <4>3, <4>4
    <3> QED
      BY <3>2, <3>3
  <2> QED
    BY <2>1 DEF ShownPart
<1>9. FreshPart'
  <2>1. cursor_row' = kRows - 1
    BY <1>1, <1>3
  <2> QED
    BY <1>7, <2>1 DEF FreshPart
<1>10. BelowPart'
  <2>1. \A r \in Row : ~(r > cursor_row')
    BY <1>1, <1>3, SizeFacts
  <2> QED
    BY <2>1 DEF BelowPart
<1> QED
  BY <1>6, <1>8, <1>9, <1>10

LEMMA ClearScreen ==
    ASSUME ConsoleInv, NEW w \in Writer, Clear(w), ~overlapped'
    PROVE  OnePart' /\ ShownPart' /\ FreshPart' /\ BelowPart'
<1>1. /\ ConsoleType /\ WriterPart /\ put[w].text = <<>> /\ Overlap(w) /\ overlapped \in BOOLEAN
      /\ screen' = [r \in Row |-> BlankRow] /\ buffer' = [r \in Row |-> EmptyRow]
      /\ cursor_row' = 0 /\ cursor_column' = 0 /\ returned' = {}
      /\ UNCHANGED <<put, raced>>
  BY DEF ConsoleInv, ConsoleType, Clear
<1>2. ~overlapped /\ Alone(w)
  BY <1>1, OverlapFacts DEF Alone
<1>3. ~raced' /\ put'[w].at = "test" /\ Alone(w)'
  BY <1>1, <1>2 DEF ConsoleInv, ScreenPart, OnePart, WriterPart, Alone
<1>4. OnePart'
  BY <1>3, OneOfStep
<1>5. \A r \in Row : \A x \in Column : buffer'[r][x] = "NUL" /\ screen'[r][x] = "blank"
  <2>1. \A x \in Column : x \in 0..(kColumns + 1)
    BY SizeFacts
  <2> QED
    BY <1>1, <2>1 DEF EmptyRow, BlankRow
<1>6. ShownPart'
  <2>1. \A x \in 0..(kColumns - 1) : x \in Column
    BY SizeFacts
  <2> QED
    BY <1>5, <2>1 DEF ShownPart, Shown, Glyph
<1>7. FreshPart'
  <2>1. cursor_row' \in Row
    BY <1>1, SizeFacts
  <2> QED
    BY <1>5, <2>1 DEF FreshPart
<1>8. BelowPart'
  BY <1>1 DEF BelowPart
<1> QED
  BY <1>4, <1>6, <1>7, <1>8

-----------------------------------------------------------------------------
(* The console as a whole. *)

LEMMA PutCharInv ==
    ASSUME ConsoleInv, NEW w \in Writer, PutChar(w)
    PROVE  ConsoleInv'
<1>1. cursor_row < kRows
  BY DEF PutChar
<1>2. ConsoleType' /\ WriterPart' /\ ColumnPart' /\ RowPart'
  BY <1>1, TestCounts, WriteCounts, MoveCounts, ScrollCounts DEF PutChar
<1>3. ScreenPart'
  <2> SUFFICES ASSUME ~overlapped'
               PROVE  OnePart' /\ ShownPart' /\ FreshPart' /\ BelowPart'
    BY DEF ScreenPart
  <2> QED
    BY <1>1, TestScreen, WriteScreen, ColumnMoveScreen, RowMoveScreen, ScrollScreen DEF PutChar
<1> QED
  BY <1>2, <1>3 DEF ConsoleInv

LEMMA ClearInv ==
    ASSUME ConsoleInv, NEW w \in Writer, Clear(w)
    PROVE  ConsoleInv'
<1>1. ConsoleType' /\ WriterPart' /\ ColumnPart' /\ RowPart'
  BY ClearCounts
<1>2. ScreenPart'
  <2> SUFFICES ASSUME ~overlapped'
               PROVE  OnePart' /\ ShownPart' /\ FreshPart' /\ BelowPart'
    BY DEF ScreenPart
  <2> QED
    BY ClearScreen
<1> QED
  BY <1>1, <1>2 DEF ConsoleInv

\* A new text to print, for a writer that has none left.
LEMMA NewTextInv ==
    ASSUME ConsoleInv, put' \in PutType,
           \A v \in Writer : /\ put'[v].at = put[v].at
                             /\ put'[v].text = put[v].text \/ put[v].text = <<>>,
           UNCHANGED <<buffer, screen, cursor_row, cursor_column, overlapped, raced, returned>>
    PROVE  ConsoleInv'
<1>1. ConsoleType'
  BY DEF ConsoleInv, ConsoleType, PutType
<1>2. WriterPart'
  BY DEF ConsoleInv, WriterPart
<1>3. \A v \in Writer : Busy(v)' = Busy(v) /\ Down(v)' = Down(v)
  BY DEF Busy, Down
<1>4. ColumnPart' /\ RowPart'
  BY <1>3 DEF ConsoleInv, ColumnPart, RowPart
<1>5. ScreenPart'
  <2> SUFFICES ASSUME ~overlapped
               PROVE  OnePart' /\ ShownPart' /\ FreshPart' /\ BelowPart'
    BY DEF ScreenPart
  <2>1. OnePart /\ ShownPart /\ FreshPart /\ BelowPart
    BY DEF ConsoleInv, ScreenPart
  <2>2. OnePart'
    BY <2>1 DEF OnePart
  <2>3. ShownPart' /\ BelowPart'
    BY <2>1 DEF ShownPart, BelowPart, Shown
  <2>4. AtColumn' = AtColumn
    BY DEF AtColumn
  <2>5. FreshPart'
    BY <2>1, <2>4 DEF FreshPart
  <2> QED
    BY <2>2, <2>3, <2>5
<1> QED
  BY <1>1, <1>2, <1>4, <1>5 DEF ConsoleInv

LEMMA PutStringInv ==
    ASSUME ConsoleInv, NEW w \in Writer, NEW s \in Seq(Char), put[w].text = <<>>, PutString(w, s)
    PROVE  ConsoleInv'
<1>1. put \in PutType
  BY DEF ConsoleInv, ConsoleType, PutType
<1>2. /\ put' = [put EXCEPT ![w].text = s]
      /\ UNCHANGED <<buffer, screen, cursor_row, cursor_column, overlapped, raced, returned>>
  BY DEF PutString
<1>3. put' \in PutType
  BY <1>1, <1>2 DEF PutType
<1>4. \A v \in Writer : /\ put'[v].at = put[v].at
                        /\ put'[v].text = put[v].text \/ put[v].text = <<>>
  BY <1>1, <1>2 DEF PutType
<1> QED
  BY <1>2, <1>3, <1>4, NewTextInv

LEMMA ConsoleUnchanged ==
    ASSUME ConsoleInv, UNCHANGED consoleVars
    PROVE  ConsoleInv'
<1>1. /\ UNCHANGED <<buffer, screen, cursor_row, cursor_column, overlapped, raced, returned>>
      /\ put' = put
  BY DEF consoleVars
<1>2. put' \in PutType
  BY <1>1 DEF ConsoleInv, ConsoleType, PutType
<1> QED
  BY <1>1, <1>2, NewTextInv

LEMMA ConsoleInitInv == Init => ConsoleInv
<1> SUFFICES ASSUME Init PROVE ConsoleInv
  OBVIOUS
<1>1. /\ buffer = [r \in Row |-> EmptyRow] /\ screen = [r \in Row |-> BlankRow]
      /\ cursor_row = 0 /\ cursor_column = 0
      /\ put = [w \in Writer |-> [text |-> <<>>, at |-> "test"]]
      /\ overlapped = FALSE /\ raced = FALSE /\ returned = {}
  BY DEF Init, ConsoleInit, Idle
<1>2. put \in PutType /\ \A w \in Writer : put[w].at = "test"
  <2>1. <<>> \in Seq(Char) /\ "test" \in PutAt
    BY EmptySeq DEF PutAt
  <2> QED
    BY <1>1, <2>1 DEF PutType
<1>3. ConsoleType
  <2>1. buffer \in [Row -> [Column -> Char]]
    BY <1>1, DrawnTypes
  <2>2. screen \in [Row -> [0..(kColumns + 1) -> Char \cup {"blank"}]]
    BY <1>1, DrawnTypes
  <2>3. cursor_row \in 0..kRows /\ cursor_column \in Nat
    BY <1>1, SizeFacts
  <2> QED
    BY <1>1, <1>2, <2>1, <2>2, <2>3 DEF ConsoleType, PutType
<1>4. WriterPart
  BY <1>2 DEF WriterPart
<1>5. \A v \in Writer : Busy(v) = 0 /\ Down(v) = 0
  BY <1>2 DEF Busy, Down
<1>6. ColumnPart /\ RowPart
  BY <1>1, <1>5, SizeFacts DEF ColumnPart, RowPart
<1>7. \A r \in Row : \A x \in Column : buffer[r][x] = "NUL" /\ screen[r][x] = "blank"
  <2>1. \A x \in Column : x \in 0..(kColumns + 1)
    BY SizeFacts
  <2> QED
    BY <1>1, <2>1 DEF EmptyRow, BlankRow
<1>8. ShownPart
  <2>1. \A x \in 0..(kColumns - 1) : x \in Column
    BY SizeFacts
  <2> QED
    BY <1>7, <2>1 DEF ShownPart, Shown, Glyph
<1>9. FreshPart
  <2>1. cursor_row \in Row
    BY <1>1, SizeFacts
  <2> QED
    BY <1>7, <2>1 DEF FreshPart
<1>10. BelowPart /\ OnePart
  BY <1>1, <1>2 DEF BelowPart, OnePart
<1> QED
  BY <1>3, <1>4, <1>6, <1>8, <1>9, <1>10 DEF ConsoleInv, ScreenPart

-----------------------------------------------------------------------------
(* The keyboard. *)

LEMMA KeyFacts ==
    /\ Key = {"LShift", "RShift", "LCtrl", "RCtrl", "LAlt", "RAlt", "D", "Enter", "F1"}
    /\ Code["LShift"] = 42 /\ Code["RShift"] = 54 /\ Code["LCtrl"] = 29 /\ Code["RCtrl"] = 29
    /\ Code["LAlt"] = 56 /\ Code["RAlt"] = 56 /\ Code["D"] = 32 /\ Code["Enter"] = 28
    /\ Code["F1"] = 59
BY DEF Key, Code

LEMMA ShiftBitsFacts == ShiftBits(42) = {16} /\ ShiftBits(54) = {1}
<1>1. Bits(2832) = {16}
  BY DEF Bits
<1>2. Bits(2817) = {1}
  BY DEF Bits
<1> QED
  BY <1>1, <1>2 DEF ShiftBits, kKeyLShift

LEMMA KeysOfFacts ==
    /\ DOMAIN KeysOf = {"shift", "ctrl", "alt"}
    /\ KeysOf["shift"] = {"LShift", "RShift"}
    /\ KeysOf["ctrl"] = {"LCtrl", "RCtrl"}
    /\ KeysOf["alt"] = {"LAlt", "RAlt"}
BY DEF KeysOf

\* What each byte does to the modifiers.  The prefix 224 does nothing.
LEMMA ModifierFacts ==
    ASSUME NEW m \in KbType
    PROVE  /\ Modifiers(m, 42) = [m EXCEPT !.shift = m.shift \cup {16}]
           /\ Modifiers(m, 170) = [m EXCEPT !.shift = m.shift \ {16}]
           /\ Modifiers(m, 54) = [m EXCEPT !.shift = m.shift \cup {1}]
           /\ Modifiers(m, 182) = [m EXCEPT !.shift = m.shift \ {1}]
           /\ Modifiers(m, 29) = [m EXCEPT !.ctrl = TRUE]
           /\ Modifiers(m, 157) = [m EXCEPT !.ctrl = FALSE]
           /\ Modifiers(m, 56) = [m EXCEPT !.alt = TRUE]
           /\ Modifiers(m, 184) = [m EXCEPT !.alt = FALSE]
           /\ \A b \in {32, 28, 59, 160, 156, 187, 224} : Modifiers(m, b) = m
<1> USE DEF kBreakMask, kKeyLShift, kKeyRShift, kKeyCtrl, kKeyAlt
<1>1. /\ 42 % 128 = 42 /\ 170 % 128 = 42 /\ 54 % 128 = 54 /\ 182 % 128 = 54
      /\ 29 % 128 = 29 /\ 157 % 128 = 29 /\ 56 % 128 = 56 /\ 184 % 128 = 56
  OBVIOUS
<1>2. Modifiers(m, 42) = [m EXCEPT !.shift = m.shift \cup {16}]
  BY <1>1, ShiftBitsFacts DEF Modifiers
<1>3. Modifiers(m, 170) = [m EXCEPT !.shift = m.shift \ {16}]
  BY <1>1, ShiftBitsFacts DEF Modifiers
<1>4. Modifiers(m, 54) = [m EXCEPT !.shift = m.shift \cup {1}]
  BY <1>1, ShiftBitsFacts DEF Modifiers
<1>5. Modifiers(m, 182) = [m EXCEPT !.shift = m.shift \ {1}]
  BY <1>1, ShiftBitsFacts DEF Modifiers
<1>6. Modifiers(m, 29) = [m EXCEPT !.ctrl = TRUE]
  <2>1. (29 < 128) = TRUE
    OBVIOUS
  <2>2. Modifiers(m, 29) = [m EXCEPT !.ctrl = (29 < 128)]
    BY <1>1 DEF Modifiers
  <2> QED
    BY <2>1, <2>2, Zenon
<1>7. Modifiers(m, 157) = [m EXCEPT !.ctrl = FALSE]
  <2>1. (157 < 128) = FALSE
    OBVIOUS
  <2>2. Modifiers(m, 157) = [m EXCEPT !.ctrl = (157 < 128)]
    BY <1>1 DEF Modifiers
  <2> QED
    BY <2>1, <2>2, Zenon
<1>8. Modifiers(m, 56) = [m EXCEPT !.alt = TRUE]
  <2>1. (56 < 128) = TRUE
    OBVIOUS
  <2>2. Modifiers(m, 56) = [m EXCEPT !.alt = (56 < 128)]
    BY <1>1 DEF Modifiers
  <2> QED
    BY <2>1, <2>2, Zenon
<1>9. Modifiers(m, 184) = [m EXCEPT !.alt = FALSE]
  <2>1. (184 < 128) = FALSE
    OBVIOUS
  <2>2. Modifiers(m, 184) = [m EXCEPT !.alt = (184 < 128)]
    BY <1>1 DEF Modifiers
  <2> QED
    BY <2>1, <2>2, Zenon
<1>10. \A b \in {32, 28, 59, 160, 156, 187, 224} : Modifiers(m, b) = m
  BY DEF Modifiers
<1> QED
  BY <1>2, <1>3, <1>4, <1>5, <1>6, <1>7, <1>8, <1>9, <1>10

\* The bytes of the keys.
LEMMA KeyByteIs ==
    KeyByte = {42, 54, 29, 56, 32, 28, 59, 170, 182, 157, 184, 160, 156, 187}
BY KeyFacts DEF KeyByte, kBreakMask

LEMMA PairEqual ==
    ASSUME NEW s \in Seq(Nat), NEW u \in Seq(Nat), Len(s) = 2, Len(u) = 2,
           s[1] = u[1], s[2] = u[2]
    PROVE  s = u
<1>1. \A i \in 1..2 : s[i] = u[i]
  <2>1. \A i \in 1..2 : i = 1 \/ i = 2
    OBVIOUS
  <2> QED
    BY <2>1
<1> QED
  BY <1>1, SeqEqual

LEMMA KeyBytesFacts ==
    ASSUME NEW key \in Key, NEW break \in {0, kBreakMask}
    PROVE  /\ Code[key] + break \in KeyByte
           /\ \/ KeyBytes(key, break) = <<Code[key] + break>>
              \/ KeyBytes(key, break) = <<224, Code[key] + break>>
<1>1. Code[key] \in Nat /\ Code[key] + break \in KeyByte
  BY KeyFacts DEF KeyByte, kBreakMask
<1> DEFINE b == Code[key] + break
<1>2. b \in Nat
  BY <1>1, KeyByteIs
<1> HIDE DEF b
<1>3. <<224>> \o <<b>> = <<224, b>> /\ <<>> \o <<b>> = <<b>>
  <2>1. <<224>> \in Seq(Nat) /\ <<b>> \in Seq(Nat)
    BY <1>2
  <2>2. <<>> \o <<b>> = <<b>>
    BY <2>1, ConcatEmptySeq
  <2>3. <<224>> \o <<b>> = Append(<<224>>, b)
    BY <1>2, <2>1, AppendIsConcat
  <2>4. Append(<<224>>, b) = <<224, b>>
    <3>1. /\ Append(<<224>>, b) \in Seq(Nat) /\ Len(Append(<<224>>, b)) = 2
          /\ Append(<<224>>, b)[1] = 224 /\ Append(<<224>>, b)[2] = b
      BY <1>2, <2>1, AppendProperties
    <3>2. /\ <<224, b>> \in Seq(Nat) /\ Len(<<224, b>>) = 2
          /\ <<224, b>>[1] = 224 /\ <<224, b>>[2] = b
      BY <1>2
    <3> DEFINE p == Append(<<224>>, b)
    <3> DEFINE q == <<224, b>>
    <3>3. /\ p \in Seq(Nat) /\ Len(p) = 2 /\ q \in Seq(Nat) /\ Len(q) = 2
          /\ p[1] = q[1] /\ p[2] = q[2]
      BY <3>1, <3>2
    <3> HIDE DEF p, q
    <3>4. p = q
      BY <3>3, PairEqual, Zenon
    <3> QED
      BY <3>4 DEF p, q
  <2> QED
    BY <2>2, <2>3, <2>4
<1>4. KeyBytes(key, break) = (IF key \in Extended THEN <<224>> ELSE <<>>) \o <<b>>
  BY Zenon DEF KeyBytes, b
<1>5. KeyBytes(key, break) = <<b>> \/ KeyBytes(key, break) = <<224, b>>
  BY <1>3, <1>4, Zenon
<1> QED
  BY <1>1, <1>5 DEF b

\* A key pressed or released, with nothing on the wire, makes the modifiers
\* follow once its last byte is handled.
LEMMA PressFollows ==
    ASSUME KeyboardInv, wire = <<>>, NEW key \in Key, PressOrRelease(key),
           NEW b, b = Code[key] + (IF key \in down THEN kBreakMask ELSE 0)
    PROVE  DoubledPart' /\ Follows(Modifiers(kb, b))'
<1> DEFINE held == IF key \in down THEN down \ {key} ELSE down \cup {key}
<1>1. kb \in KbType /\ Follows(kb) /\ DoubledPart
  <2>1. ~(\E x \in KeyByte : wire = <<x>> \/ wire = <<224, x>>)
    OBVIOUS
  <2> QED
    BY <2>1 DEF KeyboardInv, KeyboardType, WirePart
<1>2. down' = held /\ kb' = kb
  BY DEF PressOrRelease
<1>3. doubled' = {m \in {"shift", "ctrl", "alt"} :
                      \/ KeysOf[m] \subseteq held
                      \/ m \in doubled /\ KeysOf[m] \cap held # {}}
  BY KeysOfFacts DEF PressOrRelease
<1>4. "ctrl" \in doubled' <=> \/ "LCtrl" \in held /\ "RCtrl" \in held
                              \/ "ctrl" \in doubled /\ ("LCtrl" \in held \/ "RCtrl" \in held)
  BY <1>3, KeysOfFacts
<1>5. "alt" \in doubled' <=> \/ "LAlt" \in held /\ "RAlt" \in held
                             \/ "alt" \in doubled /\ ("LAlt" \in held \/ "RAlt" \in held)
  BY <1>3, KeysOfFacts
<1>6. DoubledPart'
  BY <1>2, <1>4, <1>5 DEF DoubledPart
<1>7. Follows(Modifiers(kb, b))'
  <2> DEFINE m == Modifiers(kb, b)
  <2> SUFFICES
        /\ m.shift = (IF "LShift" \in held THEN {16} ELSE {})
                         \cup (IF "RShift" \in held THEN {1} ELSE {})
        /\ m.ctrl => "LCtrl" \in held \/ "RCtrl" \in held
        /\ ~m.ctrl /\ "ctrl" \notin doubled' => "LCtrl" \notin held /\ "RCtrl" \notin held
        /\ m.alt => "LAlt" \in held \/ "RAlt" \in held
        /\ ~m.alt /\ "alt" \notin doubled' => "LAlt" \notin held /\ "RAlt" \notin held
    BY <1>2 DEF Follows
  <2>1. CASE key \in {"LShift", "RShift"}
    <3>1. b \in {42, 54, 170, 182}
      BY <2>1, KeyFacts DEF kBreakMask
    <3>2. m.ctrl = kb.ctrl /\ m.alt = kb.alt
      BY <1>1, <3>1, ModifierFacts DEF KbType
    <3>3. m.shift = (IF "LShift" \in held THEN {16} ELSE {})
                         \cup (IF "RShift" \in held THEN {1} ELSE {})
      <4>1. kb.shift = (IF "LShift" \in down THEN {16} ELSE {})
                         \cup (IF "RShift" \in down THEN {1} ELSE {})
        BY <1>1 DEF Follows
      <4>2. CASE key = "LShift" /\ key \in down
        <5>1. m.shift = kb.shift \ {16}
          BY <1>1, <4>2, ModifierFacts, KeyFacts DEF KbType, kBreakMask
        <5> QED
          BY <4>1, <4>2, <5>1
      <4>3. CASE key = "LShift" /\ key \notin down
        <5>1. m.shift = kb.shift \cup {16}
          BY <1>1, <4>3, ModifierFacts, KeyFacts DEF KbType
        <5> QED
          BY <4>1, <4>3, <5>1
      <4>4. CASE key = "RShift" /\ key \in down
        <5>1. m.shift = kb.shift \ {1}
          BY <1>1, <4>4, ModifierFacts, KeyFacts DEF KbType, kBreakMask
        <5> QED
          BY <4>1, <4>4, <5>1
      <4>5. CASE key = "RShift" /\ key \notin down
        <5>1. m.shift = kb.shift \cup {1}
          BY <1>1, <4>5, ModifierFacts, KeyFacts DEF KbType
        <5> QED
          BY <4>1, <4>5, <5>1
      <4> QED
        BY <2>1, <4>2, <4>3, <4>4, <4>5
    <3>4. /\ "LCtrl" \in held <=> "LCtrl" \in down
          /\ "RCtrl" \in held <=> "RCtrl" \in down
          /\ "LAlt" \in held <=> "LAlt" \in down
          /\ "RAlt" \in held <=> "RAlt" \in down
      BY <2>1
    <3> HIDE DEF held, m
    <3> QED
      BY <1>1, <1>4, <1>5, <3>2, <3>3, <3>4 DEF Follows
  <2>2. CASE key \in {"LCtrl", "RCtrl"}
    <3>1. m.shift = kb.shift /\ m.alt = kb.alt /\ (m.ctrl <=> key \notin down)
      <4>1. CASE key \in down
        <5>1. b = 157
          BY <2>2, <4>1, KeyFacts DEF kBreakMask
        <5>2. m = [kb EXCEPT !.ctrl = FALSE]
          BY <1>1, <5>1, ModifierFacts
        <5> HIDE DEF m
        <5> QED
          BY <1>1, <4>1, <5>2 DEF KbType
      <4>2. CASE key \notin down
        <5>1. b = 29
          BY <2>2, <4>2, KeyFacts
        <5>2. m = [kb EXCEPT !.ctrl = TRUE]
          BY <1>1, <5>1, ModifierFacts
        <5> HIDE DEF m
        <5> QED
          BY <1>1, <4>2, <5>2 DEF KbType
      <4> QED
        BY <4>1, <4>2
    <3>3. /\ "LShift" \in held <=> "LShift" \in down
          /\ "RShift" \in held <=> "RShift" \in down
          /\ "LAlt" \in held <=> "LAlt" \in down
          /\ "RAlt" \in held <=> "RAlt" \in down
      BY <2>2
    <3>4. /\ m.ctrl => "LCtrl" \in held \/ "RCtrl" \in held
          /\ ~m.ctrl /\ "ctrl" \notin doubled' => "LCtrl" \notin held /\ "RCtrl" \notin held
      BY <1>1, <1>4, <2>2, <3>1 DEF Follows, DoubledPart
    <3> HIDE DEF held, m
    <3> QED
      BY <1>1, <1>5, <3>1, <3>3, <3>4 DEF Follows
  <2>3. CASE key \in {"LAlt", "RAlt"}
    <3>1. m.shift = kb.shift /\ m.ctrl = kb.ctrl /\ (m.alt <=> key \notin down)
      <4>1. CASE key \in down
        <5>1. b = 184
          BY <2>3, <4>1, KeyFacts DEF kBreakMask
        <5>2. m = [kb EXCEPT !.alt = FALSE]
          BY <1>1, <5>1, ModifierFacts
        <5> HIDE DEF m
        <5> QED
          BY <1>1, <4>1, <5>2 DEF KbType
      <4>2. CASE key \notin down
        <5>1. b = 56
          BY <2>3, <4>2, KeyFacts
        <5>2. m = [kb EXCEPT !.alt = TRUE]
          BY <1>1, <5>1, ModifierFacts
        <5> HIDE DEF m
        <5> QED
          BY <1>1, <4>2, <5>2 DEF KbType
      <4> QED
        BY <4>1, <4>2
    <3>3. /\ "LShift" \in held <=> "LShift" \in down
          /\ "RShift" \in held <=> "RShift" \in down
          /\ "LCtrl" \in held <=> "LCtrl" \in down
          /\ "RCtrl" \in held <=> "RCtrl" \in down
      BY <2>3
    <3>4. /\ m.alt => "LAlt" \in held \/ "RAlt" \in held
          /\ ~m.alt /\ "alt" \notin doubled' => "LAlt" \notin held /\ "RAlt" \notin held
      BY <1>1, <1>5, <2>3, <3>1 DEF Follows, DoubledPart
    <3> HIDE DEF held, m
    <3> QED
      BY <1>1, <1>4, <3>1, <3>3, <3>4 DEF Follows
  <2>4. CASE key \in {"D", "Enter", "F1"}
    <3>1. b \in {32, 28, 59, 160, 156, 187}
      BY <2>4, KeyFacts DEF kBreakMask
    <3>2. m = kb
      BY <1>1, <3>1, ModifierFacts
    <3>3. /\ "LShift" \in held <=> "LShift" \in down
          /\ "RShift" \in held <=> "RShift" \in down
          /\ "LCtrl" \in held <=> "LCtrl" \in down
          /\ "RCtrl" \in held <=> "RCtrl" \in down
          /\ "LAlt" \in held <=> "LAlt" \in down
          /\ "RAlt" \in held <=> "RAlt" \in down
      BY <2>4
    <3> HIDE DEF held, m
    <3> QED
      BY <1>1, <1>4, <1>5, <3>2, <3>3 DEF Follows
  <2> QED
    BY <2>1, <2>2, <2>3, <2>4, KeyFacts
<1> QED
  BY <1>6, <1>7

\* A set of natural numbers that is not empty has a least element.
LEMMA LeastNat ==
    ASSUME NEW T, T \subseteq Nat, T # {}
    PROVE  \E n \in T : \A m \in T : n <= m
<1> DEFINE R == OpToRel(<, Nat)
<1>1. IsWellFoundedOn(R, Nat)
  BY NatLessThanWellFounded
<1>2. \A m, n \in Nat : m < n => <<m, n>> \in R
  BY DEF OpToRel
<1> HIDE DEF R
<1>3. PICK n \in T : \A m \in T : ~(<<m, n>> \in R)
  BY <1>1, WFMin
<1>4. ASSUME NEW m \in T PROVE n <= m
  <2>1. m \in Nat /\ n \in Nat /\ ~(<<m, n>> \in R)
    BY <1>3
  <2>2. ~(m < n)
    BY <1>2, <2>1, Zenon
  <2> QED
    BY <2>1, <2>2
<1> QED
  BY <1>4

LEMMA CStringType ==
    ASSUME NEW s \in Seq(Char)
    PROVE  CString(s) \in Seq(Char)
<1> DEFINE end == {i \in 1..Len(s) : s[i] = "NUL"}
<1> DEFINE i == CHOOSE i \in end : \A j \in end : i <= j
<1>1. CASE end = {}
  BY <1>1 DEF CString
<1>2. CASE end # {}
  <2>1. Len(s) \in Nat /\ end \subseteq Nat /\ end \subseteq 1..Len(s)
    OBVIOUS
  <2> HIDE DEF end
  <2>2. \E k \in end : \A j \in end : k <= j
    BY <1>2, <2>1, LeastNat
  <2>3. i \in end
    BY <2>2
  <2> HIDE DEF i
  <2>4. i \in 1..Len(s)
    BY <2>1, <2>3
  <2>5. i - 1 \in 0..Len(s)
    BY <2>1, <2>4
  <2>6. SubSeq(s, 1, i - 1) \in Seq(Char)
    BY <2>5, SubSeqProperties
  <2>7. CString(s) = SubSeq(s, 1, i - 1)
    BY <1>2 DEF CString, end, i
  <2> QED
    BY <2>6, <2>7
<1> QED
  BY <1>1, <1>2

\* A key from the keyboard is a character and a flag.
MessageType == [char : Char, ctrl : BOOLEAN]

LEMMA KeyMessagesType ==
    ASSUME NEW m \in KbType, NEW b \in KeyByte \cup {224}
    PROVE  /\ KeyMessages(m, b) \in Seq(MessageType)
           /\ b = 224 => KeyMessages(m, b) = <<>>
<1>0. b \in {42, 54, 29, 56, 32, 28, 59, 170, 182, 157, 184, 160, 156, 187, 224}
  BY KeyByteIs
<1>1. CASE b >= kBreakMask \/ b \in {kKeyLShift, kKeyRShift, kKeyCtrl, kKeyAlt}
  <2>1. KeyMessages(m, b) = <<>>
    BY <1>1 DEF KeyMessages
  <2> QED
    BY <2>1, EmptySeq
<1>2. CASE ~(b >= kBreakMask \/ b \in {kKeyLShift, kKeyRShift, kKeyCtrl, kKeyAlt})
  <2>1. b \in {32, 28, 59}
    BY <1>0, <1>2 DEF kBreakMask, kKeyLShift, kKeyRShift, kKeyCtrl, kKeyAlt
  <2>2. kKeymapLower[b] \in Char
    BY <2>1 DEF kKeymapLower, Char
  <2>3. kKeymapUpper[b] \in Char
    BY <2>1, <2>2 DEF kKeymapUpper, kKeymapLower, Char
  <2> DEFINE msg == [char |-> IF m.shift # {} THEN kKeymapUpper[b] ELSE kKeymapLower[b],
                     ctrl |-> m.ctrl]
  <2>4. m.ctrl \in BOOLEAN
    BY DEF KbType
  <2>5. msg \in MessageType
    BY <2>2, <2>3, <2>4 DEF MessageType
  <2>6. KeyMessages(m, b) = <<msg>>
    BY <1>2 DEF KeyMessages
  <2> HIDE DEF msg
  <2>7. <<msg>> \in Seq(MessageType)
    BY <2>5
  <2> QED
    BY <2>1, <2>6, <2>7
<1> QED
  BY <1>1, <1>2

LEMMA ModifiersType ==
    ASSUME NEW m \in KbType, NEW b \in KeyByte
    PROVE  Modifiers(m, b) \in KbType
<1>1. b \in {42, 54, 29, 56, 170, 182, 157, 184} \/ b \in {32, 28, 59, 160, 156, 187}
  BY KeyByteIs
<1>2. ASSUME b \in {32, 28, 59, 160, 156, 187} PROVE Modifiers(m, b) \in KbType
  BY <1>2, ModifierFacts
<1>3. ASSUME b \in {42, 54, 170, 182} PROVE Modifiers(m, b) \in KbType
  <2>1. \E s \in SUBSET {1, 16} : Modifiers(m, b) = [m EXCEPT !.shift = s]
    BY <1>3, ModifierFacts DEF KbType
  <2> QED
    BY <2>1 DEF KbType
<1>4. ASSUME b \in {29, 56, 157, 184} PROVE Modifiers(m, b) \in KbType
  <2>1. \/ Modifiers(m, b) = [m EXCEPT !.ctrl = TRUE]
        \/ Modifiers(m, b) = [m EXCEPT !.ctrl = FALSE]
        \/ Modifiers(m, b) = [m EXCEPT !.alt = TRUE]
        \/ Modifiers(m, b) = [m EXCEPT !.alt = FALSE]
    BY <1>4, ModifierFacts
  <2>2. /\ [m EXCEPT !.ctrl = TRUE] \in KbType /\ [m EXCEPT !.ctrl = FALSE] \in KbType
        /\ [m EXCEPT !.alt = TRUE] \in KbType /\ [m EXCEPT !.alt = FALSE] \in KbType
    BY DEF KbType
  <2> QED
    BY <2>1, <2>2, Zenon
<1> QED
  BY <1>1, <1>2, <1>3, <1>4

LEMMA PressInv ==
    ASSUME KeyboardInv, NEW key \in Key, PressOrRelease(key)
    PROVE  KeyboardInv'
<1> DEFINE break == IF key \in down THEN kBreakMask ELSE 0
<1>0. PICK b : b = Code[key] + break
  OBVIOUS
<1>1. /\ wire = <<>> /\ wire' = KeyBytes(key, break) /\ UNCHANGED <<kb, queue>>
      /\ down' = IF key \in down THEN down \ {key} ELSE down \cup {key}
  BY DEF PressOrRelease
<1>2. DoubledPart' /\ Follows(Modifiers(kb, b))'
  BY <1>0, <1>1, PressFollows
<1>3. b \in KeyByte /\ (wire' = <<b>> \/ wire' = <<224, b>>)
  <2>1. break \in {0, kBreakMask}
    OBVIOUS
  <2> HIDE DEF break
  <2> QED
    BY <1>0, <1>1, <2>1, KeyBytesFacts
<1>4. WirePart'
  BY <1>2, <1>3 DEF WirePart
<1>5. KeyboardType'
  BY <1>1 DEF KeyboardInv, KeyboardType
<1> QED
  BY <1>2, <1>4, <1>5 DEF KeyboardInv

LEMMA InterruptInv ==
    ASSUME KeyboardInv, KeyboardOnInterrupt
    PROVE  KeyboardInv'
<1>1. /\ wire # <<>> /\ wire' = Tail(wire) /\ kb' = Modifiers(kb, Head(wire))
      /\ queue' = queue \o KeyMessages(kb, Head(wire)) /\ UNCHANGED <<down, doubled>>
      /\ kb \in KbType /\ queue \in Seq(MessageType) /\ DoubledPart /\ down \subseteq Key
  BY DEF KeyboardOnInterrupt, KeyboardInv, KeyboardType, MessageType
<1>2. PICK b \in KeyByte : (wire = <<b>> \/ wire = <<224, b>>) /\ Follows(Modifiers(kb, b))
  BY <1>1 DEF KeyboardInv, WirePart
<1>3. DoubledPart'
  BY <1>1 DEF DoubledPart
<1>4. CASE wire = <<b>>
  <2>1. Head(wire) = b /\ wire' = <<>>
    <3>1. wire' = Tail(<<b>>) /\ Head(<<b>>) = b
      BY <1>1, <1>4
    <3>2. Tail(<<b>>) = <<>>
      OBVIOUS
    <3> QED
      BY <1>4, <3>1, <3>2
  <2>2. kb' \in KbType /\ KeyMessages(kb, b) \in Seq(MessageType)
    BY <1>1, <2>1, ModifiersType, KeyMessagesType
  <2>3. queue' \in Seq(MessageType)
    BY <1>1, <2>1, <2>2, ConcatProperties
  <2>4. Follows(kb)'
    BY <1>1, <1>2, <2>1 DEF Follows
  <2>5. WirePart'
    BY <2>1, <2>4 DEF WirePart
  <2> QED
    BY <1>1, <1>3, <2>2, <2>3, <2>5 DEF KeyboardInv, KeyboardType, MessageType
<1>5. CASE wire = <<224, b>>
  <2>1. Head(wire) = 224 /\ wire' = <<b>>
    <3>1. Tail(<<224, b>>) = <<b>> /\ Head(<<224, b>>) = 224
      OBVIOUS
    <3> QED
      BY <1>1, <1>5, <3>1
  <2>2. kb' = kb
    BY <1>1, <2>1, ModifierFacts
  <2>3. queue' = queue
    <3>1. KeyMessages(kb, 224) = <<>>
      BY <1>1, KeyMessagesType
    <3>2. queue \o <<>> = queue
      BY <1>1, ConcatEmptySeq
    <3> QED
      BY <1>1, <2>1, <3>1, <3>2
  <2>4. WirePart'
    <3>1. Follows(Modifiers(kb, b))'
      BY <1>1, <1>2, <2>2 DEF Follows
    <3> QED
      BY <2>1, <3>1 DEF WirePart
  <2> QED
    BY <1>1, <1>3, <2>2, <2>3, <2>4 DEF KeyboardInv, KeyboardType, MessageType
<1> QED
  BY <1>2, <1>4, <1>5

\* The terminal takes a key from its queue, or leaves the keyboard alone.
LEMMA KeyboardUnchanged ==
    ASSUME KeyboardInv, UNCHANGED <<down, doubled, wire, kb>>,
           queue' = queue \/ (queue # <<>> /\ queue' = Tail(queue))
    PROVE  KeyboardInv'
<1>1. queue \in Seq(MessageType)
  BY DEF KeyboardInv, KeyboardType, MessageType
<1>2. queue' \in Seq(MessageType)
  BY <1>1, HeadTailProperties
<1>3. KeyboardType'
  BY <1>2 DEF KeyboardInv, KeyboardType, MessageType
<1>4. DoubledPart'
  BY DEF KeyboardInv, DoubledPart
<1>5. WirePart'
  <2>1. Follows(kb)' <=> Follows(kb)
    BY DEF Follows
  <2>2. \A b \in KeyByte : Follows(Modifiers(kb, b))' <=> Follows(Modifiers(kb, b))
    BY DEF Follows
  <2> QED
    BY <2>1, <2>2 DEF KeyboardInv, WirePart
<1> QED
  BY <1>3, <1>4, <1>5 DEF KeyboardInv

-----------------------------------------------------------------------------
(* Every step keeps the invariant. *)

LEMMA InitInv == Init => IInv
<1> SUFFICES ASSUME Init PROVE KeyboardInv
  BY ConsoleInitInv DEF IInv
<1>1. /\ down = {} /\ doubled = {} /\ wire = <<>> /\ queue = <<>>
      /\ kb = [shift |-> {}, ctrl |-> FALSE, alt |-> FALSE]
  BY DEF Init
<1>2. KeyboardType
  <2>1. kb \in KbType
    BY <1>1 DEF KbType
  <2> QED
    BY <1>1, <2>1, EmptySeq DEF KeyboardType
<1>3. DoubledPart
  BY <1>1 DEF DoubledPart
<1>4. WirePart
  BY <1>1 DEF WirePart, Follows
<1> QED
  BY <1>2, <1>3, <1>4 DEF KeyboardInv

\* A key from the queue.
LEMMA HeadOfQueue ==
    ASSUME KeyboardInv, queue # <<>>
    PROVE  Head(queue).char \in Char /\ <<Head(queue).char>> \in Seq(Char)
<1>1. queue \in Seq(MessageType)
  BY DEF KeyboardInv, KeyboardType, MessageType
<1>2. Head(queue) \in MessageType
  BY <1>1, HeadTailProperties
<1>3. Head(queue).char \in Char
  BY <1>2 DEF MessageType
<1> QED
  BY <1>3

LEMMA NextInv == IInv /\ [Next]_vars => IInv'
<1> SUFFICES ASSUME IInv, [Next]_vars PROVE ConsoleInv' /\ KeyboardInv'
  BY DEF IInv
<1>0. ConsoleInv /\ KeyboardInv
  BY DEF IInv
<1>1. ASSUME NEW key \in Key, PressOrRelease(key) PROVE ConsoleInv' /\ KeyboardInv'
  <2>1. UNCHANGED consoleVars
    BY <1>1 DEF PressOrRelease
  <2> QED
    BY <1>0, <1>1, <2>1, PressInv, ConsoleUnchanged
<1>2. CASE KeyboardOnInterrupt
  <2>1. UNCHANGED consoleVars
    BY <1>2 DEF KeyboardOnInterrupt
  <2> QED
    BY <1>0, <1>2, <2>1, InterruptInv, ConsoleUnchanged
<1>3. CASE PrintPrompt
  <2> DEFINE s == <<">", " ">>
  <2>1. s \in Seq(Char)
    <3>1. ">" \in Char /\ " " \in Char
      BY DEF Char
    <3>2. \A x, y \in Char : <<x, y>> \in Seq(Char)
      OBVIOUS
    <3> QED
      BY <3>1, <3>2, Zenon
  <2>2. CString(s) \in Seq(Char)
    BY <2>1, CStringType
  <2>3. /\ put[Terminal].text = <<>> /\ PutString(Terminal, CString(s))
        /\ UNCHANGED <<down, doubled, wire, kb, queue>>
    BY <1>3 DEF PrintPrompt
  <2> HIDE DEF s
  <2>4. ConsoleInv'
    BY <1>0, <2>2, <2>3, PutStringInv, WriterFacts
  <2> QED
    BY <1>0, <2>3, <2>4, KeyboardUnchanged
<1>4. CASE PromptKey
  <2>1. /\ put[Terminal].text = <<>> /\ PutString(Terminal, <<Head(queue).char>>)
        /\ queue # <<>> /\ queue' = Tail(queue) /\ UNCHANGED <<down, doubled, wire, kb>>
    BY <1>4 DEF PromptKey
  <2>2. <<Head(queue).char>> \in Seq(Char)
    BY <1>0, <2>1, HeadOfQueue
  <2>3. ConsoleInv'
    BY <1>0, <2>1, <2>2, PutStringInv, WriterFacts
  <2> QED
    BY <1>0, <2>1, <2>3, KeyboardUnchanged
<1>5. CASE ExecuteCommand
  <2>1. UNCHANGED consoleVars /\ UNCHANGED <<down, doubled, wire, kb, queue>>
    BY <1>5 DEF ExecuteCommand
  <2> QED
    BY <1>0, <2>1, KeyboardUnchanged, ConsoleUnchanged
<1>6. CASE CommandEnds
  <2>1. UNCHANGED consoleVars /\ UNCHANGED <<down, doubled, wire, kb, queue>>
    BY <1>6 DEF CommandEnds
  <2> QED
    BY <1>0, <2>1, KeyboardUnchanged, ConsoleUnchanged
<1>7. CASE CommandClear
  <2>1. Clear(Terminal) /\ UNCHANGED <<down, doubled, wire, kb, queue>>
    BY <1>7 DEF CommandClear, ioVars
  <2> QED
    BY <1>0, <2>1, KeyboardUnchanged, ClearInv, WriterFacts
<1>8. CASE ReadBegin
  <2>1. UNCHANGED consoleVars /\ UNCHANGED <<down, doubled, wire, kb, queue>>
    BY <1>8 DEF ReadBegin
  <2> QED
    BY <1>0, <2>1, KeyboardUnchanged, ConsoleUnchanged
<1>9. CASE ReadKey
  <2> DEFINE key == Head(queue)
  <2> DEFINE upper == IF key.char = "d" THEN "D" ELSE key.char
  <2> DEFINE s == IF key.ctrl THEN CString(<<"^", upper>>) ELSE <<key.char>>
  <2>1. /\ put[Terminal].text = <<>> /\ PutString(Terminal, s)
        /\ queue # <<>> /\ queue' = Tail(queue) /\ UNCHANGED <<down, doubled, wire, kb>>
    BY <1>9 DEF ReadKey
  <2>2. key.char \in Char /\ <<key.char>> \in Seq(Char)
    BY <1>0, <2>1, HeadOfQueue
  <2>3. upper \in Char /\ "^" \in Char
    BY <2>2 DEF Char
  <2> HIDE DEF upper, key
  <2>4. <<"^", upper>> \in Seq(Char)
    BY <2>3
  <2>5. CString(<<"^", upper>>) \in Seq(Char)
    BY <2>4, CStringType
  <2>6. s \in Seq(Char)
    BY <2>2, <2>5
  <2> HIDE DEF s
  <2>7. ConsoleInv'
    BY <1>0, <2>1, <2>6, PutStringInv, WriterFacts
  <2> QED
    BY <1>0, <2>1, <2>7, KeyboardUnchanged
<1>10. ASSUME NEW w \in Writer, NEW c \in Output, ProgramPrints(w, c)
       PROVE  ConsoleInv' /\ KeyboardInv'
  <2>1. /\ put[w].text = <<>> /\ PutString(w, <<c>>)
        /\ UNCHANGED <<down, doubled, wire, kb, queue>>
    BY <1>10 DEF ProgramPrints
  <2>2. <<c>> \in Seq(Char)
    <3>1. c \in Char
      BY DEF Char
    <3> QED
      BY <3>1
  <2>3. ConsoleInv'
    BY <1>0, <2>1, <2>2, PutStringInv
  <2> QED
    BY <1>0, <2>1, <2>3, KeyboardUnchanged
<1>11. ASSUME NEW w \in Writer, PutChar(w), UNCHANGED ioVars
       PROVE  ConsoleInv' /\ KeyboardInv'
  <2>1. UNCHANGED <<down, doubled, wire, kb, queue>>
    BY <1>11 DEF ioVars
  <2> QED
    BY <1>0, <1>11, <2>1, PutCharInv, KeyboardUnchanged
<1>12. CASE UNCHANGED vars
  <2>1. UNCHANGED consoleVars /\ UNCHANGED <<down, doubled, wire, kb, queue>>
    BY <1>12 DEF vars, ioVars
  <2> QED
    BY <1>0, <2>1, KeyboardUnchanged, ConsoleUnchanged
<1> QED
  BY <1>1, <1>2, <1>3, <1>4, <1>5, <1>6, <1>7, <1>8, <1>9, <1>10, <1>11, <1>12 DEF Next

LEMMA Invariance == Spec => []IInv
<1>1. Init => IInv
  BY InitInv
<1>2. IInv /\ [Next]_vars => IInv'
  BY NextInv
<1> QED
  BY <1>1, <1>2, PTL DEF Spec

\* However two tasks interleave their PutChars, Clears and NewLines, the cursor's
\* column never leaves the string of a row, on a screen of any size, and its row
\* stays on the screen unless two NewLines both found the last row free.
THEOREM CursorStaysOnScreen == Spec => []CursorOnScreen
<1>1. IInv => CursorOnScreen
  <2> SUFFICES ASSUME IInv PROVE CursorOnScreen
    OBVIOUS
  <2>1. /\ ConsoleType /\ ColumnPart /\ RowPart
        /\ cursor_column \in Nat /\ cursor_row \in Nat
    BY SizeFacts DEF IInv, ConsoleInv, ConsoleType
  <2>2. /\ Busy(Terminal) \in {0, 1} /\ Busy(Subtask) \in {0, 1}
        /\ Down(Terminal) \in {0, 1} /\ Down(Subtask) \in {0, 1}
    BY DEF Busy, Down
  <2>3. cursor_column <= kColumns
    <3>1. cursor_column + Busy(Terminal) + Busy(Subtask) <= kColumns
      BY <2>1, WriterFacts DEF ColumnPart
    <3> QED
      BY <2>1, <2>2, <3>1, SizeFacts
  <2>4. ~raced => cursor_row \in Row
    <3>1. ~raced => cursor_row + Down(Terminal) + Down(Subtask) <= kRows - 1
      BY <2>1, WriterFacts DEF RowPart
    <3> QED
      BY <2>1, <2>2, <3>1, SizeFacts
  <2>5. kColumns - 2 + Cardinality(Writer) = kColumns
    BY WriterFacts, SizeFacts
  <2> QED
    BY <2>3, <2>4, <2>5 DEF CursorOnScreen
<1> QED
  BY <1>1, Invariance, PTL

\* Drawing, scrolling and clearing keep the frame buffer showing what the console's
\* buffer holds, as long as no task is preempted in PutChar by one that prints.
THEOREM ScreenFollowsBuffer == Spec => []ScreenShowsBuffer
<1>1. IInv => ScreenShowsBuffer
  BY DEF IInv, ConsoleInv, ScreenPart, ShownPart, Shown, ScreenShowsBuffer
<1> QED
  BY <1>1, Invariance, PTL

\* Whatever keys are pressed and released, in any order, the driver's shift state is
\* that of the two keys, and Ctrl and Alt differ from theirs in one way only.
THEOREM ModifiersAreThoseHeld == Spec => []ModifiersFollowKeys
<1>1. IInv => ModifiersFollowKeys
  <2> SUFFICES ASSUME IInv, wire = <<>> PROVE
          /\ (kb.shift # {}) = (KeysOf["shift"] \cap down # {})
          /\ \A m \in {"ctrl", "alt"} :
                 /\ kb[m] => KeysOf[m] \cap down # {}
                 /\ ~kb[m] /\ m \notin doubled => KeysOf[m] \cap down = {}
    BY DEF ModifiersFollowKeys
  <2>1. Follows(kb) /\ kb \in KbType
    <3>1. ~(\E x \in KeyByte : wire = <<x>> \/ wire = <<224, x>>)
      OBVIOUS
    <3> QED
      BY <3>1 DEF IInv, KeyboardInv, KeyboardType, WirePart
  <2>2. (kb.shift # {}) = (KeysOf["shift"] \cap down # {})
    <3>1. kb.shift # {} <=> "LShift" \in down \/ "RShift" \in down
      BY <2>1 DEF Follows
    <3>2. KeysOf["shift"] \cap down # {} <=> "LShift" \in down \/ "RShift" \in down
      BY KeysOfFacts
    <3> QED
      BY <3>1, <3>2
  <2>3. kb["ctrl"] = kb.ctrl /\ kb["alt"] = kb.alt
    BY <2>1 DEF KbType
  <2>4. /\ KeysOf["ctrl"] \cap down # {} <=> "LCtrl" \in down \/ "RCtrl" \in down
        /\ KeysOf["alt"] \cap down # {} <=> "LAlt" \in down \/ "RAlt" \in down
    BY KeysOfFacts
  <2>5. ASSUME NEW m \in {"ctrl", "alt"}
        PROVE  /\ kb[m] => KeysOf[m] \cap down # {}
               /\ ~kb[m] /\ m \notin doubled => KeysOf[m] \cap down = {}
    <3>1. CASE m = "ctrl"
      BY <2>1, <2>3, <2>4, <3>1 DEF Follows
    <3>2. CASE m = "alt"
      BY <2>1, <2>3, <2>4, <3>2 DEF Follows
    <3> QED
      BY <3>1, <3>2
  <2> QED
    BY <2>2, <2>5
<1> QED
  BY <1>1, Invariance, PTL

=============================================================================
