------------------------------ MODULE FatNames ------------------------------
(***************************************************************************)
(* File names on the volume (kernel/fat.cpp): a name is stored as a base   *)
(* and an extension of fixed width, padded with spaces.  SetFileName makes *)
(* the stored form when a file is created; NameIsEqual makes it again, in  *)
(* another way, when a file is looked up.                                  *)
(*                                                                         *)
(* A name is a sequence of characters, taken after toupper, which both     *)
(* apply to every character.                                               *)
(***************************************************************************)
EXTENDS Naturals, Sequences

CONSTANTS
    BaseLen,   \* 8 in the code
    ExtLen     \* 3 in the code

ASSUME WidthAssumption == BaseLen \in Nat \ {0} /\ ExtLen \in Nat \ {0}

Dot == "."
Space == " "

Dots(name) == {i \in 1..Len(name) : name[i] = Dot}

\* Splits the name at its last dot and cuts both parts to their width.
SetFileName(name) ==
    LET dots == Dots(name)
        base == IF dots = {} THEN Len(name)
                ELSE (CHOOSE d \in dots : \A e \in dots : d >= e) - 1
    IN  [i \in 1..(BaseLen + ExtLen) |->
            IF i <= BaseLen THEN IF i <= base THEN name[i] ELSE Space
            ELSE IF base + 1 + (i - BaseLen) <= Len(name)
                 THEN name[base + 1 + (i - BaseLen)] ELSE Space]

\* Fault: the extension is looked for one place too far.
Name83_ExtShifted(name) ==
    LET blank == [i \in 1..(BaseLen + ExtLen) |-> Space]
        scan[i \in 0..Len(name)] ==
            IF i = 0 THEN [at |-> 1, buf |-> blank]
            ELSE LET s == scan[i - 1]
                 IN  IF s.at > BaseLen + ExtLen THEN s
                     ELSE IF name[i] = Dot THEN [s EXCEPT !.at = BaseLen + 2]
                     ELSE [at |-> s.at + 1, buf |-> [s.buf EXCEPT ![s.at] = name[i]]]
    IN  scan[Len(name)].buf

\* name83, which NameIsEqual compares with the stored name: it copies the
\* characters one by one; each dot moves on to the extension; characters of a
\* long base run on into the extension, and the copy ends where that does.
Name83(name) ==
    LET blank == [i \in 1..(BaseLen + ExtLen) |-> Space]
        scan[i \in 0..Len(name)] ==
            IF i = 0 THEN [at |-> 1, buf |-> blank]
            ELSE LET s == scan[i - 1]
                 IN  IF s.at > BaseLen + ExtLen THEN s
                     ELSE IF name[i] = Dot THEN [s EXCEPT !.at = BaseLen + 1]
                     ELSE [at |-> s.at + 1, buf |-> [s.buf EXCEPT ![s.at] = name[i]]]
    IN  scan[Len(name)].buf

\* Names of the form the volume was made for: a base and at most one extension,
\* neither longer than its width.
IsShort(name) ==
    \/ Dots(name) = {} /\ Len(name) \in 1..BaseLen
    \/ \E d \in 2..(BaseLen + 1) : Dots(name) = {d} /\ Len(name) <= d + ExtLen

=============================================================================
