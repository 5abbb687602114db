------------------------------ MODULE Keyboard ------------------------------
(***************************************************************************)
(* The keyboard driver (kernel/keyboard.cpp): what one byte from the        *)
(* keyboard does to the modifiers and which key it sends to the main loop.  *)
(* Scan codes and masks are the machine's; of the key map only the keys of  *)
(* the table below are kept.                                                *)
(***************************************************************************)
EXTENDS Integers, Sequences

kBreakMask == 128
kKeyLShift == 42
kKeyRShift == 54
kKeyCtrl == 29
kKeyAlt == 56

\* The characters of D, Enter and F1, without and with shift.
kKeymapLower == [code \in {32, 28, 59} |-> CASE code = 32 -> "d" [] code = 28 -> "NL"
                                             [] OTHER -> "NUL"]
kKeymapUpper == [kKeymapLower EXCEPT ![32] = "D"]

\* The bits of a mask that a uint8_t keeps, each by its weight.
Bits(mask) == {b \in {1, 2, 4, 8, 16, 32, 64, 128} : (mask \div b) % 2 = 1}

\* Fault: one bit for both keys.
ShiftBits_OneBit(code) == Bits(2817)

\* 0xb10 and 0xb01 are meant as binary numbers; cut to eight bits they are
\* still two different bits.
ShiftBits(code) == IF code = kKeyLShift THEN Bits(2832) ELSE Bits(2817)

\* KeyboardOnInterrupt: the modifiers [shift, ctrl, alt] after a byte, ...
Modifiers(kb, byte) ==
    LET pressed == byte < kBreakMask
        code == byte % kBreakMask
    IN  CASE code \in {kKeyLShift, kKeyRShift} ->
                 [kb EXCEPT !.shift = IF pressed THEN @ \cup ShiftBits(code)
                                      ELSE @ \ ShiftBits(code)]
          [] code = kKeyCtrl -> [kb EXCEPT !.ctrl = pressed]
          [] code = kKeyAlt  -> [kb EXCEPT !.alt = pressed]
          [] OTHER           -> kb

\* ... and the messages it sends.  A key without a character is sent too.
KeyMessages(kb, byte) ==
    IF byte >= kBreakMask \/ byte \in {kKeyLShift, kKeyRShift, kKeyCtrl, kKeyAlt}
    THEN <<>>
    ELSE <<[char |-> IF kb.shift # {} THEN kKeymapUpper[byte] ELSE kKeymapLower[byte],
            ctrl |-> kb.ctrl]>>

=============================================================================
