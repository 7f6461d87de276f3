----------------------------- MODULE LogNumber -----------------------------
(***************************************************************************)
(* log_u64 of the logging stream, statement by statement, for numbers of   *)
(* a given width: count the digits, reserve them in the buffer, fill them  *)
(* in from the last to the first.  Signed numbers and pointers go through  *)
(* it after a sign or a prefix; a number that might not fit is left out.   *)
(***************************************************************************)
EXTENDS Naturals, Sequences, FiniteSetsExt

CONSTANTS
    Width,          \* bits of a number
    Buffer,         \* size of the buffer
    UnsignedLength, \* UNSIGNED_NUMBER_LENGTH, for the width
    SignedLength,   \* SIGNED_NUMBER_LENGTH
    HexLength       \* HEX_NUMBER_LENGTH

VARIABLES
    pc, kind,
    number,     \* what is logged: an integer, by its sign and magnitude
    value, base, num_digits, temp_value, current_digit,
    position,   \* of the buffer
    text        \* what this call has put into the buffer

vars == <<pc, kind, number, value, base, num_digits, temp_value, current_digit, position, text>>

Kinds == {"unsigned", "signed", "pointer"}
LengthOf(k) == [unsigned |-> UnsignedLength, signed |-> SignedLength, pointer |-> HexLength][k]

\* Numbers of the kind, as sign and magnitude.
Numbers(k) ==
    IF k = "signed"
      THEN [negative : {FALSE}, magnitude : 0..2^(Width - 1) - 1]
             \cup [negative : {TRUE}, magnitude : 1..2^(Width - 1)]
      ELSE [negative : {FALSE}, magnitude : 0..2^Width - 1]

\* The space that is left when the operator is called is any.
Init ==
    /\ kind \in Kinds /\ number \in Numbers(kind)
    /\ position \in 0..Buffer
    /\ pc = "start" /\ value = 0 /\ base = 10 /\ num_digits = 0 /\ temp_value = 0
    /\ current_digit = 0 /\ text = <<>>

Remaining == Buffer - position
Put(s) == text' = text \o s /\ position' = position + Len(s)

\* operator<<: check the space, write the sign or the prefix.
Start ==
    /\ pc = "start"
    /\ IF Remaining < LengthOf(kind)
         THEN pc' = "done" /\ UNCHANGED <<value, base, temp_value, text, position>>
         ELSE /\ Put(IF kind = "pointer" THEN <<"0x", "">>
                     ELSE IF number.negative THEN <<"-">> ELSE <<>>)
              /\ value' = number.magnitude /\ temp_value' = number.magnitude
              /\ base' = IF kind = "pointer" THEN 16 ELSE 10
              /\ pc' = "count"
    /\ UNCHANGED <<kind, number, num_digits, current_digit>>

\* Zero is a case of its own; otherwise the digits are counted and reserved.
Count ==
    /\ pc = "count"
    /\ IF value = 0
         THEN Put(<<0>>) /\ pc' = "done" /\ UNCHANGED <<num_digits, temp_value, current_digit>>
         ELSE IF temp_value # 0
         THEN /\ num_digits' = num_digits + 1 /\ temp_value' = temp_value \div base
              /\ UNCHANGED <<pc, text, position, current_digit>>
         ELSE IF Remaining < num_digits
         THEN pc' = "done" /\ UNCHANGED <<num_digits, temp_value, text, position, current_digit>>
         ELSE /\ Put([i \in 1..num_digits |-> 0])
              /\ current_digit' = num_digits - 1
              /\ pc' = "fill" /\ UNCHANGED <<num_digits, temp_value>>
    /\ UNCHANGED <<kind, number, value, base>>

Place == Len(text) - num_digits + current_digit + 1

\* current_digit is unsigned: after the last digit it wraps, and is not used.
Fill ==
    /\ pc = "fill"
    /\ IF value # 0
         THEN /\ text' = [text EXCEPT ![Place] = value % base]
              /\ value' = value \div base
              /\ current_digit' = IF current_digit = 0 THEN 2^Width - 1 ELSE current_digit - 1
              /\ UNCHANGED pc
         ELSE pc' = "done" /\ UNCHANGED <<text, value, current_digit>>
    /\ UNCHANGED <<kind, number, base, num_digits, temp_value, position>>

Next == Start \/ Count \/ Fill

Spec == Init /\ [][Next]_vars

-----------------------------------------------------------------------------
(* Properties. *)

Marks == IF kind = "pointer" THEN 2 ELSE IF number.negative THEN 1 ELSE 0
DigitsOf == SubSeq(text, Marks + 1, Len(text))
ValueOf(digits) ==
    MapThenSumSet(LAMBDA i : digits[i] * base^(Len(digits) - i), 1..Len(digits))

\* What was logged reads as the number, without leading zeros, or nothing was
\* logged because there was not enough space: never a part of it.  In
\* particular the lengths the operators check for are enough for the largest
\* number of the width.
TextIsTheNumber ==
    pc = "done" =>
        \/ text = <<>> /\ Buffer - position < LengthOf(kind)
        \/ /\ ValueOf(DigitsOf) = number.magnitude
           /\ Len(DigitsOf) >= 1
           /\ Len(DigitsOf) > 1 => DigitsOf[1] # 0
           /\ position <= Buffer /\ Len(text) <= LengthOf(kind)

=============================================================================
