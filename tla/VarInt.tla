------------------------------- MODULE VarInt -------------------------------
(***************************************************************************)
(* The VarInt codec (VarInt.cpp).  A byte carries GroupBits bits of the    *)
(* value, least significant group first, and a flag that says that more    *)
(* bytes follow; in the code GroupBits is 7 and Width is 32.  An encoding  *)
(* whose last byte would carry bits beyond Width is refused.               *)
(*                                                                         *)
(* A definition whose comment begins with "Broken:" is a wrong variant of  *)
(* the definition after it, kept to show that a property would notice it.  *)
(***************************************************************************)
EXTENDS Integers, Sequences, FiniteSetsExt

CONSTANTS GroupBits,  \* payload bits of a byte
          Width       \* bits of the value

ASSUME VarIntAssumption == GroupBits \in Nat \ {0} /\ Width \in Nat \ {0}

Group == 2 ^ GroupBits                  \* 128: also the flag's weight
Byte == 0 .. 2 * Group - 1
Modulus == 2 ^ Width
Value == 0 .. Modulus - 1
MaxLength == (Width + GroupBits - 1) \div GroupBits

\* What read and write return; used is 0 if and only if they throw.
Refused == [used |-> 0, value |-> 0]

\* Broken: the bits of the last byte beyond the width are not looked at.
OverflowsNever(n, byte) == FALSE

\* byte & 0xF0: the byte at index n carries bits beyond the width.
Overflows(n, byte) == n = MaxLength - 1 /\ byte >= 2 ^ (Width - GroupBits * n)

\* The weight of the group at index n.
Weight(n) == 2 ^ (GroupBits * n)

\* varint::read.  from[n] is the loop from index n on.
ReadLoop(bytes) ==
    LET from[n \in 0 .. MaxLength] ==
            IF n = MaxLength \/ n = Len(bytes) \/ Overflows(n, bytes[n + 1]) THEN Refused
            ELSE LET bits == (bytes[n + 1] % Group) * Weight(n)
                     rest == from[n + 1]
                 IN  IF bytes[n + 1] < Group THEN [used |-> n + 1, value |-> bits]
                     ELSE IF rest = Refused THEN Refused
                     ELSE [rest EXCEPT !.value = (@ + bits) % Modulus]
    IN  from

read(bytes) == ReadLoop(bytes)[0]

\* Broken: 128 is taken for a value of one byte.
OneByteLong(value) == value <= Group

OneByte(value) == value < Group

\* The bytes that varint::write counts before it writes any.
required[value \in Value] ==
    IF OneByte(value) THEN 1 ELSE 1 + required[value \div Group]

\* The bytes its second loop puts out, room permitting.
groups[value \in Value] ==
    IF value < Group THEN <<value>>
    ELSE <<(value % Group) + Group>> \o groups[value \div Group]

\* varint::write to a destination of this capacity: the bytes written, none
\* if it throws.
write(capacity, value) ==
    IF capacity < required[value] THEN << >>
    ELSE SubSeq(groups[value], 1, Min({capacity, Len(groups[value])}))
=============================================================================
