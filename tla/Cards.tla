------------------------------- MODULE Cards -------------------------------
(***************************************************************************)
(* What is printed on a card, and the number a card is encoded as when the  *)
(* preset tables count cards (card_hash.go).                                *)
(***************************************************************************)
EXTENDS Integers

NumberSkip == 10
NumberReverse == 11
NumberDrawTwo == 12
NumberWild == 13
NumberWildDrawFour == 14
Number == 0..14

ColorWild == 0
ColorRed == 1
Color == 0..4
PlayableColor == Color \ {ColorWild}

IsAction(n) == n >= NumberSkip
IsWild(f) == f.number \in {NumberWild, NumberWildDrawFour}

FaceType == [number : Number, color : Color]

-----------------------------------------------------------------------------
(* EncodeUint32 puts the number above the colour: bits 4 to 8 hold the       *)
(* number, bits 0 to 3 the colour.                                          *)

ColorBits == 2^4
NumberBits == 2^5

EncodeUint32(f) == f.number * ColorBits + f.color

\* The colour and the number field of an encoded card.
ColorField(x) == x % ColorBits
NumberField(x) == (x \div ColorBits) % NumberBits

\* DecodeCardFromUint32 refuses a field that holds no colour or no number.
Decodes(x) == ColorField(x) \in Color /\ NumberField(x) \in Number
DecodeCardFromUint32(x) == [number |-> NumberField(x), color |-> ColorField(x)]

=============================================================================
