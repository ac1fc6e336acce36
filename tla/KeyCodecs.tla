----------------------------- MODULE KeyCodecs ------------------------------
(***************************************************************************)
(* The key codecs: PyBinaryKeyCodec (_backends/key_codecs/binary_py) and   *)
(* StringKeyCodec (_backends/key_codecs/string). A key is a sequence of    *)
(* segments, [int |-> n] or [str |-> characters]; characters and bytes are *)
(* numbers, so UTF-8, which keeps their order, is left out. An encoded key *)
(* is a sequence of numbers that a backend compares one by one.            *)
(***************************************************************************)
EXTENDS Integers, Sequences

LOCAL INSTANCE SequencesExt

CONSTANT IntBytes    \* width of an encoded integer: 8 bytes in the code

\* The number that digits of this base stand for.
LOCAL Number(base, digits) == FoldLeft(LAMBDA sum, d : base * sum + d, 0, digits)

IsInt(segment) == "int" \in DOMAIN segment

\* Joins what f makes of each element of s.
LOCAL Joined(f(_), s) == FlattenSeq([i \in DOMAIN s |-> f(s[i])])

\* memcmp, and the order of Python strings.
BytesLess(a, b) ==
    \E i \in 1 .. Len(b) :
        /\ i <= Len(a) + 1
        /\ SubSeq(a, 1, i - 1) = SubSeq(b, 1, i - 1)
        /\ i = Len(a) + 1 \/ a[i] < b[i]

-----------------------------------------------------------------------------
(* The order of tuple keys, integers before strings: what an encoding is    *)
(* meant to preserve.                                                       *)

SegmentLess(a, b) ==
    \/ IsInt(a) /\ ~IsInt(b)
    \/ IsInt(a) /\ IsInt(b) /\ a.int < b.int
    \/ ~IsInt(a) /\ ~IsInt(b) /\ BytesLess(a.str, b.str)

KeyLess(a, b) ==
    \E i \in 1 .. Len(b) :
        /\ i <= Len(a) + 1
        /\ SubSeq(a, 1, i - 1) = SubSeq(b, 1, i - 1)
        /\ i = Len(a) + 1 \/ SegmentLess(a[i], b[i])

-----------------------------------------------------------------------------
(* PyBinaryKeyCodec: type marker, value, terminator. Integers are offset    *)
(* binary, big-endian; a null character is escaped.                         *)

TypeInt    == 1
TypeStr    == 2
Terminator == 0
EscapeByte == 255

Bias == 2 ^ (8 * IntBytes - 1)

EncodeInteger(n) ==
    [i \in 1 .. IntBytes |-> ((n + Bias) \div (256 ^ (IntBytes - i))) % 256]

DecodeInteger(bytes) == Number(256, bytes) - Bias

EncodeString(s) ==
    Joined(LAMBDA c : IF c = Terminator THEN <<Terminator, EscapeByte>> ELSE <<c>>, s)

DecodeString(bytes) ==
    LET kept == SelectSeq([i \in DOMAIN bytes |-> i],
                    LAMBDA i : ~(i > 1 /\ bytes[i] = EscapeByte /\ bytes[i - 1] = Terminator))
    IN  [i \in DOMAIN kept |-> bytes[kept[i]]]

EncodeBinary(key) ==
    Joined(LAMBDA s : IF IsInt(s)
                      THEN <<TypeInt>> \o EncodeInteger(s.int) \o <<Terminator>>
                      ELSE <<TypeStr>> \o EncodeString(s.str) \o <<Terminator>>, key)

\* Where the segment at the head of bytes ends: at its first bare terminator.
SegmentEnd(bytes) ==
    IF bytes[1] = TypeInt THEN IntBytes + 2
    ELSE CHOOSE i \in 2 .. Len(bytes) :
            LET bare(j) == /\ bytes[j] = Terminator
                           /\ j = Len(bytes) \/ bytes[j + 1] # EscapeByte
            IN  bare(i) /\ \A j \in 2 .. i - 1 : ~bare(j)

RECURSIVE DecodeBinary(_)
DecodeBinary(bytes) ==
    IF bytes = <<>> THEN <<>>
    ELSE LET end   == SegmentEnd(bytes)
             value == SubSeq(bytes, 2, end - 1)
         IN  <<IF bytes[1] = TypeInt THEN [int |-> DecodeInteger(value)]
               ELSE [str |-> DecodeString(value)]>>
             \o DecodeBinary(SubSeq(bytes, end + 1, Len(bytes)))

UpperBoundBinary(key) == EncodeBinary(key) \o <<255>>

-----------------------------------------------------------------------------
(* StringKeyCodec: "[i]" and "[s]" markers, "." after every segment. The    *)
(* biased integer gives the order, the one in brackets is decoded.          *)

Dot        == 46
Open       == 91     \* "["
Close      == 93     \* "]"
Tilde      == 126
IntMarker  == <<Open, 105, Close>>
StrMarker  == <<Open, 115, Close>>
IntWidth   == 5
IntMax     == 49999

Digits(n) == [i \in 1 .. IntWidth |-> 48 + ((n \div (10 ^ (IntWidth - i))) % 10)]

EncodeIntegerText(n) ==
    <<IF n < 0 THEN 110 ELSE 112>> \o Digits(n + IntMax)
      \o <<Open, IF n < 0 THEN 45 ELSE 43>> \o Digits(IF n < 0 THEN -n ELSE n) \o <<Close>>

\* The digits between the brackets, behind a sign.
DecodeIntegerText(text) ==
    LET open   == CHOOSE i \in DOMAIN text : text[i] = Open
        digits == SubSeq(text, open + 2, open + 1 + IntWidth)
        value  == Number(10, [i \in DOMAIN digits |-> digits[i] - 48])
    IN  IF text[open + 1] = 45 THEN -value ELSE value

EncodeText(key) ==
    Joined(LAMBDA s : (IF IsInt(s) THEN IntMarker \o EncodeIntegerText(s.int)
                       ELSE StrMarker \o s.str) \o <<Dot>>, key)

RECURSIVE DecodeText(_)
DecodeText(text) ==
    IF text = <<>> THEN <<>>
    ELSE LET end  == CHOOSE i \in DOMAIN text :
                        text[i] = Dot /\ \A j \in 1 .. i - 1 : text[j] # Dot
             part == SubSeq(text, 4, end - 1)
         IN  <<IF SubSeq(text, 1, 3) = IntMarker THEN [int |-> DecodeIntegerText(part)]
               ELSE [str |-> part]>>
             \o DecodeText(SubSeq(text, end + 1, Len(text)))

UpperBoundText(key) == EncodeText(key) \o <<Tilde>>

-----------------------------------------------------------------------------
Codecs == {"binary", "string"}

EncodeKey(codec, key) == IF codec = "binary" THEN EncodeBinary(key) ELSE EncodeText(key)

DecodeKey(codec, bytes) == IF codec = "binary" THEN DecodeBinary(bytes) ELSE DecodeText(bytes)

UpperBoundOfPrefix(codec, key) ==
    IF codec = "binary" THEN UpperBoundBinary(key) ELSE UpperBoundText(key)
=============================================================================
