--------------------------- MODULE FractionalIndex ---------------------------
(***************************************************************************)
(* Order keys of the fractional index (_views/fractional_index.py).  A key *)
(* is a head, whose rank tells how many digits the integer part has,       *)
(* followed by integer digits and fraction digits.  The code's alphabet    *)
(* has 62 digits and 26 heads on each side of zero; both are parameters    *)
(* here, the comparisons and the arithmetic do not depend on them.  A key  *)
(* is a sequence of numbers, the head first: 0 .. 2 * Heads - 1 for the    *)
(* characters A .. Z a .. z, then digits in 0 .. Base - 1.                 *)
(***************************************************************************)
EXTENDS Integers, Sequences

CONSTANTS
    Base,       \* how many digits the alphabet has
    Heads,      \* how many heads there are on each side of zero
    Suffixes,   \* the random tails: digit sequences that do not end in zero
    NoKey,      \* the absent bound, None in the code
    Raised      \* the outcome of a ValueError

LOCAL MaxOf(S) == CHOOSE x \in S : \A y \in S : y <= x
LOCAL Drop(s, n) == SubSeq(s, n + 1, Len(s))
LOCAL Ends(s, d) == s # <<>> /\ s[Len(s)] = d

\* Keys compare as strings do: a proper prefix is smaller.
Before(a, b) ==
    \E n \in 1 .. Len(b) :
        /\ n <= Len(a) + 1
        /\ \A i \in 1 .. n - 1 : a[i] = b[i]
        /\ n <= Len(a) => a[n] < b[n]

StartsWith(b, k) == Len(k) <= Len(b) /\ SubSeq(b, 1, Len(k)) = k

IntegerLength(head) == IF head >= Heads THEN head - Heads + 2 ELSE Heads - head + 1

IntegerPart(key) == SubSeq(key, 1, IntegerLength(key[1]))
Fraction(key) == Drop(key, IntegerLength(key[1]))

SmallestInteger == <<0>> \o [i \in 1 .. Heads |-> 0]
IntegerZero == <<Heads, 0>>

ValidOrderKey(key) ==
    /\ key # <<>>
    /\ key # SmallestInteger
    /\ key[1] \in 0 .. 2 * Heads - 1
    /\ IntegerLength(key[1]) <= Len(key)
    /\ ~ Ends(Fraction(key), 0)
    /\ \A i \in 2 .. Len(key) : key[i] \in 0 .. Base - 1

\* A fraction between two fractions; the upper one may be absent.
RECURSIVE Midpoint(_, _)
Midpoint(a, b) ==
    LET padded(i) == IF i <= Len(a) THEN a[i] ELSE 0
        common == IF b = NoKey THEN 0
                  ELSE MaxOf({m \in 0 .. Len(b) : \A i \in 1 .. m : padded(i) = b[i]})
        low == padded(1)
        high == IF b = NoKey THEN Base ELSE b[1]
    IN  IF common > 0
        THEN SubSeq(b, 1, common) \o Midpoint(Drop(a, common), Drop(b, common))
        ELSE IF high - low > 1 THEN <<(low + high + 1) \div 2>>
        ELSE IF b # NoKey /\ Len(b) > 1 THEN <<b[1]>>
        ELSE <<low>> \o Midpoint(Drop(a, 1), NoKey)

\* The next integer part: add one to the digits; when they overflow the head
\* moves on and the part grows (positive side) or shrinks (negative side).
IncrementInteger(integer) ==
    LET n == Len(integer)
        full == \A i \in 2 .. n : integer[i] = Base - 1
        pivot == MaxOf({i \in 2 .. n : integer[i] < Base - 1})
        head == integer[1] + 1
    IN  IF ~ full
        THEN [i \in 1 .. n |-> IF i < pivot THEN integer[i]
                               ELSE IF i = pivot THEN integer[i] + 1 ELSE 0]
        ELSE IF integer[1] = 2 * Heads - 1 THEN NoKey
        ELSE <<head>> \o [i \in 1 .. IntegerLength(head) - 1 |-> 0]

DecrementInteger(integer) ==
    LET n == Len(integer)
        empty == \A i \in 2 .. n : integer[i] = 0
        pivot == MaxOf({i \in 2 .. n : integer[i] > 0})
        head == integer[1] - 1
    IN  IF ~ empty
        THEN [i \in 1 .. n |-> IF i < pivot THEN integer[i]
                               ELSE IF i = pivot THEN integer[i] - 1 ELSE Base - 1]
        ELSE IF integer[1] = 0 THEN NoKey
        ELSE <<head>> \o [i \in 1 .. IntegerLength(head) - 1 |-> Base - 1]

LOCAL Otherwise(key, other) == IF key = NoKey THEN other ELSE key

LOCAL KeyBelow(b) ==
    LET ib == IntegerPart(b)
    IN  IF ib = SmallestInteger THEN ib \o Midpoint(<<>>, Fraction(b))
        ELSE IF Before(ib, b) THEN ib
        ELSE Otherwise(DecrementInteger(ib), Raised)

LOCAL KeyAbove(a) ==
    Otherwise(IncrementInteger(IntegerPart(a)), IntegerPart(a) \o Midpoint(Fraction(a), NoKey))

LOCAL KeyNext(a, b, next) ==
    IF next = NoKey THEN Raised
    ELSE IF Before(next, b) THEN next
    ELSE IntegerPart(a) \o Midpoint(Fraction(a), NoKey)

LOCAL KeyInside(a, b) ==
    IF IntegerPart(a) = IntegerPart(b)
    THEN IntegerPart(a) \o Midpoint(Fraction(a), Fraction(b))
    ELSE KeyNext(a, b, IncrementInteger(IntegerPart(a)))

GenerateKeyBetween(a, b) ==
    IF \/ \E key \in {a, b} \ {NoKey} : ~ ValidOrderKey(key)
       \/ a # NoKey /\ b # NoKey /\ ~ Before(a, b)
    THEN Raised
    ELSE IF a = NoKey THEN (IF b = NoKey THEN IntegerZero ELSE KeyBelow(b))
    ELSE IF b = NoKey THEN KeyAbove(a) ELSE KeyInside(a, b)

Suffixed(keys) == {key \o tail : key \in keys \ {Raised}, tail \in Suffixes}

\* The plain key below a bound, taken again below itself while it is a prefix of b: a
\* tail put after such a key could pass b.
RECURSIVE ClearKeys(_, _, _)
ClearKeys(a, b, bound) ==
    UNION {IF key # Raised /\ b # NoKey /\ StartsWith(b, key) THEN ClearKeys(a, b, key)
           ELSE {key} : key \in {GenerateKeyBetween(a, bound)}}

\* A change of the code: the plain key as it is, though it be a prefix of b.
SuffixedKeysBetween_Plain(a, b) == Suffixed({GenerateKeyBetween(a, b)})

\* Every key generate_suffixed_key_between may return; none when it raises.
SuffixedKeysBetween(a, b) == Suffixed(ClearKeys(a, b, b))

\* Every list generate_n_suffixed_keys_between may return: keys after a, keys
\* before b, or halved again and again when both bounds are given.
RECURSIVE SuffixedRunsBetween(_, _, _)
SuffixedRunsBetween(a, b, n) ==
    LET over == IF b = NoKey THEN n - 1 ELSE IF a = NoKey THEN 0 ELSE n - n \div 2 - 1
    IN  IF n <= 0 THEN {<<>>}
        ELSE UNION {{low \o <<k>> \o high : low  \in SuffixedRunsBetween(a, k, n - 1 - over),
                                            high \in SuffixedRunsBetween(k, b, over)} :
                        k \in SuffixedKeysBetween(a, b)}
=============================================================================
