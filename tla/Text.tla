-------------------------------- MODULE Text --------------------------------
(***************************************************************************)
(* The kernel's and the applications' functions on numbers and strings:    *)
(* kernel/lib/strings.c, usr/string.c and usr/math.c.                      *)
(*                                                                         *)
(* A number is formatted backwards into a static buffer, which keeps what  *)
(* earlier calls left in it; the result is a place in that buffer.  An     *)
(* unsigned long of 32 bits is a pair of halves, a char its code.          *)
(***************************************************************************)
EXTENDS Integers, Sequences

CONSTANTS
    Words,          \* the numbers to be formatted
    Strings,        \* the strings to be compared: sequences of chars, no NUL
    MaxLength,      \* of a string, and of what the caller's buffer holds
    Squares         \* the arguments of sqrt_rnd

Half == 65536
NUL  == 0
Minus == 45
Dot  == 46
Zero == [hi |-> 0, lo |-> 0]

ASSUME WordsAssumption == Words \subseteq [hi : 0 .. Half - 1, lo : 0 .. Half - 1]
ASSUME StringsAssumption ==
    MaxLength \in Nat /\ \A s \in Strings : s \in Seq(1 .. 255) /\ Len(s) <= MaxLength
ASSUME SquaresAssumption == \A v \in Squares : v \in Nat /\ v \div 4 < 4 ^ 15    \* 32 bits

VARIABLES
    fn,             \* the function that this behaviour calls; never changed
    arg,            \* the arguments of its last call
    result,         \* and what it returned: an index, a truth value, a number
    buf             \* its static buffer, or the caller's

textVars == <<fn, arg, result, buf>>

Sizes == [zhex32_to_str |-> 10, hex32_to_str |-> 10, u32_to_str |-> 12,
          s32_to_str |-> 13, ulong_to_string |-> 13]
Formatters  == DOMAIN Sizes
Comparisons == {"strcmp", "strcmpn"}

TextInit ==
    /\ fn \in Formatters \cup Comparisons \cup {"strcpy", "sqrt_rnd"}
    /\ arg = <<>> /\ result = -1
    /\ buf = [i \in 0 .. IF fn \in Formatters THEN Sizes[fn] - 1 ELSE MaxLength |-> NUL]
-----------------------------------------------------------------------------
(* 32 bits.                                                                *)
DivideBy10(v) ==
    LET l == (v.hi % 10) * Half + v.lo IN
    [quotient |-> [hi |-> v.hi \div 10, lo |-> l \div 10], digit |-> l % 10]
Negative(v) == v.hi >= Half \div 2
Negated(v) ==
    IF v.lo = 0 THEN [hi |-> (Half - v.hi) % Half, lo |-> 0]
    ELSE [hi |-> Half - 1 - v.hi, lo |-> Half - v.lo]
Nibble(v, i) == ((IF i < 4 THEN v.hi ELSE v.lo) \div (16 ^ (3 - (i % 4)))) % 16
Put(b, i, c) == [b EXCEPT ![i] = c]

(* c&0xF of the digit of t: the remainder of a negative long is negative.  *)
LowNibble(digit, negative) == IF negative THEN (16 - digit) % 16 ELSE digit

(* The iteration whose digit ulong_to_string puts a point in front of.     *)
(* Mutant: counted from 1.                                                 *)
PointAfterSecond(i) == i + 1 = 2

PointAfter(i) == i = 2

(* The loop of u32_to_str, s32_to_str and ulong_to_string: digits from     *)
(* position end down, at most 11, with a point behind the third if dotted. *)
Digit(S, i, dotted, negative) ==
    IF S.done THEN S
    ELSE LET d == DivideBy10(S.t)
             b == Put(S.b, S.p, 48 + LowNibble(d.digit, negative))
             point == dotted /\ PointAfter(i)
         IN IF d.quotient = Zero THEN [S EXCEPT !.b = b, !.done = TRUE]
            ELSE [S EXCEPT !.t = d.quotient,
                           !.b = IF point THEN Put(b, S.p - 1, Dot) ELSE b,
                           !.p = IF point THEN @ - 2 ELSE @ - 1]
Digits(v, b, end, dotted, negative) ==
    LET S[i \in 0 .. 11] ==
            IF i = 0 THEN [t |-> v, b |-> b, p |-> end, done |-> FALSE]
            ELSE Digit(S[i - 1], i - 1, dotted, negative)
    IN [b |-> S[11].b, p |-> S[11].p]

u32_to_str(v, b)      == Digits(v, b, 9, FALSE, FALSE)
ulong_to_string(v, b) == Digits(v, b, 10, TRUE, FALSE)
s32_to_str(v, b) ==
    IF ~ Negative(v) THEN Digits(v, b, 10, FALSE, FALSE)
    ELSE LET D == Digits(Negated(v), b, 10, FALSE, Negative(Negated(v)))
         IN [b |-> Put(D.b, D.p - 1, Minus), p |-> D.p - 1]

HexChar(n) == IF n > 9 THEN n + 7 + 48 ELSE n + 48
hex32_to_str(v, b) ==
    [b |-> [i \in DOMAIN b |-> IF i < 8 THEN HexChar(Nibble(v, i)) ELSE b[i]], p |-> 0]

(* The same, from the first digit that is not zero on.  The index is a     *)
(* char that starts at -1, and is 255 for the number 0.                    *)
zhex32_to_str(v, b) ==
    [b |-> hex32_to_str(v, b).b,
     p |-> IF v = Zero THEN 255
           ELSE CHOOSE i \in 0 .. 7 : Nibble(v, i) # 0 /\ \A j \in 0 .. i - 1 : Nibble(v, j) = 0]

Formatted(v) ==
    CASE fn = "zhex32_to_str" -> zhex32_to_str(v, buf)
      [] fn = "hex32_to_str"  -> hex32_to_str(v, buf)
      [] fn = "u32_to_str"    -> u32_to_str(v, buf)
      [] fn = "s32_to_str"    -> s32_to_str(v, buf)
      [] fn = "ulong_to_string" -> ulong_to_string(v, buf)
Format(v) ==
    /\ fn \in Formatters
    /\ arg' = v /\ result' = Formatted(v).p /\ buf' = Formatted(v).b
    /\ UNCHANGED fn
-----------------------------------------------------------------------------
(* Strings in memory: s[i], counted from 0, up to the NUL.                 *)
CharAt(s, i) == IF i = Len(s) THEN NUL ELSE s[i + 1]

(* The first index, from 0 on, at which the loops of strcmp and strcmpn    *)
(* stop.  Mutant: strcmpn looks at one char more.                          *)
StopsAtLater(a, b, n) ==
    LET Stop(i) == \/ CharAt(a, i) = NUL \/ CharAt(b, i) = NUL
                   \/ CharAt(a, i) # CharAt(b, i) \/ i >= n
    IN CHOOSE i \in 0 .. Len(a) : Stop(i) /\ \A j \in 0 .. i - 1 : ~ Stop(j)

StopsAt(a, b, n) ==
    LET Stop(i) == \/ CharAt(a, i) = NUL \/ CharAt(b, i) = NUL
                   \/ CharAt(a, i) # CharAt(b, i) \/ i + 1 >= n
    IN CHOOSE i \in 0 .. Len(a) : Stop(i) /\ \A j \in 0 .. i - 1 : ~ Stop(j)
strcmpn(a, b, n) == LET i == StopsAt(a, b, n) IN CharAt(a, i) = CharAt(b, i)
strcmp(a, b) == strcmpn(a, b, Len(a) + Len(b) + 2)
Compare(a, b, n) ==
    /\ fn \in Comparisons
    /\ arg' = <<a, b, n>>
    /\ result' = IF fn = "strcmp" THEN strcmp(a, b) ELSE strcmpn(a, b, n)
    /\ UNCHANGED <<fn, buf>>

(* strcpy, and strlen of what was copied. *)
strlen(b) == CHOOSE i \in DOMAIN b : b[i] = NUL /\ \A j \in 0 .. i - 1 : b[j] # NUL
strcpy(s, b) == [i \in DOMAIN b |-> IF i <= Len(s) THEN CharAt(s, i) ELSE b[i]]
Copy(s) ==
    /\ fn = "strcpy"
    /\ arg' = s /\ buf' = strcpy(s, buf) /\ result' = strlen(buf') /\ UNCHANGED fn

(* sqrt_rnd, bit by bit from the highest power of four that op holds.  At  *)
(* the end "one" is 0, so that the result is never rounded up.             *)
(* Mutant: a bit is set only if something is left over.                    *)
RootBitStrict(S, k) ==
    LET one == 4 ^ k IN
    IF S.op > S.res + one THEN [op |-> S.op - S.res - one, res |-> S.res \div 2 + one]
    ELSE [S EXCEPT !.res = @ \div 2]

RootBit(S, k) ==
    LET one == 4 ^ k IN
    IF S.op >= S.res + one THEN [op |-> S.op - S.res - one, res |-> S.res \div 2 + one]
    ELSE [S EXCEPT !.res = @ \div 2]
sqrt_rnd(v) ==
    LET S[k \in 0 .. 16] ==
            IF k = 16 \/ 4 ^ k > v THEN [op |-> v, res |-> 0] ELSE RootBit(S[k + 1], k)
    IN S[0].res
Sqrt(v) ==
    /\ fn = "sqrt_rnd"
    /\ arg' = v /\ result' = sqrt_rnd(v) /\ UNCHANGED <<fn, buf>>

TextNext ==
    \/ \E v \in Words : Format(v)
    \/ \E a, b \in Strings, n \in 1 .. MaxLength + 1 : Compare(a, b, n)
    \/ \E s \in Strings : Copy(s)
    \/ \E v \in Squares : Sqrt(v)

TextSpec == TextInit /\ [][TextNext]_textVars
-----------------------------------------------------------------------------
(* The text at an index of buf, up to the first NUL.                       *)
TextAt(p) ==
    LET Ends(i) == i \notin DOMAIN buf \/ buf[i] = NUL
        end == CHOOSE i \in {p} \cup {k + 1 : k \in DOMAIN buf} :
                   i >= p /\ Ends(i) /\ \A j \in p .. i - 1 : ~ Ends(j)
    IN [i \in 1 .. end - p |-> buf[p + i - 1]]
Value(c) == IF c >= 65 THEN c - 55 ELSE c - 48
TimesPlus(v, base, d) ==
    LET l == v.lo * base + d IN
    [hi |-> (v.hi * base + l \div Half) % Half, lo |-> l % Half]
Number(s, base) ==
    LET N[k \in 0 .. Len(s)] ==
            IF k = 0 THEN Zero ELSE TimesPlus(N[k - 1], base, Value(s[k]))
    IN N[Len(s)]

(* The text that a formatter returns is the number it was given, in its    *)
(* base, with no zero in front unless the function fills up, and with the  *)
(* point of ulong_to_string before the last three digits, also when longer *)
(* numbers were formatted into the buffer before; and it lies in the       *)
(* buffer.  Not so zhex32_to_str of 0 and s32_to_str of the least long.    *)
Wrong(v) == \/ fn = "zhex32_to_str" /\ v = Zero
            \/ fn = "s32_to_str" /\ v = [hi |-> Half \div 2, lo |-> 0]
NumbersReadBack ==
    (fn \in Formatters /\ result >= 0 /\ ~ Wrong(arg)) =>
        LET s == TextAt(result)
            base == IF fn \in {"zhex32_to_str", "hex32_to_str"} THEN 16 ELSE 10
            minus == fn = "s32_to_str" /\ Negative(arg)
            dotted == fn = "ulong_to_string" /\ Len(s) > 3
            digits == IF dotted THEN SubSeq(s, 1, Len(s) - 4) \o SubSeq(s, Len(s) - 2, Len(s))
                      ELSE IF minus THEN Tail(s) ELSE s
        IN /\ result + Len(s) \in DOMAIN buf
           /\ dotted => s[Len(s) - 3] = Dot
           /\ minus => s[1] = Minus
           /\ \A i \in DOMAIN digits : digits[i] \in 48 .. 57 \cup 65 .. 70
           /\ Number(digits, base) = IF minus THEN Negated(arg) ELSE arg
           /\ IF fn = "hex32_to_str" THEN Len(digits) = 8
              ELSE Len(digits) = 1 \/ digits[1] # 48

(* strcmp says whether two strings are the same, strcmpn whether they are  *)
(* as far as their first n chars go, one of them a prefix of the other or  *)
(* not; strcpy makes the text of the buffer that of the source.            *)
Cut(s, n) == SubSeq(s, 1, IF n < Len(s) THEN n ELSE Len(s))
ComparesAndCopies ==
    /\ fn = "strcmp"  /\ arg # <<>> => (result <=> arg[1] = arg[2])
    /\ fn = "strcmpn" /\ arg # <<>> => (result <=> Cut(arg[1], arg[3]) = Cut(arg[2], arg[3]))
    /\ fn = "strcpy"  /\ result # -1 => TextAt(0) = arg /\ result = Len(arg)

(* sqrt_rnd is the root rounded down, for squares and their neighbours at  *)
(* the limits of each bit.                                                 *)
RootIsFloor ==
    fn = "sqrt_rnd" /\ result >= 0 => result * result <= arg /\ arg < (result + 1) * (result + 1)
=============================================================================
