------------------------------- MODULE Escape -------------------------------
(***************************************************************************)
(* internal/escape: how the drivers turn strings a service does not take   *)
(* (keys of blobs, metadata, labels) into strings it takes, and back.      *)
(*                                                                         *)
(* A string is a sequence of code points.  Each rune to be escaped becomes *)
(* "__0x<hex>__".                                                          *)
(***************************************************************************)
EXTENDS Integers, Sequences, SequencesExt

Underscore == 95
Zero == 48
X == 120
ReplacementChar == 65533

IsASCIIAlphanumeric(r) == r \in (65..90) \union (97..122) \union (48..57)

-----------------------------------------------------------------------------
(* strconv.ParseInt(digits, 16, 32), and the conversion of the result to a
   rune and then to a string *)

DigitValue(c) == CASE c \in 48..57 -> c - 48
                   [] c \in 97..102 -> c - 87
                   [] c \in 65..70 -> c - 55
                   [] OTHER -> 16

HasSign(ds) == ds # << >> /\ Head(ds) \in {43, 45}
Digits(ds) == IF HasSign(ds) THEN Tail(ds) ELSE ds

Significant(ds) ==
    LET nonzero == {i \in DOMAIN ds : ds[i] # Zero}
    IN IF nonzero = {} THEN << >> ELSE SubSeq(ds, Min(nonzero), Len(ds))

ParsesAsInt32(ds) ==
    LET digits == Digits(ds)
        significant == Significant(digits)
    IN /\ digits # << >> /\ \A i \in DOMAIN digits : DigitValue(digits[i]) < 16
       /\ \/ Len(significant) < 8
          \/ Len(significant) = 8 /\ DigitValue(significant[1]) < 8

HexValue(ds) == FoldLeft(LAMBDA v, c : 16 * v + DigitValue(c), 0, ds)

AsRune(ds) ==
    LET v == HexValue(Digits(ds))
        negative == HasSign(ds) /\ Head(ds) = 45 /\ v > 0
    IN IF negative \/ v > 1114111 \/ v \in 55296..57343 THEN ReplacementChar ELSE v

HexDigits(n) ==
    LET digit(d) == IF d < 10 THEN 48 + d ELSE 87 + d
        hex[v \in Nat] == IF v < 16 THEN <<digit(v)>> ELSE Append(hex[v \div 16], digit(v % 16))
    IN hex[n]

-----------------------------------------------------------------------------
(* Unescaping *)

StartsEscape(r, i) == i + 3 <= Len(r) /\ SubSeq(r, i, i + 3) = <<Underscore, Underscore, Zero, X>>

\* The escape sequence that starts at r[i], if one does: the rune it stands
\* for and its last index.
Unescape(r, i) ==
    LET ends == {j \in i + 4..Len(r) : r[j] = Underscore}
        end == Min(ends)
        digits == SubSeq(r, i + 4, end - 1)
        looksRight ==
            /\ StartsEscape(r, i)
            /\ ends # {} /\ end < Len(r) /\ r[end + 1] = Underscore
            /\ ParsesAsInt32(digits)
    IN IF looksRight THEN [ok |-> TRUE, rune |-> AsRune(digits), last |-> end + 1]
       ELSE [ok |-> FALSE, rune |-> 0, last |-> i]

IsEscapeSequence(r, i) == Unescape(r, i).ok

HexUnescape(s) ==
    LET starts == {i \in DOMAIN s : IsEscapeSequence(s, i)}
        from[i \in 1..Len(s) + 1] ==
            LET later == {j \in starts : j >= i}
                u == Unescape(s, Min(later))
            IN IF later = {} THEN SubSeq(s, i, Len(s))
               ELSE SubSeq(s, i, Min(later) - 1) \o <<u.rune>> \o from[u.last + 1]
    IN from[1]

-----------------------------------------------------------------------------
(* Escaping *)

\* The index of the "__0x<hex>" or "__0x<hex>_" that ends right before r[i],
\* which the "__" of an escaped r[i] would complete, or 0.
DanglingEscapePrefix(r, i) ==
    LET end == IF i > 1 /\ r[i - 1] = Underscore THEN i - 2 ELSE i - 1
        start == 1 + Max({0} \union {j \in 1..end : r[j] = Underscore})
    IN IF /\ start >= 3 /\ end > start /\ r[start] = Zero /\ r[start + 1] = X
          /\ r[start - 2] = Underscore /\ ParsesAsInt32(SubSeq(r, start + 2, end))
       THEN start - 2 ELSE 0

\* Slip: what the underscores of an escaped rune complete is not looked at.
EscapeAtAsked(r, asked, i) == i \in asked \/ IsEscapeSequence(r, i)

\* r[i] is escaped: because the caller asks for it, because it starts what
\* HexUnescape would take for an escape sequence, or because escaping a later
\* rune would complete such a sequence.
EscapeAt(r, asked, i) ==
    LET at[j \in 1..Len(r)] ==
            \/ j \in asked \/ IsEscapeSequence(r, j)
            \/ StartsEscape(r, j) /\ \E k \in j + 1..Len(r) : DanglingEscapePrefix(r, k) = j /\ at[k]
    IN at[i]

\* HexEscape(s, shouldEscape), with the indices shouldEscape is true for.
HexEscape(s, asked) ==
    FlattenSeq([i \in 1..Len(s) |->
        IF EscapeAt(s, asked, i)
        THEN <<Underscore, Underscore, Zero, X>> \o HexDigits(s[i]) \o <<Underscore, Underscore>>
        ELSE <<s[i]>>])

-----------------------------------------------------------------------------
(* URL escaping, which works on the bytes of the string in UTF-8 *)

UTF8(r) ==
    LET cont(n) == 128 + (n % 64)
    IN CASE r < 128   -> <<r>>
         [] r \in 128..2047 -> <<192 + r \div 64, cont(r)>>
         [] r \in 2048..65535 -> <<224 + r \div 4096, cont(r \div 64), cont(r)>>
         [] OTHER     -> <<240 + r \div 262144, cont(r \div 4096), cont(r \div 64), cont(r)>>

Bytes(s) == FlattenSeq([i \in DOMAIN s |-> UTF8(s[i])])

\* The runes of valid UTF-8.
Runes(bytes) ==
    LET lead(b) == IF b < 128 THEN b ELSE IF b < 224 THEN b - 192 ELSE IF b < 240 THEN b - 224 ELSE b - 240
    IN FoldLeft(LAMBDA s, b : IF b \in 128..191 THEN [s EXCEPT ![Len(s)] = 64 * @ + b - 128]
                              ELSE Append(s, lead(b)),
                << >>, bytes)

Percent == 37
Hex2(c) == LET upper(d) == IF d < 10 THEN 48 + d ELSE 55 + d
           IN <<Percent, upper(c \div 16), upper(c % 16)>>

\* The characters url.PathEscape leaves alone: -_.~ $&+:=@
PathSafe(c) == IsASCIIAlphanumeric(c) \/ c \in {45, 95, 46, 126, 36, 38, 43, 58, 61, 64}

URLEscape(s) ==
    LET b == Bytes(s)
    IN FlattenSeq([i \in DOMAIN b |-> IF PathSafe(b[i]) THEN <<b[i]>> ELSE Hex2(b[i])])

\* url.PathUnescape fails on a % without two digits, and s is returned.
URLUnescape(s) ==
    LET b == Bytes(s)
        good(i) == i + 2 <= Len(b) /\ DigitValue(b[i + 1]) < 16 /\ DigitValue(b[i + 2]) < 16
        from[i \in 1..Len(b) + 1] ==
            IF i > Len(b) THEN << >>
            ELSE IF b[i] = Percent
                 THEN <<16 * DigitValue(b[i + 1]) + DigitValue(b[i + 2])>> \o from[i + 3]
                 ELSE <<b[i]>> \o from[i + 1]
    IN IF \A i \in DOMAIN b : b[i] = Percent => good(i) THEN Runes(from[1]) ELSE s

=============================================================================
