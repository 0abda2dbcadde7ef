-------------------------------- MODULE Libc --------------------------------
(***************************************************************************)
(* The C library's memory, string and formatting functions: libbase/libc.c, *)
(* vsnprintf.c (and vsnprintf-nofloat.c, which the boot loader has),       *)
(* divsi3.c and atof.c.                                                    *)
(*                                                                         *)
(* Memory is a function from addresses to signed characters, in which a    *)
(* string ends with 0.  The text functions work on sequences of characters *)
(* that end with NUL.  An int and a long are words of WordBits bits.       *)
(***************************************************************************)
EXTENDS Integers, Sequences

LOCAL INSTANCE SequencesExt

CONSTANT WordBits

ASSUME WordAssumption == WordBits \in Nat \ {0, 1}

NULL == -1
Least(S) == CHOOSE n \in S : \A k \in S : n <= k
AtMost(n, S) == Least(S \cup {n})

-----------------------------------------------------------------------------
(* Memory and strings *)

CopyUp(m, dest, src, n) ==
  LET copied[i \in 0..n] ==
        IF i = 0 THEN m
        ELSE [copied[i - 1] EXCEPT ![dest + i - 1] = copied[i - 1][src + i - 1]]
  IN  copied[n]

CopyDown(m, dest, src, n) ==
  LET copied[i \in 0..n] ==
        IF i = 0 THEN m
        ELSE [copied[i - 1] EXCEPT ![dest + n - i] = copied[i - 1][src + n - i]]
  IN  copied[n]

memcpy(m, dest, src, n) == CopyUp(m, dest, src, n)

\* Mutant: always from the start, as memcpy does it.
MemmoveUp(m, dest, src, n) == CopyUp(m, dest, src, n)

memmove(m, dest, src, n) ==
  IF dest <= src THEN CopyUp(m, dest, src, n) ELSE CopyDown(m, dest, src, n)

memset(m, s, c, n) == [a \in DOMAIN m |-> IF a \in s..(s + n - 1) THEN c ELSE m[a]]

Unsigned(c) == c % 256
FirstDifference(m, cs, ct, n) == AtMost(n, {i \in 0..(n - 1) : m[cs + i] # m[ct + i]})

memcmp(m, cs, ct, n) ==
  LET i == FirstDifference(m, cs, ct, n)
  IN  IF i = n THEN 0 ELSE Unsigned(m[cs + i]) - Unsigned(m[ct + i])

Rest(m, s) == {i \in 0..(Len(m) - s) : m[s + i] = 0}
strlen(m, s) == Least(Rest(m, s))
strnlen(m, s, count) == AtMost(count, Rest(m, s))

strchr(m, s, c) ==
  LET found == {i \in 0..strlen(m, s) : m[s + i] = c}
  IN  IF found = {} THEN NULL ELSE s + Least(found)

strrchr(m, s, c) ==
  LET found == {i \in 0..strlen(m, s) : m[s + i] = c}
  IN  IF found = {} THEN NULL ELSE s + CHOOSE i \in found : \A j \in found : j <= i

strnchr(m, s, count, c) ==
  LET found == {i \in 0..(strnlen(m, s, count) - 1) : m[s + i] = c}
  IN  IF found = {} THEN NULL ELSE s + Least(found)

strcpy(m, dest, src) == CopyUp(m, dest, src, strlen(m, src) + 1)

strncpy(m, dest, src, count) ==
  LET n == strnlen(m, src, count)
  IN  memset(CopyUp(m, dest, src, n), dest + n, 0, count - n)

\* __res is a signed character.
SignedChar(d) == ((d + 128) % 256) - 128

\* Up to the first difference or to the end that comes first, and n characters at most.
Compare(m, cs, ct, n) ==
  LET count == AtMost(n, {strlen(m, cs) + 1, strlen(m, ct) + 1})
      i == FirstDifference(m, cs, ct, count)
  IN  IF i = count THEN 0 ELSE SignedChar(m[cs + i] - m[ct + i])

strcmp(m, cs, ct) == Compare(m, cs, ct, Len(m))
strncmp(m, cs, ct, count) == Compare(m, cs, ct, count)

-----------------------------------------------------------------------------
(* Division of signed words: of the absolute values, as unsigned ones *)

WordSize == 2^WordBits
ToWord(n) == n % WordSize
Value(w) == IF w >= WordSize \div 2 THEN w - WordSize ELSE w
Absolute(w) == IF Value(w) < 0 THEN ToWord(-w) ELSE w
Negate(negative, w) == IF negative THEN ToWord(-w) ELSE w

divsi3(num, den) ==
  Negate((Value(num) < 0) # (Value(den) < 0), Absolute(num) \div Absolute(den))
modsi3(num, den) == Negate(Value(num) < 0, Absolute(num) % Absolute(den))

-----------------------------------------------------------------------------
(* Numbers from text *)

NUL == "nul"
SmallDigits == <<"0", "1", "2", "3", "4", "5", "6", "7", "8", "9",
                 "a", "b", "c", "d", "e", "f">>
LargeDigits == <<"0", "1", "2", "3", "4", "5", "6", "7", "8", "9",
                 "A", "B", "C", "D", "E", "F">>
\* What of a buffer is the string: up to its first NUL.
CString(s) == SubSeq(s, 1, Least({i \in 1..(Len(s) + 1) : i = Len(s) + 1 \/ s[i] = NUL}) - 1)

isdigit(c) == \E d \in 1..10 : SmallDigits[d] = c
isxdigit(c) == \E d \in 1..16 : c \in {SmallDigits[d], LargeDigits[d]}
DigitValue(c) == (CHOOSE d \in 1..16 : c \in {SmallDigits[d], LargeDigits[d]}) - 1

\* The number that starts at i, and where it ends.
Digits(s, i, base, size) ==
  LET isDigit(j) == isxdigit(s[j]) /\ DigitValue(s[j]) < base
      end == Least({j \in i..Len(s) : ~isDigit(j)})
      read[j \in i..end] ==
        IF j = i THEN 0 ELSE (read[j - 1] * base + DigitValue(s[j - 1])) % size
  IN  [value |-> read[end], end |-> end]

X == {"x", "X"}
strtoul(s, i, base) ==
  IF base = 0 /\ s[i] = "0"
  THEN IF s[i + 1] \in X /\ isxdigit(s[i + 2]) THEN Digits(s, i + 2, 16, WordSize)
       ELSE Digits(s, i + 1, 8, WordSize)
  ELSE IF base = 16 /\ s[i] = "0" /\ s[i + 1] \in X THEN Digits(s, i + 2, 16, WordSize)
  ELSE Digits(s, i, IF base = 0 THEN 10 ELSE base, WordSize)

strtol(s, base) ==
  IF s[1] = "-" THEN [strtoul(s, 2, base) EXCEPT !.value = ToWord(-@)] ELSE strtoul(s, 1, base)

skip_atoi(s, i) == Digits(s, i, 10, 2^30)

\* value * 10^exp, exactly: the rounding of the float operations is left out.
atof(s) ==
  LET blanks == Least({i \in 1..Len(s) : s[i] # " "})
      start == IF s[blanks] \in {"-", "+"} THEN blanks + 1 ELSE blanks
      whole == Digits(s, start, 10, 2^30)
      point == s[whole.end] = "."
      part == IF point THEN Digits(s, whole.end + 1, 10, 2^30)
              ELSE [value |-> 0, end |-> whole.end]
      places == IF point THEN part.end - whole.end - 1 ELSE 0
      iexp == IF s[part.end] \in {"e", "E"}
              THEN SignedChar(strtoul(s, part.end + 1, 0).value) ELSE 0
      value == whole.value * 10^places + part.value
  IN  [value |-> IF s[blanks] = "-" THEN -value ELSE value, exp |-> iexp - places]

-----------------------------------------------------------------------------
(* Text into a buffer of size characters: what does not fit is only counted *)

\* The concatenation makes it a tuple.
Repeat(c, n) == IF n <= 0 THEN <<>> ELSE <<>> \o [i \in 1..n |-> c]

Untouched == "untouched"
\* The memory from the buffer's start on, which goes on behind its end.
Buffer(size, room) == [text |-> Repeat(Untouched, room), at |-> 1, size |-> size,
                       counted |-> 0]

\* Mutant: the place for the NUL is taken too, and one behind it.
PutBehind(out, c) ==
  [out EXCEPT !.text = IF out.at <= out.size + 1 THEN [@ EXCEPT ![out.at] = c] ELSE @,
              !.at = @ + 1]

Put(out, c) ==
  [out EXCEPT !.text = IF out.at <= out.size THEN [@ EXCEPT ![out.at] = c] ELSE @,
              !.at = @ + 1]

\* As %f does it: where there is no room nothing is counted either.
PutOrStop(out, c) == IF out.at <= out.size THEN Put(out, c) ELSE out
PutAll(out, text) == FoldLeft(Put, out, text)

\* A number's digits, at least one.
InDigits(num, base, digits) ==
  LET rest[n \in 0..num] ==
        IF n < base THEN <<digits[n + 1]>>
        ELSE Append(rest[n \div base], digits[(n % base) + 1])
  IN  rest[num]

\* The sign and the prefix go in front of zeros and behind spaces.
Fill(front, digits, rest, zeropad, left) ==
  IF zeropad THEN front \o Repeat("0", rest) \o digits
  ELSE IF left THEN front \o digits \o Repeat(" ", rest)
  ELSE Repeat(" ", rest) \o front \o digits

SignOf(negative, type) ==
  IF negative THEN <<"-">>
  ELSE IF "signed" \notin type THEN <<>>
  ELSE IF "+" \in type THEN <<"+">>
  ELSE IF " " \in type THEN <<" ">> ELSE <<>>

Prefix(base, type) ==
  IF "#" \notin type THEN <<>>
  ELSE IF base = 16 THEN <<"0", IF "large" \in type THEN "X" ELSE "x">>
  ELSE IF base = 8 THEN <<"0">> ELSE <<>>

AtLeast(precision, digits) == Repeat("0", precision - Len(digits)) \o digits

Placed(out, front, digits, size, type) ==
  PutAll(out, Fill(front, digits, size - Len(front) - Len(digits),
                   "0" \in type /\ "-" \notin type, "-" \in type))

number(out, num, base, size, precision, type) ==
  LET negative == "signed" \in type /\ Value(num) < 0
      digits == IF "large" \in type THEN LargeDigits ELSE SmallDigits
  IN  Placed(out, SignOf(negative, type) \o Prefix(base, type),
             AtLeast(precision, InDigits(Negate(negative, num), base, digits)), size, type)

\* f in eighths.  The first digit may be ten: its character is the one behind the nine.
FloatDigits(f) ==
  LET integer == f \div 8
      m == Least({p \in {1, 10, 100} : integer <= p * 10})
      Digit(n) == IF n = 10 THEN ":" ELSE SmallDigits[n + 1]
      left[p \in 0..6] == IF p = 0 THEN f % 8 ELSE (left[p - 1] * 10) % 8
      high == [p \in 1..(CASE m = 1 -> 1 [] m = 10 -> 2 [] m = 100 -> 3) |->
                 LET d == m \div (10^(p - 1))
                 IN  Digit(IF p = 1 THEN integer \div m ELSE (integer % (d * 10)) \div d)]
  IN  high \o <<".">> \o [p \in 1..6 |-> Digit((left[p - 1] * 10) \div 8)]

\* The sign is put down whether there is room or not.
PutFloat(out, f) ==
  LET signed == IF f < 0 THEN [out EXCEPT !.text[out.at] = "-", !.at = @ + 1] ELSE out
  IN  FoldLeft(PutOrStop, signed, FloatDigits(IF f < 0 THEN -f ELSE f))

-----------------------------------------------------------------------------
(* vsnprintf() *)

FlagChars == {"-", "+", " ", "#", "0"}

\* A width or a precision at i: none, in the text, or the next argument.
Field(fmt, i, args) ==
  IF isdigit(fmt[i]) THEN [n |-> skip_atoi(fmt, i).value, at |-> skip_atoi(fmt, i).end,
                           args |-> args]
  ELSE IF fmt[i] = "*" THEN [n |-> Head(args), at |-> i + 1, args |-> Tail(args)]
  ELSE [n |-> -1, at |-> i, args |-> args]

\* Everything between the % at i and the conversion.
Directive(fmt, i, args) ==
  LET at == Least({j \in (i + 1)..Len(fmt) : fmt[j] \notin FlagChars})
      width == Field(fmt, at, args)
      negative == fmt[at] = "*" /\ width.n < 0
      point == fmt[width.at] = "."
      prec == IF point THEN Field(fmt, width.at + 1, width.args) ELSE [width EXCEPT !.n = -1]
      q == fmt[prec.at]
      long == q = "l" /\ fmt[prec.at + 1] = "l"
      qualified == q \in {"h", "l", "L", "Z", "z", "t"}
  IN
  [flags |-> {fmt[j] : j \in (i + 1)..(at - 1)} \cup (IF negative THEN {"-"} ELSE {}),
   width |-> IF negative THEN -width.n ELSE width.n,
   precision |-> IF point /\ prec.n < 0 THEN 0 ELSE prec.n,
   qualifier |-> IF long THEN "L" ELSE IF qualified THEN q ELSE "none",
   at |-> prec.at + (IF long THEN 2 ELSE IF qualified THEN 1 ELSE 0),
   args |-> prec.args]

Padded(flags, text, width) ==
  LET spaces == Repeat(" ", width - Len(text))
  IN  IF "-" \in flags THEN text \o spaces ELSE spaces \o text

\* %s: no more than precision characters, all if there is none.
StringField(d, s) == Padded(d.flags, SubSeq(s, 1, IF d.precision < 0 \/ d.precision > Len(s)
                                                  THEN Len(s) ELSE d.precision), d.width)

\* The argument as the qualifier has it: a short is half a word.
Half == 2^(WordBits \div 2)
Qualified(qualifier, type, n) ==
  LET h == n % Half IN
  IF qualifier # "h" THEN ToWord(n)
  ELSE IF "signed" \in type /\ h >= Half \div 2 THEN ToWord(h - Half) ELSE h

IntegerConversions == {"o", "x", "X", "p", "u", "d", "i"}
Base(c) == IF c = "o" THEN 8 ELSE IF c \in {"x", "X", "p"} THEN 16 ELSE 10
TypeOf(c) == IF c \in {"d", "i"} THEN {"signed"} ELSE IF c = "X" THEN {"large"} ELSE {}

\* p has all its digits if no width is given: two for each of its bytes.
Integer(out, d, c, type) ==
  LET all == c = "p" /\ d.width = -1
  IN  number(out, Qualified(d.qualifier, type, Head(d.args)), Base(c),
             IF all THEN WordBits \div 4 ELSE d.width, d.precision,
             IF all THEN type \cup {"0"} ELSE type)

\* One conversion; what it leaves of the arguments and where the text goes on.
Convert(out, c, d, float) ==
  LET Done(o) == [out |-> o, at |-> d.at + 1, args |-> Tail(d.args)]
      Plain(o, at) == [out |-> o, at |-> at, args |-> d.args]
  IN
  CASE c \in IntegerConversions -> Done(Integer(out, d, c, d.flags \cup TypeOf(c)))
    [] c = "c"          -> Done(PutAll(out, Padded(d.flags, <<Head(d.args)>>, d.width)))
    [] c = "s"          -> Done(PutAll(out, StringField(d, Head(d.args))))
    [] c = "f" /\ float -> Done(PutFloat(out, Head(d.args)))
    [] c = "n"          -> Done([out EXCEPT !.counted = out.at - 1])
    [] c = "%"          -> Plain(Put(out, "%"), d.at + 1)
    [] c = NUL          -> Plain(Put(out, "%"), d.at)
    [] OTHER            -> Plain(PutAll(out, <<"%", c>>), d.at + 1)

WithDirective(out, fmt, d, float) == Convert(out, fmt[d.at], d, float)

RECURSIVE Format(_, _, _, _, _)
GoOn(done, fmt, float) == Format(done.out, fmt, done.at, done.args, float)
Format(out, fmt, i, args, float) ==
  IF fmt[i] = NUL THEN out
  ELSE IF fmt[i] # "%" THEN Format(Put(out, fmt[i]), fmt, i + 1, args, float)
  ELSE GoOn(WithDirective(out, fmt, Directive(fmt, i, args), float), fmt, float)

\* The NUL goes behind the text or, if that is too long, into the buffer's last place.
Terminated(out) ==
  IF out.size = 0 THEN out
  ELSE [out EXCEPT !.text[IF out.at <= out.size THEN out.at ELSE out.size] = NUL]

Result(out) == [text |-> Terminated(out).text, result |-> out.at - 1, counted |-> out.counted]

vsnprintf(size, room, fmt, args) ==
  Result(Format(Buffer(size, room), Append(fmt, NUL), 1, args, TRUE))
vsnprintf_nofloat(size, room, fmt, args) ==
  Result(Format(Buffer(size, room), Append(fmt, NUL), 1, args, FALSE))

\* sprintf, vsprintf: as much as comes.
INT_MAX == 2^30
sprintf(room, fmt, args) == vsnprintf(INT_MAX, room, fmt, args)

\* vscnprintf and scnprintf return what was written.
Written(size, r) == [r EXCEPT !.result = IF @ >= size THEN size - 1 ELSE @]
vscnprintf(size, room, fmt, args) == Written(size, vsnprintf(size, room, fmt, args))
=============================================================================
