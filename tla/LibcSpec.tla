------------------------------ MODULE LibcSpec ------------------------------
(***************************************************************************)
(* What the C library of Libc promises: copies that overlap are copies of  *)
(* what was there, strings compare as the texts they hold, a number that   *)
(* is written can be read again, and no text passes its buffer's end.      *)
(***************************************************************************)
EXTENDS Libc, FiniteSets

LOCAL INSTANCE SequencesExt

CONSTANTS Characters,       \* of a memory; 0 ends a string
          MemorySize,
          Numbers           \* words that are written, read and divided

ASSUME LibcSpecAssumption ==
  /\ 0 \in Characters /\ Characters \subseteq 0..127
  /\ MemorySize \in Nat \ {0} /\ Numbers \subseteq 0..(2^WordBits - 1)

VARIABLES memory, num

libcVars == <<memory, num>>

LibcInit == memory = [a \in 1..MemorySize |-> 0] /\ num = 0
FillMemory ==
  \E a \in 1..MemorySize, c \in Characters :
    memory' = [memory EXCEPT ![a] = c] /\ UNCHANGED num
ChooseNumber == num' \in Numbers /\ UNCHANGED memory

-----------------------------------------------------------------------------
(* Memory and strings *)

Addresses == 1..MemorySize
Within(a, n) == a + n - 1 <= MemorySize
Copied(m, new, dest, src, n) ==
  \A a \in Addresses : new[a] = IF a \in dest..(dest + n - 1) THEN m[src + a - dest] ELSE m[a]
Apart(a, n, b, k) == a + n <= b \/ b + k <= a

IsString(m, s) == \E a \in s..MemorySize : m[a] = 0
String(m, s) == SubSeq(m, s, CHOOSE a \in (s - 1)..(MemorySize - 1) :
                                m[a + 1] = 0 /\ \A b \in s..a : m[b] # 0)
Upto(t, n) == SubSeq(t, 1, AtMost(n, {Len(t)}))
Before(s, t) ==
  \E n \in 0..Len(s) : /\ n < Len(t) /\ SubSeq(s, 1, n) = SubSeq(t, 1, n)
                       /\ n = Len(s) \/ s[n + 1] < t[n + 1]
Agrees(result, s, t) == (result = 0 <=> s = t) /\ (result < 0 <=> Before(s, t))

\* Copying within a memory copies what was there, whichever way the areas overlap; a plain copy
\* does so if they do not, or if it goes down.
CopiesRight ==
  \A dest, src \in Addresses, n \in 0..MemorySize :
    Within(dest, n) /\ Within(src, n) =>
      /\ Copied(memory, memmove(memory, dest, src, n), dest, src, n)
      /\ Apart(dest, n, src, n) \/ dest <= src
           => Copied(memory, memcpy(memory, dest, src, n), dest, src, n)

\* Strings are compared, searched and copied as the texts that they hold.
StringsRight ==
  \A s, t \in Addresses : IsString(memory, s) /\ IsString(memory, t) =>
    LET cs == String(memory, s)
        ct == String(memory, t)
        Place(a) == IF a = NULL THEN 0 ELSE a - s + 1
    IN
    /\ strlen(memory, s) = Len(cs)
    /\ Agrees(strcmp(memory, s, t), cs, ct)
    /\ \A n \in 0..MemorySize :
         /\ Agrees(strncmp(memory, s, t, n), Upto(cs, n), Upto(ct, n))
         /\ Within(t, n) /\ Apart(s, Len(cs) + 1, t, n) =>
              SubSeq(strncpy(memory, t, s, n), t, t + n - 1)
                = [i \in 1..n |-> IF i <= Len(cs) THEN cs[i] ELSE 0]
    /\ Within(t, Len(cs) + 1) /\ Apart(s, Len(cs) + 1, t, Len(cs) + 1)
         => String(strcpy(memory, t, s), t) = cs
    /\ \A c \in Characters \ {0} :
         LET at == {i \in 1..Len(cs) : cs[i] = c} IN
         /\ Place(strchr(memory, s, c)) = AtMost(IF at = {} THEN 0 ELSE Len(cs), at)
         /\ IF at = {} THEN strrchr(memory, s, c) = NULL
            ELSE Place(strrchr(memory, s, c)) \in at
                 /\ \A i \in at : i <= Place(strrchr(memory, s, c))
         /\ strnchr(memory, s, MemorySize, c) = strchr(memory, s, c)

-----------------------------------------------------------------------------
(* Numbers *)

\* Quotients go towards zero and remainders have the dividend's sign.
DivisionRight ==
  \A den \in 1..(WordSize - 1) :
    LET n == Value(num)
        d == Value(den)
        q == divsi3(num, den)
        r == Value(modsi3(num, den))
    IN  /\ ToWord(Value(q) * d + r) = num
        /\ -Value(Absolute(den)) < r \/ d = -(WordSize \div 2)
        /\ r * d < d * d \/ -r * d < d * d
        /\ (r < 0 => n < 0) /\ (r > 0 => n > 0)

Texts(n) == InDigits(n, 10, SmallDigits)
Bases == [o |-> 8, x |-> 16, X |-> 16, u |-> 10, d |-> 10]
Widths == {-1, 1, 4, 6}
Precisions == {-1, 0, 2, 4}

\* The text of a format, its width and its precision written out or taken from arguments.
FormatOf(flags, width, precision, conv, star) ==
  LET InText(n) == IF star THEN <<"*">> ELSE Texts(n)
  IN  <<"%">> \o SetToSeq(flags) \o (IF width < 0 THEN <<>> ELSE InText(width))
      \o (IF precision < 0 THEN <<>> ELSE <<".">> \o InText(precision)) \o <<conv>>
ArgsOf(width, precision, n, star) ==
  (IF star /\ width >= 0 THEN <<width>> ELSE <<>>) \o
  (IF star /\ precision >= 0 THEN <<precision>> ELSE <<>>) \o <<n>>

Room == 12
WholeText(r) == SubSeq(r.text, 1, r.result)
Full(fmt, args) == WholeText(vsnprintf(Room, Room, fmt, args))
Stripped(text) == SelectSeq(text, LAMBDA c : c \notin {" ", "+"})

\* A whole number is written so that reading it gives the number again, as wide as was asked for
\* and on the side that was asked for, with at least the digits that were asked for.
InField(text, stripped, flags, width) ==
  /\ Len(text) >= width
  /\ Len(text) > width /\ width > 0 => Len(stripped) + 1 >= Len(text)
  /\ text[Len(text)] = " " => "-" \in flags
  /\ text[1] = " " => "-" \notin flags \/ " " \in flags
ReadBack(body, back) == back.value = num /\ body[back.end] = NUL
WrittenAs(text, flags, width, precision, conv) ==
  LET body == Append(Stripped(text), NUL) IN
  /\ ReadBack(body, strtol(body, Bases[conv]))
  /\ InField(text, Stripped(text), flags, width)
  /\ Cardinality({i \in 1..Len(text) : isxdigit(text[i])}) >= precision
WrittenRight(flags, width, precision, conv) ==
  \A star \in BOOLEAN :
    WrittenAs(Full(FormatOf(flags, width, precision, conv, star),
                   ArgsOf(width, precision, num, star)), flags, width, precision, conv)

\* Whatever the size of the buffer, it holds as much of the text as fits before a NUL, nothing is
\* written behind it, and the result is the length of the whole text or of what was written.
Bounded(size, full, r) ==
  LET n == IF size > Len(full) THEN Len(full) ELSE size - 1 IN
  /\ r.result = Len(full)
  /\ size > 0 => /\ SubSeq(r.text, 1, n) = SubSeq(full, 1, n) /\ r.text[n + 1] = NUL
                 /\ Written(size, r).result = n
  /\ \A i \in (size + 1)..Room : r.text[i] = Untouched
BoundedRight(fmt, args) ==
  \A size \in 0..Room : Bounded(size, Full(fmt, args), vsnprintf(size, Room, fmt, args))

\* The other conversions; %n counts the text even where there was no room for it.
MixedRight ==
  LET fmt == <<"a", "%", "-", "3", "c", "%", ".", "1", "s", "%", "n", "%", "%", "%", "4", "d">>
      args == <<"b", <<"o", "k">>, "address", num>>
  IN
  /\ Full(fmt, args) = <<"a", "b", " ", " ", "o", "%">> \o Full(<<"%", "4", "d">>, <<num>>)
  /\ BoundedRight(fmt, args)
  /\ vsnprintf(3, Room, fmt, args).counted = 5
  /\ vsnprintf_nofloat(Room, Room, fmt, args) = vsnprintf(Room, Room, fmt, args)
  /\ sprintf(Room, fmt, args) = vsnprintf(Room, Room, fmt, args)
  /\ Full(<<"%", "h", "d">>, <<num>>) = Full(<<"%", "d">>, <<Qualified("h", {"signed"}, num)>>)
  /\ Full(<<"%", "p">>, <<num>>) = Full(<<"%", "0", "2", "x">>, <<num>>)

\* A fraction is written with its sign and six digits.  A whole part of ten or a hundred is not:
\* its first digit comes out as the character behind the nine.
SameFloat(back, g) == back.exp = -6 /\ back.value * 8 = g * 10^6
FloatsWritten ==
  LET f == 7 * num IN
  f \div 8 \notin {10, 100} =>
    \A g \in {f, -f} : SameFloat(atof(Append(Full(<<"%", "f">>, <<g>>), NUL)), g)

FlagSets == SUBSET FlagChars
NumbersRight ==
  /\ \A flags \in FlagSets, width \in Widths, precision \in Precisions, conv \in DOMAIN Bases :
       /\ WrittenRight(flags, width, precision, conv)
  /\ \A flags \in {{}, {"-"}, {"0", "+"}} : BoundedRight(FormatOf(flags, 6, 2, "d", FALSE), <<num>>)
  /\ MixedRight /\ FloatsWritten

-----------------------------------------------------------------------------
(* Properties *)

\* Memory and strings come out of the library's functions as they went in.
MemoryRight == CopiesRight /\ StringsRight

\* Numbers are divided, written and read as what they are.
ConversionsOfText == DivisionRight /\ NumbersRight
=============================================================================
