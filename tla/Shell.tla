------------------------------- MODULE Shell -------------------------------
(***************************************************************************)
(* The two command lines: the boot loader's (readstr of libbase/console.c, *)
(* do_command of bios/main.c) and the demonstration firmware's             *)
(* (demo/shell.c), with the commands that look at and change memory.  The  *)
(* name of a command is a key of its own.                                  *)
(***************************************************************************)
EXTENDS Libc, FiniteSets

LOCAL INSTANCE SequencesExt

CONSTANTS Lines,          \* what is typed, without the return at its end
          LineSize,       \* sizeof(command_buffer)
          RamSize,        \* bytes of memory
          BytesPerWord,   \* sizeof(unsigned int)
          LeftToRight,    \* the compiler evaluates the arguments of a call first to last
          Uptimes         \* seconds since the start

ASSUME ShellAssumption ==
  /\ {LineSize, RamSize, BytesPerWord} \subseteq Nat \ {0}
  /\ RamSize % BytesPerWord = 0
  /\ LeftToRight \in BOOLEAN /\ Uptimes \subseteq Nat

VARIABLES
  program,                \* who reads: the boot loader or the demonstration
  keys, typed,            \* the line being typed; how many of its keys have come
  buffer,                 \* the buffer in front of command_index or ptr
  ram, said,              \* the memory; the answer to the last command
  before                  \* the memory before it

shellVars == <<program, keys, typed, buffer, ram, said, before>>

Programs == {"bios", "demo"}
BS == "backspace"
Nothing == [what |-> "nothing", bytes |-> <<>>]
Message(m) == [Nothing EXCEPT !.what = m]

ShellInit ==
  /\ program = "bios" /\ keys = <<>> /\ typed = 0
  /\ buffer = <<>> /\ said = Nothing
  /\ ram = [a \in 0..(RamSize - 1) |-> 0] /\ before = ram

-----------------------------------------------------------------------------
(* Words of a line *)

\* The text up to the next blank, and what follows that.
get_token(s) ==
  LET blanks == {i \in DOMAIN s : s[i] = " "} IN
  IF blanks = {} THEN [token |-> s, rest |-> <<>>]
  ELSE [token |-> SubSeq(s, 1, Least(blanks) - 1),
        rest |-> SubSeq(s, Least(blanks) + 1, Len(s))]

Tokens(s, n) ==
  LET taken[k \in 0..n] == IF k = 0 THEN [token |-> <<>>, rest |-> s]
                           ELSE get_token(taken[k - 1].rest)
  IN  <<>> \o [k \in 1..n |-> taken[k].token]

\* A number has nothing behind it.
Number(token) ==
  LET r == strtoul(Append(token, NUL), 1, 0)
  IN  [ok |-> r.end = Len(token) + 1, value |-> r.value]
CountOf(token) == IF token = <<>> THEN [ok |-> TRUE, value |-> 1] ELSE Number(token)

-----------------------------------------------------------------------------
(* The commands: the memory after them and what they say *)

Answer(m, s) == [ram |-> m, said |-> s]
Refused(message) == Answer(ram, Message(message))

InBytes(value) == [i \in 1..BytesPerWord |-> (value \div 256^(BytesPerWord - i)) % 256]
StoreWord(m, a, bytes) ==
  [b \in DOMAIN m |-> IF b \in a..(a + BytesPerWord - 1) THEN bytes[b - a + 1] ELSE m[b]]
Cells(m, a, n) == [i \in 1..n |-> m[a + i - 1]]
Dump(a, n) == [what |-> "bytes", bytes |-> Cells(ram, a, n)]

mr(start, len) ==
  IF start = <<>> THEN Refused("usage")
  ELSE IF ~Number(start).ok THEN Refused("incorrect address")
  ELSE IF ~CountOf(len).ok THEN Refused("incorrect length")
  ELSE Answer(ram, Dump(Number(start).value, CountOf(len).value))

mw(addr, value, count) ==
  LET a == Number(addr).value
      written[i \in 0..CountOf(count).value] ==
        IF i = 0 THEN ram
        ELSE StoreWord(written[i - 1], a + (i - 1) * BytesPerWord, InBytes(Number(value).value))
  IN
  IF addr = <<>> \/ value = <<>> THEN Refused("usage")
  ELSE IF ~Number(addr).ok THEN Refused("incorrect address")
  ELSE IF ~Number(value).ok THEN Refused("incorrect value")
  ELSE IF ~CountOf(count).ok THEN Refused("incorrect count")
  ELSE Answer(written[CountOf(count).value], Nothing)

mc(dst, src, count) ==
  LET copied[i \in 0..CountOf(count).value] ==
        IF i = 0 THEN ram
        ELSE LET offset == (i - 1) * BytesPerWord IN
             StoreWord(copied[i - 1], Number(dst).value + offset,
                       Cells(copied[i - 1], Number(src).value + offset, BytesPerWord))
  IN
  IF dst = <<>> \/ src = <<>> THEN Refused("usage")
  ELSE IF ~Number(dst).ok THEN Refused("incorrect destination address")
  ELSE IF ~Number(src).ok THEN Refused("incorrect source address")
  ELSE IF ~CountOf(count).ok THEN Refused("incorrect count")
  ELSE Answer(copied[CountOf(count).value], Nothing)

\* The checksum stands for the bytes that it is of.
crc(start, len) ==
  IF start = <<>> \/ len = <<>> THEN Refused("usage")
  ELSE IF ~Number(start).ok THEN Refused("incorrect address")
  ELSE IF ~Number(len).ok THEN Refused("incorrect length")
  ELSE Answer(ram, Dump(Number(start).value, Number(len).value))

\* do_command in bios/main.c: the parameters are taken in the order in which the compiler
\* evaluates arguments.
Arguments(s, n) == IF LeftToRight THEN Tokens(s, n) ELSE Reverse(Tokens(s, n))
BiosCommand(s) ==
  LET command == get_token(s)
      p(n) == Arguments(command.rest, n)
  IN
  CASE command.token = <<"mr">>  -> mr(p(2)[1], p(2)[2])
    [] command.token = <<"mw">>  -> mw(p(3)[1], p(3)[2], p(3)[3])
    [] command.token = <<"mc">>  -> mc(p(3)[1], p(3)[2], p(3)[3])
    [] command.token = <<"crc">> -> crc(p(2)[1], p(2)[2])
    [] command.token = <<>>      -> Answer(ram, Nothing)
    [] OTHER                     -> Refused("command not found")

\* do_command in demo/shell.c
DemoCommand(s) ==
  LET t == Tokens(s, 4) IN
  CASE t[1] = <<"mr">> -> mr(t[2], t[3])
    [] t[1] = <<"mw">> -> mw(t[2], t[3], t[4])
    [] t[1] = <<>>     -> Answer(ram, Nothing)
    [] OTHER           -> Refused("command not found")

\* Days, hours, minutes and seconds; those of the demonstration have no days.
uptime(s) == <<s \div 86400, (s % 86400) \div 3600, ((s % 86400) % 3600) \div 60,
               ((s % 86400) % 3600) % 60>>
statsTime(s) ==
  LET mins == s \div 60
      hours == mins \div 60
  IN  <<hours, mins - hours * 60, s - mins * 60>>

-----------------------------------------------------------------------------
(* The command line *)

\* A line is begun.  readstr does not look at the buffer's size: its lines fit.
BeginLine ==
  /\ typed = Len(keys) + 1 \/ keys = <<>>
  /\ program' \in Programs /\ keys' \in Lines
  /\ program' = "bios" => Len(keys') < LineSize
  /\ typed' = 0 /\ buffer' = <<>> /\ said' = Nothing /\ before' = ram /\ UNCHANGED ram

Erased == IF buffer = <<>> THEN buffer ELSE Front(buffer)

\* readstr
ReadKey(c) == buffer' = IF c = BS THEN Erased ELSE Append(buffer, c)

\* shell_input, but for the end of the line
InputKey(c) ==
  buffer' = IF c = BS THEN Erased
            ELSE IF Len(buffer) < LineSize - 1 THEN Append(buffer, c) ELSE buffer

TypeKey ==
  /\ typed < Len(keys) /\ typed' = typed + 1
  /\ IF program = "bios" THEN ReadKey(keys[typed + 1]) ELSE InputKey(keys[typed + 1])
  /\ UNCHANGED <<program, keys, ram, said, before>>

Return ==
  /\ keys # <<>> /\ typed = Len(keys) /\ typed' = typed + 1
  /\ LET answer == IF program = "bios" THEN BiosCommand(CString(buffer))
                                       ELSE DemoCommand(CString(buffer))
     IN  ram' = answer.ram /\ said' = answer.said
  /\ buffer' = <<>> /\ UNCHANGED <<program, keys, before>>

ShellNext == BeginLine \/ TypeKey \/ Return

-----------------------------------------------------------------------------
(* Properties *)

\* What a line is when it has been corrected: a stack of keys, of which the demonstration
\* keeps what fits.
Capacity == IF program = "bios" THEN Len(keys) ELSE LineSize - 1
Corrected ==
  FoldLeft(LAMBDA s, c : IF c = BS THEN SubSeq(s, 1, Len(s) - 1)
                         ELSE IF Len(s) < Capacity THEN Append(s, c) ELSE s, <<>>, keys)

\* Its words, one blank between two.
Starts(s) == {1} \cup {i + 1 : i \in {j \in DOMAIN s : s[j] = " "}}
TheWord(s, k) ==
  IF k > Cardinality(Starts(s)) THEN <<>>
  ELSE LET start == CHOOSE i \in Starts(s) : Cardinality({j \in Starts(s) : j <= i}) = k
           end == CHOOSE j \in start..(Len(s) + 1) :
                    /\ j = Len(s) + 1 \/ s[j] = " "
                    /\ \A i \in start..(j - 1) : s[i] # " "
       IN  SubSeq(s, start, end - 1)

\* Hexadecimal after 0x, octal after 0.
BaseOf(t) == IF t[1] # "0" THEN 10 ELSE IF Len(t) > 2 /\ t[2] \in X THEN 16 ELSE 8
DigitsOf(t) == IF BaseOf(t) = 16 THEN SubSeq(t, 3, Len(t)) ELSE t
Valid(t) ==
  t # <<>> /\ \A i \in DOMAIN DigitsOf(t) :
                isxdigit(DigitsOf(t)[i]) /\ DigitValue(DigitsOf(t)[i]) < BaseOf(t)
Meant(t) == FoldLeft(LAMBDA n, d : n * BaseOf(t) + DigitValue(d), 0, DigitsOf(t))
HowMany(t) == IF t = <<>> THEN 1 ELSE Meant(t)

\* Where the copy at a comes from: a copy to behind the source repeats what is in between.
CopyOf(a, dst, src) ==
  src + (IF src < dst THEN (a - dst) % (dst - src) ELSE a - dst)

\* A command with valid numbers changes the words that it names, or shows what it names, and
\* nothing else does anything: whatever was typed and taken back before.
CommandRight ==
  LET s == CString(Corrected)
      Param(k) == TheWord(s, k + 1)
      name == TheWord(s, 1)
      numbers == /\ Valid(Param(1)) /\ Valid(Param(2))
                 /\ Param(3) = <<>> \/ Valid(Param(3))
      to == Meant(Param(1))
      named == to..(to + HowMany(Param(3)) * BytesPerWord - 1)
  IN
  /\ ram = IF name = <<"mw">> /\ numbers
           THEN [a \in DOMAIN ram |->
                   IF a \in named
                   THEN InBytes(Meant(Param(2)))[((a - to) % BytesPerWord) + 1] ELSE before[a]]
           ELSE IF name = <<"mc">> /\ numbers /\ program = "bios"
           THEN [a \in DOMAIN ram |->
                   IF a \in named THEN before[CopyOf(a, to, Meant(Param(2)))] ELSE before[a]]
           ELSE before
  /\ said.what = "bytes" =>
       /\ Valid(Param(1)) /\ name \in {<<"mr">>, <<"crc">>}
       /\ name = <<"crc">> => program = "bios"
       /\ said.bytes = [i \in 1..HowMany(Param(2)) |-> ram[to + i - 1]]
  /\ name \in {<<"mw">>, <<"mr">>} /\ Valid(Param(1)) /\ Valid(Param(2)) /\ Param(3) = <<>>
       => said.what \in {"nothing", "bytes"}

\* The parts of an uptime make up the seconds.
UptimesRight ==
  \A s \in Uptimes :
    /\ LET u == uptime(s) IN /\ u[2] < 24 /\ u[3] < 60 /\ u[4] < 60
                             /\ ((u[1] * 24 + u[2]) * 60 + u[3]) * 60 + u[4] = s
    /\ LET u == statsTime(s) IN u[2] < 60 /\ u[3] < 60 /\ (u[1] * 60 + u[2]) * 60 + u[3] = s

CommandsRight ==
  /\ keys # <<>> /\ typed = Len(keys) + 1 => CommandRight
  /\ UptimesRight
=============================================================================
