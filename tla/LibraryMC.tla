------------------------------ MODULE LibraryMC ------------------------------
EXTENDS Library

\* Two banks, as mem.c has them, with room for a few chunks each.
BanksMC == [sdram |-> [start |-> 8, end |-> 18], sram |-> [start |-> 25, end |-> 27]]
\* Numbers in all three bases, words left out, keys taken back, wrong numbers, a NUL, a line
\* that is too long for the demonstration.
LinesMC == {
  <<"mw", " ", "2", " ", "0", "x", "1", "f">>,
  <<"mw", " ", "0", " ", "0", "1", "7", " ", "3">>,
  <<"mw", " ", "4", " ", "9", BS, "7">>,
  <<"mw", " ", "4", " ", "8", " ", "1", NUL>>,
  <<"mw", " ", "2", " ", "0", "9">>,
  <<"mw", " ", " ", "2", " ", "3">>,
  <<"mw", " ", "2">>,
  <<"mr", BS, BS, "mw", " ", "0", " ", "1">>,
  <<"mr", " ", "1", " ", "5">>,
  <<"mr", " ", "0", "x", "4">>,
  <<"mr", " ", "0", "x">>,
  <<"mc", " ", "0", " ", "2", " ", "2">>,
  <<"mc", " ", "2", " ", "0", " ", "2">>,
  <<"mc", " ", "4", " ", "0">>,
  <<"crc", " ", "1", " ", "3">>,
  <<"crc", " ", "1">>,
  <<"x", NUL, "mw">>, <<" ">>, <<BS>>,
  <<"mr", " ", "0", "0", "0", "0", "0", "0", "0", "2">>,
  <<"mw", " ", "0", " ", "0", "x", "1", "7", " ", "2", "2", BS, BS, "1">> }

\* Presets with both names and with a name that is cut, one that was deleted, one without a
\* long name that does not compile, one that does not parse.
File(name, author, title, long, code) ==
  [name |-> name, kind |-> "file", author |-> author, title |-> title, long |-> long,
   code |-> code]
Complete == File("a", <<"A", "B">>, <<"T">>, <<"A", "B", " ", "-", " ", "T", ".", "f">>, "good")
CardsMC == {
  <<Complete, File("b", <<"b">>, <<"b">>, <<>>, "uncompilable")>>,
  <<[Complete EXCEPT !.kind = "deleted"],
    File("d", <<"E", "E">>, Unknown, <<"E", "E", " ", "-", " ", "V", "V", "V", "V", ".", "f">>,
         "good"),
    File("e", <<"e">>, <<"e">>, <<"-", ".">>, "unparsable")>> }

\* Files without a long name behind a directory, a deleted file and a file that have one; a
\* long name that fills its parts, behind a longer one.
DirectoriesMC ==
  LET short == File("s", Unknown, Unknown, <<>>, "good") IN
  { <<[Complete EXCEPT !.kind = "directory"], short>>,
    <<[Complete EXCEPT !.kind = "deleted"], short, Complete, short>>,
    <<Complete, File("f", Unknown, Unknown, <<"F", ".", "f">>, "good"), short>> }

NumbersMC == {0, 1, 5, 7, 8, 9, 10, 11, 15, 16, 99, 100, 127, 128, 129, 200, 255}
=============================================================================
