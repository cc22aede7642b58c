------------------------------- MODULE Strings -------------------------------
(***************************************************************************)
(* The equality and the hash of strings and symbols in                     *)
(* src/src/classes/collections.c.  The elements of a string are bytes or,  *)
(* in the wide ones, words of 32 bits; here the text of it is a sequence   *)
(* of characters, each a code point, and the words are little endian.      *)
(***************************************************************************)
EXTENDS Integers, Sequences, SequencesExt

CONSTANTS Strings, Symbols, TextOf,
          Wide,           \* the wide strings and wide symbols
          InitialHash     \* SLVM_KCI_ByteString

CodePoints == 0 .. 1114111

ASSUME StringsAssumption ==
  /\ Wide \subseteq Strings \union Symbols /\ Strings \intersect Symbols = {}
  /\ \A o \in Strings \union Symbols :
       /\ TextOf[o] \in Seq(CodePoints)
       /\ o \notin Wide => \A i \in DOMAIN TextOf[o] : TextOf[o][i] < 256

\* The data of a string, read as an array of bytes and as one of words.  Beyond the
\* elements of a byte string are the zeros that fill its last slot.
ElementAt(o, i) == IF i \in DOMAIN TextOf[o] THEN TextOf[o][i] ELSE 0

ByteAt(o, i) ==
  IF o \notin Wide THEN ElementAt(o, i)
  ELSE LET word == ElementAt(o, (i + 3) \div 4)
       IN  (word \div 256 ^ ((i - 1) % 4)) % 256

WordAt(o, i) ==
  IF o \in Wide THEN ElementAt(o, i)
  ELSE LET Byte(j) == ElementAt(o, 4 * i - j)
       IN  Byte(3) + 256 * (Byte(2) + 256 * (Byte(1) + 256 * Byte(0)))

\* slvm_ByteString_equals and slvm_WideString_equals, of whatever two strings.
ByteStringEquals(first, second) ==
  /\ Len(TextOf[first]) = Len(TextOf[second])
  /\ \A i \in DOMAIN TextOf[first] : ByteAt(first, i) = ByteAt(second, i)

\* The first words that differ end the comparison.
WideStringEquals(first, second) ==
  /\ Len(TextOf[first]) = Len(TextOf[second])
  /\ \A i \in DOMAIN TextOf[first] : WordAt(first, i) = WordAt(second, i)

\* slvm_String_equals.  Whether the first is a symbol, it asks of the second.
Equals(first, second) ==
  LET isFirstBytes  == first \in Strings \ Wide \/ second \in Symbols \ Wide
      isSecondBytes == second \notin Wide
      isFirstWide   == first \in Strings \intersect Wide \/ second \in Symbols \intersect Wide
      isSecondWide  == second \in Wide
  IN
  \/ first = second
  \/ isFirstBytes /\ isSecondBytes /\ ByteStringEquals(first, second)
  \/ isFirstWide /\ isSecondWide /\ WideStringEquals(first, second)

\* slvm_ByteArrayData_stringHash, and slvm_WideString_hash with words for bytes.
HashStep(hash, element) ==
  LET added == hash + element
      low   == added % 16384
      high  == (9741 * (added \div 16384) + 101 * low) % 16384
  IN  (9741 * low + high * 16384) % 2^28

\* slvm_String_hash.
TextHash(text) == FoldLeft(HashStep, InitialHash, text)
=============================================================================
