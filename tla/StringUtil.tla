------------------------------ MODULE StringUtil ------------------------------
(***************************************************************************)
(* Numbers and text (StringUtil), the lines of a text file and the parts   *)
(* of a file name (FileUtil).  Strings are sequences of bytes; integers    *)
(* have Width bits, 64 in the code.                                        *)
(***************************************************************************)
EXTENDS LibString

CONSTANT Width    \* bits of Int64 and UInt64

ASSUME WidthAssumption == Width \in Nat \ {0, 1, 2, 3}

Min64 == -(2 ^ (Width - 1))

-----------------------------------------------------------------------------
(* Numbers. *)

\* Written backwards, then reversed.
UI64toA(value, radix) ==
    LET digits[v \in 0..value] ==
            IF v < radix THEN <<HexDigit(v)>>
            ELSE Append(digits[v \div radix], HexDigit(v % radix))
    IN  digits[value]

\* The smallest number has no opposite.  It stays negative, the loop ends after
\* one remainder, and that is no digit.
I64toA(value, radix) ==
    LET rest == -Min64 % radix
    IN  CASE value >= 0 -> UI64toA(value, radix)
          [] value = Min64 -> <<45, IF rest = 0 THEN 48 ELSE 87 - rest>>
          [] OTHER -> <<45>> \o UI64toA(-value, radix)

\* Num2Str and its forms for the integer types; others are written as the bytes
\* they consist of, in base 16 with 0x in front.
Num2Str(value, radix) == IF value < 0 THEN I64toA(value, radix) ELSE UI64toA(value, radix)
Num2StrOfBytes(bytes, radix) ==
    LET number == FoldRight(LAMBDA byte, n : 256 * n + byte, bytes, 0)
    IN  IF radix = 16 THEN <<48, 120>> \o UI64toA(number, 16) ELSE UI64toA(number, 10)

\* atoi, atol, atoll: blanks, a sign, digits up to the first other byte.
StringToInt64(raw) ==
    LET text == lstrip(raw, Blank)
        signed == text # <<>> /\ Head(text) \in {43, 45}
        digits == IF signed THEN Tail(text) ELSE text
        sizes == {n \in 0..Len(digits) : \A i \in 1..n : digits[i] \in 48..57}
        size == CHOOSE n \in sizes : \A m \in sizes : m <= n
        number == FoldLeft(LAMBDA n, digit : 10 * n + digit - 48, 0, SubSeq(digits, 1, size))
    IN  IF signed /\ Head(text) = 45 THEN -number ELSE number

\* The casts to narrower and to unsigned integers keep the low bits.
StringToUInt(raw, bits) == StringToInt64(raw) % 2 ^ bits

IsHex(byte) == byte \in (48..57) \cup (97..102) \cup (65..70)

\* A sign, digits, at most one point; not both sides of it empty.
CheckDoubleString(raw) ==
    LET number == lstrip(raw, {45})
        parts == Split(number, <<46>>, Len(raw) + 1, FALSE, FALSE)
    IN  IF ~Contains(number, 46) THEN isdigit(number)
        ELSE Len(parts) \in {1, 2} /\ \A i \in 1..Len(parts) : isdigit(parts[i])

-----------------------------------------------------------------------------
(* Cutting. *)

\* The escapes in front of a separator are removed; it separates all the same.
SplitString(raw, separator, justSplitFirst, esc, empty) ==
    LET end == Len(raw) + 1
        last(from) == IF from = end /\ ~empty THEN <<>> ELSE <<SubSeq(raw, from, Len(raw))>>
        parts[from \in 1..end] ==
            LET at == Find(raw, separator, from)
                next == at + Len(separator)
            IN  IF at = NPos THEN last(from)
                ELSE <<rstrip(SubSeq(raw, from, at - 1), {esc})>>
                        \o (IF justSplitFirst THEN last(next) ELSE parts[next])
    IN  CASE raw = <<>> -> <<>>
          [] raw # <<>> /\ separator = <<>> -> <<raw>>
          [] OTHER -> parts[1]

\* From the first start to the first end after it, both included.
CutString(src, start, end) ==
    LET from == Find(src, start, 1)
        to == Find(src, end, from + Len(start))
    IN  IF from = NPos THEN <<>>
        ELSE IF to = NPos THEN <<>> ELSE SubSeq(src, from, to + Len(end) - 1)

FilterOutString(raw, filter) ==
    FlattenSeq(SplitString(raw, filter, FALSE, 0, TRUE))

-----------------------------------------------------------------------------
(* The lines of a file. *)

\* How many bytes a character has; 0: the byte begins none.
CalcUtf8CharBytes(byte) == Trailing(byte) + 1

\* Where the line that begins at from ends: at a line feed that is a character
\* of its own.  A byte that begins no character makes the count of those that
\* follow it wrap, and the line takes the rest of the file.
LineEnd(raw, from) ==
    LET size(pos) == CalcUtf8CharBytes(raw[pos])
        end[pos \in 1..(Len(raw) + 1)] ==
            IF pos > Len(raw) THEN pos
            ELSE IF raw[pos] = 10 THEN pos
            ELSE IF size(pos) = 0 \/ pos + size(pos) > Len(raw) THEN Len(raw) + 1
            ELSE end[pos + size(pos)]
    IN  end[from]

ReadUtf8OneLine(raw, from) == SubSeq(raw, from, LineEnd(raw, from) - 1)

\* Byte by byte up to a limit, 0 for none.
ReadFile(raw, sizeLimit) ==
    IF sizeLimit > 0 /\ sizeLimit < Len(raw) THEN SubSeq(raw, 1, sizeLimit) ELSE raw

\* Byte by byte, size bytes at most (0: as many as there are).
ReadOneLine(raw, from, size) ==
    LET feed == Find(raw, <<10>>, from)
        line == SubSeq(raw, from, IF feed = NPos THEN Len(raw) ELSE feed - 1)
    IN  IF size = 0 \/ size > Len(line) THEN line ELSE SubSeq(line, 1, size)

\* All the lines: reading goes on until it finds the end and nothing before it.
FileLines(raw) ==
    LET lines[from \in 1..(Len(raw) + 2)] ==
            IF from > Len(raw) THEN <<>>
            ELSE <<ReadUtf8OneLine(raw, from)>> \o lines[LineEnd(raw, from) + 1]
    IN  lines[1]

-----------------------------------------------------------------------------
(* File names. *)

\* Where the extension begins.
Dot(name) ==
    LET dots == {i \in 1..Len(name) : name[i] = 46}
    IN  IF dots = {} THEN NPos ELSE CHOOSE i \in dots : \A j \in dots : j <= i

ExtractFileExtension(name) ==
    IF Dot(name) = NPos THEN <<>> ELSE SubSeq(name, Dot(name), Len(name))

ExtractFileWithoutExtension(name) ==
    IF Dot(name) = NPos THEN name ELSE SubSeq(name, 1, Dot(name) - 1)

\* A tail or a date goes in front of the extension, which a name without one
\* is given.
InsertFileTail(extension, tail, name) ==
    IF Dot(name) = NPos THEN name \o tail \o extension
    ELSE ExtractFileWithoutExtension(name) \o tail \o ExtractFileExtension(name)

-----------------------------------------------------------------------------
(* What must hold. *)

\* A number is read back from its digits, but for the smallest one.
NumberReturns(value) ==
    /\ value # Min64 => StringToInt64(Num2Str(value, 10)) = value
    /\ value >= 0 =>
          /\ StringToUInt(UI64toA(value, 10), Width) = value
          /\ FoldLeft(LAMBDA n, digit : 16 * n + TurnDecimal(digit), 0, I64toA(value, 16)) = value
          /\ CheckDoubleString(UI64toA(value, 10))
          /\ Num2StrOfBytes(<<value, 0>>, 16) = <<48, 120>> \o Num2Str(value, 16)

\* A file of whole characters is read as its lines, whatever their bytes are.
LinesReturn(raw) ==
    LET lines == Split(raw, <<10>>, Len(raw) + 1, FALSE, TRUE)
    IN  raw # <<>> =>
            /\ FileLines(ReadFile(raw, 0)) = IF Last(raw) = 10 THEN Front(lines) ELSE lines
            /\ \A size \in 1..Len(raw) :
                  ReadOneLine(ReadFile(raw, size), 1, 0) = ReadOneLine(raw, 1, size)

\* The two ways to cut agree where no escape is in front of a separator, and
\* the parts of a file name put together are the name.
CutsAgree(raw, sep) ==
    /\ raw # <<>> /\ ~Contains(raw, 0) =>
          SplitString(raw, sep, FALSE, 0, TRUE) = Split(raw, sep, Len(raw) + 1, FALSE, TRUE)
    /\ Find(FilterOutString(raw, <<sep[1]>>), <<sep[1]>>, 1) = NPos
    /\ ExtractFileWithoutExtension(raw) \o ExtractFileExtension(raw) = raw
    /\ ExtractFileExtension(InsertFileTail(<<46, 97>>, sep, raw)) =
          IF Dot(raw) = NPos THEN <<46, 97>> ELSE ExtractFileExtension(raw)
=============================================================================
