------------------------------ MODULE LibString ------------------------------
(***************************************************************************)
(* Byte strings (LibString.h): cutting, stripping, escaping, hexadecimal   *)
(* digits, letters and UTF-8.  A string is a sequence of bytes 0..255 and  *)
(* its positions count from 1; NPos stands for std::string::npos.          *)
(***************************************************************************)
EXTENDS Integers, Sequences, SequencesExt

NPos == 0

\* std::string::find from position from on.
Find(raw, pattern, from) ==
    LET hits == {i \in from..(Len(raw) - Len(pattern) + 1) :
                    SubSeq(raw, i, i + Len(pattern) - 1) = pattern}
    IN  IF hits = {} THEN NPos ELSE CHOOSE i \in hits : \A j \in hits : i <= j

-----------------------------------------------------------------------------
(* Plausible mistakes in the operators below. *)

\* An empty part at the end is forgotten.
LastPartNever(empty) == <<>>

-----------------------------------------------------------------------------
(* Assignment, operator +=, operator *= and the << operators. *)

Appended(raw, text) == raw \o text

Repeated(raw, right) ==
    [i \in 1..(Len(raw) * right) |-> raw[((i - 1) % Len(raw)) + 1]]

-----------------------------------------------------------------------------
(* Split. *)

\* Where the next separator begins.  With onlyLikely any character of sep is
\* one: the first of them that occurs at all, not the one that occurs first.
SeparatorAt(raw, sep, from, onlyLikely) ==
    IF ~onlyLikely THEN Find(raw, sep, from)
    ELSE LET occur == {i \in 1..Len(sep) : Find(raw, <<sep[i]>>, from) # NPos}
         IN  IF occur = {} THEN NPos
             ELSE Find(raw, <<sep[CHOOSE i \in occur : \A j \in occur : i <= j]>>, from)

\* What follows a separator at the very end.
LastPart(empty) == IF empty THEN << <<>> >> ELSE <<>>

\* At most max cuts; empty parts are left out unless empty allows them.
Split(raw, sep, max, onlyLikely, empty) ==
    LET step == IF onlyLikely THEN 1 ELSE Len(sep)
        end == Len(raw) + 1
        parts[from \in 1..end, cuts \in 0..max] ==
            LET at == IF cuts = max THEN NPos ELSE SeparatorAt(raw, sep, from, onlyLikely)
                part == IF at = from /\ ~empty THEN <<>> ELSE <<SubSeq(raw, from, at - 1)>>
            IN  CASE at = NPos -> IF from = end THEN <<>> ELSE <<SubSeq(raw, from, Len(raw))>>
                  [] at # NPos /\ at + step = end -> part \o LastPart(empty)
                  [] OTHER -> part \o parts[at + step, cuts + 1]
    IN  IF sep = <<>> \/ max = 0 \/ raw = <<>>
        THEN IF raw # <<>> \/ empty THEN <<raw>> ELSE <<>>
        ELSE parts[1, 0]

\* Any of several separators; whatever its length, one byte is skipped.
SplitAny(raw, seps, max, empty) ==
    LET end == Len(raw) + 1
        parts[from \in 1..end, cuts \in 0..max] ==
            LET ats == {Find(raw, sep, from) : sep \in seps} \ {NPos}
                at == IF ats = {} \/ cuts = max THEN NPos
                      ELSE CHOOSE i \in ats : \A j \in ats : i <= j
            IN  CASE at = NPos -> IF from = end THEN <<>> ELSE <<SubSeq(raw, from, Len(raw))>>
                  [] at # NPos /\ at + 1 = end ->
                        <<SubSeq(raw, from, at - 1)>> \o LastPart(empty)
                  [] OTHER -> <<SubSeq(raw, from, at - 1)>> \o parts[at + 1, cuts + 1]
    IN  IF seps = {} \/ max = 0 \/ raw = <<>>
        THEN IF raw # <<>> \/ empty THEN <<raw>> ELSE <<>>
        ELSE parts[1, 0]

-----------------------------------------------------------------------------
(* Replacing, erasing, stripping. *)

ReplacedChar(raw, dest, with) ==
    [i \in 1..Len(raw) |-> IF raw[i] = dest THEN with ELSE raw[i]]

Replaced(raw, dest, with) ==
    LET tail[from \in 1..(Len(raw) + 1)] ==
            LET at == Find(raw, dest, from)
            IN  IF at = NPos THEN SubSeq(raw, from, Len(raw))
                ELSE SubSeq(raw, from, at - 1) \o with \o tail[at + Len(dest)]
    IN  IF dest = with THEN raw ELSE tail[1]

EraseAnyOf(raw, chars) == SelectSeq(raw, LAMBDA c : ~Contains(chars, c))

\* ' ', \t, \v, \r, \n, \f: what strip removes when no characters are given.
Blank == {32, 9, 11, 13, 10, 12}

\* One past the bytes at the left end that go.
lstrip(raw, chars) ==
    LET keeps == {i \in 1..Len(raw) : raw[i] \notin chars}
    IN  IF keeps = {} THEN <<>>
        ELSE SubSeq(raw, CHOOSE i \in keeps : \A j \in keeps : i <= j, Len(raw))

\* The loop runs on unsigned positions and never ends by itself: on a string
\* with nothing to keep it reads the byte in front of the first one.  With
\* libstdc++ that byte is zero (the top of a length), and the string empties.
rstrip(raw, chars) ==
    LET keeps == {i \in 1..Len(raw) : raw[i] \notin chars}
    IN  IF keeps = {} THEN <<>>
        ELSE SubSeq(raw, 1, CHOOSE i \in keeps : \A j \in keeps : i >= j)

strip(raw, chars) == rstrip(lstrip(raw, chars), chars)

\* The string up to its first zero byte, which CompressString keeps.
CompressString(raw) ==
    LET zero == Find(raw, <<0>>, 1) IN IF zero = NPos THEN raw ELSE SubSeq(raw, 1, zero)

RemoveZeroTail(raw) ==
    LET zero == Find(raw, <<0>>, 1) IN IF zero = NPos THEN raw ELSE SubSeq(raw, 1, zero - 1)

\* A string of nothing but zero bytes keeps them.
RemoveHeadZero(raw) == IF lstrip(raw, {0}) = <<>> THEN raw ELSE lstrip(raw, {0})

-----------------------------------------------------------------------------
(* Escapes and hexadecimal digits. *)

escape(raw, chars, esc) ==
    FlattenSeq([i \in 1..Len(raw) |->
        IF raw[i] = esc \/ raw[i] \in chars THEN <<esc, raw[i]>> ELSE <<raw[i]>>])

\* From the right: of two escapes one stays, a single one goes.
unescape(raw, esc) ==
    LET upTo[i \in 0..Len(raw)] ==
            CASE i = 0 -> <<>>
              [] i > 0 /\ raw[i] # esc -> Append(upTo[i - 1], raw[i])
              [] i > 1 /\ raw[i] = esc /\ raw[i - 1] = esc -> Append(upTo[i - 2], esc)
              [] OTHER -> upTo[i - 1]
    IN  upTo[Len(raw)]

\* The digits '0'..'9' and 'a'..'f'.
HexDigit(n) == IF n < 10 THEN 48 + n ELSE 87 + n

ToHexString(raw) ==
    FlattenSeq([i \in 1..Len(raw) |-> <<HexDigit(raw[i] \div 16), HexDigit(raw[i] % 16)>>])

\* Small and capital letters; another byte throws.
TurnDecimal(digit) ==
    CASE digit \in 48..57 -> digit - 48
      [] digit \in 97..102 -> digit - 87
      [] digit \in 65..70 -> digit - 55

FromHexString(hex) ==
    [i \in 1..(Len(hex) \div 2) |-> TurnDecimal(hex[2 * i - 1]) * 16 + TurnDecimal(hex[2 * i])]

-----------------------------------------------------------------------------
(* Letters. *)

Lower == 97..122
Upper == 65..90

isalpha(raw) == raw # <<>> /\ \A i \in 1..Len(raw) : raw[i] \in Lower \cup Upper
isdigit(raw) == raw # <<>> /\ \A i \in 1..Len(raw) : raw[i] \in 48..57

\* The loop ends in FALSE as well: no string is blank.
isspace(raw) == FALSE

\* Some letters, and all of them small (capital).
AllOf(raw, wanted, other) ==
    /\ \E i \in 1..Len(raw) : raw[i] \in wanted
    /\ \A i \in 1..Len(raw) : raw[i] \notin other

islower(raw) == AllOf(raw, Lower, Upper)
isupper(raw) == AllOf(raw, Upper, Lower)

tolower(raw) == [i \in 1..Len(raw) |-> IF raw[i] \in Upper THEN raw[i] + 32 ELSE raw[i]]
toupper(raw) == [i \in 1..Len(raw) |-> IF raw[i] \in Lower THEN raw[i] - 32 ELSE raw[i]]

IsStartsWith(raw, text) == Len(raw) >= Len(text) /\ SubSeq(raw, 1, Len(text)) = text
IsEndsWith(raw, text) ==
    Len(raw) >= Len(text) /\ SubSeq(raw, Len(raw) - Len(text) + 1, Len(raw)) = text

-----------------------------------------------------------------------------
(* UTF-8. *)

Bomb == <<239, 187, 191>>

has_utf8_bomb(raw) == IsStartsWith(raw, Bomb)
add_utf8_bomb(raw) == IF has_utf8_bomb(raw) THEN raw ELSE Bomb \o raw
remove_utf8_bomb(raw) == IF has_utf8_bomb(raw) THEN SubSeq(raw, 4, Len(raw)) ELSE raw

\* How many bytes follow the first byte of a character; -1: it is no first byte.
Trailing(byte) ==
    CASE byte < 128 -> 0
      [] byte \div 32 = 6 -> 1
      [] byte \div 16 = 14 -> 2
      [] byte \div 8 = 30 -> 3
      [] byte \div 4 = 62 -> 4
      [] byte \div 2 = 126 -> 5
      [] OTHER -> -1

\* Where a character that begins at the given position begins in fact: the mark
\* at the front is skipped.
CharAt(raw, pos) == IF pos = 1 /\ has_utf8_bomb(raw) THEN 4 ELSE pos

\* One past the character at pos, NPos when there is no whole one.
NextCharPos(raw, pos) ==
    LET from == CharAt(raw, pos)
        end == from + 1 + Trailing(raw[from])
    IN  IF from > Len(raw) THEN NPos
        ELSE IF Trailing(raw[from]) = -1 \/ end > Len(raw) + 1 THEN NPos
        ELSE IF \E i \in (from + 1)..(end - 1) : raw[i] \div 64 # 2 THEN NPos
        ELSE end

\* The characters from pos on, up to the first that is not whole.
CharsFrom(raw, start) ==
    LET chars[pos \in 1..(Len(raw) + 1)] ==
            LET next == NextCharPos(raw, pos)
            IN  IF next = NPos THEN <<>>
                ELSE <<SubSeq(raw, CharAt(raw, pos), next - 1)>> \o chars[next]
    IN  chars[start]

length_with_utf8(raw) == Len(CharsFrom(raw, 1))

scatter_utf8_string(raw) == CharsFrom(raw, 1)

\* The bytes in front of character index + 1, and the rest.
split_utf8_string(raw, index) ==
    LET at[n \in 0..index] == IF n = 0 THEN 1 ELSE NextCharPos(raw, at[n - 1])
    IN  IF index = 0 \/ index >= length_with_utf8(raw) THEN <<raw>>
        ELSE <<SubSeq(raw, 1, at[index] - 1), SubSeq(raw, at[index], Len(raw))>>

substr_with_utf8(raw, pos, n) ==
    LET rest == Last(split_utf8_string(raw, pos))
        size == length_with_utf8(rest)
    IN  IF pos >= length_with_utf8(raw) \/ n = 0 THEN <<>>
        ELSE split_utf8_string(rest, IF n > size THEN size ELSE n)[1]

-----------------------------------------------------------------------------
(* What must hold of every string. *)

Joined(parts, sep) ==
    FlattenSeq([i \in 1..Len(parts) |-> IF i = 1 THEN parts[i] ELSE sep \o parts[i]])

\* Cutting loses nothing: the parts with the separator between them are the
\* string again, however often it may be cut; and leaving out the empty parts
\* is all that forbidding them does.
CutsRejoin(raw, sep) ==
    /\ \A max \in 0..(Len(raw) + 1) : Joined(Split(raw, sep, max, FALSE, TRUE), sep) = raw
    /\ Split(raw, sep, Len(raw) + 1, FALSE, FALSE) =
            SelectSeq(Split(raw, sep, Len(raw) + 1, FALSE, TRUE), LAMBDA part : part # <<>>)
    /\ Len(sep) = 1 => /\ SplitAny(raw, {sep}, Len(raw) + 1, TRUE) =
                                Split(raw, sep, Len(raw) + 1, FALSE, TRUE)
                       /\ Split(raw, sep, Len(raw) + 1, TRUE, TRUE) =
                                Split(raw, sep, Len(raw) + 1, FALSE, TRUE)
                       /\ Joined(Split(raw, sep, Len(raw) + 1, FALSE, TRUE), <<>>) =
                                EraseAnyOf(raw, sep)
                       /\ Replaced(raw, sep, <<0>>) = ReplacedChar(raw, sep[1], 0)

\* What can be undone is undone: escapes, hexadecimal digits, the mark.
Undone(raw, chars, esc) ==
    /\ unescape(escape(raw, chars, esc), esc) = raw
    /\ FromHexString(ToHexString(raw)) = raw
    /\ ~has_utf8_bomb(raw) => remove_utf8_bomb(add_utf8_bomb(raw)) = raw
    /\ has_utf8_bomb(raw) => add_utf8_bomb(raw) = raw /\ Bomb \o remove_utf8_bomb(raw) = raw
    /\ tolower(toupper(raw)) = tolower(raw)

\* A stripped string begins and ends with something to keep, and only what is
\* not was taken from its ends.
Stripped(raw, chars) ==
    LET kept == strip(raw, chars)
    IN  /\ kept # <<>> => kept[1] \notin chars /\ Last(kept) \notin chars
        /\ \E from \in 1..(Len(raw) + 1) : \E to \in (from - 1)..Len(raw) :
              /\ kept = SubSeq(raw, from, to)
              /\ \A i \in 1..Len(raw) : i \notin from..to => raw[i] \in chars

\* A string made of whole characters is taken apart into these, counted and cut
\* by them.  The mark counts only at the front, where it goes with the first.
Characters(raw, text) ==
    LET chars == IF text # <<>> /\ Head(text) = Bomb THEN Tail(text) ELSE text
        upTo(n) == IF chars # text /\ n > 0 THEN Bomb \o FlattenSeq(SubSeq(chars, 1, n))
                   ELSE FlattenSeq(SubSeq(chars, 1, n))
    IN  ~Contains(chars, Bomb) =>
            /\ length_with_utf8(raw) = Len(chars)
            /\ scatter_utf8_string(raw) = chars
            /\ \A n \in 1..(Len(chars) - 1) : split_utf8_string(raw, n)[1] = upTo(n)
            /\ \A pos \in 1..(Len(chars) - 1), n \in 1..Len(chars) :
                  substr_with_utf8(raw, pos, n) =
                     FlattenSeq(SubSeq(chars, pos + 1,
                                       IF pos + n > Len(chars) THEN Len(chars) ELSE pos + n))
=============================================================================
