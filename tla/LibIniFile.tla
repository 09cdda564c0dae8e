----------------------------- MODULE LibIniFile -----------------------------
(***************************************************************************)
(* A configuration file (LibIniFile, IniFileMethods): its lines are read   *)
(* into maps, and every write goes to the file at once, which is emptied   *)
(* and written again.  A file is a sequence of bytes.                      *)
(***************************************************************************)
EXTENDS StringUtil, TLC

CONSTANTS
    Files,                  \* what the file holds at first
    Segments, Keys, Values, \* what is written; values without ; [ and ends that are blank
    Notes,                  \* header annotations
    MaxWrites,              \* bound: how often the file is written
    MaxCrashes              \* bound: how often the process ends in a write

VARIABLES
    file,
    opened,     \* a LibIniFile has been initialised with the file
    ini,        \* its members
    stored,     \* what can be read from the file: configuration and comments
    asked,      \* the operation asked for last, kept for the properties alone
    writes,     \* bounded by MaxWrites
    crashes     \* bounded by MaxCrashes

vars == <<file, opened, ini, stored, asked, writes, crashes>>

Semicolon == 59
Feed == <<10>>
Letters == Lower \cup Upper

-----------------------------------------------------------------------------
(* One line (IniFileMethods). *)

\* Letters and digits, a letter first.
IsName(text) ==
    /\ text # <<>> /\ Head(text) \in Letters
    /\ \A i \in 1..Len(text) : text[i] \in Letters \cup 48..57

\* The segment that a line names anywhere, or nothing.
IsSegment(content) ==
    LET left == Find(content, <<91>>, 1)
        right == Find(content, <<93>>, left)
        name == strip(SubSeq(content, left + 1, right - 1), Blank)
    IN  IF left = NPos THEN <<>>
        ELSE IF right # NPos /\ IsName(name) THEN name ELSE <<>>

\* The line without its comment.
ExtractValidRawData(content) ==
    strip(Split(content, <<Semicolon>>, 1, FALSE, TRUE)[1], Blank)

\* Key and value at the first =, or nothing.
SpiltKeyValue(valid) ==
    LET joiner == Find(valid, <<61>>, 1)
        key == strip(SubSeq(valid, 1, joiner - 1), Blank)
    IN  IF joiner = NPos THEN <<>>
        ELSE IF IsName(key) THEN <<key, strip(SubSeq(valid, joiner + 1, Len(valid)), Blank)>>
        ELSE <<>>

SegKey(segment, key) == segment \o <<45>> \o key
KeyValuePairStr(key, value) == key \o <<61>> \o value

-----------------------------------------------------------------------------
(* The members. *)

NoCfgs(content) ==
    [lineRefContent |-> <<>>, segOrKeyRefLine |-> <<>>, segmentRefKeyValues |-> <<>>,
     segmentRefMaxValidLine |-> <<>>, isDirtied |-> FALSE, fileContent |-> content]

\* What is in the map already stays (map::insert).
Insert(map, key, value) == map @@ (key :> value)

OnSegment(mem, segment, line) ==
    [mem EXCEPT !.segmentRefKeyValues = Insert(@, segment, <<>>),
                !.segOrKeyRefLine = Insert(@, segment, line)]

\* A key counts where it stands first; the last line of a segment is that of
\* its last key, a repeated one too.
OnKeyValue(mem, segment, pair, line) ==
    [mem EXCEPT !.segmentRefKeyValues[segment] = Insert(@, pair[1], pair[2]),
                !.segOrKeyRefLine = Insert(@, SegKey(segment, pair[1]), line),
                !.segmentRefMaxValidLine = (segment :> line) @@ @]

\* cur is the segment the line is in; keys in front of any segment are dropped.
OnContent(read, segment, pair, line) ==
    CASE segment # <<>> -> [cur |-> segment, mem |-> OnSegment(read.mem, segment, line)]
      [] segment = <<>> /\ pair # <<>> /\ read.cur # <<>> ->
            [read EXCEPT !.mem = OnKeyValue(@, read.cur, pair, line)]
      [] OTHER -> read

OnValidData(read, valid, line) == OnContent(read, IsSegment(valid), SpiltKeyValue(valid), line)

OnReadValidData(read, content, line) ==
    IF content = <<>> THEN read ELSE OnValidData(read, ExtractValidRawData(content), line)

\* The members after lines were read.
Load(lines, text) ==
    LET read[n \in 0..Len(lines)] ==
            IF n = 0 THEN [cur |-> <<>>, mem |-> NoCfgs(text)]
            ELSE OnReadValidData(read[n - 1], lines[n], n)
    IN  [read[Len(lines)].mem EXCEPT !.lineRefContent = lines]

LoadAllCfgs(text) == Load(FileLines(text), text)

\* The texts of the comments in the lines.
CommentsOf(lines) ==
    LET cut == {Split(line, <<Semicolon>>, 1, FALSE, TRUE) : line \in ToSet(lines)}
    IN  {pieces[2] : pieces \in {some \in cut : Len(some) >= 2}}

Text(lines) == FlattenSeq([i \in 1..Len(lines) |-> lines[i] \o Feed])

Stored(text) ==
    LET lines == FileLines(text)
    IN  [config |-> Load(lines, text).segmentRefKeyValues, comments |-> CommentsOf(lines)]

-----------------------------------------------------------------------------
(* Plausible mistakes. *)

\* In front of a segment that has no keys yet.
MaxValidLineAt(mem, segment) ==
    IF segment \in DOMAIN mem.segmentRefMaxValidLine THEN mem.segmentRefMaxValidLine[segment]
    ELSE mem.segOrKeyRefLine[segment] - 1

\* The maps are left as they were.
InsertNewLineDataOnly(mem, line, content) ==
    LET lines == InsertAt(mem.lineRefContent, line, content)
    IN  [file |-> Text(lines), mem |-> [mem EXCEPT !.lineRefContent = lines]]

-----------------------------------------------------------------------------
(* Reading. *)

ReadStr(segment, key, default) ==
    IF segment \notin DOMAIN ini.segmentRefKeyValues THEN default
    ELSE IF key \notin DOMAIN ini.segmentRefKeyValues[segment] THEN default
    ELSE ini.segmentRefKeyValues[segment][key]

\* The default also for an empty value.
ReadInt(segment, key, default) ==
    IF ReadStr(segment, key, <<>>) = <<>> THEN default
    ELSE StringToInt64(ReadStr(segment, key, <<>>))

CheckReadInt(segment, key) == ReadStr(segment, key, <<>>) # <<>>

HasCfgs(segment) == segment \in DOMAIN ini.segmentRefKeyValues

GetSegmentCfgs(segment) == IF HasCfgs(segment) THEN ini.segmentRefKeyValues[segment] ELSE <<>>

-----------------------------------------------------------------------------
(* Writing.  Each operation has as its outcome the file and the members. *)

\* The content is read back through a stream opened for writing: it is empty.
UpdateIni(mem) ==
    IF mem.isDirtied
    THEN [file |-> Text(mem.lineRefContent),
          mem |-> [mem EXCEPT !.isDirtied = FALSE, !.fileContent = <<>>]]
    ELSE [file |-> file, mem |-> mem]

\* The lines from there on move down; then the whole file is read again.
InsertNewLineData(mem, line, content) ==
    LET text == Text(InsertAt(mem.lineRefContent, line, content))
    IN  [file |-> text, mem |-> LoadAllCfgs(text)]

\* Where the last key of a segment is, or the segment itself.
GetSegmentKeyValueMaxValidLine(mem, segment) ==
    IF segment \in DOMAIN mem.segmentRefMaxValidLine THEN mem.segmentRefMaxValidLine[segment]
    ELSE mem.segOrKeyRefLine[segment]

\* A segment that is not there yet comes last.
WithSegment(segment) ==
    IF HasCfgs(segment) THEN ini
    ELSE [OnSegment(ini, segment, Len(ini.lineRefContent) + 1) EXCEPT
            !.lineRefContent = Append(@, <<91>> \o segment \o <<93>>), !.isDirtied = TRUE]

\* The line of a key gets the new value and keeps its comment.
Changed(segment, key, value) ==
    LET line == ini.segOrKeyRefLine[SegKey(segment, key)]
        pieces == Split(ini.lineRefContent[line], <<Semicolon>>, 1, FALSE, TRUE)
        comment == IF Len(pieces) >= 2 THEN <<9, 9, 9, 9, Semicolon>> \o pieces[2] ELSE <<>>
    IN  [ini EXCEPT !.segmentRefKeyValues[segment][key] = value,
                    !.lineRefContent[line] = KeyValuePairStr(key, value) \o comment,
                    !.isDirtied = TRUE]

Written(segment, key, value) ==
    LET mem == WithSegment(segment)
        pairs == mem.segmentRefKeyValues[segment]
        last == GetSegmentKeyValueMaxValidLine(mem, segment)
    IN  IF key \notin DOMAIN pairs
        THEN InsertNewLineData(mem, last + 1, KeyValuePairStr(key, value))
        ELSE UpdateIni(IF pairs[key] = value THEN mem ELSE Changed(segment, key, value))

\* An empty line in front of every line that names a segment.
Spaced ==
    LET text == FlattenSeq([i \in 1..Len(ini.lineRefContent) |->
                    LET line == ini.lineRefContent[i]
                    IN  (IF IsSegment(line) # <<>> THEN Feed ELSE <<>>) \o line \o Feed])
    IN  [file |-> text, mem |-> LoadAllCfgs(text)]

\* The line of the first segment; the first line when there is none.
FirstSegmentLine ==
    LET lines == {i \in 1..Len(ini.lineRefContent) : IsSegment(ini.lineRefContent[i]) # <<>>}
    IN  IF lines = {} THEN 1 ELSE CHOOSE i \in lines : \A j \in lines : i <= j

NoteLines(note) == Split(note, Feed, Len(note) + 1, FALSE, TRUE)

\* Every line of the note becomes a comment; all of them are inserted as one.
Headed(note) ==
    LET lines == NoteLines(note)
        comment == FlattenSeq([i \in 1..Len(lines) |-> <<Semicolon>> \o lines[i] \o Feed])
    IN  InsertNewLineData(ini, FirstSegmentLine, comment)

-----------------------------------------------------------------------------
(* The operations. *)

\* What a caller asks for.
ToWrite(segment, key, value) ==
    [what |-> "write", segment |-> segment, key |-> key, value |-> value]
ToAnnotate(note) == [what |-> "annotate", lines |-> ToSet(NoteLines(note))]
ToSpace == [what |-> "space"]
Nothing == [what |-> "none"]

Init == /\ file \in Files
        /\ opened = FALSE
        /\ ini = NoCfgs(<<>>)
        /\ stored = Stored(file)
        /\ asked = Nothing
        /\ writes = 0
        /\ crashes = 0

Open == /\ opened' = TRUE
        /\ ini' = LoadAllCfgs(file)
        /\ asked' = Nothing
        /\ UNCHANGED <<file, stored, writes, crashes>>

\* One more write.
MayWrite == opened /\ writes < MaxWrites /\ writes' = writes + 1

Becomes(outcome) ==
    /\ file' = outcome.file
    /\ ini' = outcome.mem
    /\ stored' = Stored(outcome.file)
    /\ UNCHANGED <<opened, crashes>>

WriteStr(segment, key, value) ==
    MayWrite /\ asked' = ToWrite(segment, key, value) /\ Becomes(Written(segment, key, value))

ChangeLineBetweenSegs == MayWrite /\ asked' = ToSpace /\ Becomes(Spaced)

WriteFileHeaderAnnotation(note) ==
    MayWrite /\ asked' = ToAnnotate(note) /\ Becomes(Headed(note))

\* Clear, and a new object; the content read before stays.
Clear == /\ opened
         /\ opened' = FALSE
         /\ ini' = NoCfgs(ini.fileContent)
         /\ asked' = Nothing
         /\ UNCHANGED <<file, stored, writes, crashes>>

\* The process ends while it carries out a request and the emptied file is
\* being written: some of the new content is there.
CrashIn(request, content) ==
    /\ \E size \in 0..Len(content) :
          \E left \in {SubSeq(content, 1, size)} : file' = left /\ stored' = Stored(left)
    /\ asked' = [what |-> "ended", during |-> request]
    /\ opened' = FALSE
    /\ ini' = NoCfgs(<<>>)
    /\ crashes' = crashes + 1

\* A value that is there already is not written.
Crash ==
    /\ MayWrite /\ crashes < MaxCrashes
    /\ \/ \E segment \in Segments, key \in Keys, value \in Values :
             \E content \in {Written(segment, key, value).file} \ {file} :
                CrashIn(ToWrite(segment, key, value), content)
       \/ CrashIn(ToSpace, Spaced.file)
       \/ \E note \in Notes : CrashIn(ToAnnotate(note), Headed(note).file)

Next ==
    \/ Open
    \/ \E segment \in Segments, key \in Keys, value \in Values : WriteStr(segment, key, value)
    \/ ChangeLineBetweenSegs
    \/ \E note \in Notes : WriteFileHeaderAnnotation(note)
    \/ Clear
    \/ Crash

Spec == Init /\ [][Next]_vars

-----------------------------------------------------------------------------
\* The members are what a new object would read from the file: the line numbers
\* of segments and keys follow every insertion, and nothing waits to be written.
\* (LibIniFile::_WriteStr changes them in place, _InsertNewLineData reads anew.)
InMemory ==
    opened => /\ ini = [LoadAllCfgs(file) EXCEPT !.fileContent = ini.fileContent]
              /\ ini.fileContent \in {file, <<>>}

\* The file is a store of values by segment and key: WriteStr changes the value
\* of its own key alone and to what was asked for, WriteFileHeaderAnnotation adds
\* the lines of its note, every other value and comment stays; only a process that
\* ends in one of them loses some, and all that is left comes from what it was
\* writing, cut short in one place.  (LibIniFile.cpp)
Store == INSTANCE ConfigStore WITH
            config <- stored.config, comments <- stored.comments,
            Notes <- {ToSet(NoteLines(note)) : note \in Notes}
StoreSpec == Store!Spec
=============================================================================
