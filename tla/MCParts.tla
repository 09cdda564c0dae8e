------------------------------- MODULE MCParts -------------------------------
(***************************************************************************)
(* The parts that run on their own, in one run: each behaviour exercises   *)
(* one of them - the timing of a control block or a part of the foundation *)
(* library - and leaves the others at their initial values.                *)
(***************************************************************************)
EXTENDS KcpFlush, StringUtil, LibTime, LibSocket, LogIniCfgMgr, TLC

CONSTANTS
    MaxChars,       \* bound: characters of a text
    Segments, Keys, Values, Files, Notes, MaxWrites, MaxCrashes    \* of LibIniFile

VARIABLES
    part,           \* what is exercised
    text,           \* characters of a text
    number,         \* a number
    file, opened, ini, stored, asked, writes, crashes    \* of LibIniFile
iniVars == <<file, opened, ini, stored, asked, writes, crashes>>
inputVars == <<text, number>>

-----------------------------------------------------------------------------
(* Inputs. *)

\* A letter, a capital, a blank, a comma, a backslash, a line feed, a point, a
\* character of two bytes and the mark of UTF-8.
Chars == {<<97>>, <<65>>, <<32>>, <<44>>, <<92>>, <<10>>, <<46>>, <<195, 169>>, Bomb}

\* No file yet, and one with a key in front, a comment, and a segment twice:
\* "k=0", "[a]", "x=1;c", "[b]", "[a]", "y=".
FilesDef == {<<>>, <<107, 61, 48, 10, 91, 97, 93, 10, 120, 61, 49, 59, 99, 10,
                     91, 98, 93, 10, 91, 97, 93, 10, 121, 61>>}
SegsDef == {<<97>>, <<98>>}
KeysDef == {<<120>>, <<121>>}
ValuesDef == {<<>>, <<49>>}
NotesDef == {<<104>>, <<91, 104, 93, 10, 105>>}

\* East of Greenwich.
Zone == -2

\* Two levels with ids of their own or one, off or on, and up to two files.
LevelPair == <<"Info", "Warn">>
Level(enable, fileId, id) ==
    [enable |-> enable, fileId |-> fileId, console |-> TRUE, fg |-> "Red", bg |-> "",
     levelId |-> id, realTime |-> FALSE, stack |-> FALSE]
LevelSet == [enable : BOOLEAN, fileId : 0..2, id : 1..2]
FileSet == {[id |-> id, name |-> "", thread |-> thread] : id \in 0..2, thread \in 1..2}
LogCfg(info, warn, files) ==
    [levels |-> [Info |-> Level(info.enable, info.fileId, info.id),
                 Warn |-> Level(warn.enable, warn.fileId, warn.id)],
     files |-> files, front |-> [Black |-> 0, Red |-> 4], back |-> [Black |-> 0],
     isEnableLog |-> TRUE, logPath |-> <<"1", "./">>, intervalMs |-> 1000]
ConfigsDef == {LogCfg(info, warn, files) : info \in LevelSet, warn \in LevelSet,
                    files \in {<<>>} \cup {<<f>> : f \in FileSet} \cup {<<f, g>> : f \in FileSet, g \in FileSet}}

Config == INSTANCE LibIniFile

-----------------------------------------------------------------------------
(* The steps of each part. *)

PartsInit ==
    /\ Init /\ Config!Init /\ SocketInit
    /\ CalendarInit /\ text = <<>> /\ mgr = NotInit
    /\ \/ part \in {"text", "time", "net", "flush"} /\ number = 0 /\ file = <<>> /\ given = <<>>
       \/ part = "number" /\ number = Min64 /\ file = <<>> /\ given = <<>>
       \/ part = "ini" /\ number = 0 /\ given = <<>>
       \/ part = "levels" /\ number = 0 /\ file = <<>> /\ given \in ConfigsDef

Write == /\ part = "text" /\ Len(text) < MaxChars
         /\ \E c \in Chars : text' = Append(text, c)
         /\ UNCHANGED <<part, number, today, vars, iniVars, mgrVars, socketVars>>

Count == /\ part = "number" /\ number < -Min64 - 1
         /\ number' = number + 1
         /\ UNCHANGED <<part, text, today, vars, iniVars, mgrVars, socketVars>>

AskCalendar ==
    part = "time" /\ NextDay /\ UNCHANGED <<part, inputVars, vars, iniVars, mgrVars, socketVars>>

UpdateKcp ==
    part = "flush" /\ Next /\ UNCHANGED <<part, inputVars, today, iniVars, mgrVars, socketVars>>

UseIni ==
    part = "ini" /\ Config!Next /\ UNCHANGED <<part, inputVars, today, vars, mgrVars, socketVars>>

ReadLevels ==
    part = "levels" /\ InitMgr /\ UNCHANGED <<part, inputVars, today, vars, iniVars, socketVars>>

UseSockets ==
    part = "net" /\ SocketNext /\ UNCHANGED <<part, inputVars, today, vars, iniVars, mgrVars>>

PartsNext == Write \/ Count \/ AskCalendar \/ UpdateKcp \/ UseIni \/ ReadLevels \/ UseSockets

PartsSpec ==
    PartsInit /\ [][PartsNext]_<<part, inputVars, today, vars, iniVars, mgrVars, socketVars>>

Symmetry == Permutations(Sockets) \cup Permutations(Hosts)

-----------------------------------------------------------------------------

\* What is cut is what was joined, over every text: Split and its variants give
\* back the text, escape and unescape undo one another, strip leaves no such
\* character at the ends and takes none from between, the characters of UTF-8
\* make up the text and have their length, and lines are read back from a file
\* (LibString, StringUtil, FileUtil).  A number is read back from its digits in
\* every base (StringUtil::I64toA).
TextAgrees ==
    LET raw == FlattenSeq(text)
    IN  /\ part = "text" =>
            /\ \A sep \in {<<44>>, <<10>>, <<44, 92>>, <<195>>} : CutsRejoin(raw, sep)
            /\ Undone(raw, {44, 32}, 92)
            /\ Stripped(raw, Blank) /\ Stripped(raw, {97, 44})
            /\ Characters(raw, text)
            /\ LinesReturn(raw)
            /\ \A sep \in {<<44>>, <<44, 97>>} : CutsAgree(raw, sep)
        /\ part = "number" => NumberReturns(number)

\* A file of settings stays a store of values and comments (LibIniFile).
StoreSpec == Config!StoreSpec

\* What a LibIniFile holds is what the file holds.
InMemory == Config!InMemory
=============================================================================
