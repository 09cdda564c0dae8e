----------------------------- MODULE LogIniCfgMgr -----------------------------
(***************************************************************************)
(* The configuration of the log (LogIniCfgMgr): which levels are written,  *)
(* to which file each goes, and which thread writes a file.  What LibIniFile *)
(* reads is given as maps; a value that is a list is a record or sequence. *)
(***************************************************************************)
EXTENDS ConsoleConfigMgr

CONSTANTS
    LevelNames,     \* a sequence: the keys of segment LogLevel in the order of a map
    Configs         \* the configurations to read

VARIABLES
    given,      \* the configuration file
    mgr         \* the members, once Init has read it

mgrVars == <<given, mgr>>

NoCfg == [level |-> -1]
NoFile == [logFileId |-> -1]

\* The system's own levels (LogLevel::ENUMS).
LogLevel == [Debug |-> 1, Info |-> 2, Warn |-> 3, Error |-> 4, Crash |-> 5, Net |-> 6,
             NetDebug |-> 7, NetInfo |-> 8, NetWarn |-> 9, NetError |-> 10, NetTrace |-> 11,
             Custom |-> 12, Sys |-> 13, MemMonitor |-> 14, Trace |-> 15]

-----------------------------------------------------------------------------
(* The levels. *)

\* Where the names that the segment has stand in the order of the map.
NamesOf(levels) == {i \in DOMAIN LevelNames : LevelNames[i] \in DOMAIN levels}

\* One more than the largest level id.
LevelCount(levels) == Max({levels[name].levelId + 1 : name \in DOMAIN levels} \cup {0})

\* Of two levels with one id the later name replaces the earlier.
LevelInfo(levels, id) ==
    LET named == {i \in NamesOf(levels) : levels[LevelNames[i]].levelId = id}
    IN  IF named = {} THEN "" ELSE LevelNames[Max(named)]

\* Colours by name, the default where none is given.
Color(map, name, default) == IF name = "" THEN default ELSE map[name]

LevelCfg(config, id) ==
    LET name == LevelInfo(config.levels, id)
        level == config.levels[name]
        colors == Colors(config.front, config.back)
    IN  IF name = "" THEN NoCfg
        ELSE [level |-> id, levelName |-> name, enable |-> level.enable, fileId |-> level.fileId,
              enableConsole |-> level.console, realTime |-> level.realTime, stack |-> level.stack,
              fgColor |-> Color(colors.front, level.fg, FrontDefault(colors)),
              bgColor |-> Color(colors.back, level.bg, BackDefault(colors))]

-----------------------------------------------------------------------------
(* Plausible mistakes. *)

\* A file is open when its first level is.
IsEnableFirst(cfgs) == \E id \in DOMAIN cfgs : id = 1 /\ cfgs[id] # NoCfg /\ cfgs[id].enable

-----------------------------------------------------------------------------
(* The files. *)

\* The levels bound to a file; no list at all for a file without levels.
LevelsOf(cfgs, fileId) ==
    LET bound == {id \in DOMAIN cfgs : cfgs[id] # NoCfg /\ cfgs[id].fileId = fileId}
    IN  IF bound = {} THEN <<>>
        ELSE [id \in DOMAIN cfgs |-> IF id \in bound THEN cfgs[id] ELSE NoCfg]

\* One enabled level opens the file.
IsEnable(cfgs) == \E id \in DOMAIN cfgs : cfgs[id] # NoCfg /\ cfgs[id].enable

\* The program's name is used where a file has none.
LogFile(config, cfgs, file) ==
    [logFileId |-> file.id, levelIdxRefCfg |-> LevelsOf(cfgs, file.id),
     isEnable |-> IsEnable(LevelsOf(cfgs, file.id)),
     logFileName |-> IF file.name = "" THEN "program" ELSE file.name,
     threadRelationId |-> file.thread, intervalMs |-> config.intervalMs]

\* The files by id: of two with one id the later one counts.
FileAt(files, id) ==
    LET same == {i \in DOMAIN files : files[i].logFileId = id}
    IN  IF same = {} THEN NoFile ELSE files[Max(same)]

\* One file after the other goes to the list of its thread, both of two with one id.
FilesOfThread(files, thread) ==
    LET first[n \in 0..Len(files)] ==
            IF n = 0 THEN <<>>
            ELSE IF files[n].threadRelationId = thread THEN Append(first[n - 1], files[n])
            ELSE first[n - 1]
    IN  first[Len(files)]

\* Where the logs go: a given path or the program's, with or without the name
\* of the program.  Without the comma the second piece is read all the same.
LogPath(pieces) ==
    LET byName(root) == [root |-> root, sub |-> "program_Log"]
        given1 == pieces # <<>> /\ pieces[1] # ""
        given2 == pieces # <<>> /\ pieces[2] # ""
    IN  CASE ~given1 /\ ~given2 -> byName("program's")
          [] ~given1 /\ given2 -> [root |-> pieces[2], sub |-> "program"]
          [] given1 /\ pieces[1] = "0" -> [root |-> IF given2 THEN pieces[2] ELSE "program's",
                                           sub |-> ""]
          [] OTHER -> byName(IF given2 THEN pieces[2] ELSE "program's")

-----------------------------------------------------------------------------
(* Init. *)

NotInit == [levelIdxRefCfg |-> <<>>, fileIdIdxRefCfg |-> <<>>, threadRelation |-> <<>>,
            isEnableLog |-> TRUE, logPath |-> [root |-> "", sub |-> ""], done |-> FALSE]

\* Without a key FileName the levels and the common values are read, no file is,
\* and Init fails.
Read(config) ==
    LET cfgs == [id \in 0..(LevelCount(config.levels) - 1) |-> LevelCfg(config, id)]
        files == [i \in 1..Len(config.files) |-> LogFile(config, cfgs, config.files[i])]
        maxId == Max({file.logFileId : file \in ToSet(files)} \cup {-1})
    IN  [levelIdxRefCfg |-> cfgs,
         fileIdIdxRefCfg |-> [id \in 0..maxId |-> FileAt(files, id)],
         threadRelation |-> [thread \in {file.threadRelationId : file \in ToSet(files)} |->
                                FilesOfThread(files, thread)],
         isEnableLog |-> config.isEnableLog,
         logPath |-> LogPath(config.logPath),
         done |-> config.files # <<>>]

MgrInit == given \in Configs /\ mgr = NotInit

\* LogIniCfgMgr::Init: a second time it is refused.
InitMgr == mgr = NotInit /\ mgr' = Read(given) /\ UNCHANGED given

MgrSpec == MgrInit /\ [][InitMgr]_mgrVars

-----------------------------------------------------------------------------
(* What is asked of it. *)

\* GetLevelCfg reads a vector without a look at its size.
GetLevelCfg(level) ==
    IF level \in DOMAIN mgr.levelIdxRefCfg THEN mgr.levelIdxRefCfg[level] ELSE NoCfg

GetLogCfg(level) == mgr.fileIdIdxRefCfg[GetLevelCfg(level).fileId]

\* File ids that are not repeated, among them that of every level.
WellFormed(config) ==
    LET ids == [i \in 1..Len(config.files) |-> config.files[i].id]
    IN  /\ IsInjective(ids)
        /\ \A name \in DOMAIN config.levels : config.levels[name].fileId \in ToSet(ids)

\* Every configured level finds its file, and the file knows it under the
\* same number; an open file has an open level, and a level that is open has an
\* open file; exactly one thread writes the file, and once.  (LogIniCfgMgr::Init
\* builds the three lists one after the other; LibLog::Init goes by them.)
LevelsLinked ==
    mgr.done /\ WellFormed(given) =>
        \A level \in DOMAIN mgr.levelIdxRefCfg :
            LET cfg == GetLevelCfg(level)
                file == GetLogCfg(level)
                places == UNION {{<<thread, i>> : i \in {j \in DOMAIN mgr.threadRelation[thread] :
                                      mgr.threadRelation[thread][j] = file}} :
                                      thread \in DOMAIN mgr.threadRelation}
            IN  cfg # NoCfg =>
                    /\ file.levelIdxRefCfg[level] = cfg
                    /\ cfg.enable => file.isEnable
                    /\ file.isEnable => \E id \in DOMAIN file.levelIdxRefCfg :
                          GetLevelCfg(id) # NoCfg /\ GetLevelCfg(id).fileId = cfg.fileId /\ GetLevelCfg(id).enable
                    /\ \E place \in places : places = {place}

\* "The ids of the levels the system has by default may not be changed in the
\* configuration" (LogLevel.h:13): what is written with LogLevel::Sys goes to
\* the level Sys.
DefaultLevels ==
    mgr.done => \A name \in DOMAIN given.levels :
        name \in DOMAIN LogLevel => GetLevelCfg(LogLevel[name]) # NoCfg
                                    /\ GetLevelCfg(LogLevel[name]).levelName = name
=============================================================================
