---------------------------- MODULE MCLogIniCfgMgr ----------------------------
(***************************************************************************)
(* LogIniCfgMgr reads the configuration that the program writes for itself *)
(* when it finds none.                                                     *)
(***************************************************************************)
EXTENDS LogIniCfgMgr, TLC

\* The file that LibLog::Init creates when there is none (LogConfigTemplate.h).
TemplateNames == <<"Crash", "Custom", "Debug", "Error", "Info", "MemMonitor", "Net", "Sys",
                   "Trace", "Warn">>
Level(id, fileId, fg, stack) ==
    [enable |-> TRUE, fileId |-> fileId, console |-> fileId \notin {2, 5}, fg |-> fg, bg |-> "Black",
     levelId |-> id, realTime |-> FALSE, stack |-> stack]
File(id, name, thread) == [id |-> id, name |-> name, thread |-> thread]

\* The colours of ConsoleConfigTemplate.h.
FrontColors == [Black |-> 0, Red |-> 4, Green |-> 2, Blue |-> 1, Yellow |-> 6, Purple |-> 5, Cyan |-> 3,
          White |-> 7, Gray |-> 8, LightYellow |-> 14, Highlight |-> 8, FrontDefault |-> 7]
BackColors == [Black |-> 0, Red |-> 64, Green |-> 32, Blue |-> 16, Yellow |-> 96, Purple |-> 80,
         Cyan |-> 48, White |-> 112, Highlight |-> 128, BackDefault |-> 0]

Template ==
    [levels |-> [Debug |-> Level(1, 0, "White", FALSE), Info |-> Level(2, 0, "White", FALSE),
                 Warn |-> Level(3, 0, "LightYellow", FALSE), Error |-> Level(4, 0, "Red", TRUE),
                 Crash |-> Level(5, 1, "Red", FALSE), Net |-> Level(6, 2, "White", FALSE),
                 Custom |-> Level(7, 3, "White", FALSE), Sys |-> Level(8, 4, "White", FALSE),
                 MemMonitor |-> Level(9, 5, "White", FALSE),
                 Trace |-> Level(10, 6, "Green", FALSE)],
     files |-> <<File(0, "", 1), File(1, "Crash", 1), File(2, "Net", 2), File(3, "Custom", 1),
                 File(4, "Sys", 1), File(5, "MemMonitor", 3), File(6, "Trace", 1)>>,
     front |-> FrontColors, back |-> BackColors, isEnableLog |-> TRUE, logPath |-> <<"1", "./">>,
     intervalMs |-> 1000]
TemplateOnly == {Template}
=============================================================================
