--------------------------- MODULE ConsoleConfigMgr ---------------------------
(***************************************************************************)
(* The colours of the console (ConsoleConfigMgr): names and numbers read   *)
(* from a configuration file, one after the other, until one is missing.   *)
(***************************************************************************)
EXTENDS Integers, Sequences, SequencesExt, FiniteSetsExt

\* The keys in the order in which they are read; the last is the default.
FrontKeys == <<"Black", "Red", "Green", "Blue", "Yellow", "Purple", "Cyan", "White", "Gray",
               "LightYellow", "Highlight", "FrontDefault">>
BackKeys == <<"Black", "Red", "Green", "Blue", "Yellow", "Purple", "Cyan", "White",
              "Highlight", "BackDefault">>

\* How many of the keys are read from a segment before one is missing.
ReadCount(keys, segment) ==
    Max({n \in 0..Len(keys) : \A i \in 1..n : keys[i] \in DOMAIN segment})

ReadColors(keys, segment) ==
    [name \in {keys[i] : i \in 1..ReadCount(keys, segment)} |-> segment[name]]

\* ConsoleConfigMgr::Init.  The background is not read when a front colour is
\* missing; what was read before stays.
Colors(front, back) ==
    LET frontRead == ReadCount(FrontKeys, front) = Len(FrontKeys)
    IN  [front |-> ReadColors(FrontKeys, front),
         back |-> IF frontRead THEN ReadColors(BackKeys, back) ELSE <<>>]

\* The members of _front and _back are zero until they are read.
FrontDefault(colors) ==
    IF "FrontDefault" \in DOMAIN colors.front THEN colors.front["FrontDefault"] ELSE 0
BackDefault(colors) ==
    IF "BackDefault" \in DOMAIN colors.back THEN colors.back["BackDefault"] ELSE 0

\* GetFrontColor, GetBackColor.  An unknown name dereferences the end of the map.
Known(map, name) == name \in DOMAIN map
=============================================================================
