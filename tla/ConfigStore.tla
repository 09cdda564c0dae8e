----------------------------- MODULE ConfigStore -----------------------------
(***************************************************************************)
(* What a configuration file promises (LibIniFile): a value written to a   *)
(* key of a segment is read there until it is written again, whatever else *)
(* is written; comments stay.  Every change is tied to what was asked for. *)
(* Only a process that ends while it writes loses anything, and what it    *)
(* leaves was to be written, at most one value or comment of it cut short. *)
(***************************************************************************)
EXTENDS Integers, Sequences, FiniteSets, SequencesExt, TLC

CONSTANTS Segments, Keys, Values, Notes    \* what may be written; a note is a set of texts

VARIABLES
    config,     \* segment |-> (key |-> value)
    comments,   \* the texts of the comments
    asked       \* what was asked for last

vars == <<config, comments, asked>>

Requests ==
    [what : {"write"}, segment : Segments, key : Keys, value : Values]
        \cup [what : {"annotate"}, lines : Notes]
        \cup {[what |-> "space"]}

None == [what |-> "none"]
Ended(request) == [what |-> "ended", during |-> request]

Init == /\ \A segment \in DOMAIN config : <<>> \notin DOMAIN config[segment]
        /\ asked = None

Pairs(segment) == IF segment \in DOMAIN config THEN config[segment] ELSE <<>>

Put(segment, key, value) == (segment :> ((key :> value) @@ Pairs(segment))) @@ config

\* What the store holds once a request is carried out.
ConfigAfter(request) ==
    IF request.what = "write" THEN Put(request.segment, request.key, request.value) ELSE config

CommentsAfter(request) ==
    IF request.what = "annotate" THEN comments \cup request.lines ELSE comments

Perform(request) ==
    /\ asked' = request
    /\ config' = ConfigAfter(request)
    /\ comments' = CommentsAfter(request)

\* Opening and closing change nothing.
Reopen == asked' = None /\ UNCHANGED <<config, comments>>

\* The values of left that are not those that were to be written.
CutValues(left, written) ==
    {pair \in UNION {{segment} \X DOMAIN left[segment] : segment \in DOMAIN left} :
        left[pair[1]][pair[2]] # written[pair[1]][pair[2]]}

PartOf(left, written) ==
    /\ DOMAIN left \subseteq DOMAIN written
    /\ \A segment \in DOMAIN left :
          /\ DOMAIN left[segment] \subseteq DOMAIN written[segment]
          /\ \A key \in DOMAIN left[segment] :
                IsPrefix(left[segment][key], written[segment][key])

\* The process ends in the middle of carrying out a request.
Interrupted(request) ==
    /\ asked' = Ended(request)
    /\ PartOf(config', ConfigAfter(request))
    /\ \A text \in comments' : \E whole \in CommentsAfter(request) : IsPrefix(text, whole)
    /\ Cardinality(CutValues(config', ConfigAfter(request)))
         + Cardinality(comments' \ CommentsAfter(request)) <= 1

Next ==
    \/ Reopen
    \/ \E request \in Requests : Perform(request) \/ Interrupted(request)

Spec == Init /\ [][Next]_vars
=============================================================================
