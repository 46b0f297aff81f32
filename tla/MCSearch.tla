------------------------------ MODULE MCSearch ------------------------------
(***************************************************************************)
(* Search over a growing file, the server's analyses of it, and two readers *)
(* of one dirty view: the first in bytes, the second in texts, the third in *)
(* directories; one of them per behaviour.                                  *)
(***************************************************************************)
EXTENDS Analysis, Rewrite, Operations

VARIABLE part     \* which of them runs
msVars == <<part, anVars, searchVars, opVars>>

Encs == {"bytes", "legacy", "wide"}
MCGrowths == [e \in Encs |->
  CASE e = "bytes" -> {<<97>>, <<45>>, <<10>>, <<65, 45, 97>>, <<13, 10>>}
    [] e = "legacy" -> {<<97>>, <<10>>, <<130, 65>>, <<130>>}
    [] OTHER -> {<<97, 0>>, <<10, 0>>, <<97, 97>>, <<48, 97, 0, 48>>, <<45, 0, 65, 0>>}]
Needles == [e \in Encs |->
  CASE e = "bytes" -> {<< <<97>> >>, << <<97>>, <<45>> >>, << <<45>>, <<97>> >>}
    [] e = "legacy" -> {<< <<97>> >>, << <<97>>, <<130, 65>> >>}
    [] OTHER -> {<< <<97, 0>> >>, << <<97, 97>> >>, << <<97, 0>>, <<45, 0>> >>}]
Modes == {<<FALSE, FALSE>>, <<TRUE, FALSE>>, <<FALSE, TRUE>>}
MCQueries == UNION {{[enc |-> e, needle |-> n, fold |-> m[1], word |-> m[2]] :
                        n \in Needles[e], m \in Modes} : e \in Encs}
MCFills == [e \in Encs |-> IF e = "wide" THEN {<<>>, <<65, 0, 98, 0>>} ELSE {<<>>, <<65, 98>>}]
MCMaxBytes == ("bytes" :> 6) @@ ("legacy" :> 6) @@ ("wide" :> 8)

Alone(p, rest) == part = p /\ UNCHANGED <<part, rest>>
InAnalysis(p) == Alone(p, <<searchVars, opVars>>)

\* A server that nobody cancels, updates or kills: its watches do not move; and
\* actions that leave no process behind.
Calm ==
    /\ installed' = 0 /\ alive' = {0, Sibling}
    /\ UNCHANGED <<watch, pipe>>
    /\ \A r \in Ops : ~op'[r].canceled

\* Of the two readers one is a search, the other a search or an action.
\* Analyses either push each other out of the store while the file grows, or
\* are raced for by two clients while anything happens to the document.
MSNext ==
    \/ Alone("search", <<anVars, opVars>>) /\ SearchNext
    \/ InAnalysis("evict") /\ AnNext /\ h'["c2"] = h["c2"] /\ live'.rev = 0 /\ live'.file = 1
    \/ InAnalysis("race") /\ AnNext /\ an'["a2"] = an["a2"]
    \/ Alone("views", <<anVars, searchVars>>) /\ OpNext /\ Calm

MSInit ==
    /\ AnInit /\ SearchInit /\ OpInit
    /\ part \in {"search", "evict", "race", "views"}
    /\ job["r1"].kind = "search" /\ (part # "views" => job["r2"].kind = "search")
    /\ part # "search" => enc = "bytes" /\ buf = <<>>

MSSpec ==
    /\ MSInit /\ [][MSNext]_msVars
    /\ \A p \in {"evict", "race"} :
        /\ \A o \in Analyses : WF_msVars(InAnalysis(p) /\ ScanSteps(o))
        /\ \A c \in Clients : WF_msVars(InAnalysis(p) /\ TailSteps(c))
=============================================================================
