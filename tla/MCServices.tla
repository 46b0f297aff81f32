----------------------------- MODULE MCServices -----------------------------
(***************************************************************************)
(* The services beside the edit session, one per behaviour: nothing is      *)
(* shared between them but the process, so each runs while the others stay  *)
(* as they began.                                                           *)
(***************************************************************************)
EXTENDS Operations, Markers, Updater, Batch, Publish

VARIABLE part     \* which of them runs
svVars == <<part, opVars, markVars, updVars, batVars, pubVars>>

R(a, b, n) == [l0 |-> a, l1 |-> b, new |-> n]

\* Edits within a line, over lines, of none, and two at once in both orders.
MCBatches == {<<R(0, 0, 2)>>, <<R(0, 1, 1)>>, <<R(1, 2, 1)>>, <<R(1, 2, 2)>>, <<R(0, 2, 2)>>,
              <<R(0, 0, 2), R(1, 1, 1)>>, <<R(0, 1, 1), R(1, 1, 2)>>, <<R(0, 1, 2), R(0, 0, 1)>>,
              <<R(0, 0, 1), R(0, 0, 2)>>}

\* Lines with a zero in a key, with odd quotes, with and without a number.
MCLines == {[odd |-> FALSE, cells |-> << <<>>, <<1>> >>, num |-> NoNumber],
            [odd |-> FALSE, cells |-> << <<0>> >>, num |-> 2],
            [odd |-> TRUE, cells |-> << <<1>> >>, num |-> 1]}
MCInputs == UNION {[1 .. n -> MCLines] : n \in 0 .. 5}
T(name, csv, cols, numeric, reverse) ==
    [op |-> name, csv |-> csv, cols |-> cols, numeric |-> numeric, reverse |-> reverse, n |-> 2]
MCTasks == {T("sort", csv, cols, FALSE, reverse) :
               csv \in BOOLEAN, cols \in {<<1>>, <<1, 2>>}, reverse \in BOOLEAN}
           \cup {T(name, FALSE, <<1>>, numeric, reverse) :
               name \in {"sort", "top"}, numeric \in BOOLEAN, reverse \in BOOLEAN}
           \cup {T("group", csv, <<1>>, FALSE, FALSE) : csv \in BOOLEAN}
           \cup {[T("top", FALSE, <<1>>, FALSE, FALSE) EXCEPT !.n = 0]}

Alone(p, rest) == part = p /\ UNCHANGED <<part, rest>>
InOps == Alone("operations", <<markVars, updVars, batVars, pubVars>>)

SvNext ==
    \/ InOps /\ OpNext
    \/ Alone("markers", <<opVars, updVars, batVars, pubVars>>) /\ MarkNext
    \/ Alone("updates", <<opVars, markVars, batVars, pubVars>>) /\ UpdNext
    \/ Alone("batch", <<opVars, markVars, updVars, pubVars>>) /\ BatNext
    \/ Alone("publish", <<opVars, markVars, updVars, batVars>>) /\ PubNext

\* What does not run is as it begins, in one of the ways it may.
SvInit ==
    /\ part \in {"operations", "markers", "updates", "batch", "publish"}
    /\ OpInit /\ (part # "operations" => \A r \in Ops : job[r].kind = "sort")
    /\ MarkInit /\ (part # "markers" => text # <<>>)
    /\ UpdInit
    /\ part # "updates" => host = [platform |-> "unix", keyed |-> TRUE, order |-> "less"]
                           /\ release.sig = 1 /\ \A p \in Updaters : run[p].errand = "update"
    /\ BatInit /\ (part # "batch" => input = <<>> /\ task = T("top", FALSE, <<1>>, FALSE, FALSE))
    /\ PubInit
    /\ part # "publish" => \A n \in Names : named[n] = NoFile /\ aside[n] = NoFile

SvSpec == SvInit /\ [][SvNext]_svVars /\ \A r \in Ops : WF_svVars(InOps /\ Handles(r))
=============================================================================
