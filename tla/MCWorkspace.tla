---------------------------- MODULE MCWorkspace ----------------------------
EXTENDS Workspace, TLC

CONSTANTS r1, r2, r3

\* One request may open the second file; the two others are anything that
\* works on the tabs there are.
TabKinds == {"switch", "close", "detach", "save", "saveas", "sort", "revert",
             "recover", "tail", "view"}
Asks == (r1 :> {"open"}) @@ (r2 :> TabKinds \cup {"reorder"}) @@ (r3 :> TabKinds)
=============================================================================
