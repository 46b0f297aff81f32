----------------------------- MODULE AtomicLog -----------------------------
(***************************************************************************)
(* What wal.rs promises of the crash log, whatever files it takes: "a crash *)
(* leaves either the old or the new complete log on disk".  The versions of *)
(* the log are numbered in the order it was told to hold them, by an append *)
(* or by a rewrite; 0 is no log at all.                                     *)
(***************************************************************************)
EXTENDS Naturals

VARIABLES
    log,       \* the version a reader finds
    told,      \* the last version the log was told to hold
    safe       \* the version a power loss may not take away

vars == <<log, told, safe>>

Init == log = 0 /\ told = 0 /\ safe = 0

Tell ==
    /\ told' = told + 1
    /\ UNCHANGED <<log, safe>>

\* An append is told and held in one step.
Hold ==
    /\ told' \in {told, told + 1}
    /\ log' \in Nat
    /\ log < log'
    /\ log' <= told'
    /\ UNCHANGED safe

Secure ==
    /\ safe' = log
    /\ UNCHANGED <<log, told>>

\* Deleting the log removes it, or uncovers an older one.
Drop ==
    /\ log' \in 0..log
    /\ safe' = 0
    /\ UNCHANGED told

PowerLoss ==
    /\ log' \in safe..told
    /\ UNCHANGED <<told, safe>>

Next == Tell \/ Hold \/ Secure \/ Drop \/ PowerLoss

Spec == Init /\ [][Next]_vars
=============================================================================
