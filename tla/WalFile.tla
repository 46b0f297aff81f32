------------------------------ MODULE WalFile ------------------------------
(***************************************************************************)
(* The crash log as files (wal.rs): records appended to an open file, and   *)
(* rewrites (create, reset, snapshot, compaction) that stage a temporary    *)
(* file and rename it over the log, or go through the `.old' aside name      *)
(* when the rename is refused.  The process or the power may fail between    *)
(* any two file operations.  What the records say is module CrashLog's; a    *)
(* log is here the number of the last version it was told to hold.           *)
(***************************************************************************)
EXTENDS Naturals, FiniteSets

CONSTANTS
    None,          \* no such file
    MaxTold        \* bound: appends and rewrites

ASSUME MaxToldAssumption == MaxTold \in Nat

VARIABLES
    phase,     \* "open" in a process; "closed" by the user; or "gone"
    writer,    \* the session's WalWriter: "attached" or "none"
    told,      \* the last version the log was told to hold
    safe,      \* the version known to be on the platter
    target,    \* <hash>.wal
    aside,     \* <hash>.wal.old
    tmp,       \* the temporary file of the request and of the policy thread
    step,      \* where the running rewrite is
    by,        \* whose temporary file it installs
    dirs       \* what the directory may read after a power loss

files == <<target, aside>>
vars == <<phase, writer, told, safe, target, aside, tmp, step, by, dirs>>

Thread == {"live", "policy"}

\* `durable' counts what is fsynced, 0 for a file that never was.  A "torn"
\* log ends in an unterminated record; a "bad" one is half written, or has a
\* malformed complete line.
File == [upto : Nat, durable : Nat, shape : {"whole", "torn", "bad"}]

ASSUME NoneAssumption == None \notin File

Maybe(S) == S \cup {None}

Content(upto, durable, shape) ==
    [upto |-> upto, durable |-> durable, shape |-> shape]

Dir(t, a) == [target |-> t, aside |-> a]

TypeOK ==
    /\ phase \in {"open", "closed", "gone"}
    /\ writer \in {"attached", "none"}
    /\ told \in Nat /\ safe \in Nat
    /\ target \in Maybe(File) /\ aside \in Maybe(File)
    /\ tmp \in [Thread -> Maybe(File)]
    /\ step \in {"idle", "write", "rename", "clear", "move", "promote", "tidy"}
    /\ by \in Thread
    /\ dirs \subseteq [target : Maybe(File), aside : Maybe(File)]

-----------------------------------------------------------------------------
(* Reading.                                                                *)

\* File::create and the first bytes; nothing is synced.
Begun(v) == Content(v, 0, "bad")

\* Mutant of Staged: write_staged without its sync_data.
StagedUnsynced(v) == Content(v, 0, "whole")

\* write_staged, once f.sync_data() has returned.
Staged(v) == Content(v, v, "whole")

\* next_record: an unterminated tail is ignored, a malformed complete line
\* makes the log Invalid.
Held(f) == IF f # None /\ f.shape # "bad" THEN f.upto ELSE 0

\* open_wal_file
Opened(t, a) == IF t # None THEN t ELSE a

Reader == Held(Opened(target, aside))

\* A record written after a torn one completes a malformed line.
Grown(f, v) ==
    IF f.shape = "whole" THEN Content(v, f.durable, "whole")
    ELSE Content(f.upto, f.durable, "bad")

\* A record cut short.
Torn(f) == Content(f.upto, f.durable, "torn")

Synced(f) == Content(f.upto, f.upto, f.shape)

\* The file the writer holds open changes under every directory that names it.
Rewritten(f) ==
    {Dir(IF d.target = target THEN f ELSE d.target, d.aside) : d \in dirs}

Lost(f) ==
    IF f = None THEN {None}
    ELSE IF f.durable = 0 THEN {Begun(f.upto)}
    ELSE {Content(u, u, sh) : u \in f.durable..f.upto, sh \in {f.shape, "torn"}}

\* What a power loss may leave: any directory since the last fsync of it.
Leavings == UNION {[target : Lost(d.target), aside : Lost(d.aside)] : d \in dirs}

-----------------------------------------------------------------------------
(* The live writer: appends and fsyncs.                                    *)

Live == phase = "open" /\ writer = "attached" /\ step = "idle"

Append ==
    /\ Live
    /\ told < MaxTold
    /\ told' = told + 1
    /\ target' = Grown(target, told + 1)
    /\ dirs' = Rewritten(target')
    /\ UNCHANGED <<phase, writer, safe, aside, tmp, step, by>>

\* wal_commit drops the writer of a failed append.
AppendFails ==
    /\ Live
    /\ told < MaxTold
    /\ told' = told + 1
    /\ target' \in {target, Torn(target)}
    /\ dirs' = Rewritten(target')
    /\ writer' = "none"
    /\ UNCHANGED <<phase, safe, aside, tmp, step, by>>

\* wal_policy_tick: sync_data off the workspace lock.
Sync ==
    /\ Live
    /\ target' = Synced(target)
    /\ dirs' = Rewritten(target')
    /\ safe' = target.upto
    /\ UNCHANGED <<phase, writer, told, aside, tmp, step, by>>

-----------------------------------------------------------------------------
(* Rewriting: create, reset, snapshot (write_fresh), and the compaction the *)
(* policy thread stages.                                                   *)

\* An error drops the writer; the temporary file may stay behind.
Fail ==
    /\ step' = "idle"
    /\ writer' = "none"
    /\ UNCHANGED <<phase, told, safe, target, aside, by, dirs>>

Moved(t, a) ==
    /\ target' = t
    /\ aside' = a
    /\ dirs' = dirs \cup {Dir(t, a)}

Discarded(th) == [tmp EXCEPT ![th] = None]

BeginRewrite ==
    /\ phase = "open"
    /\ step = "idle"
    /\ told < MaxTold
    /\ told' = told + 1
    /\ tmp' = [tmp EXCEPT !["live"] = Begun(told + 1)]
    /\ step' = "write"
    /\ UNCHANGED <<phase, writer, safe, target, aside, by, dirs>>

WriteStaged ==
    /\ step = "write"
    /\ \/ /\ tmp' = [tmp EXCEPT !["live"] = Staged(@.upto)]
          /\ step' = "rename"
          /\ by' = "live"
          /\ UNCHANGED <<phase, writer, told, safe, target, aside, dirs>>
       \/ Fail /\ UNCHANGED tmp

\* WalCompactionPlan::stage, while the live writer goes on appending.
StageBegin ==
    /\ Live
    /\ tmp["policy"] = None
    /\ tmp' = [tmp EXCEPT !["policy"] = Begun(told)]
    /\ UNCHANGED <<phase, writer, told, safe, target, aside, step, by, dirs>>

StageEnd ==
    /\ tmp["policy"] # None
    /\ tmp["policy"].shape = "bad"
    /\ tmp' = [tmp EXCEPT !["policy"] = Staged(@.upto)]
    /\ UNCHANGED <<phase, writer, told, safe, target, aside, step, by, dirs>>

\* Mutant of Unmoved: what was committed while staging is not looked at.
UnmovedAlways == TRUE

\* Nothing was told since: the session's revision and the header are the staged
\* ones.  (A tab parked and focused meanwhile also passes; see CrashLog.)
Unmoved == tmp["policy"].upto = told

InstallBegin ==
    /\ Live
    /\ tmp["policy"] # None
    /\ tmp["policy"].shape = "whole"
    /\ Unmoved
    /\ step' = "rename"
    /\ by' = "policy"
    /\ UNCHANGED <<phase, writer, told, safe, target, aside, tmp, dirs>>

\* staged.cleanup(); the writer goes too if the stage could not be written, or
\* was written for another header.
StageDropped ==
    /\ step = "idle"
    /\ tmp["policy"] # None
    /\ tmp' = Discarded("policy")
    /\ writer' \in {writer, "none"}
    /\ UNCHANGED <<phase, told, safe, target, aside, step, by, dirs>>

\* install_staged
Rename ==
    /\ step = "rename"
    /\ \/ /\ Moved(tmp[by], aside)
          /\ tmp' = Discarded(by)
          /\ step' = "tidy"
       \/ /\ step' = IF target # None THEN "clear" ELSE "promote"
          /\ UNCHANGED <<target, aside, tmp, dirs>>
    /\ UNCHANGED <<phase, writer, told, safe, by>>

\* rename_via_aside: drop a stale aside, if that can be done ...
ClearAside ==
    /\ step = "clear"
    /\ \E a \in {aside, None} : Moved(target, a)
    /\ step' = "move"
    /\ UNCHANGED <<phase, writer, told, safe, tmp, by>>

\* Mutant of SetAside: the old log is deleted instead.
SetAsideDeleted == Moved(None, None)

SetAside == Moved(None, target)

\* ... move the log aside ...
MoveAside ==
    /\ step = "move"
    /\ \/ /\ SetAside
          /\ step' = "promote"
          /\ UNCHANGED <<phase, writer, told, safe, tmp, by>>
       \/ Fail /\ tmp' = Discarded(by)

\* ... and rename the temporary file into place.
Promote ==
    /\ step = "promote"
    /\ \/ /\ Moved(tmp[by], aside)
          /\ tmp' = Discarded(by)
          /\ step' = "tidy"
          /\ UNCHANGED <<phase, writer, told, safe, by>>
       \/ Fail /\ tmp' = Discarded(by)

\* The aside copy is dropped if it can be, the directory fsynced, the log
\* reopened for appending.
Tidy ==
    /\ step = "tidy"
    /\ aside' \in {aside, None}
    /\ dirs' = {Dir(target, aside')}
    /\ safe' = target.upto
    /\ step' = "idle"
    /\ writer' \in {"attached", "none"}
    /\ UNCHANGED <<phase, told, target, tmp, by>>

-----------------------------------------------------------------------------
(* Opening, deleting, failing.                                             *)

\* The writer is created, or not, by BeginRewrite.
Open ==
    /\ phase # "open"
    /\ phase' = "open"
    /\ UNCHANGED <<writer, told, safe, target, aside, tmp, step, by, dirs>>

\* A stale or invalid log, or one the user discards.
Delete ==
    /\ phase = "open"
    /\ writer = "none"
    /\ step = "idle"
    /\ Moved(None, aside)
    /\ safe' = 0
    /\ UNCHANGED <<phase, writer, told, tmp, step, by>>

\* close_tab, and cleanup_wal_files of a clean session.
Close ==
    /\ phase = "open"
    /\ step = "idle"
    /\ phase' = "closed"
    /\ writer' = "none"
    /\ Moved(None, aside)
    /\ safe' = 0
    /\ UNCHANGED <<told, tmp, step, by>>

Gone ==
    /\ phase' = "gone"
    /\ writer' = "none"
    /\ step' = "idle"
    /\ tmp' = [th \in Thread |-> None]     \* left under names nobody reads
    /\ UNCHANGED <<told, safe, by>>

Crash ==
    /\ phase = "open"
    /\ \/ UNCHANGED <<target, dirs>>
       \/ /\ Live                         \* in the middle of an append
          /\ target' = Torn(target)
          /\ dirs' = Rewritten(target')
    /\ Gone
    /\ UNCHANGED aside

PowerLoss ==
    /\ \E d \in Leavings :
          /\ target' = d.target
          /\ aside' = d.aside
          /\ dirs' = {d}
    /\ Gone

-----------------------------------------------------------------------------
Init ==
    /\ phase = "closed"
    /\ writer = "none"
    /\ told = 0 /\ safe = 0
    /\ target = None /\ aside = None
    /\ tmp = [th \in Thread |-> None]
    /\ step = "idle"
    /\ by = "live"
    /\ dirs = {Dir(None, None)}

Next ==
    \/ Append \/ AppendFails \/ Sync
    \/ BeginRewrite \/ WriteStaged
    \/ StageBegin \/ StageEnd \/ InstallBegin \/ StageDropped
    \/ Rename \/ ClearAside \/ MoveAside \/ Promote \/ Tidy
    \/ Open \/ Delete \/ Close \/ Crash \/ PowerLoss

Spec == Init /\ [][Next]_vars

-----------------------------------------------------------------------------
(* Properties.                                                             *)

\* wal.rs: "Every record is written and flushed to the OS on commit, so it
\* survives a process crash": while a writer is attached and no rewrite is
\* running, a reader finds everything that was committed.
CommittedIsRead == Live => Reader = told

\* DATA_INTEGRITY.md: what an fsync or a finished rewrite has made durable is
\* still there after a power loss at any file operation.
SyncedSurvives == \A d \in Leavings : safe <= Held(Opened(d.target, d.aside))

\* "A crash leaves either the old or the new complete log on disk": the files
\* behave as one log that only ever moves forward, unless it is deleted.
Atomic == INSTANCE AtomicLog WITH log <- Reader

LogIsAtomic == Atomic!Spec

\* tabs.rs: "Closing a tab is a graceful discard of its unsaved edits ...: its
\* crash log goes with it".  The next open finds no log.
ClosedLeavesNothing == phase = "closed" => Reader = 0
=============================================================================
