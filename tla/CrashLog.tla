------------------------------ MODULE CrashLog ------------------------------
(***************************************************************************)
(* One open file: its edit session, the crash log that mirrors it           *)
(* (WalWriter, attached to the session), and the in-place save, the         *)
(* background compaction, the crashes and the recovery that meet there.     *)
(*                                                                         *)
(* The file on disk is an identity and a content: [ver, view].  An identity *)
(* stands for the header fields (length, mtime, encoding) that name the     *)
(* bytes; every save makes a new one.  The log on disk is kept as what a     *)
(* reader would make of it: the header, whether it holds transactions, and  *)
(* `replay', the session that replaying it produces.  Appending a record     *)
(* applies one more operation to `replay', because replay runs the records  *)
(* in order through the session's own methods.                              *)
(***************************************************************************)
EXTENDS EditHistory

CONSTANTS
    None,          \* no log, no writer, no save in flight, nothing staged
    MaxGen,        \* bound: content generations one session may allocate
    MaxVer         \* bound: in-place saves of the file

ASSUME BoundsAssumption == MaxGen \in Nat /\ MaxVer \in Nat

VARIABLES
    up,        \* the file is open in a running process
    file,      \* the file on disk
    doc,       \* the mapped Document; an in-place save does not remap it
    session,   \* the live EditSession
    writer,    \* the attached WalWriter
    log,       \* the log at wal_path_for(file)
    save,      \* the in-place save in flight
    staged,    \* the compacted log the policy thread has staged
    pending    \* Workspace::recoverable: a recovery the user must decide on

vars == <<up, file, doc, session, writer, log, save, staged, pending>>

FileState == [ver : Nat, view : Contents]

Writer == [header : FileState, replay_undo : Nat, replay_redo : Nat,
           base_gen : Nat, rebase : Contents \cup {None}]

Log(V) == [header : FileState, txns : BOOLEAN, effective : BOOLEAN,
           replay : Session(V)]

Save == [phase : {"streaming", "confirmed", "swapped"},
         view : Contents, gen : Nat, raced : BOOLEAN]

Staged == [header : FileState, view : Views, on : Contents,
           dirty : BOOLEAN, raced : BOOLEAN]

ASSUME NoneAssumption == None \notin Writer \cup Log(Views) \cup Save \cup Staged

TypeOK ==
    /\ up \in BOOLEAN
    /\ file \in FileState
    /\ doc \in FileState
    /\ session \in Session(Views)
    /\ writer \in Writer \cup {None}
    /\ log \in Log(Views) \cup {None}
    /\ save \in Save \cup {None}
    /\ staged \in Staged \cup {None}
    /\ pending \in BOOLEAN

-----------------------------------------------------------------------------
(* The log on disk.                                                        *)

\* write_fresh without an overlay.
HeaderLog(f) ==
    [header |-> f, txns |-> FALSE, effective |-> FALSE, replay |-> Fresh(f.view)]

\* An overlay that shows `view' over a base reading `on', laid over f instead.
\* Its anchors are lines of `on'; only an empty overlay means the same anywhere.
LaidOver(f, view, on) ==
    IF on = f.view THEN view ELSE IF view = on THEN f.view ELSE Corrupt

\* Mutant of SnapshotLog: any snapshot counts as something to recover.
SnapshotLogEffective(f, view, on, dirty) ==
    [header |-> f, txns |-> FALSE, effective |-> TRUE,
     replay |-> Restored(LaidOver(f, view, on), dirty)]

\* write_fresh with an overlay; OverlaySnapshot::is_effective.
SnapshotLog(f, view, on, dirty) ==
    [header |-> f, txns |-> FALSE, effective |-> dirty \/ view # on,
     replay |-> Restored(LaidOver(f, view, on), dirty)]

\* apply: a transaction is logged in coordinates of the view it was made on.
\* Replayed on another view it lands on the wrong lines.
Replayed(op, s, from, to) ==
    CASE op = "edit" -> Changed(s, IF s.view = from THEN to ELSE Corrupt)
      [] op = "undo" -> IF s.undo = <<>> THEN s ELSE Undone(s)   \* returns false
      [] op = "redo" -> IF s.redo = <<>> THEN s ELSE Redone(s)

\* log: the record reaches the OS before the operation returns.
Appended(l, op, from, to) ==
    [header |-> l.header, txns |-> TRUE, effective |-> l.effective,
     replay |-> Replayed(op, l.replay, from, to)]

\* inspect, for a log whose records all parse.
Inspect(l, f) ==
    IF l = None THEN "clean"
    ELSE IF l.header # f THEN "stale"
    ELSE IF l.txns \/ l.effective THEN "recoverable" ELSE "clean"

\* The view a restart would offer.
RecoveredView(l, f) == IF Inspect(l, f) = "recoverable" THEN l.replay.view ELSE f.view

-----------------------------------------------------------------------------
(* The writer.                                                             *)

\* WalWriter::create
NewWriter(f) ==
    [header |-> f, replay_undo |-> 0, replay_redo |-> 0, base_gen |-> 0, rebase |-> None]

Capped(n) == IF n < HistoryLimit THEN n ELSE HistoryLimit

\* can_replay
CanReplay(w, op) ==
    CASE op = "undo" -> w.replay_undo > 0
      [] op = "redo" -> w.replay_redo > 0
      [] OTHER -> TRUE

Counts(w, undo, redo) ==
    [header |-> w.header, replay_undo |-> undo, replay_redo |-> redo,
     base_gen |-> w.base_gen, rebase |-> w.rebase]

\* Mutant of Counted: the depths grow past HISTORY_LIMIT.
CountedUncapped(w, op) ==
    CASE op = "undo" -> Counts(w, w.replay_undo - 1, w.replay_redo + 1)
      [] op = "redo" -> Counts(w, w.replay_undo + 1, w.replay_redo - 1)
      [] OTHER -> Counts(w, w.replay_undo + 1, 0)

\* The stack depths log() expects of a replaying session.
Counted(w, op) ==
    CASE op = "undo" -> Counts(w, w.replay_undo - 1, Capped(w.replay_redo + 1))
      [] op = "redo" -> Counts(w, Capped(w.replay_undo + 1), w.replay_redo - 1)
      [] OTHER -> Counts(w, Capped(w.replay_undo + 1), 0)

Rewound(w) == Counts(w, 0, 0)

\* Mutant of AnchorBase: anchors are written verbatim after a save, too.
AnchorBaseVerbatim(w, d) == d.view

\* overlay_for: the base a snapshot's anchors refer to.  Verbatim they are
\* lines of the mapped document d; re-anchored, of what the save wrote.
AnchorBase(w, d) == IF w.base_gen = 0 THEN d.view ELSE w.rebase

\* snapshot: what the writer's log becomes.
SnapshotOf(w, d, s) == SnapshotLog(w.header, s.view, AnchorBase(w, d), IsDirty(s))

\* reset_for_save: `saved' is what the save wrote over the mapped document.
ResetForSave(w, f, saved) ==
    [header |-> f, replay_undo |-> 0, replay_redo |-> 0,
     base_gen |-> w.base_gen + 1, rebase |-> saved]

\* A rewrite that fails drops the writer; its rename may already have happened.
RewriteFails(new) ==
    /\ writer' = None
    /\ log' \in {log, new}

\* wal_commit, after the session became s by op.
WalCommit(op, s) ==
    \/ /\ writer = None
       /\ UNCHANGED <<writer, log>>
    \/ /\ writer # None
       /\ CanReplay(writer, op)
       /\ writer' = Counted(writer, op)
       /\ log' = Appended(log, op, session.view, s.view)
    \/ /\ writer # None
       /\ CanReplay(writer, op)
       /\ writer' = None           \* the append failed; its torn tail is not read
       /\ UNCHANGED log
    \/ /\ writer # None
       /\ ~CanReplay(writer, op)
       /\ writer' = Rewound(writer)
       /\ log' = SnapshotOf(writer, doc, s)
    \/ /\ writer # None
       /\ ~CanReplay(writer, op)
       /\ RewriteFails(SnapshotOf(writer, doc, s))

\* What the log of a newly attached writer becomes: wal_compact leaves a clean
\* session's log at its header.
AttachedLog(s) ==
    IF IsDirty(s) THEN SnapshotOf(NewWriter(file), doc', s) ELSE HeaderLog(file)

\* attach_live_wal, for the session s that becomes live over doc'.
AttachLive(s, undecided) ==
    \/ /\ undecided
       /\ writer' = None
       /\ UNCHANGED log
    \/ /\ ~undecided
       /\ writer' = NewWriter(file)
       /\ log' = AttachedLog(s)
    \/ /\ ~undecided               \* the header or the snapshot was not written
       /\ writer' = None
       /\ log' \in {log, HeaderLog(file), AttachedLog(s)}

-----------------------------------------------------------------------------
(* Editing.  Edits take the workspace lock but not `transitions': they may  *)
(* land between any two steps of a save or a compaction.                    *)

\* Mutant of Raced: the revision is not compared.
RacedUnseen(x) == x

\* The bumped revision is what a save and a compaction compare later.
Raced(x) == IF x = None THEN None ELSE [x EXCEPT !.raced = TRUE]

Step(op, s) ==
    /\ up
    /\ session' = s
    /\ WalCommit(op, s)
    /\ save' = Raced(save)
    /\ staged' = Raced(staged)
    /\ UNCHANGED <<up, file, doc, pending>>

Edit ==
    /\ session.next_gen < MaxGen
    /\ \E v \in Contents \ {session.view} : Step("edit", Changed(session, v))

Undo == session.undo # <<>> /\ Step("undo", Undone(session))

Redo == session.redo # <<>> /\ Step("redo", Redone(session))

-----------------------------------------------------------------------------
(* In-place save: stream a snapshot, confirm it is still current, swap the  *)
(* files, commit.  Confirm to commit runs under `transitions'.              *)

\* No save holds `transitions'.
TransitionsFree == save # None => save.phase = "streaming"

SaveBegin ==
    /\ up
    /\ save = None
    /\ file.ver < MaxVer
    /\ save' = [phase |-> "streaming", view |-> session.view,
                gen |-> session.content_gen, raced |-> FALSE]
    /\ UNCHANGED <<up, file, doc, session, writer, log, staged, pending>>

\* confirm_overwrite
SaveConfirm ==
    /\ save # None
    /\ save.phase = "streaming"
    /\ ~save.raced
    /\ save' = [save EXCEPT !.phase = "confirmed"]
    /\ UNCHANGED <<up, file, doc, session, writer, log, staged, pending>>

\* 409 on a stale snapshot, or an I/O error before the target is replaced.
SaveAbort ==
    /\ save # None
    /\ save.phase # "swapped"
    /\ save' = None
    /\ UNCHANGED <<up, file, doc, session, writer, log, staged, pending>>

\* swap_in_staged_file
SaveSwap ==
    /\ save # None
    /\ save.phase = "confirmed"
    /\ save' = [save EXCEPT !.phase = "swapped"]
    /\ file' = [ver |-> file.ver + 1, view |-> save.view]
    /\ UNCHANGED <<up, doc, session, writer, log, staged, pending>>

\* Mutant of CommittedLog: the edit that raced the swap is not snapshotted.
CommittedLogBare(s) == HeaderLog(file)

\* The log after the save-time reset: an edit that raced the swap
\* is snapshotted at once against what was saved.
CommittedLog(s) ==
    LET w == ResetForSave(writer, file, save.view)
    IN  IF save.raced /\ IsDirty(s) THEN SnapshotOf(w, doc, s) ELSE HeaderLog(file)

\* commit_in_place_save
SaveCommit ==
    /\ save # None
    /\ save.phase = "swapped"
    /\ save' = None
    /\ session' = MarkedSaved(session, save.gen)
    /\ \/ /\ writer = None
          /\ UNCHANGED <<writer, log>>
       \/ /\ writer # None
          /\ writer' = ResetForSave(writer, file, save.view)
          /\ log' = CommittedLog(session')
       \/ /\ writer # None
          /\ writer' = None
          /\ log' \in {log, HeaderLog(file), CommittedLog(session')}
    /\ UNCHANGED <<up, file, doc, staged, pending>>

-----------------------------------------------------------------------------
(* The policy thread: fsync, and compaction staged off the workspace lock.  *)

\* A failed fsync of the live log.
SyncFails ==
    /\ writer # None
    /\ writer' = None
    /\ UNCHANGED <<up, file, doc, session, log, save, staged, pending>>

StageCompaction ==
    /\ writer # None
    /\ staged = None
    /\ staged' = [header |-> writer.header, view |-> session.view,
                  on |-> AnchorBase(writer, doc), dirty |-> IsDirty(session),
                  raced |-> FALSE]
    /\ UNCHANGED <<up, file, doc, session, writer, log, save, pending>>

\* wal_install_compaction, when document and revision are still the staged ones.
InstallCompaction ==
    /\ staged # None
    /\ staged' = None
    /\ \/ /\ staged.raced \/ writer = None           \* staged.cleanup()
          /\ UNCHANGED <<writer, log>>
       \/ /\ ~staged.raced
          /\ writer # None
          /\ staged.header # writer.header           \* a save moved the header
          /\ writer' = None
          /\ UNCHANGED log
       \/ /\ ~staged.raced
          /\ writer # None
          /\ staged.header = writer.header
          /\ LET new == SnapshotLog(staged.header, staged.view, staged.on, staged.dirty)
             IN  \/ writer' = Rewound(writer) /\ log' = new
                 \/ RewriteFails(new)
    /\ UNCHANGED <<up, file, doc, session, save, pending>>

-----------------------------------------------------------------------------
(* Transitions of the document slot.                                       *)

\* Another tab takes the live slot and this one comes back: park_active drops
\* the writer, focus_tab attaches a new one.
Refocus ==
    /\ up
    /\ TransitionsFree
    /\ UNCHANGED <<up, file, doc, session, save, staged, pending>>
    /\ AttachLive(session, pending)

\* reload with reset_edits: revert, reopen.  The old document's save and
\* compaction find another document.
Reload ==
    /\ up
    /\ TransitionsFree
    /\ doc' = file
    /\ session' = Fresh(file.view)
    /\ save' = Raced(save)
    /\ staged' = Raced(staged)
    /\ AttachLive(session', pending)
    /\ UNCHANGED <<up, file, pending>>

\* The process, or the tab, is gone; session and doc only hold placeholders.
Gone ==
    /\ up' = FALSE
    /\ session' = Fresh(file.view)
    /\ doc' = file
    /\ writer' = None
    /\ save' = None
    /\ staged' = None
    /\ pending' = FALSE
    /\ UNCHANGED file

\* close_tab deletes the log unless a recovery is undecided.
Close ==
    /\ up
    /\ TransitionsFree
    /\ log' = IF pending THEN log ELSE None
    /\ Gone

\* cleanup_wal_files on a graceful shutdown.
Shutdown ==
    /\ up
    /\ log' = IF IsDirty(session) \/ pending THEN log ELSE None
    /\ Gone

Crash ==
    /\ up
    /\ UNCHANGED log
    /\ Gone

\* A crash inside attach_live_wal or recover_wal: WalWriter::create has
\* rewritten the log to its header, the snapshot is not written yet.
CrashInAttach ==
    /\ up
    /\ TransitionsFree
    /\ IF pending THEN Inspect(log, file) = "recoverable" ELSE IsDirty(session)
    /\ log' = HeaderLog(file)
    /\ Gone

-----------------------------------------------------------------------------
(* Opening and recovering.                                                 *)

\* wal_prepare_for_open: a recoverable log is left alone, a stale one deleted.
Open ==
    /\ ~up
    /\ up' = TRUE
    /\ doc' = file
    /\ session' = Fresh(file.view)
    /\ \/ /\ Inspect(log, file) = "recoverable"
          /\ pending' = TRUE
          /\ UNCHANGED <<writer, log>>
       \/ /\ Inspect(log, file) # "recoverable"
          /\ pending' = FALSE
          /\ \/ writer' = NewWriter(file) /\ log' = HeaderLog(file)
             \/ writer' = None /\ log' = IF Inspect(log, file) = "stale" THEN None ELSE log
    /\ UNCHANGED <<file, save, staged>>

\* recover_wal replays into a scratch session and re-arms the log, whatever
\* happens next; a log that no longer matches the file is refused.
Rearmed == IF IsDirty(log.replay) THEN SnapshotOf(NewWriter(file), doc, log.replay)
           ELSE HeaderLog(file)

Recover ==
    /\ up
    /\ pending
    /\ TransitionsFree
    /\ log # None
    /\ log.header = file
    /\ \/ /\ Untouched(session)
          /\ session' = log.replay
          /\ pending' = FALSE
          /\ save' = Raced(save)
          /\ \/ writer' = NewWriter(file) /\ log' = Rearmed
             \/ writer' = None /\ log' \in {log, HeaderLog(file), Rearmed}
       \/ /\ ~Untouched(session)                     \* 409: edits got there first
          /\ log' \in {log, HeaderLog(file), Rearmed}
          /\ UNCHANGED <<session, pending, save, writer>>
    /\ UNCHANGED <<up, file, doc, staged>>

\* {"discard": true}: the log is deleted, then logging starts.
Discard ==
    /\ up
    /\ pending
    /\ TransitionsFree
    /\ pending' = FALSE
    /\ UNCHANGED <<up, file, doc, session, save, staged>>
    /\ \/ writer' = NewWriter(file) /\ log' = AttachedLog(session)
       \/ writer' = None /\ log' \in {None, HeaderLog(file), AttachedLog(session)}

-----------------------------------------------------------------------------
Init ==
    /\ up = FALSE
    /\ file \in [ver : {0}, view : Contents]
    /\ doc = file
    /\ session = Fresh(file.view)
    /\ writer = None
    /\ log = None
    /\ save = None
    /\ staged = None
    /\ pending = FALSE

\* Whatever does not attach a writer to a session that is already editing.
Common ==
    \/ Edit \/ Undo \/ Redo
    \/ SaveBegin \/ SaveConfirm \/ SaveAbort \/ SaveSwap \/ SaveCommit
    \/ SyncFails \/ StageCompaction \/ InstallCompaction
    \/ Reload \/ Close \/ Shutdown \/ Crash \/ CrashInAttach
    \/ Open \/ Recover

\* A writer is attached only while the file is still the one that is mapped.
Next == Common \/ (doc = file /\ (Refocus \/ Discard))

\* The code also attaches after an in-place save, when it is not.
NextAttachAnywhere == Common \/ Refocus \/ Discard

Spec == Init /\ [][Next]_vars

SpecAttachAnywhere == Init /\ [][NextAttachAnywhere]_vars

-----------------------------------------------------------------------------
(* Properties.                                                             *)

\* The file is swapped, the save not yet committed.
Swapped == save # None /\ save.phase = "swapped"

\* "Crash recovery restores edits up to the last committed transaction"
\* (docs/DATA_INTEGRITY.md): whatever has been edited, undone, saved and
\* compacted, a restart would offer exactly the live view, and offers it
\* whenever it is unsaved.  Only an edit that raced the file swap is exempt.
RecoveryFaithful ==
    up /\ writer # None /\ ~(Swapped /\ save.raced) =>
        /\ RecoveredView(log, file) = session.view
        /\ IsDirty(session) /\ ~Swapped => Inspect(log, file) = "recoverable"

\* wal.rs: replay reproduces "the undo history for the suffix, and the
\* content_gen dirtiness semantics exactly".  A restored session undoes and
\* redoes through the views the live one would, and agrees on what is saved.
HistoryFaithful ==
    writer # None /\ ~Swapped =>
        /\ IsDirty(log.replay) <=> IsDirty(session)
        /\ \A i \in DOMAIN log.replay.undo :
              i \in DOMAIN session.undo /\ log.replay.undo[i].view = session.undo[i].view
        /\ \A i \in DOMAIN log.replay.redo :
              i \in DOMAIN session.redo /\ log.replay.redo[i].view = session.redo[i].view

\* The depths can_replay decides by are those of the replaying session; one too
\* many and a logged undo would silently do nothing on replay.
CountersExact ==
    writer # None =>
        /\ writer.replay_undo = Len(log.replay.undo)
        /\ writer.replay_redo = Len(log.replay.redo)

\* Anchors of one base are never applied to another: no log that still matches
\* the file restores a view nobody made, whether or not a writer is attached.
NoCorruptRestore ==
    log # None /\ log.header = file => log.replay.view # Corrupt

\* edit/mod.rs, is_dirty: a session that reads clean shows what is on disk, also
\* after undoing and redoing across saves, raced saves and recoveries.
CleanMeansSaved ==
    up /\ ~Swapped /\ ~IsDirty(session) => session.view = file.view

\* #5: when nothing was logged since the last reset and nothing is unsaved, the
\* next start does not offer a recovery.
NoFalseOffer ==
    writer # None /\ ~Swapped /\ ~log.txns /\ ~IsDirty(session) =>
        Inspect(log, file) = "clean"

\* Installing a compaction staged off the lock never changes what would be
\* recovered, whatever was edited, saved or reloaded while it was staged.
CompactionInvisible ==
    [][staged # None /\ staged' = None /\ up' =>
          RecoveredView(log', file') = RecoveredView(log, file)]_vars

\* DATA_INTEGRITY guarantee 5 without the exemption: every committed edit
\* survives a crash at any moment, the commit of a save included.
EditsSurviveCrash ==
    up /\ writer # None => RecoveredView(log, file) = session.view

\* wal_policy.rs: "a recoverable log is left untouched for the user's decision".
\* Until the recovered edits are installed or discarded, they stay recoverable.
UndecidedStaysRecoverable ==
    [][pending /\ (pending' \/ ~up') /\ file' = file =>
          RecoveredView(log', file') = RecoveredView(log, file)]_vars
=============================================================================
