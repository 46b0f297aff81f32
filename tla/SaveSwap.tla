------------------------------ MODULE SaveSwap ------------------------------
(***************************************************************************)
(* The files of an in-place save (serve/edit.rs): a stage is streamed with   *)
(* no lock held, the snapshot and the file on disk are checked again under   *)
(* the transition lock, the file is renamed to an aside name and the stage   *)
(* over it.  Other programs write the file when they like, and the process   *)
(* may die between any two file operations.                                 *)
(*                                                                         *)
(* A version is what one write put together: the bytes of a save, or        *)
(* another program's file.  It stands for what DiskState compares (identity, *)
(* length, modification time).  Stages and asides have unique names, so     *)
(* each is known by the version it holds.  One save is in flight at a time. *)
(* Power loss is left to WalFile, what the crash log holds to CrashLog.      *)
(***************************************************************************)
EXTENDS Naturals

CONSTANTS
    None,          \* no such file
    MaxVersion     \* bound: saves and external writes

ASSUME MaxVersionAssumption == MaxVersion \in Nat
ASSUME NoneAssumption == None \notin Nat

VARIABLES
    target,    \* the file
    stages,    \* .name.ayame-overwrite.*.tmp
    asides,    \* .name.ayame-prev-*.tmp
    written,   \* versions made so far
    up,        \* the file is open in a tab
    loading,   \* the document being opened or reloaded, not yet installed
    baseline,  \* disk_baseline
    tracked,   \* aside_files
    step,      \* where the save is
    snap,      \* the version it makes
    forced,    \* the user chose to overwrite
    raced,     \* the revision or the document moved since the snapshot
    moved,     \* aside_used
    theirs,    \* versions other programs wrote
    known,     \* versions the session read, or was told to overwrite
    missed,    \* external versions that landed while nobody looked
    lost,      \* versions whose last copy this program removed
    current    \* the version last found under the file's name

files == <<target, stages, asides>>
session == <<up, loading, baseline, tracked>>
save == <<step, snap, forced, raced, moved>>
ghosts == <<theirs, known, missed, lost, current>>
vars == <<files, written, session, save, ghosts>>

Versions == 0..MaxVersion

TypeOK ==
    /\ target \in Versions \cup {None}
    /\ stages \subseteq Versions /\ asides \subseteq Versions
    /\ written \in Versions
    /\ up \in BOOLEAN
    /\ loading \in Versions \cup {None}
    /\ baseline \in Versions \cup {None}
    /\ tracked \subseteq asides
    /\ step \in {"idle", "streaming", "staged", "confirmed", "moved", "swapped"}
    /\ snap \in Versions /\ forced \in BOOLEAN /\ raced \in BOOLEAN
    /\ moved \in Versions \cup {None}
    /\ theirs \subseteq Versions /\ known \subseteq Versions
    /\ missed \subseteq theirs /\ lost \subseteq Versions
    /\ current \in Versions \cup {None}

-----------------------------------------------------------------------------
(* The directory.                                                          *)

Held(t, s, a) == ({t} \ {None}) \cup s \cup a

\* What this program does to the directory.
Files(t, s, a) ==
    /\ target' = t
    /\ stages' = s
    /\ asides' = a
    /\ lost' = lost \cup (Held(target, stages, asides) \ Held(t, s, a))
    /\ current' = IF t # None THEN t ELSE current

Untouched == UNCHANGED <<files, lost, current>>

\* commit_in_place_save: the asides that can be removed go, the others stay
\* tracked.
RemoveAsides(a) == \E left \in SUBSET a :
    /\ Files(target, stages, (asides \ a) \cup left)
    /\ tracked' = left

\* Everywhere else what cannot be removed is left to the next open.
DropAsides(a) ==
    /\ \E left \in SUBSET a : Files(target, stages, (asides \ a) \cup left)
    /\ tracked' = {}

\* disk_changed: a session with no baseline asks nothing.
DiskChanged == baseline # None /\ target # baseline

Fresh == written < MaxVersion /\ written' = written + 1

\* Past its check, and the result not yet the session's baseline.
Swapping == step \in {"confirmed", "moved", "swapped"}

\* The transition lock is taken.
Locked == Swapping \/ loading # None

\* A write that lands now is adopted or removed unseen.
Unwatched == Locked \/ (up /\ baseline = None)

\* Another program writes the file, in place or by renaming over it, or
\* removes it.
External ==
    /\ \/ /\ Fresh
          /\ target' = written' /\ current' = written'
          /\ theirs' = theirs \cup {written'}
          /\ missed' = IF Unwatched THEN missed \cup {written'} ELSE missed
       \/ /\ target # None
          /\ target' = None /\ current' = None
          /\ UNCHANGED <<written, theirs, missed>>
    /\ UNCHANGED <<stages, asides, session, save, known, lost>>

-----------------------------------------------------------------------------
(* The session.                                                            *)

Edit ==
    /\ up
    /\ raced' = TRUE
    /\ UNCHANGED <<files, written, session, step, snap, forced, moved, ghosts>>

\* open_path: the asides are swept, then the file is opened if it is there.
Open ==
    /\ ~up
    /\ loading = None
    /\ DropAsides(asides)
    /\ loading' = target
    /\ UNCHANGED <<written, up, baseline, save, theirs, known, missed>>

\* reload: the file is opened again under the transition lock.
Reload ==
    /\ up
    /\ ~Locked
    /\ target # None
    /\ loading' = target
    /\ Untouched
    /\ UNCHANGED <<written, up, baseline, tracked, save, theirs, known, missed>>

\* set_doc: the baseline is read from the path, not from what was opened.
Install ==
    /\ loading # None
    /\ up' = TRUE
    /\ loading' = None
    /\ baseline' = target
    /\ known' = known \cup {loading}
    /\ raced' = TRUE
    /\ DropAsides(tracked)
    /\ UNCHANGED <<written, step, snap, forced, moved, theirs, missed>>

\* api_edit_save
SaveBegin ==
    /\ up
    /\ step = "idle"
    /\ Fresh
    /\ \E f \in BOOLEAN : (f \/ ~DiskChanged) /\ forced' = f
    /\ step' = "streaming"
    /\ snap' = written'
    /\ raced' = FALSE
    /\ UNCHANGED <<files, session, moved, ghosts>>

\* save_to_path onto the stage, or its error.
Stream ==
    /\ step = "streaming"
    /\ \/ step' = "staged" /\ Files(target, stages \cup {snap}, asides)
       \/ step' = "idle" /\ Untouched
    /\ UNCHANGED <<written, session, snap, forced, raced, moved, theirs, known, missed>>

\* Mutant of Committable: the disk is only looked at before the streaming.
CommittableUnasked == ~raced

\* confirm_overwrite and confirm_disk_unchanged, under the transition lock.
Committable == ~raced /\ (forced \/ ~DiskChanged)

Confirm ==
    /\ step = "staged"
    /\ ~Locked
    /\ Committable
    /\ step' = "confirmed"
    /\ known' = IF forced THEN known \cup ({target} \ {None}) ELSE known
    /\ Untouched
    /\ UNCHANGED <<written, session, snap, forced, raced, moved, theirs, missed>>

\* 409: the stage is discarded.
Conflict ==
    /\ step = "staged"
    /\ ~Locked
    /\ ~Committable
    /\ step' = "idle"
    /\ Files(target, stages \ {snap}, asides)
    /\ UNCHANGED <<written, session, snap, forced, raced, moved, theirs, known, missed>>

-----------------------------------------------------------------------------
(* swap_in_staged_file and commit_in_place_save.                           *)

\* An error keeps the stage and forgets the aside.
SwapFails == step' = "idle" /\ moved' = None

\* Mutant of SetAside: the old file is removed to make room.
SetAsideRemoved == Files(None, stages, asides)

\* rename(target, aside); the file may have vanished.
SetAside == Files(None, stages, asides \cup ({target} \ {None}))

MoveAside ==
    /\ step = "confirmed"
    /\ \/ SetAside /\ step' = "moved" /\ moved' = target
       \/ SwapFails /\ Untouched
    /\ UNCHANGED <<written, session, snap, forced, raced, theirs, known, missed>>

\* The old file is put back over whatever is there, if that can be done.
PutBack ==
    \/ moved # None /\ Files(moved, stages, asides \ {moved})
    \/ Untouched

\* rename(stage, target)
Promote ==
    /\ step = "moved"
    /\ \/ /\ Files(snap, stages \ {snap}, asides)
          /\ step' = "swapped"
          /\ UNCHANGED moved
       \/ PutBack /\ SwapFails
    /\ UNCHANGED <<written, session, snap, forced, raced, theirs, known, missed>>

Commit ==
    /\ step = "swapped"
    /\ step' = "idle"
    /\ moved' = None
    /\ baseline' = target
    /\ RemoveAsides(tracked \cup ({moved} \ {None}))
    /\ UNCHANGED <<written, up, loading, snap, forced, raced, theirs, known, missed>>

-----------------------------------------------------------------------------
(* Ending.                                                                 *)

\* The tab is closed; a save that still streams will find it gone.
Close ==
    /\ up
    /\ ~Locked
    /\ up' = FALSE
    /\ baseline' = None
    /\ raced' = TRUE
    /\ DropAsides(tracked)
    /\ UNCHANGED <<written, loading, step, snap, forced, moved, theirs, known, missed>>

Crash ==
    /\ up' = FALSE
    /\ loading' = None
    /\ baseline' = None
    /\ tracked' = {}
    /\ step' = "idle"
    /\ moved' = None
    /\ UNCHANGED <<files, written, snap, forced, raced, ghosts>>

-----------------------------------------------------------------------------
Init ==
    /\ target = 0 /\ stages = {} /\ asides = {}
    /\ written = 0
    /\ up = FALSE /\ loading = None /\ baseline = None /\ tracked = {}
    /\ step = "idle"
    /\ snap = 0 /\ forced = FALSE /\ raced = FALSE
    /\ moved = None
    /\ theirs = {} /\ known = {} /\ missed = {} /\ lost = {}
    /\ current = 0

Next ==
    \/ External
    \/ Edit \/ Open \/ Reload \/ Install
    \/ SaveBegin \/ Stream \/ Confirm \/ Conflict
    \/ MoveAside \/ Promote \/ Commit
    \/ Close \/ Crash

Spec == Init /\ [][Next]_vars

-----------------------------------------------------------------------------
(* Properties.                                                             *)

\* DATA_INTEGRITY.md guarantee 5, "no crash corrupts the original file": what
\* was last found under the file's name, and nobody else removed, is still
\* there or under an aside name (edit.rs 498-522, workspace.rs 490-505).
FileThere == current # None => current \in {target} \cup asides

\* swap_in_staged_file: "On failure target is restored where possible and the
\* stage file is KEPT".  While the file is open no step of a save, a reload, a
\* close or a crash loses the file, nor the bytes of a save past its check.
SwapLosesNothing ==
    [][up => /\ FileThere => FileThere'
             /\ step \in {"confirmed", "moved"} => snap \in {target'} \cup stages']_vars

\* #163, confirm_disk_unchanged: what another program wrote is never removed
\* unless the session had read it or the user chose to overwrite it.  Excepted is
\* what landed while nobody looked: during a swap or a load, whose baseline is
\* read from the path afterwards, or in a session left without a baseline.
NothingBuried == lost \cap theirs \subseteq known \cup missed
=============================================================================
