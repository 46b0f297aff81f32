--------------------------- MODULE SaveSwapProofs ---------------------------
(***************************************************************************)
(* Proofs about SaveSwap, for any number of saves and external writes.      *)
(*                                                                         *)
(* The inductive invariant says where each version may be: a name holds a   *)
(* version no other name holds, what the program may yet remove has been    *)
(* seen (read, overwritten on purpose, or landed while nobody looked), and   *)
(* while the file is open it is under its name or an untracked aside.        *)
(***************************************************************************)
EXTENDS SaveSwap, TLAPS

Made == 0..written

Seen(v) == v \in theirs => v \in known \cup missed

MadeInv ==
    /\ target \in Made \cup {None} /\ moved \in Made \cup {None}
    /\ loading \in Made \cup {None} /\ baseline \in Made \cup {None}
    /\ stages \subseteq Made /\ asides \subseteq Made
    /\ snap \in Made
    /\ theirs \subseteq Made /\ lost \subseteq Made /\ known \subseteq Made

\* One name, one version; a stage holds nobody else's.
PlaceInv ==
    /\ target \notin stages \cup asides
    /\ stages \cap (asides \cup theirs) = {}
    /\ step # "idle" => snap \notin asides \cup theirs
    /\ step = "streaming" => snap # target /\ snap \notin stages
    /\ step \in {"staged", "confirmed", "moved"} => snap \in stages
    /\ step \in {"moved", "swapped"} => moved = None \/ moved \in asides \ tracked

PhaseInv ==
    /\ step \in {"confirmed", "moved", "swapped"} => up /\ loading = None
    /\ step # "idle" /\ ~up => raced

SeenInv ==
    /\ \A v \in asides \cup lost : Seen(v)
    /\ baseline # None => Seen(baseline)
    /\ Swapping \/ (up /\ baseline = None) => Seen(target)
    /\ loading # None /\ target # loading => Seen(target)

ThereInv ==
    /\ target # None => current = target
    /\ up /\ target = None /\ current # None => current \in asides \ tracked
    /\ (loading # None \/ step = "swapped") /\ target = None => current = None

IInv == TypeOK /\ MadeInv /\ PlaceInv /\ PhaseInv /\ SeenInv /\ ThereInv
-----------------------------------------------------------------------------
(* Facts about the steps' parts.                                           *)

USE NoneAssumption, MaxVersionAssumption

\* A new version is none of those made.
LEMMA FreshVersion ==
    ASSUME TypeOK, Fresh
    PROVE  /\ written' \in Made' /\ written' \in Versions
           /\ written' \notin Made
           /\ Made \subseteq Made'
           /\ None \notin Made /\ None \notin Made'
BY DEF TypeOK, Fresh, Versions, Made

LEMMA NoneIsNoVersion ==
    ASSUME TypeOK
    PROVE  None \notin Made
BY DEF TypeOK, Versions, Made

-----------------------------------------------------------------------------
(* Every step keeps the invariant.                                         *)

\* Another program's write is newer than everything made, and counted as missed
\* when the baseline will be read after it.
LEMMA ExternalKeeps == IInv /\ External => IInv'
<1> SUFFICES ASSUME IInv, External PROVE IInv'
  OBVIOUS
<1>1. CASE Fresh /\ target' = written' /\ current' = written' /\ theirs' = theirs \cup {written'}
  <2>1. TypeOK'
    BY <1>1, FreshVersion DEF IInv, External, Unwatched, Locked, files, session,
       save, ghosts, TypeOK, Versions, MadeInv, Made, PlaceInv, PhaseInv, SeenInv,
       Seen, Swapping, ThereInv
  <2>2. MadeInv'
    BY <1>1, FreshVersion DEF IInv, External, session, save, MadeInv
  <2>3. PlaceInv'
    BY <1>1, FreshVersion, NoneIsNoVersion DEF IInv, External, session, save,
       MadeInv, PlaceInv
  <2>4. PhaseInv'
    BY <1>1, FreshVersion DEF IInv, External, session, save, PhaseInv
  <2>5. SeenInv'
    BY <1>1, FreshVersion, NoneIsNoVersion DEF IInv, External, Unwatched, Locked,
       session, save, MadeInv, SeenInv, Seen, Swapping
  <2>6. ThereInv'
    BY <1>1, FreshVersion DEF ThereInv
  <2> QED
    BY <2>1, <2>2, <2>3, <2>4, <2>5, <2>6 DEF IInv
<1>2. CASE target # None /\ target' = None /\ current' = None /\ UNCHANGED <<written, theirs, missed>>
  <2>1. TypeOK'
    BY <1>2 DEF IInv, External, session, save, TypeOK
  <2>2. MadeInv'
    BY <1>2 DEF IInv, External, session, save, MadeInv, Made
  <2>3. PlaceInv'
    BY <1>2, NoneIsNoVersion DEF IInv, External, session, save, MadeInv, PlaceInv
  <2>4. PhaseInv'
    BY <1>2 DEF IInv, External, session, save, PhaseInv
  <2>5. SeenInv'
    BY <1>2, NoneIsNoVersion DEF IInv, External, session, MadeInv, SeenInv, Seen
  <2>6. ThereInv'
    BY <1>2 DEF ThereInv
  <2> QED
    BY <2>1, <2>2, <2>3, <2>4, <2>5, <2>6 DEF IInv
<1> QED
  BY <1>1, <1>2 DEF External

\* The sweep removes only what was seen.
LEMMA OpenKeeps == IInv /\ Open => IInv'
<1> SUFFICES ASSUME IInv, Open PROVE IInv'
  OBVIOUS
<1>1. TypeOK'
  BY DEF IInv, Open, DropAsides, Files, Held, save, TypeOK
<1>2. MadeInv'
  BY DEF IInv, Open, DropAsides, Files, Held, save, MadeInv, Made
<1>3. PlaceInv'
  BY DEF IInv, Open, DropAsides, Files, save, PlaceInv, PhaseInv
<1>4. PhaseInv'
  BY DEF IInv, Open, save, PhaseInv
<1>5. SeenInv'
  BY DEF IInv, Open, DropAsides, Files, Held, save, SeenInv, Seen, Swapping
<1>6. ThereInv'
  BY DEF IInv, Open, DropAsides, Files, save, ThereInv
<1> QED
  BY <1>1, <1>2, <1>3, <1>4, <1>5, <1>6 DEF IInv

LEMMA ReloadKeeps == IInv /\ Reload => IInv'
<1> SUFFICES ASSUME IInv, Reload PROVE IInv'
  OBVIOUS
<1>1. TypeOK'
  BY DEF IInv, Reload, Untouched, files, save, TypeOK
<1>2. MadeInv'
  BY DEF IInv, Reload, Untouched, files, save, MadeInv, Made
<1>3. PlaceInv'
  BY DEF IInv, Reload, Untouched, files, save, PlaceInv
<1>4. PhaseInv'
  BY DEF Reload, Locked, save, PhaseInv, Swapping
<1>5. SeenInv'
  BY DEF IInv, Reload, Untouched, files, save, SeenInv, Seen, Swapping
<1>6. ThereInv'
  BY DEF IInv, Reload, Untouched, files, ThereInv
<1> QED
  BY <1>1, <1>2, <1>3, <1>4, <1>5, <1>6 DEF IInv

\* What landed since the document was opened is missed, so the baseline is seen.
LEMMA InstallKeeps == IInv /\ Install => IInv'
<1> SUFFICES ASSUME IInv, Install PROVE IInv'
  OBVIOUS
<1>1. TypeOK'
  BY DEF IInv, Install, DropAsides, Files, Held, TypeOK
<1>2. MadeInv'
  BY DEF IInv, Install, DropAsides, Files, Held, TypeOK, MadeInv, Made
<1>3. PlaceInv'
  BY DEF IInv, Install, DropAsides, Files, TypeOK, PlaceInv
<1>4. PhaseInv'
  BY DEF Install, PhaseInv
<1>5. SeenInv'
  BY DEF IInv, Install, DropAsides, Files, Held, TypeOK, SeenInv, Seen
<1>6. ThereInv'
  BY DEF IInv, Install, DropAsides, Files, ThereInv
<1> QED
  BY <1>1, <1>2, <1>3, <1>4, <1>5, <1>6 DEF IInv

\* A save is a version of its own.
LEMMA SaveBeginKeeps == IInv /\ SaveBegin => IInv'
<1> SUFFICES ASSUME IInv, SaveBegin PROVE IInv'
  OBVIOUS
<1>1. TypeOK'
  BY FreshVersion DEF IInv, SaveBegin, files, session, ghosts, TypeOK
<1>2. MadeInv'
  BY FreshVersion DEF IInv, SaveBegin, files, session, ghosts, MadeInv
<1>3. PlaceInv'
  BY FreshVersion DEF IInv, SaveBegin, files, ghosts, MadeInv, PlaceInv
<1>4. PhaseInv'
  BY FreshVersion DEF SaveBegin, session, PhaseInv
<1>5. SeenInv'
  BY FreshVersion DEF IInv, SaveBegin, files, session, ghosts, SeenInv, Seen, Swapping
<1>6. ThereInv'
  BY FreshVersion DEF IInv, SaveBegin, files, session, ghosts, ThereInv
<1> QED
  BY <1>1, <1>2, <1>3, <1>4, <1>5, <1>6 DEF IInv

LEMMA StreamKeeps == IInv /\ Stream => IInv'
<1> SUFFICES ASSUME IInv, Stream PROVE IInv'
  OBVIOUS
<1>1. CASE step' = "staged" /\ Files(target, stages \cup {snap}, asides)
  <2>1. TypeOK'
    BY <1>1 DEF IInv, Stream, Files, Held, session, TypeOK
  <2>2. MadeInv'
    BY <1>1 DEF IInv, Stream, Files, Held, session, MadeInv, Made
  <2>3. PlaceInv'
    BY <1>1 DEF IInv, Stream, Files, PlaceInv
  <2>4. PhaseInv'
    BY <1>1 DEF IInv, Stream, session, PhaseInv
  <2>5. SeenInv'
    BY <1>1 DEF IInv, Stream, Files, Held, session, SeenInv, Seen, Swapping
  <2>6. ThereInv'
    BY <1>1 DEF IInv, Stream, Files, session, ThereInv
  <2> QED
    BY <2>1, <2>2, <2>3, <2>4, <2>5, <2>6 DEF IInv
<1>2. CASE step' = "idle" /\ Untouched
  <2>1. TypeOK'
    BY <1>2 DEF IInv, Stream, Untouched, files, session, TypeOK
  <2>2. MadeInv'
    BY <1>2 DEF IInv, Stream, Untouched, files, session, MadeInv, Made
  <2>3. PlaceInv'
    BY <1>2 DEF IInv, Stream, Untouched, files, PlaceInv
  <2>4. PhaseInv'
    BY <1>2 DEF PhaseInv
  <2>5. SeenInv'
    BY <1>2 DEF IInv, Stream, Untouched, files, session, SeenInv, Seen, Swapping
  <2>6. ThereInv'
    BY <1>2 DEF IInv, Stream, Untouched, files, session, ThereInv
  <2> QED
    BY <2>1, <2>2, <2>3, <2>4, <2>5, <2>6 DEF IInv
<1> QED
  BY <1>1, <1>2 DEF Stream

\* An unforced save goes on only over the baseline.
LEMMA ConfirmKeeps == IInv /\ Confirm => IInv'
<1> SUFFICES ASSUME IInv, Confirm PROVE IInv'
  OBVIOUS
<1>1. TypeOK'
  BY DEF IInv, Confirm, Untouched, files, session, TypeOK
<1>2. MadeInv'
  BY DEF IInv, Confirm, Untouched, files, session, MadeInv, Made
<1>3. PlaceInv'
  BY DEF IInv, Confirm, Untouched, files, PlaceInv
<1>4. PhaseInv'
  BY DEF IInv, Confirm, Committable, Locked, session, PhaseInv
<1>5. SeenInv'
  BY DEF IInv, Confirm, Committable, DiskChanged, Untouched, files, session, MadeInv,
     Made, PhaseInv, SeenInv, Seen
<1>6. ThereInv'
  BY DEF IInv, Confirm, Untouched, files, session, ThereInv
<1> QED
  BY <1>1, <1>2, <1>3, <1>4, <1>5, <1>6 DEF IInv

\* A discarded stage is this program's.
LEMMA ConflictKeeps == IInv /\ Conflict => IInv'
<1> SUFFICES ASSUME IInv, Conflict PROVE IInv'
  OBVIOUS
<1>1. TypeOK'
  BY DEF IInv, Conflict, Files, Held, session, TypeOK
<1>2. MadeInv'
  BY DEF IInv, Conflict, Files, Held, session, MadeInv, Made
<1>3. PlaceInv'
  BY DEF IInv, Conflict, Files, PlaceInv
<1>4. PhaseInv'
  BY DEF Conflict, PhaseInv
<1>5. SeenInv'
  BY DEF IInv, Conflict, Files, Held, session, PlaceInv, SeenInv, Seen, Swapping
<1>6. ThereInv'
  BY DEF IInv, Conflict, Files, session, ThereInv
<1> QED
  BY <1>1, <1>2, <1>3, <1>4, <1>5, <1>6 DEF IInv

LEMMA MoveAsideKeeps == IInv /\ MoveAside => IInv'
<1> SUFFICES ASSUME IInv, MoveAside PROVE IInv'
  OBVIOUS
<1>1. CASE SetAside /\ step' = "moved" /\ moved' = target
  <2>1. TypeOK'
    BY <1>1 DEF IInv, MoveAside, SetAside, Files, Held, session, TypeOK
  <2>2. MadeInv'
    BY <1>1 DEF IInv, MoveAside, SetAside, Files, Held, session, MadeInv, Made
  <2>3. PlaceInv'
    <3>1. target' = None /\ asides' = asides \cup ({target} \ {None}) /\ stages' = stages
      BY <1>1 DEF SetAside, Files
    <3>2. target' \notin stages' \cup asides' /\ target' # snap'
      BY <3>1, NoneIsNoVersion DEF IInv, MadeInv, MoveAside
    <3>3. stages' \cap (asides' \cup theirs') = {}
      BY <3>1 DEF IInv, PlaceInv, MoveAside
    <3>4. snap' \notin asides' \cup theirs' /\ snap' \in stages'
      BY <3>1 DEF IInv, PlaceInv, MoveAside
    <3>5. moved' = None \/ moved' \in asides' \ tracked'
      BY <1>1, <3>1 DEF IInv, TypeOK, PlaceInv, MoveAside, session
    <3> QED
      BY <1>1, <3>1, <3>2, <3>3, <3>4, <3>5 DEF PlaceInv
  <2>4. PhaseInv'
    BY <1>1 DEF IInv, MoveAside, session, PhaseInv
  <2>5. SeenInv'
    BY <1>1, NoneIsNoVersion DEF IInv, MoveAside, SetAside, Files, Held, session,
       MadeInv, SeenInv, Seen, Swapping
  <2>6. ThereInv'
    BY <1>1 DEF IInv, MoveAside, SetAside, Files, session, TypeOK, PlaceInv,
       PhaseInv, ThereInv
  <2> QED
    BY <2>1, <2>2, <2>3, <2>4, <2>5, <2>6 DEF IInv
<1>2. CASE SwapFails /\ Untouched
  <2>1. TypeOK'
    BY <1>2 DEF IInv, MoveAside, SwapFails, Untouched, files, session, TypeOK
  <2>2. MadeInv'
    BY <1>2 DEF IInv, MoveAside, SwapFails, Untouched, files, session, MadeInv, Made
  <2>3. PlaceInv'
    BY <1>2, NoneIsNoVersion DEF IInv, MoveAside, SwapFails, Untouched, files, PlaceInv
  <2>4. PhaseInv'
    BY <1>2 DEF SwapFails, PhaseInv
  <2>5. SeenInv'
    BY <1>2, NoneIsNoVersion DEF IInv, MoveAside, Untouched, files, session, SeenInv,
       Seen, Swapping
  <2>6. ThereInv'
    BY <1>2 DEF IInv, MoveAside, SwapFails, Untouched, files, session, ThereInv
  <2> QED
    BY <2>1, <2>2, <2>3, <2>4, <2>5, <2>6 DEF IInv
<1> QED
  BY <1>1, <1>2 DEF MoveAside

\* What the stage is renamed over has been seen.
LEMMA PromoteKeeps == IInv /\ Promote => IInv'
<1> SUFFICES ASSUME IInv, Promote PROVE IInv'
  OBVIOUS
<1>1. TypeOK'
  BY DEF IInv, Promote, PutBack, SwapFails, Files, Held, Untouched, files, session,
     save, ghosts, TypeOK, Versions, MadeInv, Made, PlaceInv, PhaseInv, SeenInv,
     Seen, Swapping, ThereInv
<1>2. MadeInv'
  BY DEF IInv, Promote, PutBack, SwapFails, Files, Held, Untouched, files, session,
     MadeInv, Made
<1>3. PlaceInv'
  BY DEF IInv, Promote, PutBack, SwapFails, Files, Untouched, files, session, PlaceInv
<1>4. PhaseInv'
  BY DEF IInv, Promote, session, PhaseInv
<1>5. SeenInv'
  BY DEF IInv, Promote, PutBack, SwapFails, Files, Held, Untouched, files, session,
     save, ghosts, TypeOK, Versions, MadeInv, Made, PlaceInv, PhaseInv, SeenInv,
     Seen, Swapping, ThereInv
<1>6. ThereInv'
  BY DEF IInv, Promote, PutBack, SwapFails, Files, Untouched, files, session,
     MadeInv, Made, ThereInv
<1> QED
  BY <1>1, <1>2, <1>3, <1>4, <1>5, <1>6 DEF IInv

\* The asides that go were put there by a confirmed save.
LEMMA CommitKeeps == IInv /\ Commit => IInv'
<1> SUFFICES ASSUME IInv, Commit PROVE IInv'
  OBVIOUS
<1> PICK left \in SUBSET (tracked \cup ({moved} \ {None})) :
     /\ Files(target, stages, (asides \ (tracked \cup ({moved} \ {None}))) \cup left)
     /\ tracked' = left
  BY DEF Commit, RemoveAsides
<1>0. asides' \subseteq asides /\ tracked' \subseteq asides'
  BY DEF IInv, TypeOK, PlaceInv, Commit, Files
<1>1. TypeOK'
  BY <1>0 DEF IInv, Commit, Files, Held, TypeOK
<1>2. MadeInv'
  BY <1>0 DEF IInv, Commit, Files, Held, MadeInv, Made
<1>3. PlaceInv'
  BY <1>0 DEF IInv, Commit, Files, PlaceInv
<1>4. PhaseInv'
  BY <1>0 DEF Commit, PhaseInv
<1>5. SeenInv'
  BY <1>0 DEF IInv, Commit, Files, Held, SeenInv, Seen, Swapping
<1>6. ThereInv'
  BY <1>0 DEF IInv, Commit, Files, ThereInv
<1> QED
  BY <1>1, <1>2, <1>3, <1>4, <1>5, <1>6 DEF IInv

LEMMA CloseKeeps == IInv /\ Close => IInv'
<1> SUFFICES ASSUME IInv, Close PROVE IInv'
  OBVIOUS
<1>1. TypeOK'
  BY DEF IInv, Close, DropAsides, Files, Held, Locked, files, session, save, ghosts,
     TypeOK, Versions, MadeInv, Made, PlaceInv, PhaseInv, SeenInv, Seen, Swapping,
     ThereInv
<1>2. MadeInv'
  BY DEF IInv, Close, DropAsides, Files, Held, TypeOK, MadeInv, Made
<1>3. PlaceInv'
  BY DEF IInv, Close, DropAsides, Files, TypeOK, PlaceInv
<1>4. PhaseInv'
  BY DEF Close, Locked, PhaseInv, Swapping
<1>5. SeenInv'
  BY DEF IInv, Close, DropAsides, Files, Held, TypeOK, SeenInv, Seen, Swapping
<1>6. ThereInv'
  BY DEF Close, DropAsides, Files, Locked, Swapping, ThereInv
<1> QED
  BY <1>1, <1>2, <1>3, <1>4, <1>5, <1>6 DEF IInv

LEMMA CrashKeeps == IInv /\ Crash => IInv'
<1> SUFFICES ASSUME IInv, Crash PROVE IInv'
  OBVIOUS
<1>1. TypeOK'
  BY DEF IInv, Crash, files, ghosts, TypeOK
<1>2. MadeInv'
  BY DEF IInv, Crash, files, ghosts, MadeInv, Made
<1>3. PlaceInv'
  BY DEF IInv, Crash, files, ghosts, PlaceInv
<1>4. PhaseInv'
  BY DEF Crash, PhaseInv
<1>5. SeenInv'
  BY DEF IInv, Crash, files, ghosts, SeenInv, Seen, Swapping
<1>6. ThereInv'
  BY DEF IInv, Crash, files, ghosts, ThereInv
<1> QED
  BY <1>1, <1>2, <1>3, <1>4, <1>5, <1>6 DEF IInv

LEMMA EditKeeps == IInv /\ Edit => IInv'
<1> SUFFICES ASSUME IInv, Edit PROVE IInv'
  OBVIOUS
<1>1. TypeOK'
  BY DEF IInv, Edit, files, session, ghosts, TypeOK
<1>2. MadeInv'
  BY DEF IInv, Edit, files, session, ghosts, MadeInv, Made
<1>3. PlaceInv'
  BY DEF IInv, Edit, files, session, ghosts, PlaceInv
<1>4. PhaseInv'
  BY DEF IInv, Edit, session, PhaseInv
<1>5. SeenInv'
  BY DEF IInv, Edit, files, session, ghosts, SeenInv, Seen, Swapping
<1>6. ThereInv'
  BY DEF IInv, Edit, files, session, ghosts, ThereInv
<1> QED
  BY <1>1, <1>2, <1>3, <1>4, <1>5, <1>6 DEF IInv

LEMMA InitHolds == Init => IInv
<1> SUFFICES ASSUME Init PROVE IInv
  OBVIOUS
<1>1. TypeOK
  <2>1. 0 \in Versions /\ None \in Versions \cup {None}
    BY DEF Versions
  <2> QED
    BY <2>1 DEF Init, TypeOK
<1>2. MadeInv
  BY DEF Init, MadeInv, Made
<1>3. PlaceInv /\ PhaseInv /\ SeenInv /\ ThereInv
  BY DEF Init, PlaceInv, PhaseInv, SeenInv, Swapping, ThereInv
<1> QED
  BY <1>1, <1>2, <1>3 DEF IInv

LEMMA StutterKeeps == IInv /\ UNCHANGED vars => IInv'
BY DEF IInv, TypeOK, Versions, MadeInv, Made, PlaceInv, PhaseInv, SeenInv, Seen,
       Swapping, ThereInv, vars, files, session, save, ghosts

LEMMA StepKeeps == IInv /\ [Next]_vars => IInv'
BY StutterKeeps, ExternalKeeps, OpenKeeps, ReloadKeeps, InstallKeeps, SaveBeginKeeps,
   StreamKeeps, ConfirmKeeps, ConflictKeeps, MoveAsideKeeps, PromoteKeeps,
   CommitKeeps, CloseKeeps, CrashKeeps, EditKeeps DEF Next

\* The invariant from which the properties follow holds in every state, for any
\* number of saves and external writes.
THEOREM Invariance == Spec => []IInv
BY InitHolds, StepKeeps, PTL DEF Spec

\* The state keeps its type.
THEOREM TypeCorrect == Spec => []TypeOK
<1>1. IInv => TypeOK
  BY DEF IInv
<1> QED
  BY <1>1, Invariance, PTL

-----------------------------------------------------------------------------
(* What another program wrote.                                             *)

\* confirm_disk_unchanged asked again under the transition lock: no save, sweep
\* or rollback removes an external version that was watched and never read.
THEOREM WatchedWritesSurvive == Spec => []NothingBuried
<1>1. IInv => NothingBuried
  BY DEF IInv, SeenInv, Seen, NothingBuried
<1> QED
  BY <1>1, Invariance, PTL

-----------------------------------------------------------------------------
(* The file and the save's bytes.                                          *)

\* A step that keeps the file open keeps it findable, by the invariant; a close
\* removes only tracked asides, which do not hold it.
LEMMA FileStays ==
    ASSUME IInv, IInv', [Next]_vars, up, FileThere
    PROVE  FileThere'
<1>1. CASE up'
  BY <1>1 DEF IInv, ThereInv, FileThere
<1>2. CASE Close
  BY <1>2 DEF IInv, ThereInv, FileThere, Close, DropAsides, Files
<1>3. CASE Crash
  BY <1>3 DEF FileThere, Crash, files, ghosts
<1>4. up' \/ Close \/ Crash
  BY DEF Next, vars, session, External, Edit, Open, Reload, Install, 
         SaveBegin, Stream, Confirm, Conflict, MoveAside, Promote, Commit
<1> QED
  BY <1>1, <1>2, <1>3, <1>4

\* Past its check a save's stage is only ever renamed over the file.
LEMMA StageStays ==
    ASSUME IInv, [Next]_vars, up, step \in {"confirmed", "moved"}
    PROVE  snap \in {target'} \cup stages'
<1>1. snap \in stages /\ Locked /\ loading = None
  BY DEF IInv, PlaceInv, PhaseInv, Locked, Swapping
<1>2. CASE Promote
  BY <1>1, <1>2 DEF Promote, PutBack, Untouched, Files, files
<1>3. CASE MoveAside
  BY <1>1, <1>3 DEF MoveAside, SetAside, Untouched, Files, files
<1>4. CASE External \/ Edit \/ Crash \/ UNCHANGED vars
  BY <1>1, <1>4 DEF External, Edit, Crash, vars, files
<1>5. ~(Open \/ Reload \/ Install \/ SaveBegin \/ Stream \/ Confirm \/ Conflict
          \/ Commit \/ Close)
  BY <1>1 DEF Open, Reload, Install, SaveBegin, Stream, Confirm, Conflict, Commit, Close
<1> QED
  BY <1>2, <1>3, <1>4, <1>5 DEF Next

\* swap_in_staged_file: however its renames are refused and whoever writes the
\* file meanwhile, an open file and a confirmed save stay on disk.
THEOREM SwapKeepsBoth == Spec => SwapLosesNothing
<1>1. IInv /\ IInv' /\ [Next]_vars =>
        [up => /\ FileThere => FileThere'
               /\ step \in {"confirmed", "moved"} => snap \in {target'} \cup stages']_vars
  BY FileStays, StageStays
<1> QED
  BY <1>1, Invariance, PTL DEF Spec, SwapLosesNothing
=============================================================================
