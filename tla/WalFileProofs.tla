--------------------------- MODULE WalFileProofs ---------------------------
(***************************************************************************)
(* Proofs about WalFile, for any number of appends and rewrites.           *)
(*                                                                         *)
(* The inductive invariant speaks of every directory a power loss may leave *)
(* behind, not only of the one the running process sees: each names only    *)
(* finished, synced files, none newer than what the log was told, the aside *)
(* copy never newer than what the log has on the platter, and whichever a    *)
(* reader would open holds all that is safe.                                *)
(***************************************************************************)
EXTENDS WalFile, TLAPS

Sound(f, t) ==
    /\ f \in File
    /\ f.shape # "bad"
    /\ 1 <= f.durable
    /\ f.durable <= f.upto
    /\ f.upto <= t

DirOK(d, t, s) ==
    /\ d \in [target : Maybe(File), aside : Maybe(File)]
    /\ d.target # None => Sound(d.target, t)
    /\ d.aside # None => Sound(d.aside, t)
    /\ d.target # None /\ d.aside # None => d.aside.upto <= d.target.durable
    /\ s # 0 => /\ Opened(d.target, d.aside) # None
                /\ s <= Opened(d.target, d.aside).durable

DirsInv ==
    /\ Dir(target, aside) \in dirs
    /\ \A d \in dirs : DirOK(d, told, safe)

\* A temporary file that may be renamed into place.
Ready(f, t) == f \in File /\ f.upto = t /\ f.durable = t /\ f.shape = "whole"

StageInv ==
    /\ step # "idle" => phase = "open" /\ 1 <= told
    /\ step = "write" => tmp["live"] \in File /\ tmp["live"].upto = told
    /\ step \in {"rename", "clear", "move", "promote"} => Ready(tmp[by], told)
    /\ step \in {"clear", "move"} => target # None
    /\ step = "promote" => target = None
    /\ step = "tidy" => Ready(target, told)
    /\ tmp["policy"] # None => /\ 1 <= tmp["policy"].upto
                               /\ tmp["policy"].upto <= told
                               /\ tmp["policy"].shape = "whole" =>
                                      Ready(tmp["policy"], tmp["policy"].upto)

LiveInv ==
    /\ writer = "attached" => phase = "open"
    /\ Live => /\ target # None
               /\ target.upto = told
               /\ target.shape = "whole"
               /\ dirs = {Dir(target, aside)}

IInv == TypeOK /\ DirsInv /\ StageInv /\ LiveInv
-----------------------------------------------------------------------------
(* Directories.                                                            *)

LEMMA DirFields ==
    ASSUME NEW t, NEW a
    PROVE  Dir(t, a).target = t /\ Dir(t, a).aside = a
BY DEF Dir

LEMMA ContentFields ==
    ASSUME NEW u \in Nat, NEW v \in Nat, NEW sh \in {"whole", "torn", "bad"}
    PROVE  /\ Content(u, v, sh) \in File
           /\ Content(u, v, sh).upto = u
           /\ Content(u, v, sh).durable = v
           /\ Content(u, v, sh).shape = sh
BY DEF Content, File

LEMMA NotAFile ==
    ASSUME NEW f \in File
    PROVE  f # None
BY NoneAssumption

\* Being told of more versions disturbs no directory.
LEMMA Later ==
    ASSUME NEW d, NEW t \in Nat, NEW u \in Nat, NEW s, t <= u, DirOK(d, t, s)
    PROVE  DirOK(d, u, s)
BY DEF DirOK, Sound, File

\* Nor does giving up what was safe.
LEMMA Unsafe ==
    ASSUME NEW d, NEW t, NEW s, DirOK(d, t, s)
    PROVE  DirOK(d, t, 0)
BY DEF DirOK

\* One more directory entry changed.
LEMMA OneMove ==
    ASSUME DirsInv, NEW t, NEW a, NEW s, Moved(t, a), told' = told, safe' = s,
           DirOK(Dir(t, a), told, s), s = safe \/ s = 0
    PROVE  DirsInv'
<1>1. Dir(target', aside') \in dirs'
  BY DEF Moved
<1>2. ASSUME NEW d \in dirs'
      PROVE  DirOK(d, told', safe')
  <2>1. CASE d = Dir(t, a)
    BY <2>1
  <2>2. CASE d \in dirs
    BY <2>2, Unsafe DEF DirsInv
  <2> QED
    BY <1>2, <2>1, <2>2 DEF Moved
<1> QED
  BY <1>1, <1>2 DEF DirsInv

\* The log and the aside copy the process sees are sound.
LEMMA Current ==
    ASSUME TypeOK, DirsInv
    PROVE  /\ target # None => Sound(target, told)
           /\ aside # None => Sound(aside, told)
           /\ target # None /\ aside # None => aside.upto <= target.durable
           /\ DirOK(Dir(target, aside), told, safe)
<1>1. DirOK(Dir(target, aside), told, safe)
  BY DEF DirsInv
<1> QED
  BY <1>1, DirFields DEF DirOK

\* A file that is ready replaces whatever the log was.
LEMMA Installed ==
    ASSUME TypeOK, DirsInv, NEW f, Ready(f, told), 1 <= told
    PROVE  /\ Sound(f, told)
           /\ DirOK(Dir(f, aside), told, safe)
<1>1. Sound(f, told)
  BY DEF Sound, Ready, TypeOK
<1>2. f # None
  BY <1>1, NotAFile DEF Sound
<1>3. aside # None => Sound(aside, told)
  BY Current
<1>4. safe # 0 => safe <= told
  <2>1. DirOK(Dir(target, aside), told, safe)
    BY Current
  <2>2. CASE safe # 0
    <3> DEFINE o == Opened(target, aside)
    <3>1. o # None /\ safe <= o.durable
      BY <2>1, <2>2, DirFields DEF DirOK
    <3>2. Sound(o, told)
      BY <3>1, Current DEF Opened
    <3> HIDE DEF o
    <3> QED
      BY <3>1, <3>2 DEF Sound, File, TypeOK
  <2> QED
    BY <2>2
<1>5. aside # None => aside.upto <= f.durable
  BY <1>3 DEF Sound, Ready
<1> QED
  BY <1>1, <1>2, <1>3, <1>4, <1>5, DirFields DEF DirOK, Dir, Opened, TypeOK, Maybe, Ready

\* The file the writer holds open grows, or more of it is synced.
LEMMA Grows ==
    ASSUME IInv, Live, NEW f, NEW t \in Nat, NEW s \in Nat,
           Sound(f, t), told <= t, target.durable <= f.durable,
           s = safe \/ s <= f.durable
    PROVE  /\ Rewritten(f) = {Dir(f, aside)}
           /\ DirOK(Dir(f, aside), t, s)
<1>1. Rewritten(f) = {Dir(f, aside)}
  <2>1. dirs = {Dir(target, aside)}
    BY DEF IInv, LiveInv
  <2> QED
    BY <2>1, DirFields DEF Rewritten
<1>2. target # None /\ f # None
  BY NotAFile DEF Sound, IInv, LiveInv
<1>3. DirOK(Dir(target, aside), t, safe)
  BY Current, Later DEF IInv, TypeOK
<1>4. aside # None => Sound(aside, t) /\ aside.upto <= target.durable
  BY <1>2, <1>3, DirFields DEF DirOK
<1>5. Sound(target, t)
  BY <1>2, <1>3, DirFields DEF DirOK
<1>6. aside # None => aside.upto <= f.durable
  BY <1>4, <1>5 DEF Sound, File
<1>7. s # 0 => s <= f.durable
  <2>1. CASE s = safe
    <3>1. s # 0 => s <= target.durable
      BY <1>2, <1>3, <2>1, DirFields DEF DirOK, Opened
    <3> QED
      BY <3>1, <1>5 DEF Sound, File
  <2> QED
    BY <2>1
<1>8. Dir(f, aside) \in [target : Maybe(File), aside : Maybe(File)]
  BY DEF Dir, Maybe, Sound, IInv, TypeOK
<1> QED
  BY <1>1, <1>2, <1>4, <1>6, <1>7, <1>8, DirFields DEF DirOK, Opened
-----------------------------------------------------------------------------
(* The invariant: initially, and after every action.                       *)

LEMMA Initially == Init => IInv
<1> SUFFICES ASSUME Init PROVE IInv
  OBVIOUS
<1>1. TypeOK
  BY DEF Init, TypeOK, Maybe, Thread, Dir, File
<1>2. DirsInv
  BY NoneAssumption DEF Init, DirsInv, DirOK, Dir, Maybe
<1>3. StageInv /\ LiveInv
  BY DEF Init, StageInv, LiveInv, Live, Thread
<1> QED
  BY <1>1, <1>2, <1>3 DEF IInv

\* While no rewrite runs, more versions change nothing about the stages.
LEMMA IdleStage ==
    ASSUME TypeOK, StageInv, step = "idle", step' = "idle", tmp' = tmp,
           told' \in Nat, told <= told'
    PROVE  StageInv'
<1>1. "policy" \in Thread
  BY DEF Thread
<1>2. tmp["policy"] # None => tmp["policy"].upto \in Nat
  BY <1>1 DEF TypeOK, Maybe, File
<1>3. tmp["policy"] # None => tmp["policy"].upto <= told'
  BY <1>2 DEF TypeOK, StageInv
<1> QED
  BY <1>3 DEF StageInv

LEMMA AppendKeeps ==
    ASSUME IInv, Append
    PROVE  IInv'
<1>1. /\ target \in File /\ target # None /\ target.upto = told /\ target.shape = "whole"
      /\ Sound(target, told) /\ dirs = {Dir(target, aside)}
  BY Current DEF Append, IInv, LiveInv, Sound
<1>2. target' = Content(told + 1, target.durable, "whole")
  BY <1>1 DEF Append, Grown
<1>3. Sound(target', told') /\ target'.durable = target.durable /\ target'.shape = "whole"
  BY <1>1, <1>2 DEF Sound, Content, File, Append, IInv, TypeOK
<1>4. dirs' = {Dir(target', aside')} /\ DirOK(Dir(target', aside'), told', safe')
  BY <1>1, <1>3, Grows DEF Append, IInv, TypeOK, File
<1>5. target'.upto = told' /\ target' # None
  BY <1>2, <1>3, NotAFile DEF Append, Content, Sound
<1>6. TypeOK'
  BY <1>3, <1>4 DEF Append, IInv, TypeOK, Maybe, Sound, Dir
<1>7. DirsInv'
  BY <1>4 DEF DirsInv
<1>8. StageInv'
  BY IdleStage DEF Append, Live, IInv, TypeOK
<1>9. LiveInv'
  BY <1>3, <1>4, <1>5 DEF Append, IInv, LiveInv
<1> QED
  BY <1>6, <1>7, <1>8, <1>9 DEF IInv

LEMMA TornKeeps ==
    ASSUME IInv, Live, NEW f \in {target, Torn(target)}
    PROVE  /\ f \in File /\ Sound(f, told) /\ f # None
           /\ f.upto = target.upto /\ f.durable = target.durable /\ f.shape # "bad"
           /\ Rewritten(f) = {Dir(f, aside)}
           /\ DirOK(Dir(f, aside), told, safe)
<1>1. target \in File /\ target # None /\ Sound(target, told)
  BY Current DEF IInv, LiveInv, Sound
<1>2. /\ f \in File /\ Sound(f, told)
      /\ f.upto = target.upto /\ f.durable = target.durable /\ f.shape # "bad"
  <2>1. CASE f = target
    BY <1>1, <2>1 DEF Sound
  <2>2. CASE f = Torn(target)
    <3>1. target.upto \in Nat /\ target.durable \in Nat
      BY <1>1 DEF File
    <3>2. /\ f \in File
          /\ f.upto = target.upto /\ f.durable = target.durable /\ f.shape # "bad"
      BY <2>2, <3>1, ContentFields DEF Torn
    <3> QED
      BY <1>1, <3>2 DEF Sound
  <2> QED
    BY <2>1, <2>2
<1> QED
  BY <1>1, <1>2, Grows, NotAFile DEF IInv, TypeOK, File

LEMMA AppendFailsKeeps ==
    ASSUME IInv, AppendFails
    PROVE  IInv'
<1>1. /\ target' \in File
      /\ dirs' = {Dir(target', aside')}
      /\ DirOK(Dir(target', aside'), told, safe)
  BY TornKeeps DEF AppendFails
<1>2. DirOK(Dir(target', aside'), told', safe')
  BY <1>1, Later DEF AppendFails, IInv, TypeOK
<1>3. TypeOK'
  BY <1>1 DEF AppendFails, IInv, TypeOK, Maybe, Dir
<1>4. DirsInv'
  BY <1>1, <1>2 DEF DirsInv
<1>5. StageInv'
  BY IdleStage DEF AppendFails, Live, IInv, TypeOK
<1>6. LiveInv'
  BY DEF AppendFails, IInv, LiveInv, Live
<1> QED
  BY <1>3, <1>4, <1>5, <1>6 DEF IInv

LEMMA SyncKeeps ==
    ASSUME IInv, Sync
    PROVE  IInv'
<1>1. /\ target \in File /\ target # None /\ target.upto = told /\ target.shape = "whole"
      /\ Sound(target, told)
  BY Current DEF Sync, IInv, LiveInv, Sound
<1>2. /\ Sound(target', told) /\ target'.durable = target.upto
      /\ target'.upto = target.upto /\ target'.shape = "whole"
      /\ target.durable <= target'.durable
  BY <1>1 DEF Sync, Sound, File, Synced, Content
<1>3. dirs' = {Dir(target', aside')} /\ DirOK(Dir(target', aside'), told', safe')
  BY <1>1, <1>2, Grows DEF Sync, IInv, TypeOK, File
<1>4. TypeOK'
  BY <1>1, <1>2, <1>3 DEF Sync, IInv, TypeOK, Maybe, Sound, Dir, File
<1>5. DirsInv'
  BY <1>3 DEF DirsInv
<1>6. StageInv'
  BY DEF Sync, Live, IInv, StageInv
<1>7. LiveInv'
  BY <1>1, <1>2, <1>3, NotAFile DEF Sync, IInv, LiveInv, Sound
<1> QED
  BY <1>4, <1>5, <1>6, <1>7 DEF IInv

\* Steps that touch no log file.
LEMMA SameDirs ==
    ASSUME IInv, UNCHANGED <<target, aside, dirs, safe>>, told' \in Nat, told <= told'
    PROVE  DirsInv'
<1>1. ASSUME NEW d \in dirs
      PROVE  DirOK(d, told', safe)
  BY <1>1, Later DEF IInv, DirsInv, TypeOK
<1> QED
  BY <1>1 DEF IInv, DirsInv

LEMMA ThreadFiles ==
    ASSUME TypeOK, NEW th \in Thread, NEW f \in Maybe(File)
    PROVE  /\ [tmp EXCEPT ![th] = f] \in [Thread -> Maybe(File)]
           /\ [tmp EXCEPT ![th] = f][th] = f
           /\ \A x \in Thread : x # th => [tmp EXCEPT ![th] = f][x] = tmp[x]
BY DEF TypeOK

LEMMA Threads ==
    /\ "live" \in Thread /\ "policy" \in Thread /\ "live" # "policy"
    /\ Thread = {"live", "policy"}
BY DEF Thread

LEMMA BeginRewriteKeeps ==
    ASSUME IInv, BeginRewrite
    PROVE  IInv'
<1>1. told \in Nat /\ told' = told + 1
  BY DEF BeginRewrite, IInv, TypeOK
<1>2. Begun(told') \in File /\ Begun(told').upto = told'
  BY <1>1, ContentFields DEF Begun
<1>3. /\ tmp' \in [Thread -> Maybe(File)]
      /\ tmp'["live"] = Begun(told')
      /\ tmp'["policy"] = tmp["policy"]
  BY <1>1, <1>2, ThreadFiles, Threads DEF BeginRewrite, IInv, Maybe
<1>4. TypeOK'
  BY <1>1, <1>3, Threads DEF BeginRewrite, IInv, TypeOK
<1>5. DirsInv'
  BY <1>1, SameDirs DEF BeginRewrite
<1>6. StageInv'
  <2>1. tmp["policy"] # None => tmp["policy"].upto \in Nat
    BY Threads DEF IInv, TypeOK, Maybe, File
  <2> QED
    BY <1>1, <1>2, <1>3, <2>1 DEF BeginRewrite, IInv, StageInv
<1>7. LiveInv'
  BY DEF BeginRewrite, IInv, LiveInv, Live
<1> QED
  BY <1>4, <1>5, <1>6, <1>7 DEF IInv

\* A rewrite that fails leaves no writer behind.
LEMMA FailKeeps ==
    ASSUME IInv, Fail, tmp' = tmp \/ tmp' = Discarded(by)
    PROVE  IInv'
<1>1. /\ tmp' \in [Thread -> Maybe(File)]
      /\ tmp'["policy"] = tmp["policy"] \/ tmp'["policy"] = None
  BY ThreadFiles, Threads DEF Discarded, IInv, TypeOK, Maybe
<1>2. TypeOK'
  BY <1>1 DEF Fail, IInv, TypeOK
<1>3. DirsInv'
  BY SameDirs DEF Fail, IInv, TypeOK
<1>4. StageInv'
  BY <1>1 DEF Fail, IInv, StageInv
<1>5. LiveInv'
  BY DEF Fail, IInv, LiveInv, Live
<1> QED
  BY <1>2, <1>3, <1>4, <1>5 DEF IInv

LEMMA WriteStagedKeeps ==
    ASSUME IInv, WriteStaged
    PROVE  IInv'
<1>1. CASE Fail /\ UNCHANGED tmp
  BY <1>1, FailKeeps
<1>2. CASE ~(Fail /\ UNCHANGED tmp)
  <2>1. /\ tmp' = [tmp EXCEPT !["live"] = Staged(@.upto)]
        /\ step' = "rename"
        /\ UNCHANGED <<phase, writer, told, safe, target, aside, dirs>>
        /\ by' = "live"
    BY <1>2 DEF WriteStaged
  <2>2. told \in Nat /\ 1 <= told /\ phase = "open" /\ tmp["live"].upto = told
    BY DEF WriteStaged, IInv, TypeOK, StageInv
  <2>3. Ready(Staged(told), told)
    BY <2>2, ContentFields DEF Staged, Ready
  <2>4. /\ tmp' \in [Thread -> Maybe(File)]
        /\ tmp'["live"] = Staged(told)
        /\ tmp'["policy"] = tmp["policy"]
    BY <2>1, <2>2, <2>3, ThreadFiles, Threads DEF IInv, Maybe, Ready
  <2>5. TypeOK'
    BY <2>1, <2>4, Threads DEF IInv, TypeOK
  <2>6. DirsInv'
    BY <2>1, SameDirs DEF IInv, TypeOK
  <2>7. StageInv'
    BY <2>1, <2>2, <2>3, <2>4 DEF IInv, StageInv
  <2>8. LiveInv'
    BY <2>1 DEF IInv, LiveInv, Live
  <2> QED
    BY <2>5, <2>6, <2>7, <2>8 DEF IInv
<1> QED
  BY <1>1, <1>2

\* Steps of the policy thread's staging: only its temporary file changes, to
\* nothing, a fresh file, or the synced one.
LEMMA PolicyStage ==
    ASSUME IInv, NEW f \in Maybe(File), tmp' = [tmp EXCEPT !["policy"] = f],
           f # None => /\ 1 <= f.upto
                       /\ f.upto <= told
                       /\ f.shape = "whole" => Ready(f, f.upto),
           step = "idle" \/ by = "live" \/ f = tmp["policy"]
                         \/ step \in {"write", "tidy"},
           UNCHANGED <<phase, told, safe, target, aside, step, by, dirs>>,
           writer' \in {writer, "none"}
    PROVE  IInv'
<1>1. /\ tmp' \in [Thread -> Maybe(File)]
      /\ tmp'["policy"] = f
      /\ tmp'["live"] = tmp["live"]
  BY ThreadFiles, Threads DEF IInv
<1>2. TypeOK'
  BY <1>1 DEF IInv, TypeOK
<1>3. DirsInv'
  BY SameDirs DEF IInv, TypeOK
<1>4. StageInv'
  <2>1. step \in {"rename", "clear", "move", "promote"} => tmp'[by] = tmp[by]
    BY <1>1, Threads DEF IInv, TypeOK
  <2> QED
    BY <1>1, <2>1 DEF IInv, StageInv
<1>5. LiveInv'
  BY DEF IInv, LiveInv, Live
<1> QED
  BY <1>2, <1>3, <1>4, <1>5 DEF IInv

LEMMA StageBeginKeeps ==
    ASSUME IInv, StageBegin
    PROVE  IInv'
<1>1. told \in Nat /\ 1 <= told
  <2>1. target # None /\ target.upto = told
    BY DEF StageBegin, IInv, LiveInv
  <2>2. Sound(target, told)
    BY <2>1, Current DEF IInv
  <2> QED
    BY <2>1, <2>2 DEF Sound, File, IInv, TypeOK
<1>2. Begun(told) \in File /\ Begun(told).upto = told /\ Begun(told).shape = "bad"
  BY <1>1, ContentFields DEF Begun
<1>3. Begun(told) \in Maybe(File) /\ tmp' = [tmp EXCEPT !["policy"] = Begun(told)]
  BY <1>2 DEF StageBegin, Maybe
<1>4. /\ step = "idle" /\ writer' = writer
      /\ UNCHANGED <<phase, told, safe, target, aside, step, by, dirs>>
  BY DEF StageBegin, Live
<1>5. /\ 1 <= Begun(told).upto /\ Begun(told).upto <= told
      /\ Begun(told).shape = "whole" => Ready(Begun(told), Begun(told).upto)
  BY <1>1, <1>2
<1> QED
  BY <1>3, <1>4, <1>5, PolicyStage

LEMMA StageEndKeeps ==
    ASSUME IInv, StageEnd
    PROVE  IInv'
<1> DEFINE v == tmp["policy"].upto
<1>1. v \in Nat /\ 1 <= v /\ v <= told
  BY Threads DEF StageEnd, IInv, TypeOK, StageInv, Maybe, File
<1>2. Ready(Staged(v), v)
  BY <1>1, ContentFields DEF Ready, Staged
<1>3. step \in {"rename", "clear", "move", "promote"} => by = "live"
  BY Threads DEF StageEnd, IInv, TypeOK, StageInv, Ready
<1>4. \/ step = "idle" \/ by = "live" \/ step \in {"write", "tidy"}
  BY <1>3 DEF IInv, TypeOK
<1>5. Staged(v) \in Maybe(File) /\ tmp' = [tmp EXCEPT !["policy"] = Staged(v)]
  BY <1>2 DEF StageEnd, Ready, Maybe
<1>6. Staged(v).upto = v
  BY <1>2 DEF Ready
<1>7. UNCHANGED <<phase, told, safe, target, aside, step, by, dirs>> /\ writer' = writer
  BY DEF StageEnd
<1> HIDE DEF v
<1> QED
  BY <1>1, <1>2, <1>4, <1>5, <1>6, <1>7, PolicyStage

LEMMA StageDroppedKeeps ==
    ASSUME IInv, StageDropped
    PROVE  IInv'
<1>1. None \in Maybe(File) /\ tmp' = [tmp EXCEPT !["policy"] = None]
  BY DEF StageDropped, Discarded, Maybe
<1>2. /\ step = "idle" /\ writer' \in {writer, "none"}
      /\ UNCHANGED <<phase, told, safe, target, aside, step, by, dirs>>
  BY DEF StageDropped
<1>3. None # None => /\ 1 <= None.upto
                     /\ None.upto <= told
                     /\ None.shape = "whole" => Ready(None, None.upto)
  OBVIOUS
<1> QED
  BY <1>1, <1>2, <1>3, PolicyStage

LEMMA InstallBeginKeeps ==
    ASSUME IInv, InstallBegin
    PROVE  IInv'
<1>1. Ready(tmp["policy"], told) /\ 1 <= told /\ phase = "open"
  BY DEF InstallBegin, Unmoved, IInv, StageInv, Live
<1>2. TypeOK'
  BY Threads DEF InstallBegin, IInv, TypeOK
<1>3. DirsInv'
  BY SameDirs DEF InstallBegin, IInv, TypeOK
<1>4. StageInv'
  BY <1>1 DEF InstallBegin, IInv, StageInv
<1>5. LiveInv'
  BY DEF InstallBegin, IInv, LiveInv, Live
<1> QED
  BY <1>2, <1>3, <1>4, <1>5 DEF IInv

-----------------------------------------------------------------------------
(* The renames.                                                            *)

\* A rename leaves a directory whose two entries are sound.
LEMMA MovedTypes ==
    ASSUME TypeOK, NEW t \in Maybe(File), NEW a \in Maybe(File), Moved(t, a)
    PROVE  /\ target' \in Maybe(File) /\ aside' \in Maybe(File)
           /\ dirs' \subseteq [target : Maybe(File), aside : Maybe(File)]
BY DEF Moved, TypeOK, Dir

LEMMA DiscardedTmp ==
    ASSUME IInv, tmp' = Discarded(by)
    PROVE  /\ tmp' \in [Thread -> Maybe(File)]
           /\ tmp'["policy"] = tmp["policy"] \/ tmp'["policy"] = None
BY ThreadFiles, Threads DEF Discarded, IInv, TypeOK, Maybe

\* The temporary file takes the log's name.
LEMMA InstallKeeps ==
    ASSUME IInv, step \in {"rename", "promote"}, Moved(tmp[by], aside),
           tmp' = Discarded(by), step' = "tidy",
           UNCHANGED <<phase, writer, told, safe, by>>
    PROVE  IInv'
<1>1. Ready(tmp[by], told) /\ 1 <= told /\ phase = "open"
  BY DEF IInv, StageInv
<1>2. DirOK(Dir(tmp[by], aside), told, safe)
  BY <1>1, Installed DEF IInv
<1>3. DirsInv'
  BY <1>2, OneMove DEF IInv
<1>4. TypeOK'
  BY <1>1, MovedTypes, DiscardedTmp DEF IInv, TypeOK, Ready, Maybe
<1>5. Ready(target', told')
  BY <1>1 DEF Moved
<1>6. StageInv'
  BY <1>1, <1>5, DiscardedTmp DEF IInv, StageInv
<1>7. LiveInv'
  BY DEF IInv, LiveInv, Live
<1> QED
  BY <1>3, <1>4, <1>6, <1>7 DEF IInv

LEMMA RenameKeeps ==
    ASSUME IInv, Rename
    PROVE  IInv'
<1>1. CASE Moved(tmp[by], aside) /\ tmp' = Discarded(by) /\ step' = "tidy"
  BY <1>1, InstallKeeps DEF Rename
<1>2. CASE /\ step' = IF target # None THEN "clear" ELSE "promote"
           /\ UNCHANGED <<target, aside, tmp, dirs>>
  <2>1. UNCHANGED <<phase, writer, told, safe, by>> /\ step = "rename"
    BY DEF Rename
  <2>2. TypeOK'
    BY <1>2, <2>1 DEF IInv, TypeOK
  <2>3. DirsInv'
    BY <1>2, <2>1, SameDirs DEF IInv, TypeOK
  <2>4. StageInv'
    BY <1>2, <2>1 DEF IInv, StageInv
  <2>5. LiveInv'
    BY <1>2, <2>1 DEF IInv, LiveInv, Live
  <2> QED
    BY <2>2, <2>3, <2>4, <2>5 DEF IInv
<1> QED
  BY <1>1, <1>2 DEF Rename

LEMMA ClearAsideKeeps ==
    ASSUME IInv, ClearAside
    PROVE  IInv'
<1>1. PICK a \in {aside, None} : Moved(target, a)
  BY DEF ClearAside
<1>2. target # None /\ DirOK(Dir(target, aside), told, safe)
  BY Current DEF ClearAside, IInv, StageInv
<1>3. DirOK(Dir(target, a), told, safe)
  <2>1. CASE a = aside
    BY <1>2, <2>1
  <2>2. CASE a = None
    BY <1>2, <2>2, DirFields DEF DirOK, Dir, Opened, Maybe
  <2> QED
    BY <2>1, <2>2
<1>4. DirsInv'
  BY <1>1, <1>3, OneMove DEF ClearAside, IInv
<1>5. TypeOK'
  BY <1>1, MovedTypes DEF ClearAside, IInv, TypeOK, Maybe
<1>6. StageInv'
  BY <1>1, <1>2 DEF ClearAside, Moved, IInv, StageInv
<1>7. LiveInv'
  BY DEF ClearAside, IInv, LiveInv, Live
<1> QED
  BY <1>4, <1>5, <1>6, <1>7 DEF IInv

LEMMA MoveAsideKeeps ==
    ASSUME IInv, MoveAside
    PROVE  IInv'
<1>1. CASE SetAside /\ step' = "promote" /\ UNCHANGED <<phase, writer, told, safe, tmp, by>>
  <2>1. Moved(None, target) /\ step = "move"
    BY <1>1 DEF SetAside, MoveAside
  <2>2. target # None /\ DirOK(Dir(target, aside), told, safe)
    BY <2>1, Current DEF IInv, StageInv
  <2>3. DirOK(Dir(None, target), told, safe)
    BY <2>2, DirFields DEF DirOK, Dir, Opened, Maybe
  <2>4. DirsInv'
    BY <1>1, <2>1, <2>3, OneMove DEF IInv
  <2>5. TypeOK'
    BY <1>1, <2>1, MovedTypes DEF IInv, TypeOK, Maybe
  <2>6. StageInv'
    BY <1>1, <2>1 DEF Moved, IInv, StageInv
  <2>7. LiveInv'
    BY <1>1 DEF IInv, LiveInv, Live
  <2> QED
    BY <2>4, <2>5, <2>6, <2>7 DEF IInv
<1>2. CASE Fail /\ tmp' = Discarded(by)
  BY <1>2, FailKeeps
<1> QED
  BY <1>1, <1>2 DEF MoveAside

LEMMA PromoteKeeps ==
    ASSUME IInv, Promote
    PROVE  IInv'
BY InstallKeeps, FailKeeps DEF Promote


LEMMA TidyKeeps ==
    ASSUME IInv, Tidy
    PROVE  IInv'
<1>1. Ready(target, told) /\ 1 <= told /\ target # None
  BY NotAFile DEF Tidy, IInv, StageInv, Ready
<1>2. Sound(target, told)
  BY <1>1, Installed DEF IInv
<1>3. safe' = target.durable /\ told' = told /\ target' = target
  BY <1>1 DEF Tidy, Ready
<1>4. DirOK(Dir(target, aside), told, safe)
  BY Current DEF IInv
<1>5. DirOK(Dir(target, aside'), told, safe')
  <2>1. CASE aside' = aside
    BY <1>1, <1>2, <1>3, <1>4, <2>1, DirFields DEF DirOK, Opened, Sound, File
  <2>2. CASE aside' = None
    BY <1>1, <1>2, <1>3, <1>4, <2>2, DirFields DEF DirOK, Opened, Sound, File, Maybe, Dir
  <2> QED
    BY <2>1, <2>2 DEF Tidy
<1>6. dirs' = {Dir(target', aside')}
  BY <1>3 DEF Tidy
<1>7. DirsInv'
  BY <1>3, <1>5, <1>6 DEF DirsInv
<1>8. TypeOK'
  <2>1. aside' \in Maybe(File)
    BY DEF Tidy, IInv, TypeOK, Maybe
  <2>2. safe' \in Nat
    BY <1>2, <1>3 DEF Sound, File
  <2> QED
    BY <1>3, <1>6, <2>1, <2>2 DEF Tidy, IInv, TypeOK, Dir
<1>9. StageInv'
  BY DEF Tidy, IInv, StageInv
<1>10. LiveInv'
  <2>1. phase' = "open"
    BY DEF Tidy, IInv, StageInv
  <2> QED
    BY <1>1, <1>3, <1>6, <2>1 DEF LiveInv, Live, Ready
<1> QED
  BY <1>7, <1>8, <1>9, <1>10 DEF IInv
-----------------------------------------------------------------------------
(* Opening, deleting, failing.                                             *)

LEMMA OpenKeeps ==
    ASSUME IInv, Open
    PROVE  IInv'
<1>1. TypeOK'
  BY DEF Open, IInv, TypeOK
<1>2. DirsInv'
  BY SameDirs DEF Open, IInv, TypeOK
<1>3. StageInv'
  BY DEF Open, IInv, StageInv
<1>4. LiveInv'
  BY DEF Open, IInv, LiveInv, Live
<1> QED
  BY <1>1, <1>2, <1>3, <1>4 DEF IInv

\* The log's name is removed, its aside copy is not.
LEMMA Removed ==
    ASSUME IInv, Moved(None, aside), safe' = 0, told' = told
    PROVE  /\ DirsInv'
           /\ target' \in Maybe(File) /\ aside' \in Maybe(File)
           /\ dirs' \subseteq [target : Maybe(File), aside : Maybe(File)]
<1>1. aside \in Maybe(File) /\ None \in Maybe(File)
  BY DEF IInv, TypeOK, Maybe
<1>2. DirOK(Dir(None, aside), told, 0)
  <2>1. aside # None => Sound(aside, told)
    BY Current DEF IInv
  <2> QED
    BY <1>1, <2>1, DirFields DEF DirOK, Dir
<1>3. DirsInv'
  BY <1>2, OneMove DEF IInv
<1> QED
  BY <1>1, <1>3, MovedTypes DEF IInv

LEMMA DeleteKeeps ==
    ASSUME IInv, Delete
    PROVE  IInv'
<1>1. /\ DirsInv'
      /\ target' \in Maybe(File) /\ aside' \in Maybe(File)
      /\ dirs' \subseteq [target : Maybe(File), aside : Maybe(File)]
  BY Removed DEF Delete
<1>2. TypeOK'
  BY <1>1 DEF Delete, IInv, TypeOK
<1>3. StageInv'
  BY DEF Delete, IInv, StageInv
<1>4. LiveInv'
  BY DEF Delete, IInv, LiveInv, Live
<1> QED
  BY <1>1, <1>2, <1>3, <1>4 DEF IInv

LEMMA CloseKeeps ==
    ASSUME IInv, Close
    PROVE  IInv'
<1>1. /\ DirsInv'
      /\ target' \in Maybe(File) /\ aside' \in Maybe(File)
      /\ dirs' \subseteq [target : Maybe(File), aside : Maybe(File)]
  BY Removed DEF Close
<1>2. TypeOK'
  BY <1>1 DEF Close, IInv, TypeOK
<1>3. StageInv'
  BY DEF Close, IInv, StageInv
<1>4. LiveInv'
  BY DEF Close, IInv, LiveInv, Live
<1> QED
  BY <1>1, <1>2, <1>3, <1>4 DEF IInv

\* The process is gone, and its temporary files with it.
LEMMA GoneKeeps ==
    ASSUME IInv, Gone, DirsInv',
           target' \in Maybe(File), aside' \in Maybe(File),
           dirs' \subseteq [target : Maybe(File), aside : Maybe(File)]
    PROVE  IInv'
<1>1. tmp' \in [Thread -> Maybe(File)] /\ tmp'["policy"] = None
  BY Threads DEF Gone, Maybe
<1>2. TypeOK'
  BY <1>1 DEF Gone, IInv, TypeOK
<1>3. StageInv'
  BY <1>1 DEF Gone, StageInv
<1>4. LiveInv'
  BY DEF Gone, LiveInv, Live
<1> QED
  BY <1>2, <1>3, <1>4 DEF IInv

LEMMA CrashKeeps ==
    ASSUME IInv, Crash
    PROVE  IInv'
<1>1. Gone /\ aside' = aside /\ told' = told /\ safe' = safe
  BY DEF Crash, Gone
<1>2. CASE UNCHANGED <<target, dirs>>
  <2>1. DirsInv'
    BY <1>1, <1>2, SameDirs DEF IInv, TypeOK
  <2> QED
    BY <1>1, <1>2, <2>1, GoneKeeps DEF IInv, TypeOK
<1>3. CASE Live /\ target' = Torn(target) /\ dirs' = Rewritten(target')
  <2>1. /\ target' \in File
        /\ dirs' = {Dir(target', aside')}
        /\ DirOK(Dir(target', aside'), told', safe')
    BY <1>1, <1>3, TornKeeps
  <2>2. DirsInv'
    BY <2>1 DEF DirsInv
  <2>3. /\ target' \in Maybe(File) /\ aside' \in Maybe(File)
        /\ dirs' \subseteq [target : Maybe(File), aside : Maybe(File)]
    BY <1>1, <2>1 DEF IInv, TypeOK, Maybe, Dir
  <2> QED
    BY <1>1, <2>2, <2>3, GoneKeeps
<1> QED
  BY <1>2, <1>3 DEF Crash

\* What a power loss leaves of a sound file: at least what was synced.
LEMMA LostFile ==
    ASSUME NEW t \in Nat, NEW f, Sound(f, t), NEW g \in Lost(f)
    PROVE  Sound(g, t) /\ g.durable = g.upto /\ f.durable <= g.upto /\ g.upto <= f.upto
<1>1. f \in File /\ f # None /\ f.durable # 0 /\ f.durable \in Nat /\ f.upto \in Nat
  BY NotAFile DEF Sound, File
<1>2. PICK u \in f.durable..f.upto : \E sh \in {f.shape, "torn"} : g = Content(u, u, sh)
  BY <1>1 DEF Lost
<1>3. PICK sh \in {f.shape, "torn"} : g = Content(u, u, sh)
  BY <1>2
<1>4. u \in Nat /\ f.durable <= u /\ u <= f.upto
  BY <1>1
<1>5. sh \in {"whole", "torn", "bad"} /\ sh # "bad"
  BY <1>3 DEF Sound, File
<1>6. g \in File /\ g.upto = u /\ g.durable = u /\ g.shape = sh
  BY <1>3, <1>4, <1>5, ContentFields
<1>7. 1 <= u /\ u <= t
  <2>1. 1 <= f.durable /\ f.upto <= t
    BY DEF Sound
  <2> QED
    BY <1>1, <1>4, <2>1
<1> QED
  BY <1>4, <1>5, <1>6, <1>7 DEF Sound

LEMMA LostNone == Lost(None) = {None}
BY DEF Lost

\* A power loss leaves a directory that is sound, and holds what was safe.
LEMMA LeavingOK ==
    ASSUME TypeOK, DirsInv, NEW d \in Leavings
    PROVE  /\ DirOK(d, told, safe)
           /\ d = Dir(d.target, d.aside)
           /\ safe # 0 => safe <= Opened(d.target, d.aside).upto
<1>1. PICK e \in dirs : d \in [target : Lost(e.target), aside : Lost(e.aside)]
  BY DEF Leavings
<1>2. DirOK(e, told, safe) /\ told \in Nat /\ safe \in Nat
  BY DEF DirsInv, TypeOK
<1>3. d.target \in Lost(e.target) /\ d.aside \in Lost(e.aside) /\ d = Dir(d.target, d.aside)
  BY <1>1 DEF Dir
<1>4. /\ e.target = None => d.target = None
      /\ e.aside = None => d.aside = None
  BY <1>3, LostNone
<1>5. /\ e.target # None => /\ Sound(e.target, told) /\ Sound(d.target, told)
                            /\ d.target.durable = d.target.upto
                            /\ e.target.durable <= d.target.upto
      /\ e.aside # None => /\ Sound(e.aside, told) /\ Sound(d.aside, told)
                           /\ d.aside.durable = d.aside.upto
                           /\ e.aside.durable <= d.aside.upto
                           /\ d.aside.upto <= e.aside.upto
  BY <1>2, <1>3, LostFile DEF DirOK
<1>6. /\ d.target # None => e.target # None
      /\ d.aside # None => e.aside # None
      /\ e.target # None => d.target # None
      /\ e.aside # None => d.aside # None
  BY <1>4, <1>5, NotAFile DEF Sound
<1>7. d \in [target : Maybe(File), aside : Maybe(File)]
  <2>1. d.target \in Maybe(File) /\ d.aside \in Maybe(File)
    BY <1>4, <1>5 DEF Maybe, Sound
  <2> QED
    BY <1>3, <2>1 DEF Dir
<1>8. d.target # None /\ d.aside # None => d.aside.upto <= d.target.durable
  <2>1. CASE d.target # None /\ d.aside # None
    <3>1. e.aside.upto <= e.target.durable
      BY <1>2, <1>6, <2>1 DEF DirOK
    <3> QED
      BY <1>5, <1>6, <2>1, <3>1 DEF Sound, File
  <2> QED
    BY <2>1
<1>9. safe # 0 => /\ Opened(d.target, d.aside) # None
                  /\ safe <= Opened(d.target, d.aside).durable
                  /\ safe <= Opened(d.target, d.aside).upto
  <2>1. CASE safe # 0 /\ e.target # None
    <3>1. safe <= e.target.durable
      BY <1>2, <2>1 DEF DirOK, Opened
    <3>2. safe <= d.target.upto
      BY <1>2, <1>5, <2>1, <3>1 DEF Sound, File
    <3> QED
      BY <1>5, <1>6, <2>1, <3>2 DEF Opened
  <2>2. CASE safe # 0 /\ e.target = None
    <3>1. e.aside # None /\ safe <= e.aside.durable
      BY <1>2, <2>2 DEF DirOK, Opened
    <3>2. safe <= d.aside.upto
      BY <1>2, <1>5, <3>1 DEF Sound, File
    <3> QED
      BY <1>4, <1>5, <1>6, <2>2, <3>1, <3>2 DEF Opened
  <2> QED
    BY <2>1, <2>2
<1> QED
  BY <1>3, <1>5, <1>6, <1>7, <1>8, <1>9 DEF DirOK

LEMMA PowerLossKeeps ==
    ASSUME IInv, PowerLoss
    PROVE  IInv'
<1>1. PICK d \in Leavings : target' = d.target /\ aside' = d.aside /\ dirs' = {d}
  BY DEF PowerLoss
<1>2. DirOK(d, told, safe) /\ d = Dir(d.target, d.aside)
  BY LeavingOK DEF IInv
<1>3. Gone /\ told' = told /\ safe' = safe
  BY DEF PowerLoss, Gone
<1>4. DirsInv'
  BY <1>1, <1>2, <1>3 DEF DirsInv
<1>5. /\ target' \in Maybe(File) /\ aside' \in Maybe(File)
      /\ dirs' \subseteq [target : Maybe(File), aside : Maybe(File)]
  BY <1>1, <1>2 DEF DirOK
<1> QED
  BY <1>3, <1>4, <1>5, GoneKeeps
-----------------------------------------------------------------------------
(* Theorems.                                                               *)

LEMMA Inductive == IInv /\ [Next]_vars => IInv'
<1> SUFFICES ASSUME IInv, [Next]_vars PROVE IInv'
  OBVIOUS
<1>1. CASE Append
  BY <1>1, AppendKeeps
<1>2. CASE AppendFails
  BY <1>2, AppendFailsKeeps
<1>3. CASE Sync
  BY <1>3, SyncKeeps
<1>4. CASE BeginRewrite
  BY <1>4, BeginRewriteKeeps
<1>5. CASE WriteStaged
  BY <1>5, WriteStagedKeeps
<1>6. CASE StageBegin
  BY <1>6, StageBeginKeeps
<1>7. CASE StageEnd
  BY <1>7, StageEndKeeps
<1>8. CASE InstallBegin
  BY <1>8, InstallBeginKeeps
<1>9. CASE StageDropped
  BY <1>9, StageDroppedKeeps
<1>10. CASE Rename
  BY <1>10, RenameKeeps
<1>11. CASE ClearAside
  BY <1>11, ClearAsideKeeps
<1>12. CASE MoveAside
  BY <1>12, MoveAsideKeeps
<1>13. CASE Promote
  BY <1>13, PromoteKeeps
<1>14. CASE Tidy
  BY <1>14, TidyKeeps
<1>15. CASE Open
  BY <1>15, OpenKeeps
<1>16. CASE Delete
  BY <1>16, DeleteKeeps
<1>17. CASE Close
  BY <1>17, CloseKeeps
<1>18. CASE Crash
  BY <1>18, CrashKeeps
<1>19. CASE PowerLoss
  BY <1>19, PowerLossKeeps
<1>20. CASE UNCHANGED vars
  BY <1>20 DEF vars, IInv, TypeOK, DirsInv, StageInv, LiveInv, Live
<1> QED
  BY <1>1, <1>2, <1>3, <1>4, <1>5, <1>6, <1>7, <1>8, <1>9, <1>10, <1>11, <1>12,
     <1>13, <1>14, <1>15, <1>16, <1>17, <1>18, <1>19, <1>20 DEF Next

\* Every reachable state of the log's files satisfies the inductive invariant.
THEOREM Invariance == Spec => []IInv
BY Initially, Inductive, PTL DEF Spec

\* Files, temporary files and directories are what they are declared to be.
THEOREM TypeCorrect == Spec => []TypeOK
<1>1. IInv => TypeOK
  BY DEF IInv
<1> QED
  BY <1>1, Invariance, PTL

\* However many commits and rewrites there were, a reader of the files finds the
\* last of them while a writer is attached and at rest (WalWriter::log, open_wal_file).
THEOREM CommittedSurvivesCrash == Spec => []CommittedIsRead
<1>1. IInv => CommittedIsRead
  BY DEF IInv, LiveInv, CommittedIsRead, Reader, Opened, Held
<1> QED
  BY <1>1, Invariance, PTL

\* A power loss between any two file operations takes nothing that an fsync or a
\* finished rewrite had secured (write_staged, rename_via_aside, fsync_parent).
THEOREM SyncedSurvivesPowerLoss == Spec => []SyncedSurvives
<1>1. ASSUME IInv, NEW d \in Leavings
      PROVE  safe <= Held(Opened(d.target, d.aside))
  <2>1. /\ DirOK(d, told, safe)
        /\ safe # 0 => safe <= Opened(d.target, d.aside).upto
    BY <1>1, LeavingOK DEF IInv
  <2>2. CASE safe # 0
    BY <2>1, <2>2 DEF DirOK, Sound, Opened, Held
  <2>3. CASE safe = 0
    <3> DEFINE o == Opened(d.target, d.aside)
    <3>1. o # None => o \in File
      BY <2>1 DEF DirOK, Sound, Opened
    <3>2. Held(o) \in Nat
      BY <3>1 DEF Held, File
    <3> QED
      BY <2>3, <3>2
  <2> QED
    BY <1>1, <2>2, <2>3 DEF IInv, TypeOK
<1>2. IInv => SyncedSurvives
  BY <1>1 DEF SyncedSurvives
<1> QED
  BY <1>2, Invariance, PTL

-----------------------------------------------------------------------------
(* The files implement AtomicLog.                                          *)

\* What a reader finds in a sound directory.
LEMMA ReadOf ==
    ASSUME NEW t \in Nat, NEW s \in Nat, NEW x, NEW a, DirOK(Dir(x, a), t, s)
    PROVE  /\ Opened(x, a) # None => /\ Opened(x, a) \in File
                                     /\ Held(Opened(x, a)) = Opened(x, a).upto
           /\ Held(Opened(x, a)) \in s..t
<1> DEFINE o == Opened(x, a)
<1>1. o # None => Sound(o, t)
  BY DirFields DEF DirOK, Opened
<1>2. s # 0 => o # None /\ s <= o.durable
  BY DirFields DEF DirOK
<1> HIDE DEF o
<1>3. o # None => o \in File /\ Held(o) = o.upto
  BY <1>1 DEF Held, Sound
<1>4. Held(o) \in s..t
  <2>1. CASE o # None
    BY <1>1, <1>2, <1>3, <2>1 DEF Sound, File
  <2>2. CASE o = None
    BY <1>2, <2>2 DEF Held
  <2> QED
    BY <2>1, <2>2
<1> QED
  BY <1>3, <1>4 DEF o

LEMMA ReaderBounds ==
    ASSUME IInv
    PROVE  /\ Reader \in safe..told /\ Reader \in Nat
           /\ told \in Nat /\ safe \in Nat
           /\ target # None => /\ Reader = target.upto
                               /\ Held(target) = target.upto
                               /\ target.upto \in Nat
<1>1. told \in Nat /\ safe \in Nat /\ DirOK(Dir(target, aside), told, safe)
  BY Current DEF IInv, TypeOK
<1>2. /\ Reader \in safe..told
      /\ target # None => target \in File /\ Reader = target.upto
  BY <1>1, ReadOf DEF Reader, Opened
<1>3. target # None => Held(target) = Reader
  BY DEF Reader, Opened
<1> QED
  BY <1>1, <1>2, <1>3 DEF File

\* Nothing a reader sees is changed.
LEMMA SameReader ==
    ASSUME Reader' = Reader, told' = told, safe' = safe
    PROVE  UNCHANGED Atomic!vars
BY DEF Atomic!vars

LEMMA AppendHolds ==
    ASSUME IInv, Append
    PROVE  Atomic!Hold
<1>1. target # None /\ target.shape = "whole" /\ told \in Nat
  BY DEF Append, IInv, LiveInv, TypeOK
<1>2. target \in File
  BY <1>1 DEF IInv, TypeOK, Maybe
<1>3. target' = Content(told + 1, target.durable, "whole")
  BY <1>1 DEF Append, Grown
<1>4. target' \in File /\ target'.upto = told + 1 /\ target'.shape = "whole"
  <2>1. target.durable \in Nat /\ told + 1 \in Nat
    BY <1>1, <1>2 DEF File
  <2> QED
    BY <1>3, <2>1, ContentFields
<1>5. Reader' = told + 1
  BY <1>4, NotAFile DEF Reader, Opened, Held
<1>6. Reader <= told /\ Reader \in Nat
  BY ReaderBounds
<1> QED
  BY <1>1, <1>5, <1>6 DEF Append, Atomic!Hold

LEMMA AppendFailsTells ==
    ASSUME IInv, AppendFails
    PROVE  Atomic!Tell
<1>1. target # None /\ target' # None /\ target'.upto = target.upto /\ target'.shape # "bad"
  BY TornKeeps DEF AppendFails, IInv, LiveInv
<1>2. Reader' = target'.upto
  BY <1>1 DEF Reader, Opened, Held
<1>3. Reader = target.upto
  BY <1>1, ReaderBounds
<1> QED
  BY <1>1, <1>2, <1>3 DEF AppendFails, Atomic!Tell

LEMMA SyncSecures ==
    ASSUME IInv, Sync
    PROVE  Atomic!Secure
<1>1. target # None /\ target \in File
  BY DEF Sync, IInv, LiveInv, TypeOK, Maybe
<1>2. target' \in File /\ target'.upto = target.upto /\ target'.shape = target.shape
  BY <1>1 DEF Sync, Synced, Content, File
<1>3. Reader' = Reader
  BY <1>1, <1>2, NotAFile DEF Reader, Opened, Held, Sync
<1>4. Reader = target.upto
  BY <1>1, ReaderBounds
<1> QED
  BY <1>3, <1>4 DEF Sync, Atomic!Secure

\* A temporary file that takes the log's name is the version last told.
LEMMA InstallHolds ==
    ASSUME IInv, step \in {"rename", "promote"}, Moved(tmp[by], aside),
           told' = told, safe' = safe
    PROVE  Atomic!Hold \/ UNCHANGED Atomic!vars
<1>1. Ready(tmp[by], told)
  BY DEF IInv, StageInv
<1>2. target' # None /\ target'.upto = told /\ target'.shape = "whole"
  BY <1>1, NotAFile DEF Ready, Moved
<1>3. Reader' = told
  BY <1>2 DEF Reader, Opened, Held
<1>4. Reader \in Nat /\ Reader <= told /\ told \in Nat
  BY ReaderBounds
<1>5. CASE Reader = told
  BY <1>3, <1>5, SameReader
<1>6. CASE Reader # told
  BY <1>3, <1>4, <1>6 DEF Atomic!Hold
<1> QED
  BY <1>5, <1>6

LEMMA TidySecures ==
    ASSUME IInv, Tidy
    PROVE  Atomic!Secure
<1>1. target # None /\ target' = target
  BY NotAFile DEF Tidy, IInv, StageInv, Ready
<1>2. Reader' = Reader
  BY <1>1 DEF Reader, Opened
<1>3. Reader = target.upto
  BY <1>1, ReaderBounds
<1> QED
  BY <1>2, <1>3 DEF Tidy, Atomic!Secure

\* Removing the log may uncover its aside copy, which is no newer.
LEMMA RemovedDrops ==
    ASSUME IInv, Moved(None, aside), safe' = 0, told' = told
    PROVE  Atomic!Drop
<1>1. Reader' = Held(aside)
  BY DEF Moved, Reader, Opened
<1>2. Reader \in Nat
  BY ReaderBounds
<1>3. aside # None => Sound(aside, told)
  BY Current DEF IInv
<1>4. Held(aside) \in 0..Reader
  <2>1. CASE aside = None
    BY <1>2, <2>1 DEF Held
  <2>2. CASE aside # None /\ target = None
    BY <1>2, <2>2 DEF Reader, Opened
  <2>3. CASE aside # None /\ target # None
    <3>1. aside.upto <= target.durable /\ Sound(target, told)
      BY <2>3, Current DEF IInv
    <3>2. aside.upto <= target.upto /\ aside.upto \in Nat
      BY <1>3, <2>3, <3>1 DEF Sound, File
    <3>3. Reader = target.upto
      BY <2>3, ReaderBounds
    <3> QED
      BY <1>2, <1>3, <2>3, <3>2, <3>3 DEF Held, Sound
  <2> QED
    BY <2>1, <2>2, <2>3
<1> QED
  BY <1>1, <1>4 DEF Atomic!Drop

LEMMA CrashStutters ==
    ASSUME IInv, Crash
    PROVE  UNCHANGED Atomic!vars
<1>1. told' = told /\ safe' = safe /\ aside' = aside
  BY DEF Crash, Gone
<1>2. CASE target' = target
  BY <1>1, <1>2, SameReader DEF Reader
<1>3. CASE Live /\ target' = Torn(target)
  <2>1. target # None /\ target' # None /\ target'.upto = target.upto /\ target'.shape # "bad"
    BY <1>3, TornKeeps DEF IInv, LiveInv
  <2>2. Reader' = target'.upto
    BY <2>1 DEF Reader, Opened, Held
  <2>3. Reader = target.upto
    BY <2>1, ReaderBounds
  <2> QED
    BY <1>1, <2>1, <2>2, <2>3, SameReader
<1> QED
  BY <1>2, <1>3 DEF Crash

LEMMA PowerLossLoses ==
    ASSUME IInv, PowerLoss
    PROVE  Atomic!PowerLoss
<1>1. PICK d \in Leavings : target' = d.target /\ aside' = d.aside
  BY DEF PowerLoss
<1>2. DirOK(Dir(d.target, d.aside), told, safe) /\ told \in Nat /\ safe \in Nat
  BY LeavingOK DEF IInv, TypeOK
<1>3. Held(Opened(d.target, d.aside)) \in safe..told
  BY <1>2, ReadOf
<1>4. Reader' = Held(Opened(d.target, d.aside))
  BY <1>1 DEF Reader
<1>5. told' = told /\ safe' = safe
  BY DEF PowerLoss, Gone
<1> QED
  BY <1>3, <1>4, <1>5 DEF Atomic!PowerLoss

LEMMA Implements ==
    ASSUME IInv, [Next]_vars
    PROVE  [Atomic!Next]_(Atomic!vars)
<1>1. CASE Append
  BY <1>1, AppendHolds DEF Atomic!Next
<1>2. CASE AppendFails
  BY <1>2, AppendFailsTells DEF Atomic!Next
<1>3. CASE Sync
  BY <1>3, SyncSecures DEF Atomic!Next
<1>4. CASE BeginRewrite
  BY <1>4 DEF BeginRewrite, Atomic!Next, Atomic!Tell, Reader
<1>5. CASE WriteStaged \/ StageBegin \/ StageEnd \/ InstallBegin \/ StageDropped \/ Open
  BY <1>5, SameReader
     DEF WriteStaged, Fail, StageBegin, StageEnd, InstallBegin, StageDropped, Open, Reader
<1>6. CASE Rename
  <2>1. CASE Moved(tmp[by], aside)
    BY <1>6, <2>1, InstallHolds DEF Rename, Atomic!Next
  <2>2. CASE UNCHANGED <<target, aside>>
    BY <1>6, <2>2, SameReader DEF Rename, Reader
  <2> QED
    BY <1>6, <2>1, <2>2 DEF Rename
<1>7. CASE ClearAside
  <2>1. target # None /\ target' = target
    BY <1>7 DEF ClearAside, Moved, IInv, StageInv
  <2> QED
    BY <1>7, <2>1, SameReader DEF ClearAside, Reader, Opened
<1>8. CASE MoveAside
  <2>1. target # None
    BY <1>8 DEF MoveAside, IInv, StageInv
  <2>2. CASE SetAside
    BY <1>8, <2>1, <2>2, SameReader DEF MoveAside, SetAside, Moved, Fail, Reader, Opened
  <2>3. CASE Fail
    BY <2>3, SameReader DEF Fail, Reader
  <2> QED
    BY <1>8, <2>2, <2>3 DEF MoveAside
<1>9. CASE Promote
  <2>1. CASE Moved(tmp[by], aside)
    BY <1>9, <2>1, InstallHolds DEF Promote, Fail, Atomic!Next
  <2>2. CASE Fail
    BY <2>2, SameReader DEF Fail, Reader
  <2> QED
    BY <1>9, <2>1, <2>2 DEF Promote
<1>10. CASE Tidy
  BY <1>10, TidySecures DEF Atomic!Next
<1>11. CASE Delete \/ Close
  BY <1>11, RemovedDrops DEF Delete, Close, Atomic!Next
<1>12. CASE Crash
  BY <1>12, CrashStutters
<1>13. CASE PowerLoss
  BY <1>13, PowerLossLoses DEF Atomic!Next
<1>14. CASE UNCHANGED vars
  BY <1>14, SameReader DEF vars, Reader
<1> QED
  BY <1>1, <1>2, <1>3, <1>4, <1>5, <1>6, <1>7, <1>8, <1>9, <1>10, <1>11, <1>12, <1>13,
     <1>14 DEF Next

\* The files, however a rewrite is interrupted, are one log that moves forward
\* through the versions it was told (wal.rs, "a crash leaves either the old or
\* the new complete log on disk").
THEOREM FilesAreAtomic == Spec => LogIsAtomic
<1>1. Init => Atomic!Init
  BY DEF Init, Atomic!Init, Reader, Opened, Held
<1>2. IInv /\ [Next]_vars => [Atomic!Next]_(Atomic!vars)
  BY Implements
<1> QED
  BY <1>1, <1>2, Invariance, PTL DEF Spec, LogIsAtomic, Atomic!Spec
=============================================================================
