---------------------------- MODULE OutputProofs -----------------------------
(***************************************************************************)
(* Proofs about the files that operations leave. Publish: every copy is     *)
(* kept and every answer true, for any number of writers, names,            *)
(* publications and parts of a split. Batch: whatever was spilled and       *)
(* however often it was merged, only the files of a finished sort stay,     *)
(* and the result is the exact one, for any document, task, budget and      *)
(* fan-in. Updater: for any number of processes at once, a build is         *)
(* followed from the download to its place; what a process has verified     *)
(* stays trusted, because a release is only ever uploaded again and never   *)
(* taken back; what it has set aside was trusted when it was set aside,     *)
(* unless something on this machine works in place.                         *)
(***************************************************************************)
EXTENDS Publish, Batch, Updater, TLAPS, FiniteSetTheorems, SequenceTheorems,
        WellFoundedInduction

-----------------------------------------------------------------------------
(* Publish.                                                                *)

Forward == Running \ {"discard", "undo"}

\* Publications are numbered, and no two writers are at the same one.
Numbered ==
    \A v \in Writers :
        /\ pub[v].id <= begun
        /\ pub[v].pc # "idle" => pub[v].id > 0
        /\ \A w \in Writers : v # w /\ pub[v].id = pub[w].id => pub[v].id = 0

\* Over a quiet name, whoever runs is the one who began last.
RunnerOwns ==
    \A w \in Writers : \A n \in Quiet :
        pub[w].pc \in Running /\ n \in Touched(pub[w]) => owner[n] = pub[w].id

\* How far a publication has come.
Counted(p) ==
    /\ p.manner # "split" => p.pc # "undo"
    /\ p.pc \in {"check", "write"} => ~p.whole
    /\ p.manner = "split" => p.new /\ (p.pc \in Forward \cup {"discard"} => p.made = p.name - 1)
    /\ p.manner = "create" => p.new /\ p.pc \notin {"clear", "move", "promote", "restore", "drop"}

\* What its stage holds.
StageFits(p, c) ==
    /\ p.pc \in {"rename", "clear", "move", "promote", "restore"} => c = p.id
    /\ p.pc \in {"discard", "failed"} /\ Keeps(p) => c = p.id

\* What a name n of it holds (a), its aside name (s), and what it held before (b).
FitsForward(p, n, a, s, b) ==
    /\ n < p.name => b = NoFile /\ a = p.id
    /\ n > p.name => a = b
    /\ n = p.name =>
          /\ p.pc \in {"check", "write", "rename"} => a = b
          /\ p.pc \in {"clear", "move"} => a = b /\ a # NoFile
          /\ p.pc \in {"promote", "restore"} => a = NoFile /\ s = b /\ b # NoFile
          /\ p.pc \in {"drop", "published"} => a = p.id
          /\ p.manner = "split" /\ p.pc # "check" => b = NoFile

Fits(p, n, a, s, b) ==
    /\ p.pc \in Forward => FitsForward(p, n, a, s, b)
    /\ p.pc = "discard" => IF n < p.name THEN b = NoFile /\ a = p.id ELSE p.tidy => a = b
    /\ p.pc = "undo" => IF n >= p.name /\ n <= p.made THEN b = NoFile /\ a = p.id
                                                      ELSE p.tidy => a = b
    /\ p.pc = "failed" => (p.tidy => a = b)
    /\ p.pc = "ok" => a = p.id

AllCounted == \A w \in Writers : Counted(pub[w])
AllStaged == \A w \in Writers : StageFits(pub[w], staged[w])
AllFit == \A w \in Writers : \A n \in Own(w) : Fits(pub[w], n, named[n], aside[n], before[w][n])

\* What a name holds is what it held last.
LastIs == \A n \in Names : named[n] # NoFile => last[n] = named[n]

PubInv == /\ PubTypeOK /\ Numbered /\ RunnerOwns /\ AllCounted /\ AllStaged /\ AllFit
          /\ LastIs /\ OnlyWhole /\ CopyStays

-----------------------------------------------------------------------------
(* Facts about single publications.                                        *)

LEMMA TargetTouched ==
    ASSUME PubTypeOK, NEW w \in Writers
    PROVE  /\ pub[w] \in Publication /\ Target(w) \in Names
           /\ Target(w) \in Touched(pub[w]) /\ Touched(pub[w]) \subseteq Names
BY DEF PubTypeOK, Publication, Touched, Target

\* Whoever runs touches nothing another publication still speaks of.
LEMMA Apart ==
    ASSUME PubInv, NEW v \in Writers, NEW w \in Writers, v # w, pub[w].pc \in Running,
           NEW n \in Own(v)
    PROVE  n \notin Touched(pub[w])
<1> SUFFICES ASSUME n \in Touched(pub[w]) PROVE FALSE
  OBVIOUS
<1>1. n \in Quiet /\ owner[n] = pub[v].id
  BY DEF Own
<1>2. owner[n] = pub[w].id
  BY <1>1 DEF PubInv, RunnerOwns
<1>3. pub[w].pc # "idle"
  BY DEF Running
<1>4. pub[w] \in Publication
  BY DEF PubInv, PubTypeOK
<1>5. pub[w].id \in Int
  BY <1>4 DEF Publication
<1>6. pub[w].id > 0
  BY <1>3 DEF PubInv, Numbered
<1>7. pub[w].id = 0
  BY <1>1, <1>2 DEF PubInv, Numbered
<1> QED
  BY <1>5, <1>6, <1>7

\* What a step of a running publication must show for the invariant.
Sound(w, q) ==
    /\ UNCHANGED story
    /\ pub' = [pub EXCEPT ![w] = q]
    /\ q \in Publication /\ q.pc # "idle"
    /\ q.id = pub[w].id /\ q.manner = pub[w].manner
    /\ q.manner # "split" => q.name = pub[w].name
    /\ Counted(q)

Local(w, q) ==
    /\ staged' \in [Writers -> Bytes]
    /\ \A v \in Writers : v # w => staged'[v] = staged[v]
    /\ StageFits(q, staged'[w])
    /\ named' \in [Names -> Bytes] /\ aside' \in [Names -> Bytes] /\ last' \in [Names -> Bytes]
    /\ \A n \in Names : n # Target(w) => named'[n] = named[n] /\ aside'[n] = aside[n]
    /\ \A n \in Own(w) : Fits(q, n, named'[n], aside'[n], before[w][n])

LEMMA StepKeeps ==
    ASSUME PubInv, NEW w \in Writers, NEW q, pub[w].pc \in Running,
           Sound(w, q), Local(w, q), LastIs', OnlyWhole', CopyStays'
    PROVE  PubInv'
<1>0. pub \in [Writers -> Publication] /\ pub'[w] = q /\ q \in Publication
  BY DEF PubInv, PubTypeOK, Sound
<1>1. \A v \in Writers : v # w => pub'[v] = pub[v]
  BY <1>0 DEF Sound
<1>2. /\ begun' = begun /\ owner' = owner /\ before' = before /\ met' = met /\ Quiet' = Quiet
  BY DEF Sound, story, Quiet
<1>3. Touched(q) = Touched(pub[w])
  BY DEF Sound, Touched
<1>4. \A v \in Writers : Own(v)' = Own(v)
  BY <1>0, <1>1, <1>2, <1>3 DEF Own, Sound
<1>5. PubTypeOK'
  <2>1. pub' \in [Writers -> Publication]
    BY <1>0 DEF Sound
  <2> QED
    BY <2>1, <1>2 DEF PubInv, PubTypeOK, Local
<1>6. Numbered'
  <2> SUFFICES ASSUME NEW v \in Writers
               PROVE  /\ pub'[v].id <= begun
                      /\ pub'[v].pc # "idle" => pub'[v].id > 0
                      /\ \A x \in Writers : v # x /\ pub'[v].id = pub'[x].id => pub'[v].id = 0
    BY <1>2 DEF Numbered
  <2>1. pub[w].pc # "idle"
    BY DEF Running
  <2>2. \A x \in Writers : pub'[x].id = pub[x].id
    BY <1>0, <1>1 DEF Sound
  <2>3. pub'[v].pc # "idle" => pub[v].pc # "idle"
    BY <1>1, <2>1
  <2> QED
    BY <2>2, <2>3 DEF PubInv, Numbered
<1>7. RunnerOwns'
  <2> SUFFICES ASSUME NEW v \in Writers, NEW n \in Quiet, pub'[v].pc \in Running,
                      n \in Touched(pub'[v])
               PROVE  owner[n] = pub'[v].id
    BY <1>2 DEF RunnerOwns, Touched
  <2>1. pub'[v].id = pub[v].id /\ Touched(pub'[v]) = Touched(pub[v]) /\ pub[v].pc \in Running
    BY <1>0, <1>1, <1>3 DEF Sound
  <2> QED
    BY <2>1 DEF PubInv, RunnerOwns
<1>8. AllCounted'
  <2> SUFFICES ASSUME NEW v \in Writers PROVE Counted(pub'[v])
    BY DEF AllCounted, Counted
  <2> QED
    BY <1>0, <1>1 DEF PubInv, AllCounted, Sound
<1>9. AllStaged'
  <2> SUFFICES ASSUME NEW v \in Writers PROVE StageFits(pub'[v], staged'[v])
    BY DEF AllStaged, StageFits, Keeps
  <2>1. CASE v = w
    BY <2>1, <1>0 DEF Local
  <2>2. CASE v # w
    BY <2>2, <1>1 DEF Local, PubInv, AllStaged
  <2> QED
    BY <2>1, <2>2
<1>10. AllFit'
  <2> SUFFICES ASSUME NEW v \in Writers, NEW n \in Own(v)
               PROVE  Fits(pub'[v], n, named'[n], aside'[n], before[v][n])
    BY <1>2, <1>4 DEF AllFit, Fits, FitsForward
  <2>1. CASE v = w
    BY <2>1, <1>0 DEF Local
  <2>2. CASE v # w
    <3>1. n \in Names /\ n # Target(w)
      BY <2>2, Apart, TargetTouched DEF PubInv, Own, Quiet
    <3>2. named'[n] = named[n] /\ aside'[n] = aside[n]
      BY <3>1 DEF Local
    <3> QED
      BY <2>2, <3>2, <1>1 DEF PubInv, AllFit
  <2> QED
    BY <2>1, <2>2
<1> QED
  BY <1>5, <1>6, <1>7, <1>8, <1>9, <1>10 DEF PubInv

-----------------------------------------------------------------------------
(* The steps.                                                              *)

\* Steps that only go on: what a position says of the names follows from
\* what the one before it said.
LEMMA GoesOn ==
    ASSUME PubInv, NEW w \in Writers, NEW q, pub[w].pc \in Running, Sound(w, q),
           UNCHANGED <<named, aside, last>>,
           staged' \in [Writers -> Bytes],
           \A v \in Writers : v # w => staged'[v] = staged[v],
           StageFits(q, staged'[w]),
           \A n \in Own(w) : Fits(q, n, named[n], aside[n], before[w][n])
    PROVE  PubInv'
<1>1. Local(w, q)
  BY DEF Local, PubInv, PubTypeOK
<1>2. LastIs' /\ OnlyWhole' /\ CopyStays'
  BY DEF PubInv, LastIs, OnlyWhole, CopyStays, Quiet, Sound, story
<1> QED
  BY <1>1, <1>2, StepKeeps

\* What the steps start from.
LEMMA Start ==
    ASSUME PubInv, NEW w \in Writers
    PROVE  /\ pub[w] \in Publication /\ Counted(pub[w]) /\ StageFits(pub[w], staged[w])
           /\ Target(w) \in Names /\ Target(w) = pub[w].name
           /\ pub[w].name \in Int /\ pub[w].made \in Int
           /\ \A n \in Own(w) : /\ n \in Int /\ n \in Names /\ n \in Touched(pub[w]) /\ n \in Quiet
                                /\ Fits(pub[w], n, named[n], aside[n], before[w][n])
           /\ pub[w].pc # "idle" => pub[w].id \in Nat \ {0}
<1>1. pub[w] \in Publication /\ Target(w) \in Names /\ Names \subseteq Int
  BY TargetTouched, PublishConstants DEF PubInv, Names
<1>2. pub[w].id \in 0 .. MaxRuns /\ pub[w].made \in 0 .. (Parts - 1) /\ pub[w].name \in Int
  BY <1>1 DEF Publication, Target
<1>3. pub[w].made \in Int /\ pub[w].id \in Nat
  BY <1>2, PublishConstants
<1>4. \A n \in Own(w) : /\ n \in Names /\ n \in Touched(pub[w]) /\ n \in Quiet
                         /\ Fits(pub[w], n, named[n], aside[n], before[w][n])
  BY DEF PubInv, AllFit, Own, Quiet
<1>5. pub[w].pc # "idle" => pub[w].id \in Nat \ {0}
  BY <1>3 DEF PubInv, Numbered
<1>6. Counted(pub[w]) /\ StageFits(pub[w], staged[w])
  BY DEF PubInv, AllCounted, AllStaged
<1>7. \A n \in Own(w) : n \in Int
  BY <1>1, <1>4
<1> QED
  BY <1>1, <1>2, <1>3, <1>4, <1>5, <1>6, <1>7 DEF Target

LEMMA CheckKeeps ==
    ASSUME PubInv, NEW w \in Writers, Check(w)
    PROVE  PubInv'
<1> DEFINE q == Onto(pub[w], IF Occupied(w) THEN "discard" ELSE "write")
<1>1. pub[w].pc = "check" /\ pub' = [pub EXCEPT ![w] = q] /\ UNCHANGED <<files, last, story>>
  BY DEF Check, PubAt, Then
<1>2. Sound(w, q)
  BY <1>1, Start DEF Sound, Onto, Publication, Running, Forward, Counted
<1>3. StageFits(q, staged[w])
  <2>1. ~pub[w].whole
    BY <1>1, Start DEF Counted
  <2> QED
    BY <1>1, <2>1, Start DEF StageFits, Keeps, Onto, Publication
<1>4. ASSUME NEW n \in Own(w)
      PROVE  Fits(q, n, named[n], aside[n], before[w][n])
  BY <1>1, Start DEF Fits, FitsForward, Onto, Running, Forward, Occupied, Counted, Exists, Touched
<1> QED
  BY <1>1, <1>2, <1>3, <1>4, GoesOn DEF files, Running, PubInv, PubTypeOK
LEMMA WriteKeeps ==
    ASSUME PubInv, NEW w \in Writers, Write(w)
    PROVE  PubInv'
<1>1. pub[w].pc = "write" /\ ~pub[w].whole /\ staged \in [Writers -> Bytes]
  BY Start DEF Write, PubAt, Counted, PubInv, PubTypeOK
<1>2. CASE staged' = [staged EXCEPT ![w] = pub[w].id] /\ pub' = [pub EXCEPT ![w] = Finished(pub[w])]
  <2> DEFINE q == Finished(pub[w])
  <2>1. Sound(w, q)
    BY <1>1, <1>2, Start DEF Write, Sound, Finished, Publication, Running, Forward, Counted
  <2>2. pub[w].id \in Bytes
    BY <1>1, Start, PublishConstants DEF Publication, Bytes
  <2>3. staged' \in [Writers -> Bytes] /\ StageFits(q, staged'[w])
    BY <1>1, <1>2, <2>2, Start DEF StageFits, Finished, Publication
  <2>4. ASSUME NEW n \in Own(w)
        PROVE  Fits(q, n, named[n], aside[n], before[w][n])
    BY <1>1, Start DEF Fits, FitsForward, Finished, Running, Forward, Publication
  <2> QED
    BY <1>1, <1>2, <2>1, <2>3, <2>4, GoesOn DEF Write, Running
<1>3. CASE staged' = [staged EXCEPT ![w] = Half] /\ Then(w, "discard")
  <2> DEFINE q == Onto(pub[w], "discard")
  <2>1. Sound(w, q)
    BY <1>1, <1>3, Start DEF Write, Then, Sound, Onto, Publication, Running, Forward, Counted
  <2>2. staged' \in [Writers -> Bytes] /\ StageFits(q, staged'[w])
    BY <1>1, <1>3, Start DEF StageFits, Keeps, Onto, Publication, Bytes
  <2>3. ASSUME NEW n \in Own(w)
        PROVE  Fits(q, n, named[n], aside[n], before[w][n])
    BY <1>1, Start DEF Fits, FitsForward, Onto, Running, Forward, Publication, Touched
  <2> QED
    BY <1>1, <1>3, <2>1, <2>2, <2>3, GoesOn DEF Write, Running
<1> QED
  BY <1>2, <1>3 DEF Write

\* The stage takes the name.
LEMMA TakesKeeps ==
    ASSUME PubInv, NEW w \in Writers, NEW pc \in {"published", "drop"},
           pub[w].pc \in {"rename", "promote"}, pc = "drop" => pub[w].pc = "promote",
           Takes(w, pc), UNCHANGED <<aside, story>>
    PROVE  PubInv'
<1> DEFINE q == Onto(pub[w], pc)
           t == Target(w)
<1>1. /\ named \in [Names -> Bytes] /\ last \in [Names -> Bytes] /\ staged \in [Writers -> Bytes]
      /\ aside \in [Names -> Bytes] /\ pub[w].id \in Bytes \ {NoFile, Half}
  BY Start DEF PubInv, PubTypeOK, Publication, Bytes, NoFile, Half
<1>2. staged[w] = pub[w].id /\ t \in Names
  BY Start DEF StageFits
<1>3. named' = [named EXCEPT ![t] = pub[w].id]
  BY <1>2 DEF Takes, Holds
<1>4. last' = [n \in Names |-> IF named'[n] # NoFile THEN named'[n] ELSE last[n]]
  BY DEF Takes, Follow
<1>5. Sound(w, q)
  BY Start DEF Takes, Then, Sound, Onto, Publication, Running, Forward, Counted
<1>6. ASSUME NEW n \in Own(w)
      PROVE  Fits(q, n, named'[n], aside'[n], before[w][n])
  BY <1>1, <1>3, Start DEF Fits, FitsForward, Onto, Running, Forward, Publication
<1>7. Local(w, q)
  <2>1. staged' \in [Writers -> Bytes] /\ \A v \in Writers : v # w => staged'[v] = staged[v]
    BY <1>1 DEF Takes, Bytes
  <2>2. StageFits(q, staged'[w])
    BY Start DEF StageFits, Onto, Publication
  <2>3. named' \in [Names -> Bytes] /\ last' \in [Names -> Bytes]
    BY <1>1, <1>2, <1>3, <1>4
  <2>4. \A n \in Names : n # t => named'[n] = named[n] /\ aside'[n] = aside[n]
    BY <1>1, <1>3
  <2> QED
    BY <1>1, <1>6, <2>1, <2>2, <2>3, <2>4 DEF Local
<1>8. LastIs' /\ OnlyWhole'
  BY <1>1, <1>3, <1>4 DEF PubInv, LastIs, OnlyWhole
<1>9. CopyStays'
  BY <1>1, <1>2, <1>3, <1>4 DEF PubInv, CopyStays, Quiet, story
<1> QED
  BY <1>5, <1>7, <1>8, <1>9, StepKeeps DEF Running

LEMMA RenameKeeps ==
    ASSUME PubInv, NEW w \in Writers, Rename(w)
    PROVE  PubInv'
<1>1. pub[w].pc = "rename" /\ UNCHANGED story
  BY DEF Rename, PubAt
<1>2. CASE Takes(w, "published") /\ UNCHANGED aside
  BY <1>1, <1>2, TakesKeeps
<1>3. CASE /\ Then(w, IF Exists(Target(w)) /\ pub[w].manner # "create" THEN "clear" ELSE "discard")
           /\ UNCHANGED <<files, last>>
  <2> DEFINE q == Onto(pub[w], IF Exists(Target(w)) /\ pub[w].manner # "create"
                             THEN "clear" ELSE "discard")
  <2>1. Sound(w, q)
    BY <1>1, <1>3, Start DEF Then, Sound, Onto, Publication, Running, Forward, Counted
  <2>2. StageFits(q, staged[w])
    BY <1>1, Start DEF StageFits, Keeps, Onto, Publication
  <2>3. ASSUME NEW n \in Own(w)
        PROVE  Fits(q, n, named[n], aside[n], before[w][n])
    BY <1>1, Start DEF Fits, FitsForward, Onto, Running, Forward, Publication, Exists, Touched
  <2> QED
    BY <1>1, <1>3, <2>1, <2>2, <2>3, GoesOn DEF files, Running, PubInv, PubTypeOK
<1> QED
  BY <1>2, <1>3 DEF Rename

LEMMA ClearAsideKeeps ==
    ASSUME PubInv, NEW w \in Writers, ClearAside(w)
    PROVE  PubInv'
<1>1. /\ pub[w].pc = "clear" /\ UNCHANGED <<named, staged, last, story>>
      /\ named \in [Names -> Bytes] /\ aside \in [Names -> Bytes] /\ last \in [Names -> Bytes]
      /\ staged \in [Writers -> Bytes]
  BY DEF ClearAside, PubAt, PubInv, PubTypeOK
<1>2. CASE Exists(Target(w)) /\ UnlinkedAt(aside, Target(w)) /\ Then(w, "move")
  <2> DEFINE q == Onto(pub[w], "move")
  <2>1. Sound(w, q)
    BY <1>1, <1>2, Start DEF Then, Sound, Onto, Publication, Running, Forward, Counted
  <2>2. /\ aside' \in [Names -> Bytes]
        /\ \A n \in Names : aside'[n] \in {aside[n], NoFile} /\ (n # Target(w) => aside'[n] = aside[n])
    BY <1>1, <1>2, Start DEF UnlinkedAt, Bytes
  <2>3. StageFits(q, staged[w])
    BY <1>1, Start DEF StageFits, Keeps, Onto, Publication
  <2>4. ASSUME NEW n \in Own(w)
        PROVE  Fits(q, n, named[n], aside'[n], before[w][n])
    BY <1>1, Start DEF Fits, FitsForward, Onto, Running, Forward, Publication
  <2>5. Local(w, q)
    BY <1>1, <2>2, <2>3, <2>4 DEF Local
  <2>6. LastIs' /\ OnlyWhole'
    BY <1>1, <2>2 DEF PubInv, LastIs, OnlyWhole, NoFile, Half
  <2>7. CopyStays'
    BY <1>1, <1>2, <2>2 DEF PubInv, CopyStays, LastIs, Quiet, story, Exists
  <2> QED
    BY <1>1, <2>1, <2>5, <2>6, <2>7, StepKeeps DEF Running
<1>3. CASE ~Exists(Target(w)) /\ Then(w, "promote") /\ UNCHANGED aside
  <2> DEFINE q == Onto(pub[w], "promote")
  <2>1. Sound(w, q)
    BY <1>1, <1>3, Start DEF Then, Sound, Onto, Publication, Running, Forward, Counted
  <2>2. StageFits(q, staged[w])
    BY <1>1, Start DEF StageFits, Keeps, Onto, Publication
  <2>3. ASSUME NEW n \in Own(w)
        PROVE  Fits(q, n, named[n], aside[n], before[w][n])
    BY <1>1, <1>3, Start DEF Fits, FitsForward, Onto, Running, Forward, Publication, Exists
  <2> QED
    BY <1>1, <1>3, <2>1, <2>2, <2>3, GoesOn DEF Running
<1> QED
  BY <1>2, <1>3 DEF ClearAside

LEMMA PutAsideKeeps ==
    ASSUME PubInv, NEW w \in Writers, PutAside(w)
    PROVE  PubInv'
<1> DEFINE t == Target(w)
<1>1. /\ pub[w].pc = "move" /\ UNCHANGED <<staged, last, story>>
      /\ named \in [Names -> Bytes] /\ aside \in [Names -> Bytes] /\ last \in [Names -> Bytes]
      /\ staged \in [Writers -> Bytes] /\ t \in Names
  BY Start DEF PutAside, PubAt, PubInv, PubTypeOK
<1>2. CASE /\ Exists(t) /\ aside' = [aside EXCEPT ![t] = named[t]]
           /\ Holds(t, NoFile) /\ Then(w, "promote")
  <2> DEFINE q == Onto(pub[w], "promote")
  <2>1. Sound(w, q)
    BY <1>1, <1>2, Start DEF Then, Sound, Onto, Publication, Running, Forward, Counted
  <2>2. /\ named' = [named EXCEPT ![t] = NoFile] /\ NoFile \in Bytes
        /\ named' \in [Names -> Bytes] /\ aside' \in [Names -> Bytes]
    BY <1>1, <1>2 DEF Holds, Bytes
  <2>3. StageFits(q, staged[w])
    BY <1>1, Start DEF StageFits, Keeps, Onto, Publication
  <2>4. ASSUME NEW n \in Own(w)
        PROVE  Fits(q, n, named'[n], aside'[n], before[w][n])
    BY <1>1, <1>2, <2>2, Start DEF Fits, FitsForward, Onto, Running, Forward, Publication, Exists
  <2>5. Local(w, q)
    BY <1>1, <1>2, <2>2, <2>3, <2>4 DEF Local
  <2>6. LastIs' /\ OnlyWhole'
    BY <1>1, <1>2, <2>2 DEF PubInv, LastIs, OnlyWhole, NoFile, Half
  <2>7. CopyStays'
    BY <1>1, <1>2, <2>2 DEF PubInv, CopyStays, LastIs, Quiet, story, Exists
  <2> QED
    BY <1>1, <2>1, <2>5, <2>6, <2>7, StepKeeps DEF Running
<1>3. CASE Then(w, "discard") /\ UNCHANGED <<named, aside>>
  <2> DEFINE q == Onto(pub[w], "discard")
  <2>1. Sound(w, q)
    BY <1>1, <1>3, Start DEF Then, Sound, Onto, Publication, Running, Forward, Counted
  <2>2. StageFits(q, staged[w])
    BY <1>1, Start DEF StageFits, Keeps, Onto, Publication
  <2>3. ASSUME NEW n \in Own(w)
        PROVE  Fits(q, n, named[n], aside[n], before[w][n])
    <3>1. FitsForward(pub[w], n, named[n], aside[n], before[w][n])
      BY <1>1, Start DEF Fits, Running, Forward
    <3>2. /\ n < pub[w].name => before[w][n] = NoFile /\ named[n] = pub[w].id
          /\ n >= pub[w].name => named[n] = before[w][n]
      BY <1>1, <3>1, Start DEF FitsForward
    <3> QED
      BY <3>2, Start DEF Fits, Onto, Running, Forward, Publication
  <2> QED
    BY <1>1, <1>3, <2>1, <2>2, <2>3, GoesOn DEF Running
<1> QED
  BY <1>2, <1>3 DEF PutAside

LEMMA PromoteKeeps ==
    ASSUME PubInv, NEW w \in Writers, Promote(w)
    PROVE  PubInv'
<1>1. pub[w].pc = "promote" /\ UNCHANGED story
  BY DEF Promote, PubAt
<1>2. CASE Takes(w, "drop") /\ UNCHANGED aside
  BY <1>1, <1>2, TakesKeeps
<1>3. CASE Then(w, "restore") /\ UNCHANGED <<files, last>>
  <2> DEFINE q == Onto(pub[w], "restore")
  <2>1. Sound(w, q)
    BY <1>1, <1>3, Start DEF Then, Sound, Onto, Publication, Running, Forward, Counted
  <2>2. StageFits(q, staged[w])
    BY <1>1, Start DEF StageFits, Keeps, Onto, Publication
  <2>3. ASSUME NEW n \in Own(w)
        PROVE  Fits(q, n, named[n], aside[n], before[w][n])
    BY <1>1, Start DEF Fits, FitsForward, Onto, Running, Forward, Publication
  <2> QED
    BY <1>1, <1>3, <2>1, <2>2, <2>3, GoesOn DEF files, Running, PubInv, PubTypeOK
<1> QED
  BY <1>2, <1>3 DEF Promote
LEMMA RestoreKeeps ==
    ASSUME PubInv, NEW w \in Writers, Restore(w)
    PROVE  PubInv'
<1> DEFINE t == Target(w)
<1>1. /\ pub[w].pc = "restore" /\ UNCHANGED <<staged, story>> /\ Follow
      /\ named \in [Names -> Bytes] /\ aside \in [Names -> Bytes] /\ last \in [Names -> Bytes]
      /\ staged \in [Writers -> Bytes] /\ t \in Names /\ NoFile \in Bytes
  BY Start DEF Restore, PubAt, PubInv, PubTypeOK, Bytes
<1>2. CASE /\ aside[t] # NoFile /\ Holds(t, aside[t])
           /\ aside' = [aside EXCEPT ![t] = NoFile] /\ Then(w, "discard")
  <2> DEFINE q == Onto(pub[w], "discard")
  <2>1. Sound(w, q)
    BY <1>1, <1>2, Start DEF Then, Sound, Onto, Publication, Running, Forward, Counted
  <2>2. /\ named' = [named EXCEPT ![t] = aside[t]]
        /\ named' \in [Names -> Bytes] /\ aside' \in [Names -> Bytes]
    BY <1>1, <1>2 DEF Holds
  <2>3. /\ last' = [n \in Names |-> IF named'[n] # NoFile THEN named'[n] ELSE last[n]]
        /\ last' \in [Names -> Bytes]
    BY <1>1, <2>2 DEF Follow
  <2>4. StageFits(q, staged[w])
    BY <1>1, Start DEF StageFits, Keeps, Onto, Publication
  <2>5. ASSUME NEW n \in Own(w)
        PROVE  Fits(q, n, named'[n], aside'[n], before[w][n])
    BY <1>1, <1>2, <2>2, Start, SMTT(30) DEF Fits, FitsForward, Onto, Running, Forward
  <2>6. Local(w, q)
    BY <1>1, <1>2, <2>2, <2>3, <2>4, <2>5 DEF Local
  <2>7. LastIs' /\ OnlyWhole'
    BY <1>1, <1>2, <2>2, <2>3 DEF PubInv, LastIs, OnlyWhole, NoFile, Half
  <2>8. CopyStays'
    BY <1>1, <1>2, <2>2, <2>3 DEF PubInv, CopyStays, LastIs, Quiet, story
  <2> QED
    BY <1>1, <2>1, <2>6, <2>7, <2>8, StepKeeps DEF Running
<1>3. CASE pub' = [pub EXCEPT ![w] = Unrestored(pub[w])] /\ UNCHANGED <<named, aside>>
  <2> DEFINE q == Unrestored(pub[w])
  <2>1. Sound(w, q)
    BY <1>1, <1>3, Start DEF Sound, Unrestored, Publication, Running, Forward, Counted
  <2>2. last' = last
    BY <1>1, <1>3 DEF Follow, PubInv, LastIs
  <2>3. StageFits(q, staged[w])
    BY <1>1, Start DEF StageFits, Keeps, Unrestored, Publication
  <2>4. ASSUME NEW n \in Own(w)
        PROVE  Fits(q, n, named[n], aside[n], before[w][n])
    BY <1>1, Start, SMTT(30) DEF Fits, FitsForward, Unrestored, Running, Forward, Publication
  <2> QED
    BY <1>1, <1>3, <2>1, <2>2, <2>3, <2>4, GoesOn DEF Running
<1> QED
  BY <1>2, <1>3 DEF Restore

LEMMA DropAsideKeeps ==
    ASSUME PubInv, NEW w \in Writers, DropAside(w)
    PROVE  PubInv'
<1> DEFINE t == Target(w)
           q == Onto(pub[w], "published")
<1>1. /\ pub[w].pc = "drop" /\ UNCHANGED <<named, staged, last, story>>
      /\ named \in [Names -> Bytes] /\ aside \in [Names -> Bytes] /\ last \in [Names -> Bytes]
      /\ staged \in [Writers -> Bytes] /\ t \in Names
  BY Start DEF DropAside, PubAt, PubInv, PubTypeOK
<1>2. Sound(w, q)
  BY <1>1, Start DEF DropAside, Then, Sound, Onto, Publication, Running, Forward, Counted
<1>3. /\ aside' \in [Names -> Bytes]
      /\ \A n \in Names : aside'[n] \in {aside[n], NoFile} /\ (n # t => aside'[n] = aside[n])
  BY <1>1 DEF DropAside, UnlinkedAt, Bytes
<1>4. StageFits(q, staged[w])
  BY <1>1, Start DEF StageFits, Keeps, Onto, Publication
<1>5. ASSUME NEW n \in Own(w)
      PROVE  Fits(q, n, named[n], aside'[n], before[w][n])
  BY <1>1, Start, SMTT(30) DEF Fits, FitsForward, Onto, Running, Forward
<1>6. Local(w, q)
  BY <1>1, <1>3, <1>4, <1>5 DEF Local
<1>7. LastIs' /\ OnlyWhole'
  BY <1>1, <1>3 DEF PubInv, LastIs, OnlyWhole, NoFile, Half
<1>8. t \in Quiet => named[t] # NoFile
  <2>1. t \in Quiet => t \in Own(w)
    BY <1>1, TargetTouched DEF PubInv, RunnerOwns, Own, Running
  <2> QED
    BY <1>1, <2>1, Start DEF Fits, FitsForward, Running, Forward, NoFile
<1>9. CopyStays'
  BY <1>1, <1>3, <1>8 DEF PubInv, CopyStays, LastIs, Quiet, story
<1> QED
  BY <1>1, <1>2, <1>6, <1>7, <1>9, StepKeeps DEF Running

LEMMA InstalledKeeps ==
    ASSUME PubInv, NEW w \in Writers, Installed(w)
    PROVE  PubInv'
<1> DEFINE q == Onward(pub[w])
<1>1. /\ pub[w].pc = "published" /\ pub' = [pub EXCEPT ![w] = q]
      /\ UNCHANGED <<files, last, story>> /\ Parts \in Nat
  BY PublishConstants DEF Installed, PubAt
<1>2. CASE pub[w].manner = "split" /\ pub[w].name < Parts
  <2> DEFINE r == [pub[w] EXCEPT !.name = pub[w].name + 1, !.made = pub[w].name, !.pc = "check",
                                 !.whole = FALSE]
  <2>1. q = r
    BY <1>2 DEF Onward
  <2>2. Sound(w, r)
    <3>1. pub[w].name + 1 \in Names /\ pub[w].name \in 0 .. (Parts - 1)
      BY <1>1, <1>2, Start DEF Names
    <3>2. r \in Publication
      BY <3>1, Start DEF Publication, Running
    <3> QED
      BY <1>1, <1>2, <2>1, <3>2, Start DEF Sound, Publication, Running, Forward, Counted
  <2>3. StageFits(r, staged[w])
    BY <1>1, <1>2, Start DEF StageFits, Keeps, Publication
  <2>4. ASSUME NEW n \in Own(w)
        PROVE  Fits(r, n, named[n], aside[n], before[w][n])
    BY <1>1, <1>2, Start, SMTT(30) DEF Fits, FitsForward, Running, Forward, Publication
  <2> QED
    BY <1>1, <2>2, <2>3, <2>4, GoesOn DEF files, Running, PubInv, PubTypeOK
<1>3. CASE ~(pub[w].manner = "split" /\ pub[w].name < Parts)
  <2> DEFINE r == [pub[w] EXCEPT !.pc = "ok"]
  <2>1. q = r
    BY <1>3 DEF Onward
  <2>2. Sound(w, r)
    BY <1>1, <2>1, Start DEF Sound, Publication, Running, Forward, Counted
  <2>3. StageFits(r, staged[w])
    BY <1>1, Start DEF StageFits, Keeps, Publication
  <2>4. ASSUME NEW n \in Own(w)
        PROVE  Fits(r, n, named[n], aside[n], before[w][n])
    <3>1. n <= pub[w].name
      BY <1>1, <1>3, Start DEF Touched, Names
    <3> QED
      BY <1>1, <3>1, Start, SMTT(30) DEF Fits, FitsForward, Running, Forward, Publication
  <2> QED
    <3>1. /\ pub[w].pc \in Running /\ UNCHANGED <<named, aside, last>> /\ staged' = staged
          /\ staged \in [Writers -> Bytes]
      BY <1>1 DEF files, Running, PubInv, PubTypeOK
    <3> QED
      BY <2>2, <2>3, <2>4, <3>1, GoesOn
<1> QED
  BY <1>2, <1>3

LEMMA DropStageKeeps ==
    ASSUME PubInv, NEW w \in Writers, DropStage(w)
    PROVE  PubInv'
<1> DEFINE q == Dropped(pub[w])
<1>1. /\ pub[w].pc = "discard" /\ pub' = [pub EXCEPT ![w] = q]
      /\ UNCHANGED <<named, aside, last, story>> /\ staged \in [Writers -> Bytes]
      /\ Parts \in Nat \ {0}
  BY PublishConstants DEF DropStage, PubAt, PubInv, PubTypeOK
<1>2. /\ staged' \in [Writers -> Bytes] /\ \A v \in Writers : v # w => staged'[v] = staged[v]
      /\ Keeps(pub[w]) => staged'[w] = staged[w]
  BY <1>1 DEF DropStage, UnlinkedAt, Bytes
<1>3. CASE pub[w].manner = "split"
  <2> DEFINE r == [pub[w] EXCEPT !.pc = "undo", !.name = 1]
  <2>1. q = r
    BY <1>3 DEF Dropped
  <2>2. Sound(w, r)
    <3>1. r \in Publication
      <4>1. 1 \in Names
        BY <1>1 DEF Names
      <4> QED
        BY <1>1, <4>1, Start, ZenonT(60) DEF Publication, Running
    <3> QED
      BY <1>1, <1>3, <2>1, <3>1, Start DEF Sound, Publication, Running, Forward, Counted
  <2>3. StageFits(r, staged'[w])
    BY <1>3, Start DEF StageFits, Keeps, Publication
  <2>4. ASSUME NEW n \in Own(w)
        PROVE  Fits(r, n, named[n], aside[n], before[w][n])
    <3>1. n >= 1 /\ pub[w].made = pub[w].name - 1
      BY <1>1, <1>3, Start DEF Names, Counted
    <3> QED
      BY <1>1, <3>1, Start, SMTT(30) DEF Fits, FitsForward, Running, Forward, Publication
  <2> QED
    BY <1>1, <1>2, <2>2, <2>3, <2>4, GoesOn DEF Running
<1>4. CASE pub[w].manner # "split"
  <2> DEFINE r == [pub[w] EXCEPT !.pc = "failed"]
  <2>1. q = r
    BY <1>4 DEF Dropped
  <2>2. Sound(w, r)
    BY <1>1, <2>1, Start DEF Sound, Publication, Running, Forward, Counted
  <2>3. StageFits(r, staged'[w])
    BY <1>1, <1>2, Start DEF StageFits, Keeps, Publication
  <2>4. ASSUME NEW n \in Own(w)
        PROVE  Fits(r, n, named[n], aside[n], before[w][n])
    <3>1. n = pub[w].name
      BY <1>4, Start DEF Touched
    <3> QED
      BY <1>1, <3>1, Start, SMTT(30) DEF Fits, FitsForward, Running, Forward, Publication
  <2> QED
    BY <1>1, <1>2, <2>2, <2>3, <2>4, GoesOn DEF Running
<1> QED
  BY <1>3, <1>4

LEMMA TakeBackKeeps ==
    ASSUME PubInv, NEW w \in Writers, TakeBack(w)
    PROVE  PubInv'
<1> DEFINE t == Target(w)
<1>1. /\ pub[w].pc = "undo" /\ pub[w].manner = "split" /\ UNCHANGED <<aside, staged, story>>
      /\ named \in [Names -> Bytes] /\ aside \in [Names -> Bytes] /\ last \in [Names -> Bytes]
      /\ staged \in [Writers -> Bytes] /\ t \in Names /\ NoFile \in Bytes /\ t = pub[w].name
  BY Start DEF TakeBack, PubAt, PubInv, PubTypeOK, Bytes, Counted
<1>2. ASSUME NEW gone \in BOOLEAN, t <= pub[w].made,
             Holds(t, IF gone THEN NoFile ELSE named[t]),
             pub' = [pub EXCEPT ![w] = TakenBack(pub[w], gone)],
             last' = IF named[t] = pub[w].id THEN [last EXCEPT ![t] = named'[t]] ELSE last
      PROVE  PubInv'
  <2> DEFINE q == [pub[w] EXCEPT !.name = pub[w].name + 1, !.tidy = pub[w].tidy /\ gone]
             c == IF gone THEN NoFile ELSE named[t]
  <2>0. q = TakenBack(pub[w], gone)
    BY DEF TakenBack
  <2>1. Sound(w, q)
    <3>1. pub[w].name + 1 \in Names
      BY <1>1, <1>2, Start, PublishConstants DEF Names, Publication
    <3>2. q \in Publication
      BY <3>1, Start DEF Publication
    <3> QED
      BY <1>1, <1>2, <2>0, <3>2, Start, ZenonT(60) DEF Sound, Publication, Running, Forward, Counted
  <2>2. /\ named' = [named EXCEPT ![t] = c] /\ c \in Bytes
        /\ named' \in [Names -> Bytes] /\ last' \in [Names -> Bytes]
        /\ \A n \in Names : n # t => named'[n] = named[n] /\ last'[n] = last[n]
        /\ named'[t] = c
    BY <1>1, <1>2 DEF Holds
  <2>3. StageFits(q, staged[w])
    BY <1>1, Start DEF StageFits, Keeps, Publication
  <2>4. ASSUME NEW n \in Own(w)
        PROVE  Fits(q, n, named'[n], aside[n], before[w][n])
    <3>1. CASE n = t
      BY <1>1, <1>2, <2>2, <3>1, Start, SMTT(30) DEF Fits, Running, Forward, Publication
    <3>2. CASE n # t
      <4>1. Fits(pub[w], n, named[n], aside[n], before[w][n]) /\ n \in Int /\ named'[n] = named[n]
        BY <2>2, <3>2, Start
      <4>2. /\ q.pc = "undo" /\ q.name = t + 1 /\ q.made = pub[w].made /\ q.id = pub[w].id
            /\ q.tidy => pub[w].tidy
        BY <1>1, Start DEF Publication
      <4>3. n >= t + 1 /\ n <= pub[w].made => n >= t
        BY <1>1, <4>1, Start
      <4>4. ~(n >= t + 1 /\ n <= pub[w].made) => ~(n >= t /\ n <= pub[w].made)
        BY <1>1, <3>2, <4>1, Start
      <4> QED
        BY <1>1, <4>1, <4>2, <4>3, <4>4 DEF Fits, Running, Forward
    <3> QED
      BY <3>1, <3>2
  <2>5. Local(w, q)
    BY <1>1, <2>2, <2>3, <2>4 DEF Local
  <2>6. LastIs' /\ OnlyWhole'
    BY <1>1, <1>2, <2>2 DEF PubInv, LastIs, OnlyWhole, NoFile, Half
  <2>7. t \in Quiet => named[t] = pub[w].id
    <3>1. t \in Quiet => t \in Own(w)
      BY <1>1, TargetTouched DEF PubInv, RunnerOwns, Own, Running
    <3> QED
      BY <1>1, <1>2, <3>1, Start DEF Fits
  <2>8. CopyStays'
    BY <1>1, <1>2, <2>2, <2>7 DEF PubInv, CopyStays, Quiet, story
  <2> QED
    BY <1>1, <2>1, <2>5, <2>6, <2>8, StepKeeps DEF Running
<1>3. CASE t > pub[w].made /\ Then(w, "failed") /\ UNCHANGED <<named, last>>
  <2> DEFINE q == Onto(pub[w], "failed")
  <2>1. Sound(w, q)
    BY <1>1, <1>3, Start DEF Then, Sound, Onto, Publication, Running, Forward, Counted
  <2>2. StageFits(q, staged[w])
    BY <1>1, Start DEF StageFits, Keeps, Onto, Publication
  <2>3. ASSUME NEW n \in Own(w)
        PROVE  Fits(q, n, named[n], aside[n], before[w][n])
    BY <1>1, <1>3, Start, SMTT(30) DEF Fits, Onto, Running, Forward, Publication
  <2> QED
    BY <1>1, <1>3, <2>1, <2>2, <2>3, GoesOn DEF Running
<1> QED
  BY <1>2, <1>3 DEF TakeBack

LEMMA PubDiesKeeps ==
    ASSUME PubInv, NEW w \in Writers, PubDies(w)
    PROVE  PubInv'
<1> DEFINE q == Onto(pub[w], "crashed")
<1>1. /\ pub[w].pc \in Running /\ Then(w, "crashed") /\ UNCHANGED <<named, aside, last, story>>
      /\ staged \in [Writers -> Bytes] /\ Half \in Bytes
  BY DEF PubDies, PubInv, PubTypeOK, Bytes
<1>2. Sound(w, q)
  BY <1>1, Start DEF Then, Sound, Onto, Publication, Running, Forward, Counted
<1>3. /\ staged' \in [Writers -> Bytes] /\ \A v \in Writers : v # w => staged'[v] = staged[v]
      /\ StageFits(q, staged'[w])
  BY <1>1, Start DEF PubDies, StageFits, Onto, Publication
<1>4. ASSUME NEW n \in Own(w)
      PROVE  Fits(q, n, named[n], aside[n], before[w][n])
  BY <1>1, Start DEF Fits, Onto, Running, Forward, Publication
<1> QED
  BY <1>1, <1>2, <1>3, <1>4, GoesOn
\* A publication that begins takes its names from those who began before it,
\* and where one of them still runs, the two have met.
LEMMA PublishesKeeps ==
    ASSUME PubInv, NEW w \in Writers, Publishes(w)
    PROVE  PubInv'
<1>1. PICK m \in Manners, n \in Names, new \in BOOLEAN :
          /\ m \in {"create", "split"} => new
          /\ pub' = [pub EXCEPT ![w] = Begun(m, n, new)]
          /\ owner' = [x \in Names |-> IF x \in Touched(Begun(m, n, new)) THEN begun + 1
                                                                        ELSE owner[x]]
          /\ met' = met \cup {x \in Touched(Begun(m, n, new)) :
                        \E v \in Writers : pub[v].pc \in Running /\ x \in Touched(pub[v])}
  BY DEF Publishes
<1> DEFINE p == Begun(m, n, new)
<1>2. /\ pub[w].pc \notin Running /\ begun < MaxRuns /\ begun' = begun + 1
      /\ before' = [before EXCEPT ![w] = named] /\ staged' = [staged EXCEPT ![w] = NoFile]
      /\ UNCHANGED <<named, aside, last>>
  BY DEF Publishes
<1>3. begun \in Nat /\ MaxRuns \in Nat /\ begun + 1 \in 0 .. MaxRuns /\ begun' \in 0 .. MaxRuns
  BY <1>2, PublishConstants DEF PubInv, PubTypeOK
<1>4. p.manner = m /\ p.new = new /\ p.id = begun + 1 /\ p.made = 0 /\ p.pc = "check" /\ ~p.whole
      /\ p.name = IF m = "split" THEN 1 ELSE n
  BY DEF Begun
<1>5. p \in Publication
  <2>1. 1 \in Names /\ 0 \in 0 .. (Parts - 1)
    BY PublishConstants DEF Names
  <2> QED
    BY <1>3, <2>1 DEF Begun, Publication, Running
<1>6. Touched(p) \subseteq Names
  BY <1>4, <1>5 DEF Touched, Publication
<1>7. pub \in [Writers -> Publication] /\ pub'[w] = p /\ \A v \in Writers : v # w => pub'[v] = pub[v]
  BY <1>1 DEF PubInv, PubTypeOK
<1>8. PubTypeOK'
  <2>1. pub' \in [Writers -> Publication]
    BY <1>1, <1>5, <1>7
  <2>2. owner' \in [Names -> 0 .. MaxRuns] /\ met' \in SUBSET Names
    BY <1>1, <1>3, <1>6 DEF PubInv, PubTypeOK
  <2>3. before' \in [Writers -> [Names -> Bytes]] /\ staged' \in [Writers -> Bytes]
    BY <1>2 DEF PubInv, PubTypeOK, Bytes
  <2> QED
    BY <1>2, <1>3, <2>1, <2>2, <2>3 DEF PubInv, PubTypeOK
<1>9. \A v \in Writers : pub[v].id \in Nat /\ pub[v].id <= begun
  <2> TAKE v \in Writers
  <2>1. pub[v].id \in 0 .. MaxRuns
    BY <1>7 DEF Publication
  <2> QED
    BY <2>1, <1>3 DEF PubInv, Numbered
<1>10. Numbered'
  <2> SUFFICES ASSUME NEW v \in Writers
               PROVE  /\ pub'[v].id <= begun + 1
                      /\ pub'[v].pc # "idle" => pub'[v].id > 0
                      /\ \A x \in Writers : v # x /\ pub'[v].id = pub'[x].id => pub'[v].id = 0
    BY <1>2 DEF Numbered
  <2>1. CASE v = w
    BY <2>1, <1>3, <1>4, <1>7, <1>9
  <2>2. CASE v # w
    BY <2>2, <1>3, <1>4, <1>7, <1>9 DEF PubInv, Numbered
  <2> QED
    BY <2>1, <2>2
<1>11. ASSUME NEW v \in Writers, v # w, NEW x \in Names \ met', x \in Touched(pub[v]),
              pub[v].pc \in Running
       PROVE  x \notin Touched(p) /\ x \in Quiet
  BY <1>1, <1>11 DEF Quiet
<1>12. RunnerOwns'
  <2> SUFFICES ASSUME NEW v \in Writers, NEW x \in Names \ met', pub'[v].pc \in Running,
                      x \in Touched(pub'[v])
               PROVE  owner'[x] = pub'[v].id
    BY DEF RunnerOwns, Quiet, Touched, Names
  <2>1. CASE v = w
    BY <2>1, <1>1, <1>4, <1>7
  <2>2. CASE v # w
    <3>1. x \in Touched(pub[v]) /\ pub[v].pc \in Running
      BY <2>2, <1>7
    <3>2. x \notin Touched(p) /\ x \in Quiet
      BY <2>2, <3>1, <1>11
    <3>3. owner[x] = pub[v].id
      BY <3>1, <3>2 DEF PubInv, RunnerOwns
    <3> QED
      BY <2>2, <3>2, <3>3, <1>1, <1>7
  <2> QED
    BY <2>1, <2>2
<1>13. AllCounted'
  <2> SUFFICES ASSUME NEW v \in Writers PROVE Counted(pub'[v])
    BY DEF AllCounted, Counted
  <2>1. Counted(p)
    BY <1>1, <1>4 DEF Counted, Forward, Running
  <2> QED
    BY <2>1, <1>7 DEF PubInv, AllCounted
<1>14. AllStaged'
  <2> SUFFICES ASSUME NEW v \in Writers PROVE StageFits(pub'[v], staged'[v])
    BY DEF AllStaged, StageFits, Keeps
  <2>1. CASE v = w
    BY <2>1, <1>4, <1>7 DEF StageFits
  <2>2. CASE v # w
    BY <2>2, <1>2, <1>7 DEF PubInv, PubTypeOK, AllStaged
  <2> QED
    BY <2>1, <2>2
<1>15. AllFit'
  <2> SUFFICES ASSUME NEW v \in Writers, NEW x \in Names \ met', x \in Touched(pub'[v]),
                      owner'[x] = pub'[v].id
               PROVE  Fits(pub'[v], x, named[x], aside[x], before'[v][x])
    BY <1>2 DEF AllFit, Fits, FitsForward, Own, Quiet, Touched, Names
  <2>1. CASE v = w
    <3>1. before'[v][x] = named[x]
      BY <2>1, <1>2 DEF PubInv, PubTypeOK
    <3>2. ~(x < p.name)
      BY <2>1, <1>4, <1>7, PublishConstants DEF Touched, Names
    <3> QED
      BY <2>1, <3>1, <3>2, <1>4, <1>7 DEF Fits, FitsForward, Running, Forward
  <2>2. CASE v # w
    <3>1. pub'[v] = pub[v] /\ before'[v] = before[v]
      BY <2>2, <1>2, <1>7 DEF PubInv, PubTypeOK
    <3>2. x \notin Touched(p)
      BY <3>1, <1>1, <1>3, <1>9
    <3>3. owner[x] = pub[v].id /\ x \in Quiet
      BY <3>1, <3>2, <1>1 DEF Quiet
    <3> QED
      BY <3>1, <3>3 DEF PubInv, AllFit, Own
  <2> QED
    BY <2>1, <2>2
<1>16. LastIs' /\ OnlyWhole'
  BY <1>2 DEF PubInv, LastIs, OnlyWhole
<1>17. CopyStays'
  BY <1>1, <1>2 DEF PubInv, CopyStays, Quiet
<1> QED
  BY <1>8, <1>10, <1>12, <1>13, <1>14, <1>15, <1>16, <1>17 DEF PubInv

-----------------------------------------------------------------------------
(* The theorems.                                                           *)

LEMMA InitInv == PubInit => PubInv
<1> SUFFICES ASSUME PubInit PROVE PubInv
  OBVIOUS
<1>1. PubTypeOK
  <2>1. 1 \in Names /\ 0 \in 0 .. (Parts - 1) /\ 0 \in 0 .. MaxRuns
    BY PublishConstants DEF Names
  <2>2. Idle \in Publication
    BY <2>1 DEF Idle, Publication
  <2>3. named \in [Names -> Bytes]
    BY DEF PubInit, Bytes
  <2>4. aside \in [Names -> Bytes] /\ staged \in [Writers -> Bytes]
    BY DEF PubInit, Bytes
  <2> QED
    BY <2>1, <2>2, <2>3, <2>4 DEF PubInit, PubTypeOK
<1>2. \A w \in Writers : pub[w] = Idle
  BY DEF PubInit
<1>3. Numbered
  BY <1>2 DEF PubInit, Numbered, Idle
<1>4. RunnerOwns /\ AllCounted /\ AllStaged /\ AllFit
  BY <1>2 DEF RunnerOwns, AllCounted, AllStaged, AllFit, Idle, Running, Forward, Counted, StageFits, Fits
<1>5. OnlyWhole /\ LastIs /\ CopyStays
  BY DEF PubInit, OnlyWhole, LastIs, CopyStays, Quiet, NoFile, Half, Leftover, Original
<1> QED
  BY <1>1, <1>3, <1>4, <1>5 DEF PubInv

LEMMA NextInv == PubInv /\ [PubNext]_pubVars => PubInv'
<1> SUFFICES ASSUME PubInv, [PubNext]_pubVars PROVE PubInv'
  OBVIOUS
<1>1. CASE UNCHANGED pubVars
  BY <1>1 DEF pubVars, files, PubInv, PubTypeOK, Numbered, RunnerOwns, AllCounted, Counted, AllStaged,
     StageFits, Keeps, AllFit, Fits, FitsForward, Own, Quiet, Touched, LastIs, OnlyWhole, CopyStays
<1>2. ASSUME NEW w \in Writers, PubStep(w) PROVE PubInv'
  BY <1>2, PublishesKeeps, CheckKeeps, WriteKeeps, RenameKeeps, ClearAsideKeeps, PutAsideKeeps,
     PromoteKeeps, RestoreKeeps, DropAsideKeeps, InstalledKeeps, DropStageKeeps, TakeBackKeeps,
     PubDiesKeeps DEF PubStep
<1> QED
  BY <1>1, <1>2 DEF PubNext

LEMMA PubInvariance == PubSpec => []PubInv
BY InitInv, NextInv, PTL DEF PubSpec

LEMMA InvImplies == PubInv => PublishedWhole
<1> SUFFICES ASSUME PubInv PROVE AnswerTold
  BY DEF PubInv, PublishedWhole
<1> SUFFICES ASSUME NEW w \in Writers
             PROVE  /\ pub[w].pc = "ok" => \A n \in Own(w) : named[n] = pub[w].id
                    /\ pub[w].pc = "failed" /\ pub[w].tidy
                          => \A n \in Own(w) : named[n] = before[w][n]
                    /\ pub[w].pc = "failed" /\ Keeps(pub[w]) => staged[w] = pub[w].id
  BY DEF AnswerTold
<1> QED
  BY Start DEF Fits, StageFits

\* Every name, stage and answer is one the program can have, for any number
\* of writers, names and publications.
THEOREM PubTypeCorrect == PubSpec => []PubTypeOK
<1>1. PubInv => PubTypeOK
  BY DEF PubInv
<1> QED
  BY <1>1, PubInvariance, PTL

\* replace_with_staged and its callers: however renames and removals fail and
\* wherever the program is killed, no complete copy is lost and no answer is
\* wrong, as long as two publications do not meet over one name.
THEOREM PublicationsAreWhole == PubSpec => []PublishedWhole
BY PubInvariance, InvImplies, PTL

-----------------------------------------------------------------------------
(* Batch.                                                                  *)

Fields == {"count", "memory", "runs", "readers", "out", "from", "next", "pass"}

\* A sequence, of whatever.
Row(s) == \E S : s \in Seq(S)

\* What an operation starts with on disk.
Ground ==
    CASE task.op = "sort" -> {SpillDir, LineTable}
      [] task.op = "group" -> {SpillDir}
      [] OTHER -> {}

\* The runs there are to merge are spilled ones or those of earlier passes.
OldRun(f, pass) ==
    \/ \E k : f = File("run", k, 0)
    \/ \E j : \E p \in Nat : f = File("pass", p, j) /\ p < pass

WorkOK ==
    /\ Fields \subseteq DOMAIN work
    /\ Row(work.runs) /\ Row(work.next) /\ work.pass \in Nat /\ work.from \in Nat
    /\ \A f \in FilesOf(work.runs) : OldRun(f, work.pass)
    /\ \A f \in FilesOf(work.next) : \E j : f = File("pass", work.pass, j)
    /\ LastPass => work.next = <<>>
    /\ task.op \notin {"sort", "group"} => work.runs = <<>>

\* The file a merge is writing.
Output == IF task.op = "sort" /\ work.readers # <<>> THEN {OutFile} ELSE {}

\* The files there are: those of the operation, its runs, and its output.
DiskOK ==
    /\ phase = "read" => work.next = <<>> /\ work.readers = <<>>
    /\ phase = "merge" => task.op \in {"sort", "group"}
    /\ phase \in {"read", "merge"} =>
        disk = Ground \cup FilesOf(work.runs) \cup FilesOf(work.next) \cup Output

BatIInv == phase \in {"read", "merge", "done", "failed"} /\ WorkOK /\ DiskOK /\ NothingStranded

-----------------------------------------------------------------------------
(* Runs.                                                                   *)

LEMMA NoFiles == Row(<<>>) /\ FilesOf(<<>>) = {}
<1>1. <<>> \in Seq({}) /\ DOMAIN <<>> = {} OBVIOUS
<1> QED BY <1>1 DEF Row, FilesOf

LEMMA AppendedFiles ==
    ASSUME NEW s, Row(s), NEW e
    PROVE  Row(Append(s, e)) /\ FilesOf(Append(s, e)) = FilesOf(s) \cup {e.file} /\ Append(s, e) # <<>>
<1>1. PICK S : s \in Seq(S) BY DEF Row
<1> DEFINE T == S \cup {e}
<1>2. s \in Seq(T) /\ e \in T
  <2>1. \A k \in 1..Len(s) : s[k] \in T BY <1>1
  <2> QED BY <1>1, <2>1
<1> HIDE DEF T
<1>3. /\ Append(s, e) \in Seq(T) /\ Len(Append(s, e)) = Len(s) + 1 /\ Len(s) \in Nat
      /\ DOMAIN Append(s, e) = 1..(Len(s) + 1) /\ DOMAIN s = 1..Len(s)
      /\ Append(s, e)[Len(s) + 1] = e
      /\ \A k \in 1..Len(s) : Append(s, e)[k] = s[k]
  BY <1>2
<1> DEFINE a == Append(s, e)
<1> HIDE DEF a
<1>4. ASSUME NEW f \in FilesOf(a) PROVE f \in FilesOf(s) \cup {e.file}
  <2>1. PICK k \in 1..(Len(s) + 1) : f = a[k].file BY <1>3 DEF FilesOf, a
  <2>2. CASE k = Len(s) + 1 BY <1>3, <2>1, <2>2 DEF a
  <2>3. CASE k # Len(s) + 1
    <3>1. k \in 1..Len(s) BY <1>3, <2>3
    <3> QED BY <1>3, <2>1, <3>1 DEF FilesOf, a
  <2> QED BY <2>2, <2>3
<1>5. ASSUME NEW f \in FilesOf(s) PROVE f \in FilesOf(a)
  <2>1. PICK k \in 1..Len(s) : f = s[k].file BY <1>3 DEF FilesOf
  <2>2. k \in 1..(Len(s) + 1) BY <1>3
  <2> QED BY <1>3, <2>1, <2>2 DEF FilesOf, a
<1>6. e.file \in FilesOf(a)
  <2>1. Len(s) + 1 \in 1..(Len(s) + 1) BY <1>3
  <2> QED BY <1>3, <2>1 DEF FilesOf, a
<1>7. Row(a) BY <1>3 DEF Row, a
<1>8. a # <<>> BY <1>3 DEF a
<1> QED BY <1>4, <1>5, <1>6, <1>7, <1>8 DEF a

\* What a record does to the work: its runs stay, or are one more.
Spills(w, v) ==
    /\ Fields \subseteq DOMAIN v
    /\ v.readers = w.readers /\ v.next = w.next /\ v.pass = w.pass /\ v.from = w.from
    /\ v.out = w.out
    /\ \/ v.runs = w.runs
       \/ /\ task.op \in {"sort", "group"}
          /\ \E x : v.runs = Append(w.runs, [file |-> File("run", Len(w.runs), 0), recs |-> x])

LEMMA SpilledSpills ==
    ASSUME NEW w, Fields \subseteq DOMAIN w, task.op \in {"sort", "group"}
    PROVE  Spills(w, Spilled(w))
BY DEF Spills, Spilled, Fields

LEMMA FullSpills ==
    ASSUME NEW w, NEW v, Spills(w, v), v.runs = w.runs, task.op \in {"sort", "group"}
    PROVE  Spills(w, SpilledIfFull(v))
<1>1. CASE Len(v.memory) >= Budget
  <2>1. Spills(v, Spilled(v)) BY SpilledSpills DEF Spills
  <2> QED BY <1>1, <2>1 DEF Spills, SpilledIfFull
<1>2. CASE ~(Len(v.memory) >= Budget)
  BY <1>2 DEF SpilledIfFull
<1> QED BY <1>1, <1>2

LEMMA MemorySpills ==
    ASSUME NEW w, Fields \subseteq DOMAIN w, NEW m
    PROVE  LET v == [w EXCEPT !.memory = m] IN Spills(w, v) /\ v.runs = w.runs
BY DEF Spills, Fields

LEMMA TakingSpills ==
    ASSUME NEW w, Fields \subseteq DOMAIN w, NEW record
    PROVE  Spills(w, Taking(w, record))
<1> DEFINE taken == CASE task.op = "sort" -> Sorting(w, record)
                      [] task.op = "group" -> Grouping(w, record)
                      [] OTHER -> Choosing(w, record)
<1>1. ASSUME task.op = "sort" PROVE Spills(w, taken)
  <2> DEFINE m == Append(w.memory, [key |-> SortKey(record), load |-> w.count])
             v == [w EXCEPT !.memory = m]
  <2>1. Sorting(w, record) = SpilledIfFull(v) BY DEF Sorting
  <2>2. Spills(w, v) /\ v.runs = w.runs BY MemorySpills
  <2> HIDE DEF v
  <2>3. Spills(w, Sorting(w, record)) BY <1>1, <2>1, <2>2, FullSpills
  <2> QED BY <1>1, <2>3
<1>2. ASSUME task.op = "group" PROVE Spills(w, taken)
  <2> DEFINE key == Field(record, task.cols[1])
             here == {k \in DOMAIN w.memory : w.memory[k].key = key}
             c == CHOOSE k \in here : TRUE
             m1 == [w.memory EXCEPT ![c].load = Added1(w.memory[c].load, record[1].num)]
             m2 == Append(w.memory, [key |-> key, load |-> Added1(NoAcc, record[1].num)])
             v == [w EXCEPT !.memory = m2]
  <2>1. Grouping(w, record) = IF here # {} THEN [w EXCEPT !.memory = m1] ELSE SpilledIfFull(v)
    BY DEF Grouping
  <2>2. Spills(w, v) /\ v.runs = w.runs /\ Spills(w, [w EXCEPT !.memory = m1])
    BY MemorySpills
  <2> HIDE DEF v, m1, here
  <2>3. Spills(w, SpilledIfFull(v)) BY <1>2, <2>2, FullSpills
  <2>4. Spills(w, Grouping(w, record)) BY <2>1, <2>2, <2>3
  <2> QED BY <1>2, <2>4
<1>3. ASSUME task.op \notin {"sort", "group"} PROVE Spills(w, taken)
  <2> DEFINE e == [key |-> KeyOf(record, task.cols[1]), load |-> w.count]
             m == w.memory
             under(a, b) == Before(a.key, b.key) \/ (a.key = b.key /\ a.load < b.load)
             worst == CHOOSE k \in DOMAIN m : \A j \in DOMAIN m \ {k} :
                        IF task.reverse THEN under(m[k], m[j]) ELSE under(m[j], m[k])
             better == IF task.reverse THEN Before(m[worst].key, e.key) ELSE Before(e.key, m[worst].key)
             m1 == Append(m, e)
             m2 == Append(RemoveAt(m, worst), e)
  <2>1. Choosing(w, record) =
          CASE Len(m) < task.n -> [w EXCEPT !.memory = m1]
            [] Len(m) >= task.n /\ better -> [w EXCEPT !.memory = m2]
            [] OTHER -> w
    BY DEF Choosing
  <2> HIDE DEF m1, m2, better
  <2>2. Spills(w, w) BY DEF Spills
  <2>3. Spills(w, [w EXCEPT !.memory = m1]) /\ Spills(w, [w EXCEPT !.memory = m2])
    BY MemorySpills
  <2>4. Spills(w, Choosing(w, record)) BY <2>1, <2>2, <2>3
  <2> QED BY <1>3, <2>4
<1>4. Spills(w, taken) BY <1>1, <1>2, <1>3
<1>5. Taking(w, record) = [taken EXCEPT !.count = taken.count + 1] BY DEF Taking
<1> HIDE DEF taken
<1> QED BY <1>4, <1>5 DEF Spills, Fields

LEMMA SpillsKeep ==
    ASSUME WorkOK, NEW w, Spills(work, w)
    PROVE  /\ Row(w.runs) /\ FilesOf(work.runs) \subseteq FilesOf(w.runs)
           /\ \A f \in FilesOf(w.runs) : OldRun(f, work.pass)
           /\ task.op \notin {"sort", "group"} => w.runs = <<>>
           /\ w.runs = <<>> => work.runs = <<>>
<1>1. CASE w.runs = work.runs BY <1>1 DEF WorkOK
<1>2. CASE w.runs # work.runs
  <2> DEFINE k == Len(work.runs)
  <2>1. PICK x : w.runs = Append(work.runs, [file |-> File("run", k, 0), recs |-> x])
    BY <1>2 DEF Spills
  <2> DEFINE e == [file |-> File("run", k, 0), recs |-> x]
  <2>2. e.file = File("run", k, 0) /\ OldRun(e.file, work.pass) BY DEF OldRun
  <2>3. w.runs = Append(work.runs, e) BY <2>1
  <2> HIDE DEF e
  <2>4. Row(w.runs) /\ FilesOf(w.runs) = FilesOf(work.runs) \cup {e.file} /\ w.runs # <<>>
    BY <2>3, AppendedFiles DEF WorkOK
  <2> QED BY <1>2, <2>2, <2>4 DEF WorkOK, Spills
<1> QED BY <1>1, <1>2

\* Only files of the operation are on the ground.
LEMMA GroundFiles ==
    /\ \A f \in Ground : f \in {SpillDir, LineTable}
    /\ Published(Ground) = IF task.op = "sort" THEN {LineTable} ELSE {}
<1>1. SpillDir # LineTable /\ SpillDir[1] = "dir" /\ LineTable[1] = "lines"
  BY DEF SpillDir, LineTable, File
<1>2. \A f \in Ground : f \in {SpillDir, LineTable} BY DEF Ground
<1>3. \A f \in Ground : f[1] \notin InSpillDir BY <1>1, <1>2 DEF InSpillDir
<1>4. Published(Ground) = Ground \ {SpillDir} BY <1>3 DEF Published
<1> QED BY <1>1, <1>2, <1>4 DEF Ground

\* The runs are not among the other files.
LEMMA OldRunFacts ==
    ASSUME NEW pass \in Nat, NEW f, OldRun(f, pass)
    PROVE  /\ f[1] \in {"run", "pass"} /\ f \notin {SpillDir, LineTable, Ordering}
           /\ f # File("merged", 0, 0) /\ \A j : f # File("pass", pass, j)
           /\ OldRun(f, pass + 1)
<1>1. CASE \E k : f = File("run", k, 0)
  BY <1>1 DEF OldRun, File, SpillDir, LineTable, Ordering
<1>2. CASE \E j : \E p \in Nat : f = File("pass", p, j) /\ p < pass
  <2>1. PICK j : \E p \in Nat : f = File("pass", p, j) /\ p < pass BY <1>2
  <2>2. PICK p \in Nat : f = File("pass", p, j) /\ p < pass BY <2>1
  <2>3. p # pass /\ p < pass + 1 BY <2>2
  <2>4. OldRun(f, pass + 1) BY <2>2, <2>3 DEF OldRun
  <2> QED BY <2>2, <2>3, <2>4 DEF File, SpillDir, LineTable, Ordering
<1> QED BY <1>1, <1>2 DEF OldRun

\* Every file of an operation that runs is one its guard removes.
LEMMA AllCleaned ==
    ASSUME WorkOK, DiskOK, phase \in {"read", "merge"}
    PROVE  Cleaned(disk) = {}
<1> SUFFICES ASSUME NEW f \in disk, f # SpillDir
             PROVE  f[1] \in InSpillDir \cup {"lines", "ordering"}
  BY DEF Cleaned
<1>1. disk = Ground \cup FilesOf(work.runs) \cup FilesOf(work.next) \cup Output
  BY DEF DiskOK
<1>2. f \in Ground => f[1] = "lines" BY GroundFiles DEF LineTable, File
<1>3. f \in FilesOf(work.runs) => f[1] \in {"run", "pass"} BY OldRunFacts DEF WorkOK
<1>4. f \in FilesOf(work.next) => f[1] = "pass" BY DEF WorkOK, File
<1>5. f \in Output => f[1] \in {"merged", "pass"} BY DEF Output, OutFile, File
<1> QED BY <1>1, <1>2, <1>3, <1>4, <1>5 DEF InSpillDir

-----------------------------------------------------------------------------
(* The steps.                                                              *)

\* Work is as it was, but for runs that were spilled.
LEMMA WorkSpills ==
    ASSUME WorkOK, task' = task, Spills(work, work'), work.next = <<>>
    PROVE  WorkOK'
<1>1. /\ Row(work'.runs) /\ \A f \in FilesOf(work'.runs) : OldRun(f, work.pass)
      /\ task.op \notin {"sort", "group"} => work'.runs = <<>>
  BY SpillsKeep
<1>2. Fields \subseteq DOMAIN work' /\ work'.next = <<>> /\ work'.pass = work.pass /\ work'.from = work.from
  BY DEF Spills
<1> QED BY <1>1, <1>2, NoFiles DEF WorkOK, FilesOf, OldRun

LEMMA ReadKeeps == ASSUME BatIInv, Read PROVE BatIInv'
<1>1. WorkOK /\ DiskOK /\ phase = "read" /\ phase' = "read" /\ task' = task
      /\ work.next = <<>> /\ work.readers = <<>>
  BY DEF BatIInv, Read, DiskOK
<1>2. Spills(work, work') /\ disk' = disk \cup FilesOf(work'.runs)
  <2>1. work' = work \/ \E record : work' = Taking(work, record) BY DEF Read
  <2>2. Fields \subseteq DOMAIN work BY <1>1 DEF WorkOK
  <2>3. Spills(work, work) BY <2>2 DEF Spills
  <2> QED BY <2>1, <2>2, <2>3, TakingSpills DEF Read
<1>3. WorkOK' BY <1>1, <1>2, WorkSpills
<1>4. FilesOf(work.runs) \subseteq FilesOf(work'.runs) BY <1>1, <1>2, SpillsKeep
<1>5. work'.next = <<>> /\ work'.readers = <<>> BY <1>1, <1>2 DEF Spills
<1>6. DiskOK'
  <2>1. disk = Ground \cup FilesOf(work.runs)
    BY <1>1, NoFiles DEF DiskOK, Output
  <2>2. disk' = Ground \cup FilesOf(work'.runs) BY <1>2, <1>4, <2>1
  <2> QED BY <1>1, <1>5, <2>2, NoFiles DEF DiskOK, Output, Ground
<1> QED BY <1>1, <1>3, <1>6 DEF BatIInv, NothingStranded

LEMMA EndOfInputKeeps == ASSUME BatIInv, EndOfInput PROVE BatIInv'
<1>1. WorkOK /\ DiskOK /\ phase = "read" /\ task' = task /\ work.next = <<>> /\ work.readers = <<>>
  BY DEF BatIInv, EndOfInput, DiskOK
<1>2. disk = Ground \cup FilesOf(work.runs)
  BY <1>1, NoFiles DEF DiskOK, Output
<1>3. PICK w : /\ w = work \/ w = Taking(work, open)
               /\ LET spills == w.memory # <<>> /\ (task.op = "sort" \/ (task.op = "group" /\ w.runs # <<>>))
                      merges == task.op = "sort" \/ (task.op = "group" /\ w.runs # <<>>)
                  IN /\ work' = IF spills THEN Spilled(w) ELSE w
                     /\ phase' = IF merges THEN "merge" ELSE "done"
                     /\ disk' = IF merges THEN disk \cup FilesOf(work'.runs) ELSE Published(disk)
  BY DEF EndOfInput
<1>4. Spills(work, w)
  <2>1. Fields \subseteq DOMAIN work BY <1>1 DEF WorkOK
  <2>2. Spills(work, work) BY <2>1 DEF Spills
  <2> QED BY <1>3, <2>1, <2>2, TakingSpills
<1>5. /\ Row(w.runs) /\ FilesOf(work.runs) \subseteq FilesOf(w.runs)
      /\ \A f \in FilesOf(w.runs) : OldRun(f, work.pass)
      /\ task.op \notin {"sort", "group"} => w.runs = <<>>
      /\ w.runs = <<>> => work.runs = <<>>
  BY <1>1, <1>4, SpillsKeep
<1>6. Fields \subseteq DOMAIN w /\ w.next = <<>> /\ w.readers = <<>> /\ w.pass = work.pass /\ w.from = work.from
  BY <1>1, <1>4 DEF Spills
<1>7. CASE task.op = "sort" \/ (task.op = "group" /\ w.runs # <<>>)
  <2>1. Spills(w, work') BY <1>3, <1>6, <1>7, SpilledSpills DEF Spills
  <2>2. Row(work'.runs) /\ FilesOf(w.runs) \subseteq FilesOf(work'.runs)
        /\ \A f \in FilesOf(work'.runs) : OldRun(f, work.pass)
    <3>1. CASE work'.runs = w.runs BY <1>5, <3>1
    <3>2. CASE work'.runs # w.runs
      <4> DEFINE k == Len(w.runs)
      <4>1. PICK x : work'.runs = Append(w.runs, [file |-> File("run", k, 0), recs |-> x])
        BY <2>1, <3>2 DEF Spills
      <4> DEFINE e == [file |-> File("run", k, 0), recs |-> x]
      <4>2. OldRun(e.file, work.pass) /\ work'.runs = Append(w.runs, e) BY <4>1 DEF OldRun
      <4> HIDE DEF e
      <4>3. Row(work'.runs) /\ FilesOf(work'.runs) = FilesOf(w.runs) \cup {e.file}
        BY <1>5, <4>2, AppendedFiles
      <4> QED BY <1>5, <4>2, <4>3
    <3> QED BY <3>1, <3>2
  <2>3. phase' = "merge" /\ disk' = disk \cup FilesOf(work'.runs) BY <1>3, <1>7
  <2>4. /\ Fields \subseteq DOMAIN work' /\ work'.next = <<>> /\ work'.readers = <<>>
        /\ work'.pass = work.pass /\ work'.from = work.from
    BY <1>6, <2>1 DEF Spills
  <2>5. WorkOK'
    BY <1>1, <1>7, <2>2, <2>4, NoFiles DEF WorkOK, FilesOf, OldRun
  <2>6. disk' = Ground \cup FilesOf(work'.runs) BY <1>2, <1>5, <2>2, <2>3
  <2>7. DiskOK' BY <1>1, <1>7, <2>3, <2>4, <2>6, NoFiles DEF DiskOK, Output, Ground
  <2> QED BY <2>3, <2>5, <2>7 DEF BatIInv, NothingStranded
<1>8. CASE ~(task.op = "sort" \/ (task.op = "group" /\ w.runs # <<>>))
  <2>1. w.runs = <<>> /\ work.runs = <<>> BY <1>5, <1>8
  <2>2. phase' = "done" /\ disk' = Published(disk) /\ work' = w BY <1>3, <1>8
  <2>3. disk' = {} BY <1>2, <1>8, <2>1, <2>2, NoFiles, GroundFiles
  <2>4. WorkOK' BY <1>1, <1>4, <2>2, WorkSpills
  <2> QED BY <1>1, <1>8, <2>2, <2>3, <2>4 DEF BatIInv, DiskOK, NothingStranded
<1> QED BY <1>7, <1>8

\* A step of a merge: the runs to merge and those made stay.
LEMMA MergesKeep ==
    ASSUME WorkOK, task' = task, Fields \subseteq DOMAIN work', work'.runs = work.runs,
           work'.next = work.next, work'.pass = work.pass, work'.from = work.from
    PROVE  WorkOK' /\ OutFile' = OutFile /\ Ground' = Ground
           /\ FilesOf(work.runs)' = FilesOf(work.runs) /\ FilesOf(work.next)' = FilesOf(work.next)
<1>1. FilesOf(work.runs)' = FilesOf(work.runs) /\ FilesOf(work.next)' = FilesOf(work.next)
  BY DEF FilesOf
<1>2. LastPass' <=> LastPass BY DEF LastPass
<1>3. OutFile' = OutFile BY <1>2 DEF OutFile
<1>4. Ground' = Ground BY DEF Ground
<1>5. \A f \in FilesOf(work.runs) : OldRun(f, work'.pass) BY DEF WorkOK
<1>6. WorkOK' BY <1>1, <1>2, <1>5 DEF WorkOK
<1> QED BY <1>1, <1>3, <1>4, <1>6

\* A chunk of runs is a sequence.
LEMMA ChunkFacts ==
    ASSUME WorkOK, ChunkOf(work) # <<>>
    PROVE  DOMAIN ChunkOf(work) # {}
<1>1. ASSUME NEW s, Row(s), DOMAIN s = {} PROVE s = <<>>
  <2>1. PICK S : s \in Seq(S) BY <1>1 DEF Row
  <2>2. Len(s) \in Nat /\ DOMAIN s = 1..Len(s) BY <2>1
  <2>3. Len(s) = 0
    <3>1. CASE Len(s) >= 1
      <4>1. 1 \in 1..Len(s) BY <2>2, <3>1
      <4> QED BY <1>1, <2>2, <4>1
    <3> QED BY <2>2, <3>1
  <2> QED BY <2>1, <2>3
<1>2. CASE LastPass BY <1>1, <1>2 DEF ChunkOf, WorkOK
<1>3. CASE ~LastPass
  <2> DEFINE m == work.from + 1
             n == Lesser(work.from + FanIn, Len(work.runs))
  <2>1. PICK S : work.runs \in Seq(S) BY DEF WorkOK, Row
  <2>2. m \in Nat /\ n \in Nat BY <2>1, FanInAssumption DEF WorkOK, Lesser
  <2>3. ChunkOf(work) = SubSeq(work.runs, m, n) BY <1>3 DEF ChunkOf
  <2> HIDE DEF m, n
  <2>4. DOMAIN SubSeq(work.runs, m, n) = 1..(n + 1 - m) BY <2>1, <2>2
  <2>5. SubSeq(work.runs, m, n) = [i \in 1..(n + 1 - m) |-> work.runs[i + m - 1]] BY <2>1, <2>2
  <2>6. DOMAIN ChunkOf(work) = {} => ChunkOf(work) = <<>> BY <2>2, <2>3, <2>4, <2>5
  <2> QED BY <2>6
<1> QED BY <1>2, <1>3

LEMMA BeginMergeKeeps == ASSUME BatIInv, BeginMerge PROVE BatIInv'
<1>1. WorkOK /\ DiskOK /\ phase = "merge" /\ phase' = "merge" /\ task' = task /\ work.readers = <<>>
  BY DEF BatIInv, BeginMerge
<1> DEFINE chunk == [k \in DOMAIN ChunkOf(work) |-> ChunkOf(work)[k].recs]
<1>2. /\ work' = [work EXCEPT !.readers = chunk, !.out = <<>>] /\ ChunkOf(work) # <<>>
      /\ disk' = IF task.op = "group" THEN disk ELSE disk \cup {OutFile}
  BY DEF BeginMerge
<1>3. chunk # <<>>
  <2>1. DOMAIN chunk # {} BY <1>1, <1>2, ChunkFacts
  <2> QED BY <2>1
<1> HIDE DEF chunk
<1>4. /\ Fields \subseteq DOMAIN work' /\ work'.runs = work.runs /\ work'.next = work.next
      /\ work'.pass = work.pass /\ work'.from = work.from /\ work'.readers = chunk
  BY <1>1, <1>2 DEF WorkOK, Fields
<1>5. /\ WorkOK' /\ OutFile' = OutFile /\ Ground' = Ground
      /\ FilesOf(work.runs)' = FilesOf(work.runs) /\ FilesOf(work.next)' = FilesOf(work.next)
  BY <1>1, <1>4, MergesKeep
<1>6. task.op \in {"sort", "group"}
      /\ disk = Ground \cup FilesOf(work.runs) \cup FilesOf(work.next) \cup Output
  BY <1>1 DEF DiskOK
<1>7. Output = {} /\ Output' = IF task.op = "sort" THEN {OutFile} ELSE {}
  BY <1>1, <1>3, <1>4, <1>5 DEF Output
<1>8. DiskOK' BY <1>1, <1>2, <1>5, <1>6, <1>7 DEF DiskOK
<1> QED BY <1>1, <1>5, <1>8 DEF BatIInv, NothingStranded

\* A record out of the merge changes neither its runs nor its output.
LEMMA RecordKeeps ==
    ASSUME BatIInv, phase = "merge", UNCHANGED <<phase, task, disk>>, NEW x, NEW y,
           work' = [work EXCEPT !.readers = x, !.out = y],
           task.op = "sort" => (x # <<>> <=> work.readers # <<>>)
    PROVE  BatIInv'
<1>1. WorkOK /\ DiskOK BY DEF BatIInv
<1>2. /\ Fields \subseteq DOMAIN work' /\ work'.runs = work.runs /\ work'.next = work.next
      /\ work'.pass = work.pass /\ work'.from = work.from /\ work'.readers = x
  BY <1>1 DEF WorkOK, Fields
<1>3. /\ WorkOK' /\ OutFile' = OutFile /\ Ground' = Ground
      /\ FilesOf(work.runs)' = FilesOf(work.runs) /\ FilesOf(work.next)' = FilesOf(work.next)
  BY <1>1, <1>2, MergesKeep
<1>4. Output' = Output BY <1>2, <1>3 DEF Output
<1>5. DiskOK' BY <1>1, <1>3, <1>4 DEF DiskOK
<1> QED BY <1>3, <1>5 DEF BatIInv, NothingStranded

LEMMA PumpKeeps == ASSUME BatIInv, Pump PROVE BatIInv'
<1>1. PICK r : work' = [work EXCEPT !.readers[r] = Tail(@), !.out = Append(@, Head(work.readers[r]))]
  BY DEF Pump
<1> DEFINE x == [work.readers EXCEPT ![r] = Tail(work.readers[r])]
           y == Append(work.out, Head(work.readers[r]))
<1>2. work' = [work EXCEPT !.readers = x, !.out = y] BY <1>1
<1>3. DOMAIN work.readers # {} BY DEF Pump, Ready
<1>4. DOMAIN x = DOMAIN work.readers OBVIOUS
<1>5. x # <<>> /\ work.readers # <<>> BY <1>3, <1>4
<1> HIDE DEF x, y
<1> QED BY <1>2, <1>5, RecordKeeps DEF Pump

LEMMA FoldKeeps == ASSUME BatIInv, Fold PROVE BatIInv'
<1>1. \E x, y : work' = [work EXCEPT !.readers = x, !.out = y] BY DEF Fold, Folded
<1> QED BY <1>1, RecordKeeps DEF Fold

LEMMA EndChunkKeeps == ASSUME BatIInv, EndChunk PROVE BatIInv'
<1>1. /\ WorkOK /\ DiskOK /\ phase = "merge" /\ phase' = "merge" /\ task' = task
      /\ work.readers # <<>> /\ ~LastPass
  BY DEF BatIInv, EndChunk
<1> DEFINE e == [file |-> OutFile, recs |-> work.out]
           next == Append(work.next, e)
<1>2. IF work.from + FanIn < Len(work.runs)
      THEN /\ work' = [work EXCEPT !.readers = <<>>, !.out = <<>>, !.from = @ + FanIn, !.next = next]
           /\ UNCHANGED disk
      ELSE /\ work' = [work EXCEPT !.runs = next, !.readers = <<>>, !.out = <<>>, !.from = 0,
                                   !.next = <<>>, !.pass = @ + 1]
           /\ disk' = Consumed(disk, work.runs)
  BY DEF EndChunk
<1>3. task.op = "sort" /\ OutFile = File("pass", work.pass, work.from \div FanIn)
      /\ disk = Ground \cup FilesOf(work.runs) \cup FilesOf(work.next) \cup {OutFile}
  BY <1>1 DEF DiskOK, LastPass, OutFile, Output
<1>4. e.file = OutFile OBVIOUS
<1> HIDE DEF e
<1>5. Row(next) /\ FilesOf(next) = FilesOf(work.next) \cup {OutFile}
  BY <1>1, <1>4, AppendedFiles DEF WorkOK
<1> HIDE DEF next
<1>6. \A f \in FilesOf(next) : \E j : f = File("pass", work.pass, j)
  BY <1>1, <1>3, <1>5 DEF WorkOK
<1>7. Ground' = Ground BY <1>1 DEF Ground
<1>8. CASE work.from + FanIn < Len(work.runs)
  <2>1. /\ Fields \subseteq DOMAIN work' /\ work'.runs = work.runs /\ work'.next = next
        /\ work'.pass = work.pass /\ work'.from = work.from + FanIn /\ work'.readers = <<>>
        /\ disk' = disk
    BY <1>1, <1>2, <1>8 DEF WorkOK, Fields
  <2>2. ~LastPass' BY <1>1, <2>1 DEF LastPass
  <2>3. work'.from \in Nat BY <1>1, <2>1, FanInAssumption DEF WorkOK
  <2>4. \A f \in FilesOf(work.runs) : OldRun(f, work'.pass) BY <1>1, <2>1 DEF WorkOK
  <2>5. FilesOf(work.runs)' = FilesOf(work.runs) /\ FilesOf(work.next)' = FilesOf(next)
    BY <2>1 DEF FilesOf
  <2>6. WorkOK' BY <1>1, <1>3, <1>5, <1>6, <2>1, <2>2, <2>3, <2>4, <2>5 DEF WorkOK
  <2>7. DiskOK'
    BY <1>1, <1>3, <1>5, <1>7, <2>1, <2>5 DEF DiskOK, Output
  <2> QED BY <1>1, <2>6, <2>7 DEF BatIInv, NothingStranded
<1>9. CASE ~(work.from + FanIn < Len(work.runs))
  <2>1. /\ Fields \subseteq DOMAIN work' /\ work'.runs = next /\ work'.next = <<>>
        /\ work'.pass = work.pass + 1 /\ work'.from = 0 /\ work'.readers = <<>>
        /\ disk' = disk \ FilesOf(work.runs)
    BY <1>1, <1>2, <1>9 DEF WorkOK, Fields, Consumed
  <2>2. FilesOf(work.runs)' = FilesOf(next) /\ FilesOf(work.next)' = {}
    BY <2>1, NoFiles DEF FilesOf
  <2>3. \A f \in FilesOf(next) : OldRun(f, work'.pass)
    <3>1. work.pass \in Nat /\ work.pass < work.pass + 1 BY <1>1 DEF WorkOK
    <3> QED BY <1>6, <2>1, <3>1 DEF OldRun
  <2>4. WorkOK' BY <1>1, <1>3, <1>5, <2>1, <2>2, <2>3, NoFiles DEF WorkOK
  <2>5. ASSUME NEW f \in FilesOf(work.runs) PROVE f \notin Ground /\ f \notin FilesOf(next)
    <3>1. OldRun(f, work.pass) /\ work.pass \in Nat BY <1>1 DEF WorkOK
    <3> QED BY <1>6, <3>1, OldRunFacts, GroundFiles
  <2>6. disk' = Ground \cup FilesOf(next) BY <1>3, <1>5, <2>1, <2>5
  <2>7. DiskOK' BY <1>1, <1>3, <1>7, <2>1, <2>2, <2>6 DEF DiskOK, Output
  <2> QED BY <1>1, <2>4, <2>7 DEF BatIInv, NothingStranded
<1> QED BY <1>8, <1>9

LEMMA EndMergeKeeps == ASSUME BatIInv, EndMerge PROVE BatIInv'
<1>1. /\ WorkOK /\ DiskOK /\ phase = "merge" /\ phase' = "done" /\ task' = task /\ LastPass
      /\ work' = [work EXCEPT !.readers = <<>>, !.out = <<>>]
      /\ disk' = Published(Consumed(disk, work.runs) \ {File("merged", 0, 0)})
                 \cup (IF task.op = "sort" THEN {Ordering} ELSE {})
  BY DEF BatIInv, EndMerge
<1>2. /\ Fields \subseteq DOMAIN work' /\ work'.runs = work.runs /\ work'.next = work.next
      /\ work'.pass = work.pass /\ work'.from = work.from
  BY <1>1 DEF WorkOK, Fields
<1>3. WorkOK' BY <1>1, <1>2, MergesKeep
<1>4. work.next = <<>> /\ task.op \in {"sort", "group"} BY <1>1 DEF WorkOK, DiskOK
<1>5. Output \subseteq {File("merged", 0, 0)} BY <1>1 DEF Output, OutFile
<1>6. disk = Ground \cup FilesOf(work.runs) \cup Output
  BY <1>1, <1>4, NoFiles DEF DiskOK
<1>7. \A f \in Ground : f \notin FilesOf(work.runs) /\ f # File("merged", 0, 0)
  <2>1. \A f \in FilesOf(work.runs) : f \notin {SpillDir, LineTable}
    BY <1>1, OldRunFacts DEF WorkOK
  <2>2. File("merged", 0, 0) \notin {SpillDir, LineTable}
    BY DEF File, SpillDir, LineTable
  <2> QED BY <2>1, <2>2, GroundFiles
<1>8. (disk \ FilesOf(work.runs)) \ {File("merged", 0, 0)} = Ground
  BY <1>5, <1>6, <1>7
<1>9. disk' = IF task.op = "sort" THEN {LineTable, Ordering} ELSE {}
  BY <1>1, <1>8, GroundFiles DEF Consumed
<1> QED BY <1>1, <1>3, <1>9 DEF BatIInv, DiskOK, NothingStranded

LEMMA FailKeeps == ASSUME BatIInv, Fail PROVE BatIInv'
<1>1. phase' = "failed" /\ task' = task /\ work' = work /\ disk' = Cleaned(disk)
  BY DEF Fail
<1>2. disk' = {} BY <1>1, AllCleaned DEF BatIInv, Fail
<1>3. WorkOK' BY <1>1 DEF BatIInv, WorkOK, LastPass
<1> QED BY <1>1, <1>2, <1>3 DEF BatIInv, DiskOK, NothingStranded

LEMMA InitBatIInv == BatInit => BatIInv
<1> SUFFICES ASSUME BatInit PROVE BatIInv
  OBVIOUS
<1>1. /\ work = NoWork /\ disk = Ground /\ phase \in {"read", "done"}
      /\ phase = "done" => task.op = "top"
  BY DEF BatInit, Ground
<1>2. /\ Fields \subseteq DOMAIN work /\ work.runs = <<>> /\ work.next = <<>> /\ work.readers = <<>>
      /\ work.pass = 0 /\ work.from = 0
  BY <1>1 DEF NoWork, Fields
<1>3. WorkOK BY <1>2, NoFiles DEF WorkOK
<1>4. DiskOK BY <1>1, <1>2, NoFiles DEF DiskOK, Output
<1>5. phase = "done" => disk = {} BY <1>1 DEF Ground
<1> QED BY <1>1, <1>3, <1>4, <1>5 DEF BatIInv, NothingStranded

LEMMA NextBatIInv == BatIInv /\ [BatNext]_batVars => BatIInv'
<1> SUFFICES ASSUME BatIInv, [BatNext]_batVars PROVE BatIInv'
  OBVIOUS
<1>1. CASE UNCHANGED batVars
  <2>1. UNCHANGED <<task, phase, work, disk>> BY <1>1 DEF batVars
  <2>2. WorkOK' BY <2>1 DEF BatIInv, WorkOK, LastPass
  <2>3. DiskOK' BY <2>1 DEF BatIInv, DiskOK, Ground, Output, OutFile, LastPass
  <2> QED BY <2>1, <2>2, <2>3 DEF BatIInv, NothingStranded
<1> QED
  BY <1>1, ReadKeeps, EndOfInputKeeps, BeginMergeKeeps, PumpKeeps, FoldKeeps, EndChunkKeeps,
     EndMergeKeeps, FailKeeps DEF BatNext

\* However a sort, a group or a top ends, after whatever spills, passes and
\* failures, only the line table and the ordering of a finished sort stay on
\* disk: every run, intermediate run and output is consumed, renamed or
\* removed by the guard (merge_runs, SpillCleanup).
THEOREM NothingIsStranded == BatSpec => []NothingStranded
<1>1. BatIInv => NothingStranded BY DEF BatIInv
<1> QED BY <1>1, InitBatIInv, NextBatIInv, PTL DEF BatSpec

-----------------------------------------------------------------------------
(* Orders: low[x] is what comes before x.                                  *)

Ranked(S, low) ==
    /\ IsFiniteSet(S)
    /\ \A x \in S : low[x] \subseteq S /\ x \notin low[x]
    /\ \A x \in S : \A y \in low[x] : low[y] \subseteq low[x]
    /\ \A x, y \in S : x # y => x \in low[y] \/ y \in low[x]

\* As many come before each as it has of them, from none to all but one.
LEMMA RankedFacts ==
    ASSUME NEW S, NEW low, Ranked(S, low)
    PROVE  /\ Cardinality(S) \in Nat
           /\ \A x \in S : Cardinality(low[x]) \in 0 .. Cardinality(S) - 1
           /\ \A x, y \in S : x \in low[y] <=> Cardinality(low[x]) < Cardinality(low[y])
           /\ \A k \in 0 .. Cardinality(S) - 1 : \E x \in S : Cardinality(low[x]) = k
<1>0. ASSUME NEW A, NEW M, IsFiniteSet(M), A \subseteq M, A # M
      PROVE  IsFiniteSet(A) /\ Cardinality(A) \in Nat /\ Cardinality(M) \in Nat
             /\ Cardinality(A) < Cardinality(M)
  <2>1. /\ IsFiniteSet(A) /\ Cardinality(A) <= Cardinality(M)
        /\ Cardinality(A) # Cardinality(M)
    BY <1>0, FS_Subset
  <2>2. Cardinality(A) \in Nat /\ Cardinality(M) \in Nat BY <1>0, <2>1, FS_CardinalityType
  <2> QED BY <2>1, <2>2
<1> DEFINE n == Cardinality(S)
           D == 0 .. n - 1
           c(x) == Cardinality(low[x])
           f == [x \in S |-> c(x)]
<1>1. n \in Nat /\ IsFiniteSet(S) BY FS_CardinalityType DEF Ranked
<1>2. ASSUME NEW x \in S PROVE IsFiniteSet(low[x]) /\ c(x) \in Nat /\ c(x) < n
  <2>1. low[x] \subseteq S /\ low[x] # S BY DEF Ranked
  <2> QED BY <1>0, <1>1, <2>1
<1>3. ASSUME NEW x \in S, NEW y \in S, x \in low[y] PROVE c(x) < c(y)
  <2> DEFINE L == low[x]
             M == low[y]
  <2>1. L \subseteq M /\ x \in M /\ x \notin L BY <1>3 DEF Ranked
  <2>2. IsFiniteSet(M) BY <1>2
  <2> HIDE DEF L, M
  <2>3. L # M BY <2>1
  <2>4. Cardinality(L) < Cardinality(M) BY <1>0, <2>1, <2>2, <2>3
  <2> QED BY <2>4 DEF L, M
<1>4. \A x, y \in S : x \in low[y] <=> c(x) < c(y)
  <2> TAKE x, y \in S
  <2>1. c(x) \in Nat /\ c(y) \in Nat BY <1>2
  <2>2. x = y \/ x \in low[y] \/ y \in low[x] BY DEF Ranked
  <2>3. x \notin low[x] BY DEF Ranked
  <2>4. x \in low[y] => c(x) < c(y) BY <1>3
  <2>5. y \in low[x] => c(y) < c(x) BY <1>3
  <2> HIDE DEF c
  <2> QED BY <2>1, <2>2, <2>3, <2>4, <2>5
<1>5. f \in Injection(S, D)
  <2>1. \A x \in S : c(x) \in D BY <1>1, <1>2
  <2>2. f \in [S -> D] BY <2>1
  <2>3. \A x, y \in S : x # y => x \in low[y] \/ y \in low[x] BY DEF Ranked
  <2>4. \A x \in S : c(x) \in Nat BY <1>2
  <2>5. \A x, y \in S : c(x) = c(y) => x = y
    <3> HIDE DEF c
    <3> QED BY <1>4, <2>3, <2>4
  <2>6. \A x, y \in S : f[x] = f[y] => x = y
    <3> HIDE DEF c
    <3> QED BY <2>5
  <2> HIDE DEF f, D
  <2> QED BY <2>2, <2>6 DEF Injection, IsInjective
<1>6. IsFiniteSet(D) /\ Cardinality(D) = n
  <2> DEFINE a == 0
             b == n - 1
  <2>2. a \in Int /\ b \in Int /\ (a > b => n = 0) /\ (~(a > b) => b - a + 1 = n) BY <1>1
  <2> HIDE DEF a, b
  <2>3. IsFiniteSet(a .. b) /\ Cardinality(a .. b) = IF a > b THEN 0 ELSE b - a + 1 BY <2>2, FS_Interval
  <2>4. Cardinality(a .. b) = n BY <2>2, <2>3
  <2> QED BY <2>3, <2>4 DEF a, b
<1> HIDE DEF f, D
<1>7. f \in Surjection(S, D)
  <2>1. Cardinality(S) = Cardinality(D) BY <1>6 DEF n
  <2> QED BY <1>1, <1>5, <1>6, <2>1, FS_Injection
<1>8. \A k \in D : \E x \in S : f[x] = k BY <1>7 DEF Surjection
<1> QED BY <1>1, <1>2, <1>4, <1>8 DEF f, D, n

LEMMA LeastRanked ==
    ASSUME NEW S, NEW low, Ranked(S, low), S # {}
    PROVE  \E x \in S : \A y \in S \ {x} : x \in low[y]
<1> DEFINE n == Cardinality(S)
<1>1. n \in Nat /\ n # 0
  <2>1. IsFiniteSet(S) BY DEF Ranked
  <2> QED BY <2>1, FS_EmptySet, FS_CardinalityType
<1>2. 0 \in 0 .. n - 1 BY <1>1
<1>3. PICK x \in S : Cardinality(low[x]) = 0
  <2> HIDE DEF n
  <2> QED BY <1>2, RankedFacts DEF n
<1>4. ASSUME NEW y \in S \ {x} PROVE x \in low[y]
  <2>1. Cardinality(low[y]) \in Nat BY <1>1, RankedFacts
  <2>2. y \in low[x] <=> Cardinality(low[y]) < Cardinality(low[x]) BY RankedFacts
  <2>3. y \notin low[x] BY <1>3, <2>1, <2>2
  <2> QED BY <2>3 DEF Ranked
<1> QED BY <1>3, <1>4

-----------------------------------------------------------------------------
(* Induction.                                                              *)

LEMMA LeastOf ==
    ASSUME NEW Q, Q \subseteq Nat, Q # {}
    PROVE  \E n \in Q : \A m \in Q : n <= m
<1>1. PICK n \in Q : \A m \in Q : ~(<<m, n>> \in OpToRel(<, Nat))
  BY NatLessThanWellFounded, WFMin
<1>2. \A m \in Q : n <= m
  <2> TAKE m \in Q
  <2>1. ~(m < n) BY <1>1 DEF OpToRel
  <2> QED BY <2>1
<1> QED BY <1>2

\* What holds of 0 and, after n - 1, of n holds up to the bound.
LEMMA Climb ==
    ASSUME NEW L \in Nat, NEW Q, 0 \in Q, \A n \in 1 .. L : n - 1 \in Q => n \in Q
    PROVE  \A n \in 0 .. L : n \in Q
<1> DEFINE T == {n \in 0 .. L : n \notin Q}
<1>1. ASSUME T # {} PROVE FALSE
  <2>1. T \subseteq Nat OBVIOUS
  <2>2. PICK n \in T : \A m \in T : n <= m
    <3> HIDE DEF T
    <3> QED BY <1>1, <2>1, LeastOf
  <2>3. \A m \in T : ~(m < n) BY <2>1, <2>2
  <2>4. n \in 1 .. L /\ n \notin Q BY <2>2
  <2>5. n - 1 \in T BY <2>4
  <2> QED BY <2>3, <2>4, <2>5
<1> QED BY <1>1

-----------------------------------------------------------------------------
(* The order of keys.                                                      *)

Texts == Seq(Int)

\* Where one of two keys comes before the other.
Under(a, b, k) ==
    /\ k <= Len(a) + 1 /\ (k <= Len(a) => a[k] < b[k])
    /\ \A i \in 1 .. k - 1 : a[i] = b[i]

\* The first n of a text.
LEMMA FrontIs ==
    ASSUME NEW a \in Seq(Int), NEW n \in Nat, n <= Len(a)
    PROVE  /\ SubSeq(a, 1, n) \in Seq(Int) /\ Len(SubSeq(a, 1, n)) = n
           /\ \A i \in 1 .. n : SubSeq(a, 1, n)[i] = a[i]
<1> DEFINE one == 1
<1>1. one \in 1 .. Len(a) + 1 /\ n \in one - 1 .. Len(a) /\ n - one + 1 = n
      /\ \A i \in Int : one + i - 1 = i
  OBVIOUS
<1> HIDE DEF one
<1>2. /\ SubSeq(a, one, n) \in Seq(Int) /\ Len(SubSeq(a, one, n)) = n - one + 1
      /\ \A i \in 1 .. n - one + 1 : SubSeq(a, one, n)[i] = a[one + i - 1]
  BY <1>1, SubSeqProperties
<1>3. \A i \in 1 .. n : a[one + i - 1] = a[i] BY <1>1
<1> QED BY <1>1, <1>2, <1>3 DEF one

LEMMA BeforeIs ==
    ASSUME NEW a \in Texts, NEW b \in Texts
    PROVE  Before(a, b) <=> \E k \in 1 .. Len(b) : Under(a, b, k)
<1>1. a \in Seq(Int) /\ b \in Seq(Int) /\ Len(a) \in Nat /\ Len(b) \in Nat BY DEF Texts
<1>2. ASSUME IsStrictPrefix(a, b) PROVE \E k \in 1 .. Len(b) : Under(a, b, k)
  <2> DEFINE n == Len(a)
  <2>1. n <= Len(b) /\ SubSeq(a, 1, n) = SubSeq(b, 1, n) /\ a # b BY <1>2 DEF IsStrictPrefix, IsPrefix
  <2>2. \A i \in 1 .. n : a[i] = b[i]
    <3> TAKE i \in 1 .. n
    <3>1. SubSeq(a, 1, n)[i] = a[i] /\ SubSeq(b, 1, n)[i] = b[i] BY <1>1, <2>1
    <3> QED BY <2>1, <3>1
  <2>3. n # Len(b)
    <3>1. ASSUME n = Len(b) PROVE a = b BY <1>1, <2>2, <3>1, SeqEqual
    <3> QED BY <2>1, <3>1
  <2> DEFINE k == n + 1
  <2>4. k \in 1 .. Len(b) /\ k - 1 = n /\ ~(k <= Len(a)) BY <1>1, <2>1, <2>3
  <2>5. Under(a, b, k)
    <3>1. k <= Len(a) + 1 BY <1>1
    <3> HIDE DEF k
    <3> QED BY <2>2, <2>4, <3>1 DEF Under
  <2> QED BY <2>4, <2>5
<1>3. ASSUME NEW k \in DOMAIN a \cap DOMAIN b, a[k] < b[k], SubSeq(a, 1, k - 1) = SubSeq(b, 1, k - 1)
      PROVE  k \in 1 .. Len(b) /\ Under(a, b, k)
  <2>1. k \in 1 .. Len(a) /\ k \in 1 .. Len(b) BY <1>1
  <2>2. \A i \in 1 .. k - 1 : a[i] = b[i]
    <3> TAKE i \in 1 .. k - 1
    <3> DEFINE n == k - 1
    <3>0. k \in Nat /\ k >= 1 /\ k <= Len(a) /\ k <= Len(b) BY ONLY <1>1, <2>1
    <3>0a. n \in Nat /\ n <= Len(a) /\ n <= Len(b) BY ONLY <3>0, <1>1
    <3>1. n \in Nat /\ n <= Len(a) /\ n <= Len(b) /\ i \in 1 .. n BY <3>0a
    <3>2. SubSeq(a, 1, n) = SubSeq(b, 1, n) BY <1>3
    <3> HIDE DEF n
    <3>3. SubSeq(a, 1, n)[i] = a[i] /\ SubSeq(b, 1, n)[i] = b[i] BY <1>1, <3>1, FrontIs
    <3> QED BY <3>2, <3>3
  <2> QED BY <1>1, <1>3, <2>1, <2>2 DEF Under
<1>4. ASSUME NEW k \in 1 .. Len(b), Under(a, b, k) PROVE Before(a, b)
  <2>0. \A i \in 1 .. k - 1 : a[i] = b[i] BY <1>4 DEF Under
  <2> DEFINE n == k - 1
             x == SubSeq(a, 1, n)
             y == SubSeq(b, 1, n)
  <2>1. n \in 0 .. Len(a) /\ n \in 0 .. Len(b) BY <1>1, <1>4 DEF Under
  <2>2. x = y
    <3>0. n \in Nat /\ n <= Len(a) /\ n <= Len(b) BY <1>1, <2>1
    <3> HIDE DEF n
    <3>1. x \in Seq(Int) /\ Len(x) = n /\ \A i \in 1 .. n : x[i] = a[i] BY <1>1, <3>0, FrontIs
    <3>2. y \in Seq(Int) /\ Len(y) = n /\ \A i \in 1 .. n : y[i] = b[i] BY <1>1, <3>0, FrontIs
    <3> HIDE DEF x, y
    <3> USE DEF n
    <3> QED BY <2>0, <3>1, <3>2, SeqEqual
  <2>3. CASE k <= Len(a)
    <3>1. k \in DOMAIN a \cap DOMAIN b /\ a[k] < b[k] BY <1>1, <1>4, <2>3 DEF Under
    <3> QED BY <2>2, <3>1 DEF Before
  <2>4. CASE ~(k <= Len(a))
    <3>0. k \in Int /\ k <= Len(b) /\ k <= Len(a) + 1 BY <1>4 DEF Under
    <3>1. n = Len(a) /\ Len(a) < Len(b) BY ONLY <1>1, <2>4, <3>0
    <3>2. a # b BY <3>1
    <3> QED BY <2>2, <3>1, <3>2 DEF Before, IsStrictPrefix, IsPrefix
  <2> QED BY <2>3, <2>4
<1> QED BY <1>2, <1>3, <1>4 DEF Before

LEMMA BeforeOrders ==
    /\ \A a \in Texts : ~Before(a, a)
    /\ \A a, b \in Texts : a # b => Before(a, b) \/ Before(b, a)
    /\ \A a, b, c \in Texts : Before(a, b) /\ Before(b, c) => Before(a, c)
<1>0. \A a \in Texts : a \in Seq(Int) /\ Len(a) \in Nat BY DEF Texts
<1>1. ASSUME NEW a \in Texts PROVE ~Before(a, a)
  <2>1. ASSUME NEW k \in 1 .. Len(a), Under(a, a, k) PROVE FALSE
    <3>1. a[k] < a[k] /\ a[k] \in Int BY <1>0, <2>1 DEF Under
    <3> QED BY <3>1
  <2> QED BY <2>1, BeforeIs
<1>2. ASSUME NEW a \in Texts, NEW b \in Texts, a # b PROVE Before(a, b) \/ Before(b, a)
  <2> DEFINE D == {k \in 1 .. Len(a) + Len(b) : k > Len(a) \/ k > Len(b) \/ a[k] # b[k]}
  <2>1. D # {}
    <3> SUFFICES ASSUME D = {} PROVE FALSE OBVIOUS
    <3> DEFINE n == Len(a) + Len(b)
    <3>1. n \in Nat BY <1>0
    <3>2. n = 0
      <4> SUFFICES ASSUME n # 0 PROVE FALSE OBVIOUS
      <4>1. n \in 1 .. n /\ (n > Len(a) \/ n > Len(b)) BY <1>0, <3>1
      <4>2. n \in D BY <4>1
      <4> QED BY <4>2
    <3>3. Len(a) = 0 /\ Len(b) = 0 BY <1>0, <3>2
    <3> QED BY <1>0, <1>2, <3>3
  <2>2. PICK k \in D : \A i \in D : k <= i
    <3>1. D \subseteq Nat OBVIOUS
    <3> HIDE DEF D
    <3> QED BY <2>1, <3>1, LeastOf
  <2>3. k \in 1 .. Len(a) + Len(b) /\ (k > Len(a) \/ k > Len(b) \/ a[k] # b[k]) BY <2>2
  <2>4. \A i \in 1 .. k - 1 : i <= Len(a) /\ i <= Len(b) /\ a[i] = b[i]
    <3> TAKE i \in 1 .. k - 1
    <3>1. i \in 1 .. Len(a) + Len(b) /\ ~(k <= i) BY <1>0, <2>3
    <3>2. i \notin D BY <2>2, <3>1
    <3> QED BY <1>0, <3>1, <3>2
  <2> HIDE DEF D
  <2>5. k - 1 <= Len(a) /\ k - 1 <= Len(b)
    <3>1. k = 1 \/ k - 1 \in 1 .. k - 1 BY <1>0, <2>3
    <3> QED BY <1>0, <2>3, <2>4, <3>1
  <2>6. ~(k > Len(a) /\ k > Len(b))
    <3> SUFFICES ASSUME k > Len(a), k > Len(b) PROVE FALSE OBVIOUS
    <3>1. Len(a) = k - 1 /\ Len(b) = k - 1 BY <1>0, <2>3, <2>5
    <3>2. a = b BY <1>0, <2>4, <3>1, SeqEqual
    <3> QED BY <1>2, <3>2
  <2>7. CASE k > Len(a)
    <3>1. k \in 1 .. Len(b) /\ Under(a, b, k) BY <1>0, <2>3, <2>4, <2>5, <2>6, <2>7 DEF Under
    <3> QED BY <3>1, BeforeIs
  <2>8. CASE k > Len(b)
    <3>1. k \in 1 .. Len(a) /\ Under(b, a, k) BY <1>0, <2>3, <2>4, <2>5, <2>6, <2>8 DEF Under
    <3> QED BY <3>1, BeforeIs
  <2>9. CASE ~(k > Len(a)) /\ ~(k > Len(b))
    <3>1. k \in 1 .. Len(a) /\ k \in 1 .. Len(b) /\ a[k] # b[k] BY <1>0, <2>3, <2>9
    <3>2. a[k] \in Int /\ b[k] \in Int BY <1>0, <3>1
    <3>3. CASE a[k] < b[k]
      <4>1. Under(a, b, k) BY <1>0, <2>4, <2>5, <3>1, <3>3 DEF Under
      <4> QED BY <3>1, <4>1, BeforeIs
    <3>4. CASE b[k] < a[k]
      <4>1. Under(b, a, k) BY <1>0, <2>4, <2>5, <3>1, <3>4 DEF Under
      <4> QED BY <3>1, <4>1, BeforeIs
    <3> QED BY <3>1, <3>2, <3>3, <3>4
  <2> QED BY <2>7, <2>8, <2>9
<1>3. ASSUME NEW a \in Texts, NEW b \in Texts, NEW c \in Texts, Before(a, b), Before(b, c)
      PROVE  Before(a, c)
  <2>1. PICK j \in 1 .. Len(b) : Under(a, b, j) BY <1>3, BeforeIs
  <2>2. PICK k \in 1 .. Len(c) : Under(b, c, k) BY <1>3, BeforeIs
  <2>3. CASE j < k
    <3>1. j \in 1 .. Len(c) /\ b[j] = c[j] BY <1>0, <2>2, <2>3 DEF Under
    <3>2. Under(a, c, j) BY <1>0, <2>1, <2>2, <2>3, <3>1 DEF Under
    <3> QED BY <3>1, <3>2, BeforeIs
  <2>4. CASE ~(j < k)
    <3>1. k <= Len(a) + 1 /\ k <= Len(b) BY <1>0, <2>1, <2>2, <2>4 DEF Under
    <3>2. b[k] < c[k] /\ \A i \in 1 .. k - 1 : b[i] = c[i] BY <3>1, <2>2 DEF Under
    <3>3. \A i \in 1 .. k - 1 : a[i] = b[i] BY <2>1, <2>4 DEF Under
    <3>4. k <= Len(a) => a[k] < c[k]
      <4> HAVE k <= Len(a)
      <4>0. k \in 1 .. Len(a) /\ k \in 1 .. Len(b) /\ k \in 1 .. Len(c) BY <2>2, <3>1
      <4>1. a[k] \in Int /\ b[k] \in Int /\ c[k] \in Int BY <1>0, <4>0, ElementOfSeq
      <4>2. a[k] = b[k] \/ a[k] < b[k] BY <2>1, <2>4, <2>2 DEF Under
      <4> QED BY <3>2, <4>1, <4>2
    <3>5. Under(a, c, k) BY <3>1, <3>2, <3>3, <3>4 DEF Under
    <3> QED BY <3>5, BeforeIs
  <2> QED BY <2>3, <2>4
<1> QED BY <1>1, <1>2, <1>3

-----------------------------------------------------------------------------
(* Sequences that are joined.                                              *)

LEMMA Regroup ==
    ASSUME NEW A
    PROVE  \A x, y, z : x \in Seq(A) /\ y \in Seq(A) /\ z \in Seq(A)
                        => (x \o y) \o z = x \o (y \o z)
BY ConcatAssociative

\* Regroup for the sequences over A, as one fact.
Regroups(A) == \A x, y, z \in Seq(A) : (x \o y) \o z = x \o (y \o z)

LEMMA Regrouped ==
    ASSUME NEW A
    PROVE  Regroups(A)
BY ConcatAssociative DEF Regroups

LEMMA FlattenSteps ==
    ASSUME NEW A, NEW seqs \in Seq(Seq(A)), seqs # <<>>
    PROVE  \E f : /\ f[1] = seqs[1]
                  /\ \A k \in 2 .. Len(seqs) : f[k] = f[k - 1] \o seqs[k]
                  /\ FlattenSeq(seqs) = f[Len(seqs)]
<1> DEFINE L == Len(seqs)
           Joins(g, k) == g = [i \in 1 .. k |-> IF i = 1 THEN seqs[i] ELSE g[i - 1] \o seqs[i]]
           Q == {k \in 0 .. L : \E g : Joins(g, k)}
<1>1. L \in Nat \ {0} OBVIOUS
<1>2. \E g : Joins(g, 0)
  <2> DEFINE g == [i \in 1 .. 0 |-> <<>>]
  <2>1. Joins(g, 0) OBVIOUS
  <2> QED BY <2>1
<1>3. ASSUME NEW k \in 1 .. L, \E g : Joins(g, k - 1) PROVE \E g : Joins(g, k)
  <2>1. PICK g : Joins(g, k - 1) BY <1>3
  <2> DEFINE wider == [i \in 1 .. k |-> IF i = k THEN (IF k = 1 THEN seqs[k] ELSE g[k - 1] \o seqs[k])
                                             ELSE g[i]]
  <2>2. \A i \in 1 .. k : i # 1 => wider[i - 1] = g[i - 1] OBVIOUS
  <2>3. \A i \in 1 .. k : wider[i] = IF i = 1 THEN seqs[i] ELSE wider[i - 1] \o seqs[i]
    <3> TAKE i \in 1 .. k
    <3>1. CASE i = k BY <2>2, <3>1
    <3>2. CASE i # k
      <4>1. wider[i] = g[i] /\ i \in 1 .. (k - 1) BY <3>2
      <4>2. g[i] = IF i = 1 THEN seqs[i] ELSE g[i - 1] \o seqs[i] BY <2>1, <4>1
      <4> QED BY <2>2, <4>1, <4>2
    <3> QED BY <3>1, <3>2
  <2>4. wider = [i \in 1 .. k |-> wider[i]] OBVIOUS
  <2> HIDE DEF wider
  <2>5. Joins(wider, k) BY <2>3, <2>4
  <2> QED BY <2>5
<1>4. \E g : Joins(g, L)
  <2> HIDE DEF Joins
  <2>1. 0 \in Q BY <1>1, <1>2
  <2>2. \A k \in 1 .. L : k - 1 \in Q => k \in Q BY <1>1, <1>3
  <2>3. \A k \in 0 .. L : k \in Q
    <3> HIDE DEF Q, L
    <3> QED BY <1>1, <2>1, <2>2, Climb
  <2>4. L \in Q BY <1>1, <2>3
  <2> QED BY <2>4
<1> DEFINE f == CHOOSE g : Joins(g, L)
<1>5. Joins(f, L) BY <1>4
<1>6. FlattenSeq(seqs) = f[L] BY <1>1 DEF FlattenSeq
<1> HIDE DEF f
<1>7. \A k \in 1 .. L : f[k] = IF k = 1 THEN seqs[k] ELSE f[k - 1] \o seqs[k] BY <1>5
<1>8. f[1] = seqs[1]
  <2>1. 1 \in 1 .. L BY <1>1
  <2> QED BY <1>7, <2>1
<1>9. \A k \in 2 .. L : f[k] = f[k - 1] \o seqs[k]
  <2>1. \A k \in 2 .. L : k \in 1 .. L /\ k # 1 BY <1>1
  <2> HIDE DEF L
  <2> QED BY <1>7, <2>1
<1> QED BY <1>6, <1>8, <1>9

\* Where each part of r leads from one text of c to the next, all of them
\* joined lead from the first to the last.
LEMMA FlattenRuns ==
    ASSUME NEW A, NEW r \in Seq(Seq(A)), NEW c,
           \A k \in 0 .. Len(r) : c[k] \in Seq(A),
           \A k \in 1 .. Len(r) : c[k] = c[k - 1] \o r[k]
    PROVE  FlattenSeq(r) \in Seq(A) /\ c[0] \o FlattenSeq(r) = c[Len(r)]
<1>1. CASE r = <<>>
  <2>1. Len(r) = 0 /\ FlattenSeq(r) = <<>> BY <1>1 DEF FlattenSeq
  <2>2. c[0] \in Seq(A) BY <2>1
  <2>3. c[0] \o <<>> = c[0] BY <2>2, ConcatEmptySeq
  <2>4. <<>> \in Seq(A) OBVIOUS
  <2> QED BY <2>1, <2>3, <2>4
<1>2. CASE r # <<>>
  <2> DEFINE L == Len(r)
  <2>1. PICK f : /\ f[1] = r[1]
                 /\ \A k \in 2 .. L : f[k] = f[k - 1] \o r[k]
                 /\ FlattenSeq(r) = f[L]
    BY <1>2, FlattenSteps
  <2>2. L \in Nat \ {0} /\ \A k \in 1 .. L : r[k] \in Seq(A) BY <1>2
  <2> DEFINE Q == {k \in 0 .. L : k > 0 => f[k] \in Seq(A) /\ c[0] \o f[k] = c[k]}
  <2>3. \A k \in 1 .. L : k - 1 \in Q => k \in Q
    <3> TAKE k \in 1 .. L
    <3> HAVE k - 1 \in Q
    <3>10. 0 \in 0 .. L /\ k \in 0 .. L BY <2>2
    <3>0. c[0] \in Seq(A) /\ r[k] \in Seq(A) /\ c[k] = c[k - 1] \o r[k] /\ k \in 0 .. L BY <2>2, <3>10
    <3>1. CASE k = 1
      <4>1. k - 1 = 0 /\ f[k] = r[k] BY <2>1, <3>1
      <4> QED BY <3>0, <4>1
    <3>2. CASE k # 1
      <4>1. k \in 2 .. L /\ k - 1 > 0 BY <2>2, <3>2
      <4>2. f[k] = f[k - 1] \o r[k] /\ f[k - 1] \in Seq(A) /\ c[0] \o f[k - 1] = c[k - 1] BY <2>1, <4>1
      <4>3. f[k] \in Seq(A) BY <3>0, <4>2, ConcatProperties
      <4> DEFINE x == c[0]
                 y == f[k - 1]
                 z == r[k]
      <4>4. (x \o y) \o z = x \o (y \o z)
        <5>1. x \in Seq(A) /\ y \in Seq(A) /\ z \in Seq(A) BY <3>0, <4>2
        <5> HIDE DEF x, y, z, Q, L
        <5> QED BY <5>1, Regroup
      <4> QED BY <3>0, <4>2, <4>3, <4>4
    <3> QED BY <3>1, <3>2
  <2>4. 0 \in Q BY <2>2
  <2>5. \A k \in 0 .. L : k \in Q
    <3> HIDE DEF Q, L
    <3> QED BY <2>2, <2>3, <2>4, Climb
  <2>6. L \in 0 .. L /\ L > 0 BY <2>2
  <2>7. L \in Q BY <2>5, <2>6
  <2> QED BY <2>1, <2>6, <2>7
<1> QED BY <1>1, <1>2

\* There are such texts.
LEMMA RunsExist ==
    ASSUME NEW A, NEW r \in Seq(Seq(A))
    PROVE  \E c : /\ c[0] = <<>>
                  /\ \A k \in 0 .. Len(r) : c[k] \in Seq(A)
                  /\ \A k \in 1 .. Len(r) : c[k] = c[k - 1] \o r[k]
<1>1. CASE r = <<>>
  <2> DEFINE c == [k \in 0 .. 0 |-> <<>>]
  <2>1. Len(r) = 0 BY <1>1
  <2>2. c[0] = <<>> /\ \A k \in 0 .. 0 : k = 0 OBVIOUS
  <2>3. <<>> \in Seq(A) OBVIOUS
  <2>4. \A k \in 1 .. 0 : FALSE OBVIOUS
  <2> HIDE DEF c
  <2> QED BY <2>1, <2>2, <2>3, <2>4
<1>2. CASE r # <<>>
  <2> DEFINE L == Len(r)
  <2>1. PICK g : /\ g[1] = r[1]
                 /\ \A k \in 2 .. L : g[k] = g[k - 1] \o r[k]
    BY <1>2, FlattenSteps
  <2>2. L \in Nat \ {0} /\ \A k \in 1 .. L : r[k] \in Seq(A) BY <1>2
  <2> DEFINE f == [k \in 0 .. L |-> IF k = 0 THEN <<>> ELSE g[k]]
  <2>3. f[0] = <<>> /\ \A k \in 1 .. L : f[k] = g[k] BY <2>2
  <2> HIDE DEF f
  <2>4. ASSUME NEW k \in 1 .. L PROVE f[k] = f[k - 1] \o r[k]
    <3>1. CASE k = 1
      <4>1. <<>> \o r[1] = r[1]
        <5>1. r[1] \in Seq(A) BY <2>2
        <5> QED BY <5>1, ConcatEmptySeq
      <4>2. f[1] = r[1] /\ f[1 - 1] = <<>> BY <2>1, <2>2, <2>3
      <4> QED BY <3>1, <4>1, <4>2
    <3>2. CASE k # 1
      <4>1. k \in 2 .. L /\ k - 1 \in 1 .. L BY <2>2, <3>2
      <4> QED BY <2>1, <2>3, <4>1
    <3> QED BY <3>1, <3>2
  <2> DEFINE Q == {k \in 0 .. L : f[k] \in Seq(A)}
  <2>5. 0 \in Q
    <3>1. <<>> \in Seq(A) /\ 0 \in 0 .. L BY <2>2
    <3> QED BY <2>3, <3>1
  <2>6. \A k \in 1 .. L : k - 1 \in Q => k \in Q
    <3> TAKE k \in 1 .. L
    <3> HAVE k - 1 \in Q
    <3>1. f[k - 1] \in Seq(A) /\ r[k] \in Seq(A) BY <2>2
    <3>2. f[k - 1] \o r[k] \in Seq(A) BY <3>1, ConcatProperties
    <3>3. f[k] \in Seq(A) BY <2>4, <3>2
    <3>4. k \in 0 .. L BY <2>2
    <3> QED BY <3>3, <3>4
  <2>7. \A k \in 0 .. L : k \in Q
    <3> HIDE DEF Q, L
    <3> QED BY <2>2, <2>5, <2>6, Climb
  <2> QED BY <2>3, <2>4, <2>7
<1> QED BY <1>1, <1>2

-----------------------------------------------------------------------------
(* What keys tell apart.                                                   *)

\* The first of two texts is told from the second by a lesser number.
Ahead(x, y) ==
    \E p \in 1 .. Len(x) : p <= Len(y) /\ x[p] < y[p] /\ \A i \in 1 .. p - 1 : x[i] = y[i]

LEMMA AheadIsBefore ==
    ASSUME NEW x \in Texts, NEW y \in Texts, Ahead(x, y)
    PROVE  Before(x, y)
<1>0. x \in Seq(Int) /\ y \in Seq(Int) /\ Len(x) \in Nat /\ Len(y) \in Nat BY DEF Texts
<1>1. PICK p \in 1 .. Len(x) : p <= Len(y) /\ x[p] < y[p] /\ \A i \in 1 .. p - 1 : x[i] = y[i]
  BY DEF Ahead
<1>2. p \in 1 .. Len(y) /\ Under(x, y, p) BY <1>0, <1>1 DEF Under
<1> QED BY <1>2, BeforeIs

\* It stays so with the same before both and whatever after either.
LEMMA AheadInside ==
    ASSUME NEW A, NEW x \in Seq(A), NEW y \in Seq(A), Ahead(x, y),
           NEW u \in Seq(A), NEW v \in Seq(A), NEW w \in Seq(A)
    PROVE  Ahead((u \o x) \o v, (u \o y) \o w)
<1>1. PICK p \in 1 .. Len(x) : p <= Len(y) /\ x[p] < y[p] /\ \A i \in 1 .. p - 1 : x[i] = y[i]
  BY DEF Ahead
<1> DEFINE r == (u \o x) \o v
           s == (u \o y) \o w
           q == Len(u) + p
<1>2. Len(u) \in Nat /\ Len(x) \in Nat /\ Len(y) \in Nat /\ Len(v) \in Nat /\ Len(w) \in Nat OBVIOUS
<1>3. \A i \in 1 .. Len(u) + Len(x) : r[i] = IF i <= Len(u) THEN u[i] ELSE x[i - Len(u)] OBVIOUS
<1>4. \A i \in 1 .. Len(u) + Len(y) : s[i] = IF i <= Len(u) THEN u[i] ELSE y[i - Len(u)] OBVIOUS
<1>5. Len(r) = Len(u) + Len(x) + Len(v) /\ Len(s) = Len(u) + Len(y) + Len(w) OBVIOUS
<1> HIDE DEF r, s
<1>6. q \in 1 .. Len(u) + Len(x) /\ q \in 1 .. Len(u) + Len(y) /\ ~(q <= Len(u)) /\ q - Len(u) = p
  BY <1>1, <1>2
<1>7. r[q] = x[p] /\ s[q] = y[p] BY <1>3, <1>4, <1>6
<1>8. ASSUME NEW i \in 1 .. q - 1 PROVE r[i] = s[i]
  <2>1. i \in 1 .. Len(u) + Len(x) /\ i \in 1 .. Len(u) + Len(y) BY <1>1, <1>2
  <2>2. CASE i <= Len(u) BY <1>3, <1>4, <2>1, <2>2
  <2>3. CASE ~(i <= Len(u))
    <3>1. i - Len(u) \in 1 .. p - 1 BY <1>1, <1>2, <2>3
    <3> QED BY <1>1, <1>3, <1>4, <2>1, <2>3, <3>1
  <2> QED BY <2>2, <2>3
<1>9. q \in 1 .. Len(r) /\ q <= Len(s) BY <1>2, <1>5, <1>6
<1>10. r[q] < s[q] BY <1>1, <1>7
<1> HIDE DEF q
<1>11. Ahead(r, s) BY <1>8, <1>9, <1>10 DEF Ahead
<1> QED BY <1>11 DEF r, s

\* r joined is u, after its first k parts, and what follows.
Begins(A, r, k, u) ==
    /\ k = Len(r) => FlattenSeq(r) = u
    /\ k < Len(r) => \E v \in Seq(A) : FlattenSeq(r) = (u \o r[k + 1]) \o v

\* Two sequences that begin with the same k parts, joined.
LEMMA FlattenSplits ==
    ASSUME NEW A, NEW r \in Seq(Seq(A)), NEW s \in Seq(Seq(A)), NEW k \in Nat,
           k <= Len(r), k <= Len(s), \A j \in 1 .. k : r[j] = s[j]
    PROVE  \E u \in Seq(A) : Begins(A, r, k, u) /\ Begins(A, s, k, u)
<1>0. Regroups(A) BY ONLY Regrouped
<1>1. PICK c : /\ c[0] = <<>>
               /\ \A n \in 0 .. Len(r) : c[n] \in Seq(A)
               /\ \A n \in 1 .. Len(r) : c[n] = c[n - 1] \o r[n]
  BY RunsExist
<1>2. PICK d : /\ d[0] = <<>>
               /\ \A n \in 0 .. Len(s) : d[n] \in Seq(A)
               /\ \A n \in 1 .. Len(s) : d[n] = d[n - 1] \o s[n]
  BY RunsExist
<1>3. Len(r) \in Nat /\ Len(s) \in Nat OBVIOUS
<1>4. c[k] = d[k]
  <2> DEFINE Q == {n \in 0 .. k : c[n] = d[n]}
  <2>1. 0 \in Q BY <1>1, <1>2
  <2>2. \A n \in 1 .. k : n - 1 \in Q => n \in Q
    <3> TAKE n \in 1 .. k
    <3> HAVE n - 1 \in Q
    <3>1. n \in 1 .. Len(r) /\ n \in 1 .. Len(s) /\ n \in 0 .. k BY <1>3
    <3> QED BY <1>1, <1>2, <3>1
  <2>3. \A n \in 0 .. k : n \in Q
    <3> HIDE DEF Q
    <3> QED BY <2>1, <2>2, Climb
  <2> QED BY <2>3
<1>5. ASSUME NEW t \in Seq(Seq(A)), NEW e, k <= Len(t), e[0] = <<>>,
             \A n \in 0 .. Len(t) : e[n] \in Seq(A),
             \A n \in 1 .. Len(t) : e[n] = e[n - 1] \o t[n]
      PROVE  /\ k = Len(t) => FlattenSeq(t) = e[k]
             /\ k < Len(t) => \E v \in Seq(A) : FlattenSeq(t) = (e[k] \o t[k + 1]) \o v
  <2>1. FlattenSeq(t) = e[Len(t)]
    <3>1. FlattenSeq(t) \in Seq(A) /\ e[0] \o FlattenSeq(t) = e[Len(t)] BY <1>5, FlattenRuns
    <3>2. <<>> \o FlattenSeq(t) = FlattenSeq(t) BY <3>1, ConcatEmptySeq
    <3> QED BY <1>5, <3>1, <3>2
  <2>2. ASSUME k < Len(t) PROVE \E v \in Seq(A) : FlattenSeq(t) = (e[k] \o t[k + 1]) \o v
    <3> DEFINE M == Len(t) - (k + 1)
               m == k + 1
               Q == {n \in 0 .. M : \E v \in Seq(A) : e[m + n] = e[m] \o v}
    <3>0. Len(t) \in Nat OBVIOUS
    <3>1. M \in Nat /\ m \in 1 .. Len(t) /\ m + M = Len(t) /\ m - 1 = k BY <2>2, <3>0
    <3>2. e[m] \in Seq(A) /\ e[m] = e[k] \o t[k + 1]
      <4>1. m \in 0 .. Len(t) /\ t[m] = t[k + 1] /\ e[m - 1] = e[k] BY <3>0, <3>1
      <4> HIDE DEF m
      <4>2. e[m] \in Seq(A) /\ e[m] = e[m - 1] \o t[m] BY <1>5, <3>1, <4>1
      <4> QED BY <4>1, <4>2
    <3>3. 0 \in Q
      <4>1. <<>> \in Seq(A) /\ e[m] \o <<>> = e[m] BY <3>2, ConcatEmptySeq
      <4>2. m + 0 = m /\ 0 \in 0 .. M BY <3>1
      <4> QED BY <4>1, <4>2
    <3>4. \A n \in 1 .. M : n - 1 \in Q => n \in Q
      <4> TAKE n \in 1 .. M
      <4> HAVE n - 1 \in Q
      <4>1. PICK v \in Seq(A) : e[m + (n - 1)] = e[m] \o v OBVIOUS
      <4> DEFINE i == m + n
                 x == e[m]
                 z == t[i]
      <4>2. i \in 1 .. Len(t) /\ i - 1 = m + (n - 1) BY <3>1
      <4>3. v \in Seq(A) /\ z \in Seq(A) /\ v \o z \in Seq(A) BY <4>2, ConcatProperties
      <4>4. e[i] = (x \o v) \o z BY <1>5, <4>1, <4>2
      <4>5. (x \o v) \o z = x \o (v \o z)
        <5>1. x \in Seq(A) /\ v \in Seq(A) /\ z \in Seq(A) BY <3>2, <4>3
        <5> HIDE DEF x, z
        <5> QED BY <1>0, <5>1 DEF Regroups
      <4>6. n \in 0 .. M BY <3>1
      <4> QED BY <4>3, <4>4, <4>5, <4>6
    <3>5. \A n \in 0 .. M : n \in Q
      <4> HIDE DEF Q, M
      <4> QED BY <3>1, <3>3, <3>4, Climb
    <3>6. M \in 0 .. M BY <3>1
    <3>7. PICK v \in Seq(A) : e[m + M] = e[m] \o v BY <3>5, <3>6
    <3> QED BY <2>1, <3>1, <3>2, <3>7
  <2>3. k = Len(t) => FlattenSeq(t) = e[k] BY <2>1
  <2> QED BY <2>2, <2>3
<1> DEFINE u == c[k]
<1>6. u \in Seq(A) BY <1>1, <1>3
<1>7. /\ k = Len(r) => FlattenSeq(r) = u
      /\ k < Len(r) => \E v \in Seq(A) : FlattenSeq(r) = (u \o r[k + 1]) \o v
  BY <1>1, <1>5
<1>8. /\ k = Len(s) => FlattenSeq(s) = u
      /\ k < Len(s) => \E v \in Seq(A) : FlattenSeq(s) = (u \o s[k + 1]) \o v
  <2>1. /\ k = Len(s) => FlattenSeq(s) = d[k]
        /\ k < Len(s) => \E v \in Seq(A) : FlattenSeq(s) = (d[k] \o s[k + 1]) \o v
    BY <1>2, <1>5
  <2> QED BY <1>4, <2>1
<1> HIDE DEF u
<1>9. Begins(A, r, k, u) /\ Begins(A, s, k, u) BY <1>7, <1>8 DEF Begins
<1> QED BY <1>6, <1>9

-----------------------------------------------------------------------------
(* Keys of several columns.                                                *)

Octet == 0 .. 255
Octets == Seq(Octet)
Mark(b) == IF b = Zero THEN <<Zero, Escape>> ELSE <<b>>
Marks(bytes) == [k \in DOMAIN bytes |-> Mark(bytes[k])]
Column(bytes) == Escaped(bytes) \o <<Zero, Zero>>

LEMMA TwoOctets == ASSUME NEW A, NEW a \in A, NEW b \in A PROVE <<a, b>> \in Seq(A)
OBVIOUS

LEMMA MarkFacts ==
    /\ \A b \in Octet : Mark(b) \in Octets /\ Len(Mark(b)) \in {1, 2} /\ Mark(b)[1] = b
    /\ Len(Mark(0)) = 2 /\ Mark(0)[2] = 255 /\ Mark(0)[1] = 0
    /\ \A bytes \in Octets : /\ Marks(bytes) \in Seq(Octets) /\ Len(Marks(bytes)) = Len(bytes)
                             /\ \A k \in 1 .. Len(bytes) : Marks(bytes)[k] = Mark(bytes[k])
                             /\ Escaped(bytes) = FlattenSeq(Marks(bytes))
                             /\ Escaped(bytes) \in Octets /\ Column(bytes) \in Octets
<1>a. Octet = 0 .. 255 BY DEF Octet
<1>b. Zero = 0 /\ Escape = 255 BY DEF Zero, Escape
<1>1. ASSUME NEW b \in Octet PROVE Mark(b) \in Octets /\ Len(Mark(b)) \in {1, 2} /\ Mark(b)[1] = b
  <2>1. CASE b = 0
    <3>1. Mark(b) = <<0, 255>> BY <1>b, <2>1 DEF Mark
    <3>2. 0 \in Octet /\ 255 \in Octet BY <1>a
    <3>3. <<0, 255>> \in Seq(Octet) BY <3>2, TwoOctets
    <3>4. Mark(b) \in Octets BY <3>1, <3>3 DEF Octets
    <3>5. Len(Mark(b)) = 2 /\ Mark(b)[1] = 0 BY <3>1
    <3> QED BY <2>1, <3>4, <3>5
  <2>2. CASE b # 0
    <3>1. Mark(b) = <<b>> BY <1>b, <2>2 DEF Mark
    <3> QED BY <3>1 DEF Octets
  <2> QED BY <2>1, <2>2
<1>2. Len(Mark(0)) = 2 /\ Mark(0)[2] = 255 /\ Mark(0)[1] = 0 BY DEF Mark, Zero, Escape
<1>3. ASSUME NEW bytes \in Octets
      PROVE  /\ Marks(bytes) \in Seq(Octets) /\ Len(Marks(bytes)) = Len(bytes)
             /\ \A k \in 1 .. Len(bytes) : Marks(bytes)[k] = Mark(bytes[k])
             /\ Escaped(bytes) = FlattenSeq(Marks(bytes))
             /\ Escaped(bytes) \in Octets /\ Column(bytes) \in Octets
  <2>1. bytes \in Seq(Octet) /\ DOMAIN bytes = 1 .. Len(bytes) /\ Len(bytes) \in Nat BY DEF Octets
  <2>2. ASSUME NEW k \in 1 .. Len(bytes) PROVE Mark(bytes[k]) \in Octets
    <3>1. bytes[k] \in Octet BY <2>1
    <3> QED BY <1>1, <3>1
  <2> DEFINE n == Len(bytes)
             f == [k \in 1 .. n |-> Mark(bytes[k])]
  <2>3. Marks(bytes) = f BY <2>1 DEF Marks
  <2>4. f \in Seq(Octets) /\ Len(f) = n BY <2>1, <2>2
  <2>5. Marks(bytes) \in Seq(Octets) /\ Len(Marks(bytes)) = n BY <2>3, <2>4
  <2>6. \A k \in 1 .. n : Marks(bytes)[k] = Mark(bytes[k]) BY <2>3
  <2>7. Escaped(bytes) = FlattenSeq(Marks(bytes)) BY DEF Escaped, Marks, Mark
  <2>8. Escaped(bytes) \in Octets
    <3> DEFINE r == Marks(bytes)
    <3>1. r \in Seq(Seq(Octet)) BY <2>5 DEF Octets
    <3> HIDE DEF r
    <3>2. PICK c : /\ c[0] = <<>>
                   /\ \A i \in 0 .. Len(r) : c[i] \in Seq(Octet)
                   /\ \A i \in 1 .. Len(r) : c[i] = c[i - 1] \o r[i]
      BY <3>1, RunsExist
    <3>3. FlattenSeq(r) \in Seq(Octet) BY <3>1, <3>2, FlattenRuns
    <3> QED BY <2>7, <3>3 DEF r, Octets
  <2>9. Column(bytes) \in Octets
    <3>0. Zero \in Octet BY <1>a, <1>b
    <3>1. <<Zero, Zero>> \in Seq(Octet) BY <3>0, TwoOctets
    <3>2. Escaped(bytes) \in Seq(Octet) BY <2>8 DEF Octets
    <3> QED BY <3>1, <3>2, ConcatProperties DEF Column, Octets
  <2> QED BY <2>5, <2>6, <2>7, <2>8, <2>9
<1> QED BY <1>1, <1>2, <1>3

LEMMA OctetsAreTexts == \A x \in Octets : x \in Texts
<1> TAKE x \in Octets
<1>1. x \in Seq(Octet) BY DEF Octets
<1>2. \A i \in 1 .. Len(x) : x[i] \in Octet BY <1>1
<1>3. \A i \in 1 .. Len(x) : x[i] \in Int
  <2>1. \A b \in Octet : b \in Int BY DEF Octet
  <2> QED BY <1>2, <2>1
<1>4. x \in [1 .. Len(x) -> Int] /\ Len(x) \in Nat BY <1>1, <1>3
<1> QED BY <1>4, SeqDef DEF Texts

\* The end of a column is before whatever goes on.
LEMMA EndAhead ==
    ASSUME NEW b \in Octet, NEW v \in Octets
    PROVE  Ahead(<<Zero, Zero>>, Mark(b) \o v)
<1> DEFINE x == <<Zero, Zero>>
           y == Mark(b) \o v
<1>0. Mark(b) \in Seq(Octet) /\ v \in Seq(Octet) BY MarkFacts DEF Octets
<1>1. Len(x) = 2 /\ x[1] = 0 /\ x[2] = 0 BY DEF Zero
<1>2. Len(y) = Len(Mark(b)) + Len(v) /\ \A i \in 1 .. Len(Mark(b)) : y[i] = Mark(b)[i] BY <1>0
<1>3. Len(v) \in Nat /\ b \in 0 .. 255 BY <1>0 DEF Octet
<1> HIDE DEF x, y
<1>4. CASE b = 0
  <2>1. Len(Mark(b)) = 2 /\ Mark(b)[2] = 255 /\ Mark(b)[1] = 0 BY <1>4, MarkFacts
  <2>2. 2 \in 1 .. Len(x) /\ 2 <= Len(y) /\ x[2] < y[2] BY <1>1, <1>2, <1>3, <2>1
  <2>3. \A i \in 1 .. 2 - 1 : x[i] = y[i] BY <1>1, <1>2, <2>1
  <2>4. Ahead(x, y) BY <2>2, <2>3 DEF Ahead
  <2> QED BY <2>4 DEF x, y
<1>5. CASE b # 0
  <2>1. Len(Mark(b)) \in {1, 2} /\ Mark(b)[1] = b BY MarkFacts
  <2>2. 1 \in 1 .. Len(x) /\ 1 <= Len(y) /\ x[1] < y[1] BY <1>1, <1>2, <1>3, <1>5, <2>1
  <2>3. \A i \in 1 .. 1 - 1 : x[i] = y[i] OBVIOUS
  <2>4. Ahead(x, y) BY <2>2, <2>3 DEF Ahead
  <2> QED BY <2>4 DEF x, y
<1> QED BY <1>4, <1>5

LEMMA ColumnAhead ==
    ASSUME NEW a \in Octets, NEW b \in Octets, Before(a, b)
    PROVE  Ahead(Column(a), Column(b))
<1>0. a \in Seq(Octet) /\ b \in Seq(Octet) /\ Len(a) \in Nat /\ Len(b) \in Nat
      /\ a \in Texts /\ b \in Texts
  <2>1. a \in Texts /\ b \in Texts BY OctetsAreTexts
  <2>2. a \in Seq(Octet) /\ b \in Seq(Octet) BY DEF Octets
  <2> QED BY <2>1, <2>2
<1>1. PICK k \in 1 .. Len(b) : Under(a, b, k) BY <1>0, BeforeIs
<1>2. /\ k <= Len(a) + 1 /\ (k <= Len(a) => a[k] < b[k])
      /\ \A i \in 1 .. k - 1 : a[i] = b[i]
  BY <1>1 DEF Under
<1> DEFINE r == Marks(a)
           s == Marks(b)
           m == k - 1
           z == <<Zero, Zero>>
<1>3. /\ r \in Seq(Seq(Octet)) /\ s \in Seq(Seq(Octet)) /\ Len(r) = Len(a) /\ Len(s) = Len(b)
      /\ \A i \in 1 .. Len(a) : r[i] = Mark(a[i])
      /\ \A i \in 1 .. Len(b) : s[i] = Mark(b[i])
  BY MarkFacts DEF Octets
<1>4. /\ Column(a) = FlattenSeq(r) \o z /\ Column(b) = FlattenSeq(s) \o z
      /\ Column(a) \in Seq(Octet) /\ Column(b) \in Seq(Octet)
  BY MarkFacts DEF Column, Octets
<1>5. m \in Nat /\ m <= Len(r) /\ m <= Len(s) /\ \A j \in 1 .. m : r[j] = s[j]
  <2>1. m \in Nat /\ m <= Len(a) /\ m <= Len(b) BY <1>0, <1>2
  <2>2. ASSUME NEW j \in 1 .. m PROVE r[j] = s[j]
    <3>1. j \in 1 .. Len(a) /\ j \in 1 .. Len(b) /\ a[j] = b[j] BY <1>0, <1>2, <2>1
    <3> QED BY <1>3, <3>1
  <2> QED BY <1>3, <2>1, <2>2
<1>z. z \in Seq(Octet)
  <2>1. Zero \in Octet BY DEF Zero, Octet
  <2> QED BY <2>1, TwoOctets
<1> HIDE DEF r, s, m, z
<1>6. PICK u \in Seq(Octet) : Begins(Octet, r, m, u) /\ Begins(Octet, s, m, u)
  <2>1. r \in Seq(Seq(Octet)) /\ s \in Seq(Seq(Octet)) BY <1>3
  <2>2. m \in Nat /\ m <= Len(r) /\ m <= Len(s) BY <1>5
  <2>3. \A j \in 1 .. m : r[j] = s[j] BY <1>5
  <2> QED BY <2>1, <2>2, <2>3, FlattenSplits
<1>7. m + 1 = k /\ m < Len(s) BY <1>0, <1>3 DEF m
<1>8. PICK w \in Seq(Octet) : FlattenSeq(s) = (u \o s[k]) \o w BY <1>6, <1>7 DEF Begins
<1>9. s[k] = Mark(b[k]) /\ b[k] \in Octet /\ s[k] \in Seq(Octet)
  BY <1>0, <1>3, MarkFacts DEF Octets
<1>r. Regroups(Octet) BY ONLY Regrouped
<1>c. \A x, y \in Seq(Octet) : x \o y \in Seq(Octet) BY ConcatProperties
<1>10. CASE k <= Len(a)
  <2>1. k \in 1 .. Len(a) /\ m < Len(r) BY <1>0, <1>3, <1>5, <1>7, <1>10
  <2>2. PICK v \in Seq(Octet) : FlattenSeq(r) = (u \o r[k]) \o v BY <1>6, <1>7, <2>1 DEF Begins
  <2>3. r[k] = Mark(a[k]) /\ a[k] \in Octet /\ r[k] \in Seq(Octet)
    BY <1>0, <1>3, <2>1, MarkFacts DEF Octets
  <2>4. Ahead(r[k], s[k])
    <3> DEFINE x == r[k]
               y == s[k]
    <3>1. x[1] = a[k] /\ y[1] = b[k] /\ Len(x) \in {1, 2} /\ Len(y) \in {1, 2}
      BY <1>9, <2>3, MarkFacts
    <3>2. 1 \in 1 .. Len(x) /\ 1 <= Len(y) /\ x[1] < y[1] BY <1>2, <1>10, <3>1
    <3>3. \A i \in 1 .. 1 - 1 : x[i] = y[i] OBVIOUS
    <3> HIDE DEF x, y
    <3>4. Ahead(x, y) BY <3>2, <3>3 DEF Ahead
    <3> QED BY <3>4 DEF x, y
  <2> DEFINE x == r[k]
             y == s[k]
             vz == v \o z
             wz == w \o z
  <2>5. x \in Seq(Octet) /\ y \in Seq(Octet) /\ Ahead(x, y) BY <1>9, <2>3, <2>4
  <2>6. vz \in Seq(Octet) /\ wz \in Seq(Octet) BY <1>c, <1>z
  <2>7. Column(a) = (u \o x) \o vz
    <3>1. Column(a) = ((u \o x) \o v) \o z BY <1>4, <2>2
    <3>2. u \o x \in Seq(Octet) BY <1>c, <2>5
    <3> HIDE DEF x
    <3> DEFINE ux == u \o x
    <3>3. ux \in Seq(Octet) BY <3>2
    <3> HIDE DEF ux
    <3>5. v \in Seq(Octet) OBVIOUS
    <3>4. (ux \o v) \o z = ux \o (v \o z) BY ONLY <1>r, <1>z, <3>3, <3>5, Zenon DEF Regroups
    <3> QED BY <3>1, <3>4 DEF ux
  <2>8. Column(b) = (u \o y) \o wz
    <3>1. Column(b) = ((u \o y) \o w) \o z BY <1>4, <1>8
    <3>2. u \o y \in Seq(Octet) BY <1>c, <2>5
    <3> HIDE DEF y
    <3> DEFINE uy == u \o y
    <3>3. uy \in Seq(Octet) BY <3>2
    <3> HIDE DEF uy
    <3>5. w \in Seq(Octet) OBVIOUS
    <3>4. (uy \o w) \o z = uy \o (w \o z) BY ONLY <1>r, <1>z, <3>3, <3>5, Zenon DEF Regroups
    <3> QED BY <3>1, <3>4 DEF uy
  <2> HIDE DEF x, y, vz, wz
  <2>9. Ahead((u \o x) \o vz, (u \o y) \o wz) BY <2>5, <2>6, AheadInside
  <2> QED BY <2>7, <2>8, <2>9
<1>11. CASE ~(k <= Len(a))
  <2>1. m = Len(r) BY <1>0, <1>2, <1>3, <1>5, <1>7, <1>11
  <2>2. FlattenSeq(r) = u BY <1>6, <2>1 DEF Begins
  <2> DEFINE y == Mark(b[k])
             wz == w \o z
             ywz == y \o wz
             none == <<>>
  <2>3. y \in Seq(Octet) /\ wz \in Seq(Octet) /\ wz \in Octets BY <1>9, <1>c, <1>z DEF Octets
  <2>4. ywz \in Seq(Octet) BY <1>c, <2>3
  <2>5. Ahead(z, ywz) BY <1>9, <2>3, EndAhead DEF z
  <2>6. Column(a) = u \o z BY <1>4, <2>2
  <2>7. Column(b) = u \o ywz
    <3>1. Column(b) = ((u \o y) \o w) \o z BY <1>4, <1>8, <1>9
    <3>2. u \o y \in Seq(Octet) /\ y \in Seq(Octet) BY <1>c, <2>3
    <3> HIDE DEF y
    <3> DEFINE uy == u \o y
    <3>3. uy \in Seq(Octet) BY <3>2
    <3> HIDE DEF uy
    <3>w. w \in Seq(Octet) OBVIOUS
    <3>4. (uy \o w) \o z = uy \o (w \o z) BY ONLY <1>r, <1>z, <3>3, <3>w, Zenon DEF Regroups
    <3>5. wz \in Seq(Octet) BY <2>3
    <3> HIDE DEF wz
    <3>6. (u \o y) \o wz = u \o (y \o wz) BY <1>r, <3>2, <3>5, Zenon DEF Regroups
    <3> QED BY <3>1, <3>4, <3>6 DEF uy, wz
  <2> HIDE DEF y, wz, ywz
  <2>8. none \in Seq(Octet) OBVIOUS
  <2>9. (u \o z) \o none = u \o z /\ (u \o ywz) \o none = u \o ywz
    <3>1. u \o z \in Seq(Octet) /\ u \o ywz \in Seq(Octet) BY <1>c, <1>z, <2>4
    <3> QED BY <3>1, ConcatEmptySeq
  <2> HIDE DEF none
  <2>10. Ahead((u \o z) \o none, (u \o ywz) \o none) BY <1>z, <2>4, <2>5, <2>8, AheadInside
  <2> QED BY <2>6, <2>7, <2>9, <2>10
<1> QED BY <1>10, <1>11

Columns(a) == [k \in DOMAIN a |-> Column(a[k])]
Packed(a) == FlattenSeq(Columns(a))

\* Column by column.
Less(a, b) ==
    \E k \in DOMAIN a : a[k] # b[k] /\ Before(a[k], b[k]) /\ \A j \in 1 .. k - 1 : a[j] = b[j]

LEMMA PackedFacts ==
    ASSUME NEW a \in Seq(Octets)
    PROVE  /\ Columns(a) \in Seq(Octets) /\ Len(Columns(a)) = Len(a)
           /\ \A k \in 1 .. Len(a) : Columns(a)[k] = Column(a[k])
           /\ Packed(a) \in Octets
<1> DEFINE n == Len(a)
           f == [k \in 1 .. n |-> Column(a[k])]
           r == Columns(a)
<1>1. n \in Nat /\ DOMAIN a = 1 .. n OBVIOUS
<1>2. ASSUME NEW k \in 1 .. n PROVE Column(a[k]) \in Octets
  <2>1. a[k] \in Octets BY <1>1
  <2> QED BY <2>1, MarkFacts
<1>3. r = f BY <1>1 DEF Columns
<1>4. f \in Seq(Octets) /\ Len(f) = n BY <1>1, <1>2
<1>5. r \in Seq(Octets) /\ Len(r) = n /\ \A k \in 1 .. n : r[k] = Column(a[k]) BY <1>3, <1>4
<1>6. Packed(a) \in Octets
  <2>1. r \in Seq(Seq(Octet)) BY <1>5 DEF Octets
  <2> HIDE DEF r
  <2>2. PICK c : /\ c[0] = <<>>
                 /\ \A i \in 0 .. Len(r) : c[i] \in Seq(Octet)
                 /\ \A i \in 1 .. Len(r) : c[i] = c[i - 1] \o r[i]
    BY <2>1, RunsExist
  <2>3. FlattenSeq(r) \in Seq(Octet) BY <2>1, <2>2, FlattenRuns
  <2> QED BY <2>3 DEF r, Octets, Packed
<1> QED BY <1>5, <1>6

LEMMA PackedBefore ==
    ASSUME NEW a \in Seq(Octets), NEW b \in Seq(Octets), Len(a) = Len(b), Less(a, b)
    PROVE  Before(Packed(a), Packed(b))
<1>0. Len(a) \in Nat /\ DOMAIN a = 1 .. Len(a) OBVIOUS
<1>1. PICK k \in 1 .. Len(a) : Before(a[k], b[k]) /\ \A j \in 1 .. k - 1 : a[j] = b[j]
  BY <1>0 DEF Less
<1>2. k \in 1 .. Len(b) /\ a[k] \in Octets /\ b[k] \in Octets OBVIOUS
<1> DEFINE r == Columns(a)
           s == Columns(b)
           m == k - 1
           x == r[k]
           y == s[k]
<1>3. /\ r \in Seq(Seq(Octet)) /\ Len(r) = Len(a) /\ x = Column(a[k]) /\ x \in Seq(Octet)
      /\ \A j \in 1 .. Len(a) : r[j] = Column(a[j])
  <2>1. r \in Seq(Octets) /\ Len(r) = Len(a) /\ \A j \in 1 .. Len(a) : r[j] = Column(a[j])
    BY PackedFacts
  <2>2. x \in Octets BY <1>2, <2>1, MarkFacts
  <2>3. r \in Seq(Seq(Octet)) /\ x \in Seq(Octet) BY <2>1, <2>2 DEF Octets
  <2> QED BY <2>1, <2>3
<1>4. /\ s \in Seq(Seq(Octet)) /\ Len(s) = Len(a) /\ y = Column(b[k]) /\ y \in Seq(Octet)
      /\ \A j \in 1 .. Len(a) : s[j] = Column(b[j])
  <2>1. s \in Seq(Octets) /\ Len(s) = Len(b) /\ \A j \in 1 .. Len(b) : s[j] = Column(b[j])
    BY PackedFacts
  <2>2. y \in Octets BY <1>2, <2>1, MarkFacts
  <2>3. s \in Seq(Seq(Octet)) /\ y \in Seq(Octet) BY <2>1, <2>2 DEF Octets
  <2> QED BY <2>1, <2>3
<1>5. Ahead(x, y) BY <1>1, <1>2, <1>3, <1>4, ColumnAhead
<1>6. m \in Nat /\ m < Len(r) /\ m < Len(s) /\ m + 1 = k BY <1>0, <1>3, <1>4
<1>7. \A j \in 1 .. m : r[j] = s[j] BY <1>0, <1>1, <1>3, <1>4
<1>8. Packed(a) = FlattenSeq(r) /\ Packed(b) = FlattenSeq(s) BY DEF Packed
<1>9. Packed(a) \in Texts /\ Packed(b) \in Texts BY PackedFacts, OctetsAreTexts
<1>10. r[m + 1] = x /\ s[m + 1] = y BY <1>6
<1> HIDE DEF r, s, m, x, y
<1>11. PICK u \in Seq(Octet) : Begins(Octet, r, m, u) /\ Begins(Octet, s, m, u)
  <2>1. r \in Seq(Seq(Octet)) /\ s \in Seq(Seq(Octet)) BY <1>3, <1>4
  <2>2. m \in Nat /\ m <= Len(r) /\ m <= Len(s) BY <1>0, <1>3, <1>4, <1>6
  <2> QED BY <1>7, <2>1, <2>2, FlattenSplits
<1>12. PICK v \in Seq(Octet) : FlattenSeq(r) = (u \o x) \o v BY <1>6, <1>10, <1>11 DEF Begins
<1>13. PICK w \in Seq(Octet) : FlattenSeq(s) = (u \o y) \o w BY <1>6, <1>10, <1>11 DEF Begins
<1>14. Ahead((u \o x) \o v, (u \o y) \o w) BY <1>3, <1>4, <1>5, AheadInside
<1>15. Ahead(Packed(a), Packed(b)) BY <1>8, <1>12, <1>13, <1>14
<1> QED BY <1>9, <1>15, AheadIsBefore

LEMMA LessTotal ==
    ASSUME NEW a \in Seq(Octets), NEW b \in Seq(Octets), Len(a) = Len(b), a # b
    PROVE  Less(a, b) \/ Less(b, a)
<1>0. Len(a) \in Nat /\ DOMAIN a = 1 .. Len(a) /\ DOMAIN b = 1 .. Len(a) OBVIOUS
<1> DEFINE D == {k \in 1 .. Len(a) : a[k] # b[k]}
<1>1. D # {}
  <2> SUFFICES ASSUME D = {} PROVE FALSE OBVIOUS
  <2>1. \A k \in 1 .. Len(a) : a[k] = b[k] OBVIOUS
  <2> QED BY <2>1, SeqEqual
<1>2. PICK k \in D : \A i \in D : k <= i
  <2>1. D \subseteq Nat OBVIOUS
  <2> HIDE DEF D
  <2> QED BY <1>1, <2>1, LeastOf
<1>3. k \in 1 .. Len(a) /\ a[k] # b[k] OBVIOUS
<1>4. \A j \in 1 .. k - 1 : a[j] = b[j]
  <2> TAKE j \in 1 .. k - 1
  <2>1. j \in 1 .. Len(a) /\ ~(k <= j) BY <1>0, <1>3
  <2> QED BY <1>2, <2>1
<1>5. a[k] \in Texts /\ b[k] \in Texts
  <2>1. a[k] \in Octets /\ b[k] \in Octets BY <1>3
  <2> QED BY <2>1, OctetsAreTexts
<1>6. Before(a[k], b[k]) \/ Before(b[k], a[k]) BY <1>3, <1>5, BeforeOrders
<1> QED BY <1>0, <1>3, <1>4, <1>6 DEF Less

-----------------------------------------------------------------------------
(* Keys of records.                                                        *)

Keys(record) == [k \in DOMAIN task.cols |-> KeyOf(record, task.cols[k])]
Columned == task.cols \in Seq(Nat \ {0}) \ {<<>>} /\ task.numeric \in BOOLEAN

\* A record as its key sees it.
Keyed(record) ==
    record[1].cells \in Seq(Octets) /\ record[1].num \in NoNumber .. Inf

LEMMA KeyOfOctets ==
    ASSUME NEW record, Keyed(record), NEW col \in Nat \ {0}
    PROVE  KeyOf(record, col) \in Octets /\ Field(record, col) \in Octets
<1>1. Field(record, col) \in Octets
  <2>1. <<>> \in Octets BY DEF Octets
  <2> QED BY <2>1 DEF Field, Keyed
<1>2. record[1].num - NoNumber \in Octet BY DEF Keyed, Octet, NoNumber, Inf
<1>3. <<record[1].num - NoNumber>> \in Octets
  <2> DEFINE b == record[1].num - NoNumber
  <2> HIDE DEF b
  <2>1. <<b>> \in Seq(Octet) BY <1>2 DEF b
  <2> QED BY <2>1 DEF b, Octets
<1> QED BY <1>1, <1>3 DEF KeyOf

LEMMA KeysOctets ==
    ASSUME Columned, NEW record, Keyed(record)
    PROVE  /\ Keys(record) \in Seq(Octets) /\ Len(Keys(record)) = Len(task.cols)
           /\ \A k \in 1 .. Len(task.cols) : Keys(record)[k] = KeyOf(record, task.cols[k])
<1> DEFINE n == Len(task.cols)
           f == [k \in 1 .. n |-> KeyOf(record, task.cols[k])]
<1>1. n \in Nat /\ DOMAIN task.cols = 1 .. n /\ \A k \in 1 .. n : task.cols[k] \in Nat \ {0}
  BY DEF Columned
<1>2. \A k \in 1 .. n : KeyOf(record, task.cols[k]) \in Octets BY <1>1, KeyOfOctets
<1>3. Keys(record) = f BY <1>1 DEF Keys
<1>4. f \in Seq(Octets) /\ Len(f) = n /\ \A k \in 1 .. n : f[k] = KeyOf(record, task.cols[k])
  BY <1>1, <1>2
<1> HIDE DEF f
<1> QED BY <1>3, <1>4

\* The bytes of a sort key are in the order of the columns.
LEMMA KeysDecide ==
    ASSUME Columned, NEW x, Keyed(x), NEW y, Keyed(y)
    PROVE  /\ SortKey(x) \in Texts
           /\ Before(SortKey(x), SortKey(y)) <=> Less(Keys(x), Keys(y))
           /\ SortKey(x) = SortKey(y) <=> Keys(x) = Keys(y)
<1> DEFINE n == Len(task.cols)
           a == Keys(x)
           b == Keys(y)
<1>1. n \in Nat \ {0} BY DEF Columned
<1>2. /\ a \in Seq(Octets) /\ Len(a) = n /\ b \in Seq(Octets) /\ Len(b) = n
      /\ \A k \in 1 .. n : a[k] = KeyOf(x, task.cols[k]) /\ b[k] = KeyOf(y, task.cols[k])
  BY KeysOctets
<1>3. ASSUME NEW r, Keyed(r)
      PROVE  SortKey(r) = IF n = 1 THEN Keys(r)[1] ELSE Packed(Keys(r))
  <2>1. /\ Keys(r) \in Seq(Octets) /\ Len(Keys(r)) = n
        /\ \A k \in 1 .. n : Keys(r)[k] = KeyOf(r, task.cols[k])
    BY <1>3, KeysOctets
  <2>2. CASE n = 1
    <3>1. Keys(r)[1] = KeyOf(r, task.cols[1]) BY <2>1, <2>2
    <3> QED BY <2>2, <3>1 DEF SortKey
  <2>3. CASE n # 1
    <3> DEFINE f == [k \in DOMAIN task.cols |-> Escaped(KeyOf(r, task.cols[k])) \o <<Zero, Zero>>]
    <3>1. SortKey(r) = FlattenSeq(f) BY <2>3 DEF SortKey
    <3>2. DOMAIN task.cols = 1 .. n /\ DOMAIN Keys(r) = 1 .. n BY <2>1 DEF Columned
    <3>3. Columns(Keys(r)) = f
      <4>1. \A k \in 1 .. n : Column(Keys(r)[k]) = Escaped(KeyOf(r, task.cols[k])) \o <<Zero, Zero>>
        BY <2>1 DEF Column
      <4> QED BY <3>2, <4>1 DEF Columns
    <3> QED BY <2>3, <3>1, <3>3 DEF Packed
  <2> QED BY <2>2, <2>3
<1>4. /\ SortKey(x) = IF n = 1 THEN a[1] ELSE Packed(a)
      /\ SortKey(y) = IF n = 1 THEN b[1] ELSE Packed(b)
  BY <1>3
<1> DEFINE p == SortKey(x)
           q == SortKey(y)
<1>5. p \in Texts /\ q \in Texts
  <2>1. 1 \in 1 .. n /\ a[1] \in Octets /\ b[1] \in Octets BY <1>1, <1>2
  <2>2. Packed(a) \in Octets /\ Packed(b) \in Octets BY <1>2, PackedFacts
  <2> QED BY <1>4, <2>1, <2>2, OctetsAreTexts
<1> HIDE DEF n, a, b, p, q
<1>6. ASSUME Less(a, b) PROVE Before(p, q)
  <2>1. CASE n = 1
    <3>1. PICK k \in DOMAIN a : Before(a[k], b[k]) BY <1>6 DEF Less
    <3>2. DOMAIN a = 1 .. 1 BY <1>2, <2>1
    <3>3. k = 1 BY <3>1, <3>2
    <3> QED BY <1>4, <2>1, <3>1, <3>3 DEF p, q
  <2>2. CASE n # 1
    <3>1. Before(Packed(a), Packed(b)) BY <1>2, <1>6, PackedBefore
    <3> QED BY <1>4, <2>2, <3>1 DEF p, q
  <2> QED BY <2>1, <2>2
<1>7. ASSUME Less(b, a) PROVE Before(q, p)
  <2>1. CASE n = 1
    <3>1. PICK k \in DOMAIN b : Before(b[k], a[k]) BY <1>7 DEF Less
    <3>2. DOMAIN b = 1 .. 1 BY <1>2, <2>1
    <3>3. k = 1 BY <3>1, <3>2
    <3> QED BY <1>4, <2>1, <3>1, <3>3 DEF p, q
  <2>2. CASE n # 1
    <3>1. Before(Packed(b), Packed(a)) BY <1>2, <1>7, PackedBefore
    <3> QED BY <1>4, <2>2, <3>1 DEF p, q
  <2> QED BY <2>1, <2>2
<1>8. a # b => Less(a, b) \/ Less(b, a) BY <1>2, LessTotal
<1>9. a = b => p = q BY <1>4 DEF p, q
<1>10. ~Before(p, p) /\ ~(Before(p, q) /\ Before(q, p)) BY <1>5, BeforeOrders
<1>11. ~Less(a, a) BY DEF Less
<1>12. Before(p, q) <=> Less(a, b) BY <1>6, <1>7, <1>8, <1>9, <1>10
<1>13. p = q <=> a = b BY <1>6, <1>7, <1>8, <1>9, <1>10
<1> QED BY <1>5, <1>12, <1>13 DEF p, q, a, b

-----------------------------------------------------------------------------
(* What is in an order: R holds the pairs.                                 *)

Linear(R, D) ==
    /\ \A x \in D : <<x, x>> \notin R
    /\ \A x, y \in D : x # y => <<x, y>> \in R \/ <<y, x>> \in R
    /\ \A x, y, z \in D : <<x, y>> \in R /\ <<y, z>> \in R => <<x, z>> \in R
Once(s) == \A i, j \in DOMAIN s : s[i] = s[j] => i = j
Rising(s, R) == \A i, j \in DOMAIN s : i < j => <<s[i], s[j]>> \in R
Members(s) == {s[i] : i \in DOMAIN s}
Earlier(s, R, i) == {j \in DOMAIN s : <<s[j], s[i]>> \in R}

\* t has the parts of s, each after as many as are earlier than it.
Arranges(t, s, R) ==
    /\ DOMAIN t = DOMAIN s
    /\ \A k \in DOMAIN s : \E i \in DOMAIN s : t[k] = s[i] /\ Cardinality(Earlier(s, R, i)) = k - 1

LEMMA EarlierRanks ==
    ASSUME NEW D, NEW R, Linear(R, D), NEW s \in Seq(D), Once(s)
    PROVE  /\ \A i \in DOMAIN s : Cardinality(Earlier(s, R, i)) \in 0 .. Len(s) - 1
           /\ \A i, j \in DOMAIN s :
                <<s[i], s[j]>> \in R <=> Cardinality(Earlier(s, R, i)) < Cardinality(Earlier(s, R, j))
           /\ \A k \in DOMAIN s : \E i \in DOMAIN s : Cardinality(Earlier(s, R, i)) = k - 1
<1> DEFINE S == 1 .. Len(s)
           low == [i \in S |-> Earlier(s, R, i)]
<1>1. Len(s) \in Nat /\ DOMAIN s = S /\ \A i \in S : s[i] \in D OBVIOUS
<1>2. \A i, j \in S : i \in low[j] <=> <<s[i], s[j]>> \in R BY <1>1 DEF Earlier
<1>3. IsFiniteSet(S) /\ Cardinality(S) = Len(s)
  <2> DEFINE n == Len(s)
             a == 1
  <2>1. a \in Int /\ n \in Int /\ (a > n => n = 0) /\ (~(a > n) => n - a + 1 = n) BY <1>1
  <2> HIDE DEF a, n
  <2>2. IsFiniteSet(a .. n) /\ Cardinality(a .. n) = IF a > n THEN 0 ELSE n - a + 1 BY <2>1, FS_Interval
  <2>3. Cardinality(a .. n) = n BY <2>1, <2>2
  <2> QED BY <2>2, <2>3 DEF a, n
<1>4. \A i \in S : low[i] \subseteq S BY <1>1 DEF Earlier
<1> HIDE DEF low, S
<1>5. Ranked(S, low)
  <2>1. \A i \in S : i \notin low[i] BY <1>1, <1>2 DEF Linear
  <2>2. ASSUME NEW i \in S, NEW j \in low[i] PROVE low[j] \subseteq low[i]
    <3>1. j \in S /\ <<s[j], s[i]>> \in R BY <1>2, <1>4, <2>2
    <3>2. ASSUME NEW h \in low[j] PROVE h \in low[i]
      <4>1. h \in S /\ <<s[h], s[j]>> \in R BY <1>2, <1>4, <3>1, <3>2
      <4>2. <<s[h], s[i]>> \in R BY <1>1, <3>1, <4>1 DEF Linear
      <4> QED BY <1>2, <4>1, <4>2
    <3> QED BY <3>2
  <2>3. ASSUME NEW i \in S, NEW j \in S, i # j PROVE i \in low[j] \/ j \in low[i]
    <3>1. s[i] # s[j] BY <1>1, <2>3 DEF Once
    <3> QED BY <1>1, <1>2, <3>1 DEF Linear
  <2> QED BY <1>3, <1>4, <2>1, <2>2, <2>3 DEF Ranked
<1>6. \A i \in S : low[i] = Earlier(s, R, i) BY DEF low
<1>7. /\ \A i \in S : Cardinality(low[i]) \in 0 .. Cardinality(S) - 1
      /\ \A i, j \in S : i \in low[j] <=> Cardinality(low[i]) < Cardinality(low[j])
      /\ \A k \in 0 .. Cardinality(S) - 1 : \E i \in S : Cardinality(low[i]) = k
  BY <1>5, RankedFacts
<1>8. \A k \in S : k - 1 \in 0 .. Cardinality(S) - 1 BY <1>1, <1>3 DEF S
<1>9. \A k \in S : \E i \in S : Cardinality(low[i]) = k - 1 BY <1>7, <1>8
<1> QED BY <1>1, <1>2, <1>3, <1>6, <1>7, <1>9

\* What is arranged has the same parts, in order.
LEMMA Arranged ==
    ASSUME NEW D, NEW R, Linear(R, D), NEW s \in Seq(D), Once(s), NEW t, Arranges(t, s, R),
           t = [k \in DOMAIN t |-> t[k]]
    PROVE  t \in Seq(D) /\ Len(t) = Len(s) /\ Rising(t, R) /\ Members(t) = Members(s)
<1> DEFINE c(i) == Cardinality(Earlier(s, R, i))
<1>1. Len(s) \in Nat /\ DOMAIN s = 1 .. Len(s) /\ \A i \in DOMAIN s : s[i] \in D OBVIOUS
<1>2. /\ \A i \in DOMAIN s : c(i) \in 0 .. Len(s) - 1
      /\ \A i, j \in DOMAIN s : <<s[i], s[j]>> \in R <=> c(i) < c(j)
  BY EarlierRanks
<1>3. DOMAIN t = DOMAIN s /\ \A k \in DOMAIN s : \E i \in DOMAIN s : t[k] = s[i] /\ c(i) = k - 1
  BY DEF Arranges
<1> HIDE DEF c
<1>4. t \in Seq(D) /\ Len(t) = Len(s)
  <2>1. \A k \in 1 .. Len(s) : t[k] \in D BY <1>1, <1>3
  <2>2. t \in [1 .. Len(s) -> D] BY <1>1, <1>3, <2>1
  <2>3. t \in Seq(D) BY <1>1, <2>2, SeqDef
  <2>4. Len(t) = Len(s) BY <1>1, <1>3, <2>3
  <2> QED BY <2>3, <2>4
<1>5. Rising(t, R)
  <2> SUFFICES ASSUME NEW k \in DOMAIN t, NEW l \in DOMAIN t, k < l PROVE <<t[k], t[l]>> \in R
    BY DEF Rising
  <2>1. PICK i \in DOMAIN s : t[k] = s[i] /\ c(i) = k - 1 BY <1>3
  <2>2. PICK j \in DOMAIN s : t[l] = s[j] /\ c(j) = l - 1 BY <1>3
  <2>3. k \in Int /\ l \in Int BY <1>1, <1>3
  <2>4. c(i) < c(j) BY <2>1, <2>2, <2>3
  <2> QED BY <1>2, <2>1, <2>2, <2>4
<1>6. ASSUME NEW i \in DOMAIN s PROVE \E k \in DOMAIN t : t[k] = s[i]
  <2> DEFINE k == c(i) + 1
  <2>1. k \in 1 .. Len(s) /\ k - 1 = c(i) /\ c(i) \in Int BY <1>1, <1>2
  <2> HIDE DEF k
  <2>2. PICK j \in DOMAIN s : t[k] = s[j] /\ c(j) = k - 1 BY <1>1, <1>3, <2>1
  <2>3. ~(c(i) < c(j)) /\ ~(c(j) < c(i)) BY <2>1, <2>2
  <2>4. <<s[i], s[j]>> \notin R /\ <<s[j], s[i]>> \notin R BY <1>2, <2>3
  <2>5. s[i] = s[j] BY <1>1, <2>4 DEF Linear
  <2> QED BY <1>1, <1>3, <2>1, <2>2, <2>5
<1>7. Members(t) = Members(s)
  <2>1. \A k \in DOMAIN t : \E i \in DOMAIN s : t[k] = s[i] BY <1>3
  <2>2. Members(t) \subseteq Members(s) BY <2>1 DEF Members
  <2>3. Members(s) \subseteq Members(t) BY <1>6 DEF Members
  <2> QED BY <2>2, <2>3
<1> QED BY <1>4, <1>5, <1>7

\* What of a set is earlier than x.
Below(S, R, x) == {y \in S : <<y, x>> \in R}

\* As many are before the k-th of a rising sequence as precede it in it.
LEMMA Standing ==
    ASSUME NEW D, NEW R, Linear(R, D), NEW s \in Seq(D), Rising(s, R)
    PROVE  /\ Once(s) /\ IsFiniteSet(Members(s)) /\ Cardinality(Members(s)) = Len(s)
           /\ \A k \in 1 .. Len(s) : IsFiniteSet(Below(Members(s), R, s[k]))
                                    /\ Cardinality(Below(Members(s), R, s[k])) = k - 1
<1>1. Len(s) \in Nat /\ DOMAIN s = 1 .. Len(s) /\ \A i \in DOMAIN s : s[i] \in D OBVIOUS
<1>2. Once(s)
  <2> SUFFICES ASSUME NEW i \in DOMAIN s, NEW j \in DOMAIN s, s[i] = s[j], i # j PROVE FALSE
    BY DEF Once
  <2>1. i < j \/ j < i BY <1>1
  <2>2. <<s[i], s[j]>> \in R \/ <<s[j], s[i]>> \in R BY <2>1 DEF Rising
  <2> QED BY <1>1, <2>2 DEF Linear
<1>3. ASSUME NEW n \in 0 .. Len(s), NEW T, T = {s[i] : i \in 1 .. n}
      PROVE  IsFiniteSet(T) /\ Cardinality(T) = n
  <2> DEFINE S == 1 .. n
             f == [i \in S |-> s[i]]
  <2>1. f \in Bijection(S, T)
    <3>1. f \in [S -> T] BY <1>3
    <3>2. \A i, j \in S : f[i] = f[j] => i = j
      <4>1. \A i \in S : i \in DOMAIN s BY <1>1
      <4> QED BY <1>2, <4>1 DEF Once
    <3>3. \A x \in T : \E i \in S : f[i] = x BY <1>3
    <3> HIDE DEF f, S
    <3> QED BY <3>1, <3>2, <3>3 DEF Bijection, Injection, Surjection, IsInjective
  <2>2. IsFiniteSet(S) /\ Cardinality(S) = n
    <3> DEFINE a == 1
    <3>1. a \in Int /\ n \in Int /\ (a > n => n = 0) /\ (~(a > n) => n - a + 1 = n) BY <1>1
    <3> HIDE DEF a
    <3>2. IsFiniteSet(a .. n) /\ Cardinality(a .. n) = IF a > n THEN 0 ELSE n - a + 1 BY <3>1, FS_Interval
    <3>3. Cardinality(a .. n) = n BY <3>1, <3>2
    <3> QED BY <3>2, <3>3 DEF a
  <2> HIDE DEF f, S
  <2>3. ExistsBijection(S, T) BY <2>1 DEF ExistsBijection
  <2> QED BY <2>2, <2>3, FS_Bijection
<1>4. IsFiniteSet(Members(s)) /\ Cardinality(Members(s)) = Len(s)
  <2> DEFINE n == Len(s)
             T == Members(s)
  <2>1. n \in 0 .. Len(s) /\ T = {s[i] : i \in 1 .. n} BY <1>1 DEF Members
  <2> QED BY <1>3, <2>1
<1>5. ASSUME NEW k \in 1 .. Len(s), NEW T, T = Below(Members(s), R, s[k])
      PROVE  IsFiniteSet(T) /\ Cardinality(T) = k - 1
  <2> DEFINE n == k - 1
  <2>1. n \in 0 .. Len(s) BY <1>1
  <2>2. ASSUME NEW i \in 1 .. n PROVE s[i] \in T
    <3>1. i \in DOMAIN s /\ k \in DOMAIN s /\ i < k BY <1>1
    <3>2. <<s[i], s[k]>> \in R BY <3>1 DEF Rising
    <3>3. s[i] \in Members(s) BY <3>1 DEF Members
    <3> QED BY <1>5, <3>2, <3>3 DEF Below
  <2>3. ASSUME NEW x \in T PROVE \E i \in 1 .. n : s[i] = x
    <3>0. x \in Members(s) /\ <<x, s[k]>> \in R BY <1>5 DEF Below
    <3>1. PICK i \in DOMAIN s : x = s[i] BY <3>0 DEF Members
    <3>2. <<s[i], s[k]>> \in R BY <3>0, <3>1
    <3>3. i # k BY <1>1, <3>2 DEF Linear
    <3>4. ~(k < i)
      <4> SUFFICES ASSUME k < i PROVE FALSE OBVIOUS
      <4>1. <<s[k], s[i]>> \in R BY <1>1 DEF Rising
      <4> QED BY <1>1, <3>2, <4>1 DEF Linear
    <3>5. i \in 1 .. n BY <1>1, <3>3, <3>4
    <3> QED BY <3>1, <3>5
  <2>4. T = {s[i] : i \in 1 .. n} BY <2>2, <2>3
  <2> HIDE DEF n
  <2>5. IsFiniteSet(T) /\ Cardinality(T) = n BY <1>3, <2>1, <2>4
  <2> QED BY <2>5 DEF n
<1> QED BY <1>2, <1>4, <1>5

-----------------------------------------------------------------------------
(* The records of a document.                                              *)

Asked == task \in Tasks /\ input \in Inputs
TextLines == [odd : BOOLEAN, cells : Seq(Octets), num : NoNumber .. Inf]

LEMMA AskedFacts ==
    ASSUME Asked
    PROVE  /\ input \in Seq(TextLines) /\ Len(input) \in Nat /\ DOMAIN input = 1 .. Len(input)
           /\ task.op \in {"sort", "group", "top"} /\ task.csv \in BOOLEAN /\ task.reverse \in BOOLEAN
           /\ Columned /\ (task.op # "sort" => Len(task.cols) = 1) /\ task.n \in Nat
           /\ Runaway \in Nat \ {0} /\ FanIn \in Nat \ {0}
<1>1. TextLines = [odd : BOOLEAN, cells : Seq(Seq(0 .. 255)), num : NoNumber .. Inf]
  BY DEF TextLines, Octets, Octet
<1>2. input \in Seq(TextLines)
  <2> HIDE DEF TextLines
  <2> QED BY <1>1, InputsAssumption DEF Asked
<1>3. /\ task.op \in {"sort", "group", "top"} /\ {task.csv, task.numeric, task.reverse} \subseteq BOOLEAN
      /\ task.cols \in Seq(Nat \ {0}) \ {<<>>} /\ (task.op # "sort" => Len(task.cols) = 1)
      /\ task.n \in Nat
  BY TasksAssumption DEF Asked
<1> HIDE DEF TextLines
<1> QED BY <1>2, <1>3, RunawayAssumption, FanInAssumption DEF Columned

LEMMA LineKeyed ==
    ASSUME Asked, NEW i \in 1 .. Len(input)
    PROVE  Keyed(<<input[i]>>) /\ input[i] \in TextLines
<1>1. input[i] \in TextLines BY AskedFacts
<1> DEFINE x == input[i]
<1> HIDE DEF x
<1>2. x.cells \in Seq(Octets) /\ x.num \in NoNumber .. Inf
  <2>1. x \in TextLines BY <1>1 DEF x
  <2> QED BY <2>1 DEF TextLines
<1>3. <<x>>[1] = x OBVIOUS
<1>4. Keyed(<<x>>) BY <1>2, <1>3 DEF Keyed
<1> QED BY <1>1, <1>4 DEF x

\* How many lines are open after one more.
Opened(was, odd) ==
    IF was = 0 THEN (IF odd THEN 1 ELSE 0) ELSE IF odd \/ was + 1 >= Runaway THEN 0 ELSE was + 1

LEMMA OpenSteps ==
    ASSUME Asked
    PROVE  /\ \A i \in 0 .. Len(input) : OpenAfter[i] \in 0 .. Runaway /\ (~task.csv => OpenAfter[i] = 0)
           /\ OpenAfter[0] = 0
           /\ \A i \in 1 .. Len(input) : task.csv => OpenAfter[i] = Opened(OpenAfter[i - 1], input[i].odd)
<1> DEFINE L == Len(input)
           Next1(was, i) == CHOOSE n \in 0 .. Runaway : \E w \in {was} :
                n = IF w = 0 THEN (IF input[i].odd THEN 1 ELSE 0)
                    ELSE IF input[i].odd \/ w + 1 >= Runaway THEN 0 ELSE w + 1
           Steps(g, k) == g = [i \in 0 .. k |-> IF i = 0 \/ ~task.csv THEN 0 ELSE Next1(g[i - 1], i)]
           Q == {k \in 0 .. L : \E g : Steps(g, k)}
<1>1. L \in Nat BY AskedFacts
<1>2. \E g : Steps(g, 0)
  <2> DEFINE g == [i \in 0 .. 0 |-> 0]
  <2>1. \A i \in 0 .. 0 : i = 0 OBVIOUS
  <2>2. Steps(g, 0) BY <2>1
  <2> QED BY <2>2
<1> HIDE DEF Next1
<1>3. ASSUME NEW k \in 1 .. L, \E g : Steps(g, k - 1) PROVE \E g : Steps(g, k)
  <2>1. PICK g : Steps(g, k - 1) BY <1>3
  <2> DEFINE wider == [i \in 0 .. k |-> IF i = k THEN (IF ~task.csv THEN 0 ELSE Next1(g[k - 1], k)) ELSE g[i]]
  <2>2. \A i \in 0 .. k : i # 0 => wider[i - 1] = g[i - 1] OBVIOUS
  <2>3. \A i \in 0 .. k : wider[i] = IF i = 0 \/ ~task.csv THEN 0 ELSE Next1(wider[i - 1], i)
    <3> TAKE i \in 0 .. k
    <3>1. CASE i = k
      <4>1. i # 0 /\ wider[i] = IF ~task.csv THEN 0 ELSE Next1(g[k - 1], k) BY <3>1
      <4>2. wider[i - 1] = g[k - 1] BY <2>2, <3>1, <4>1
      <4> HIDE DEF wider
      <4> QED BY <3>1, <4>1, <4>2
    <3>2. CASE i # k
      <4>1. wider[i] = g[i] /\ i \in 0 .. (k - 1) BY <3>2
      <4>2. g[i] = IF i = 0 \/ ~task.csv THEN 0 ELSE Next1(g[i - 1], i) BY <2>1, <4>1
      <4>3. i # 0 => wider[i - 1] = g[i - 1] BY <2>2
      <4> HIDE DEF wider
      <4> QED BY <4>1, <4>2, <4>3
    <3> QED BY <3>1, <3>2
  <2>4. wider = [i \in 0 .. k |-> wider[i]] OBVIOUS
  <2> HIDE DEF wider
  <2>5. Steps(wider, k) BY <2>3, <2>4
  <2> QED BY <2>5
<1>4. \E g : Steps(g, L)
  <2> HIDE DEF Steps
  <2>1. 0 \in Q BY <1>1, <1>2
  <2>2. \A k \in 1 .. L : k - 1 \in Q => k \in Q BY <1>1, <1>3
  <2>3. \A k \in 0 .. L : k \in Q
    <3> HIDE DEF Q, L
    <3> QED BY <1>1, <2>1, <2>2, Climb
  <2>4. L \in Q BY <1>1, <2>3
  <2> QED BY <2>4
<1> DEFINE f == CHOOSE g : Steps(g, L)
<1>5. Steps(f, L) BY <1>4
<1>6. OpenAfter = f BY DEF OpenAfter, Next1
<1> HIDE DEF f
<1>7. \A i \in 0 .. L : f[i] = IF i = 0 \/ ~task.csv THEN 0 ELSE Next1(f[i - 1], i) BY <1>5
<1>8. ASSUME NEW was \in 0 .. Runaway, NEW i \in 1 .. L
      PROVE  Next1(was, i) \in 0 .. Runaway /\ Next1(was, i) = Opened(was, input[i].odd)
  <2> DEFINE n == Opened(was, input[i].odd)
  <2>1. Runaway \in Nat \ {0} BY AskedFacts
  <2>2. n \in 0 .. Runaway BY <2>1 DEF Opened
  <2>3. \E w \in {was} : n = IF w = 0 THEN (IF input[i].odd THEN 1 ELSE 0)
                             ELSE IF input[i].odd \/ w + 1 >= Runaway THEN 0 ELSE w + 1
    BY DEF Opened
  <2>4. \A m \in 0 .. Runaway : (\E w \in {was} : m = IF w = 0 THEN (IF input[i].odd THEN 1 ELSE 0)
                                     ELSE IF input[i].odd \/ w + 1 >= Runaway THEN 0 ELSE w + 1) => m = n
    BY DEF Opened
  <2> HIDE DEF n
  <2>5. Next1(was, i) \in 0 .. Runaway /\ Next1(was, i) = n BY <2>2, <2>3, <2>4 DEF Next1
  <2> QED BY <2>5 DEF n
<1> DEFINE P == {i \in 0 .. L : f[i] \in 0 .. Runaway}
<1>9. \A i \in 0 .. L : i \in P
  <2>0. 0 \in 0 .. Runaway /\ 0 \in 0 .. L BY <1>1, AskedFacts
  <2>1. 0 \in P BY <1>7, <2>0
  <2>2. \A i \in 1 .. L : i - 1 \in P => i \in P
    <3> TAKE i \in 1 .. L
    <3> HAVE i - 1 \in P
    <3>1. f[i - 1] \in 0 .. Runaway /\ i \in 0 .. L BY <1>1
    <3>2. Next1(f[i - 1], i) \in 0 .. Runaway BY <1>8, <3>1
    <3>3. f[i] \in 0 .. Runaway BY <1>7, <2>0, <3>1, <3>2
    <3> QED BY <3>1, <3>3
  <2> HIDE DEF P, L
  <2> QED BY <1>1, <2>1, <2>2, Climb
<1>10. ASSUME NEW i \in 1 .. L, task.csv PROVE f[i] = Opened(f[i - 1], input[i].odd)
  <2>1. i \in 0 .. L /\ i - 1 \in 0 .. L /\ i # 0 BY <1>1
  <2>2. f[i - 1] \in 0 .. Runaway BY <1>9, <2>1
  <2> HIDE DEF L
  <2> QED BY <1>7, <1>8, <1>10, <2>1, <2>2
<1>11. 0 \in 0 .. L BY <1>1
<1> QED BY <1>6, <1>7, <1>9, <1>10, <1>11

FirstBelow(i) == {j \in FirstLines : j < i}
Count(i) == Cardinality(FirstBelow(i))
RecordAt(i) == [no |-> Count(i), line |-> <<input[i]>>]

\* The records of the first c numbers.
Taken(c) == {r \in Records : r.no < c}

LEMMA RecordFacts ==
    ASSUME Asked
    PROVE  /\ IsFiniteSet(FirstLines) /\ FirstLines \subseteq 1 .. Len(input)
           /\ Cardinality(FirstLines) \in Nat
           /\ \A i \in FirstLines : Count(i) \in 0 .. Cardinality(FirstLines) - 1
           /\ \A i, j \in FirstLines : i < j <=> Count(i) < Count(j)
           /\ \A r \in Records : \E i \in FirstLines : r = RecordAt(i)
           /\ \A i \in FirstLines : RecordAt(i) \in Records
           /\ \A r \in Records : /\ r.no \in 0 .. Cardinality(FirstLines) - 1 /\ Keyed(r.line)
                                 /\ r.line \in Seq(TextLines) /\ Len(r.line) = 1
           /\ \A r, s \in Records : r.no = s.no => r = s
           /\ \A n \in 0 .. Cardinality(FirstLines) - 1 : \E r \in Records : r.no = n
<1> DEFINE S == FirstLines
           low == [i \in S |-> FirstBelow(i)]
           N == Cardinality(FirstLines)
<1>1. S \subseteq 1 .. Len(input) /\ Len(input) \in Nat BY AskedFacts DEF FirstLines
<1>2. IsFiniteSet(S)
  <2> DEFINE n == Len(input)
             a == 1
             A == a .. n
  <2>1. a \in Int /\ n \in Int /\ S \subseteq A BY <1>1
  <2> HIDE DEF a, n, S
  <2>2. IsFiniteSet(A) BY <2>1, FS_Interval
  <2> HIDE DEF A
  <2> QED BY <2>1, <2>2, FS_Subset
<1>3. Ranked(S, low)
  <2>1. \A i \in S : low[i] = FirstBelow(i) /\ i \in Int BY <1>1
  <2> HIDE DEF low, S
  <2>2. \A i \in S : \A j : j \in low[i] <=> j \in S /\ j < i BY <2>1 DEF FirstBelow, S
  <2>3. \A i \in S : low[i] \subseteq S /\ i \notin low[i] BY <2>1, <2>2
  <2>4. \A i \in S : \A j \in low[i] : low[j] \subseteq low[i] BY <2>1, <2>2
  <2>5. \A i, j \in S : i # j => i \in low[j] \/ j \in low[i] BY <2>1, <2>2
  <2> QED BY <1>2, <2>3, <2>4, <2>5 DEF Ranked
<1>4. /\ N \in Nat
      /\ \A i \in S : Count(i) \in 0 .. N - 1
      /\ \A i, j \in S : i < j <=> Count(i) < Count(j)
      /\ \A n \in 0 .. N - 1 : \E i \in S : Count(i) = n
  <2>1. /\ Cardinality(S) \in Nat
        /\ \A x \in S : Cardinality(low[x]) \in 0 .. Cardinality(S) - 1
        /\ \A x, y \in S : x \in low[y] <=> Cardinality(low[x]) < Cardinality(low[y])
        /\ \A k \in 0 .. Cardinality(S) - 1 : \E x \in S : Cardinality(low[x]) = k
    <3> HIDE DEF low, S
    <3> QED BY <1>3, RankedFacts
  <2>2. \A i \in S : low[i] = FirstBelow(i) /\ Cardinality(low[i]) = Count(i) BY DEF Count
  <2>3. \A i, j \in S : i \in low[j] <=> i < j BY <2>2 DEF FirstBelow
  <2> HIDE DEF low, S
  <2> QED BY <2>1, <2>2, <2>3 DEF S
<1>5. /\ \A r \in Records : \E i \in FirstLines : r = RecordAt(i)
      /\ \A i \in FirstLines : RecordAt(i) \in Records
  BY DEF Records, RecordAt, Count, FirstBelow
<1>6. \A i \in FirstLines : RecordAt(i).no = Count(i) /\ RecordAt(i).line = <<input[i]>> BY DEF RecordAt
<1> HIDE DEF low, N
<1>7. ASSUME NEW r \in Records
      PROVE  r.no \in 0 .. N - 1 /\ Keyed(r.line) /\ r.line \in Seq(TextLines) /\ Len(r.line) = 1
  <2>1. PICK i \in FirstLines : r = RecordAt(i) BY <1>5
  <2>2. i \in 1 .. Len(input) BY <1>1
  <2>3. Keyed(<<input[i]>>) /\ input[i] \in TextLines BY <2>2, LineKeyed
  <2> DEFINE x == input[i]
  <2> HIDE DEF x
  <2>4. <<x>> \in Seq(TextLines) /\ Len(<<x>>) = 1 BY <2>3 DEF x
  <2> QED BY <1>4, <1>6, <2>1, <2>3, <2>4 DEF x
<1>8. ASSUME NEW r \in Records, NEW s \in Records, r.no = s.no PROVE r = s
  <2>1. PICK i \in FirstLines : r = RecordAt(i) BY <1>5
  <2>2. PICK j \in FirstLines : s = RecordAt(j) BY <1>5
  <2>3. Count(i) = Count(j) BY <1>6, <1>8, <2>1, <2>2
  <2>4. i \in Int /\ j \in Int /\ Count(i) \in Int BY <1>1, <1>4
  <2>5. ~(i < j) /\ ~(j < i) BY <1>4, <2>3, <2>4
  <2> QED BY <2>1, <2>2, <2>4, <2>5
<1>9. \A n \in 0 .. N - 1 : \E r \in Records : r.no = n
  <2> TAKE n \in 0 .. N - 1
  <2>1. PICK i \in S : Count(i) = n BY <1>4
  <2> QED BY <1>5, <1>6, <2>1
<1> HIDE DEF S
<1> QED BY <1>1, <1>2, <1>4, <1>5, <1>7, <1>8, <1>9 DEF S, N

LEMMA SameNumber == ASSUME Asked PROVE \A r, s \in Records : r.no = s.no => r = s
BY RecordFacts

\* The order asked for, of two records.
LEMMA PrecedesIs ==
    ASSUME Asked, NEW r \in Records, NEW s \in Records
    PROVE  Precedes(r, s) <=>
             \/ (IF task.reverse THEN Before(SortKey(s.line), SortKey(r.line))
                                 ELSE Before(SortKey(r.line), SortKey(s.line)))
             \/ SortKey(r.line) = SortKey(s.line) /\ r.no < s.no
<1>1. Columned /\ Keyed(r.line) /\ Keyed(s.line) BY AskedFacts, RecordFacts
<1> DEFINE x == r.line
           y == s.line
<1>2. /\ Before(SortKey(x), SortKey(y)) <=> Less(Keys(x), Keys(y))
      /\ Before(SortKey(y), SortKey(x)) <=> Less(Keys(y), Keys(x))
      /\ SortKey(x) = SortKey(y) <=> Keys(x) = Keys(y)
  <2> HIDE DEF x, y
  <2>1. Keyed(x) /\ Keyed(y) BY <1>1 DEF x, y
  <2> QED BY <1>1, <2>1, KeysDecide
<1>3. Precedes(r, s) <=>
        \/ (IF task.reverse THEN Less(Keys(y), Keys(x)) ELSE Less(Keys(x), Keys(y)))
        \/ Keys(x) = Keys(y) /\ r.no < s.no
  BY DEF Precedes, Less, Keys
<1> QED BY <1>2, <1>3

-----------------------------------------------------------------------------
(* Reading them.                                                           *)

Settled == at - Len(open)
ReadOK ==
    /\ open \in Seq(TextLines) /\ at \in 0 .. Len(input) /\ Len(open) <= at
    /\ OpenAfter[at] = Len(open) /\ OpenAfter[Settled] = 0
    /\ open # <<>> => open[1] = input[Settled + 1] /\ task.csv
    /\ \A i \in Settled + 1 .. at - 1 : OpenAfter[i] # 0
    /\ work.count = Count(Settled + 1)

\* A record's key and number, in columns of their own.
LEMMA KeySeesFirst ==
    ASSUME NEW record, NEW line, record[1] = line
    PROVE  /\ SortKey(record) = SortKey(<<line>>)
           /\ \A col : KeyOf(record, col) = KeyOf(<<line>>, col)
           /\ \A col : Field(record, col) = Field(<<line>>, col)
<1>1. <<line>>[1] = line OBVIOUS
<1>2. \A col : Field(record, col) = Field(<<line>>, col) BY <1>1 DEF Field
<1>3. \A col : KeyOf(record, col) = KeyOf(<<line>>, col) BY <1>1, <1>2 DEF KeyOf
<1>4. SortKey(record) = SortKey(<<line>>)
  <2> DEFINE f == [k \in DOMAIN task.cols |-> Escaped(KeyOf(record, task.cols[k])) \o <<Zero, Zero>>]
             g == [k \in DOMAIN task.cols |-> Escaped(KeyOf(<<line>>, task.cols[k])) \o <<Zero, Zero>>]
  <2>1. f = g BY <1>3
  <2> QED BY <1>3, <2>1 DEF SortKey
<1> QED BY <1>2, <1>3, <1>4

\* The record that begins after the settled lines.
LEMMA NextRecord ==
    ASSUME Asked, at \in 0 .. Len(input), Settled \in 0 .. Len(input) - 1, OpenAfter[Settled] = 0,
           work.count = Count(Settled + 1)
    PROVE  \E r \in Records :
             /\ r.no = work.count /\ r.line = <<input[Settled + 1]>>
             /\ Settled + 1 \in FirstLines
             /\ work.count \in Nat
             /\ Taken(work.count + 1) = Taken(work.count) \cup {r} /\ r \notin Taken(work.count)
<1> DEFINE i == Settled + 1
<1>1. i \in FirstLines
  <2>1. i \in 1 .. Len(input) /\ i - 1 = Settled BY AskedFacts
  <2> QED BY <2>1 DEF FirstLines
<1> DEFINE r == RecordAt(i)
           c == work.count
<1>2. r \in Records /\ r.no = c /\ r.line = <<input[i]>> BY <1>1, RecordFacts DEF RecordAt
<1>3. c \in Nat BY <1>2, RecordFacts
<1> HIDE DEF c, r, i
<1>4. \A s \in Records : s.no \in Nat /\ (s.no = r.no => s = r)
  <2>1. \A s \in Records : s.no \in Nat BY RecordFacts
  <2>2. \A s \in Records : s.no = r.no => s = r BY <1>2, SameNumber
  <2> QED BY ONLY <2>1, <2>2
<1>5. Taken(c + 1) = Taken(c) \cup {r} /\ r \notin Taken(c)
  <2>1. \A s \in Records : s.no < c + 1 <=> s.no < c \/ s.no = c BY <1>3, <1>4
  <2>2. \A s : s \in Taken(c + 1) <=> s \in Records /\ s.no < c + 1 BY DEF Taken
  <2>3. \A s : s \in Taken(c) <=> s \in Records /\ s.no < c BY DEF Taken
  <2>4. r \notin Taken(c) BY <1>2, <1>3, <2>3
  <2>5. \A s : s \in Taken(c + 1) <=> s \in Taken(c) \/ s = r BY <1>2, <1>4, <2>1, <2>2, <2>3
  <2> QED BY <2>4, <2>5
<1> QED BY <1>1, <1>2, <1>3, <1>5 DEF c, i

\* After the last line, all of them were taken.
LEMMA AllTaken ==
    ASSUME Asked, NEW n, n > Len(input), n \in Nat
    PROVE  Taken(Count(n)) = Records
<1>1. FirstBelow(n) = FirstLines
  <2>1. \A i \in FirstLines : i \in 1 .. Len(input) BY RecordFacts
  <2>2. Len(input) \in Nat BY AskedFacts
  <2>3. \A i \in FirstLines : i < n BY <2>1, <2>2
  <2> QED BY <2>3 DEF FirstBelow
<1>2. Count(n) = Cardinality(FirstLines) BY <1>1 DEF Count
<1> DEFINE N == Cardinality(FirstLines)
<1>3. N \in Nat /\ \A r \in Records : r.no \in 0 .. N - 1 BY RecordFacts
<1> HIDE DEF N
<1>4. \A r \in Records : r.no < N BY <1>3
<1>5. Taken(N) = Records BY <1>4 DEF Taken
<1> QED BY <1>2, <1>5 DEF N

LEMMA DocStays ==
    ASSUME UNCHANGED <<task, input>>
    PROVE  OpenAfter' = OpenAfter /\ FirstLines' = FirstLines /\ Records' = Records
           /\ Asked' = Asked
<1>1. OpenAfter' = OpenAfter BY DEF OpenAfter
<1>2. FirstLines' = FirstLines BY <1>1 DEF FirstLines
<1>3. Records' = Records BY <1>2 DEF Records
<1> QED BY <1>1, <1>2, <1>3 DEF Asked

\* As many records begin before a line past the next one.
LEMMA NextCount ==
    ASSUME Asked, NEW s, NEW n, s + 1 \in FirstLines, s \in Nat, n \in Nat, s + 1 <= n,
           \A i \in s + 1 .. n - 1 : OpenAfter[i] # 0
    PROVE  Count(n + 1) = Count(s + 1) + 1
<1> DEFINE A == FirstBelow(s + 1)
           B == FirstBelow(n + 1)
           x == s + 1
<1>1. \A j \in FirstLines : j \in Int /\ OpenAfter[j - 1] = 0 BY DEF FirstLines
<1>2. ASSUME NEW j \in B PROVE j \in A \cup {x}
  <2>1. j \in FirstLines /\ j < n + 1 BY DEF FirstBelow
  <2>2. j - 1 \notin s + 1 .. n - 1 BY <1>1, <2>1
  <2>3. j \in Int BY <1>1, <2>1
  <2>4. j <= s + 1 BY <2>1, <2>2, <2>3
  <2> QED BY <2>1, <2>3, <2>4 DEF FirstBelow
<1>3. ASSUME NEW j \in A \cup {x} PROVE j \in B
  <2>1. j \in FirstLines /\ j <= s + 1 BY <1>1 DEF FirstBelow
  <2>2. j < n + 1 BY <1>1, <2>1
  <2> QED BY <2>1, <2>2 DEF FirstBelow
<1>4. B = A \cup {x} BY <1>2, <1>3
<1>5. x \notin A BY <1>1 DEF FirstBelow
<1>6. IsFiniteSet(A)
  <2>1. A \subseteq FirstLines BY DEF FirstBelow
  <2>2. IsFiniteSet(FirstLines) BY RecordFacts
  <2> HIDE DEF A
  <2> QED BY <2>1, <2>2, FS_Subset
<1> HIDE DEF A, x
<1>7. Cardinality(A \cup {x}) = Cardinality(A) + 1 BY <1>5, <1>6, FS_AddElement
<1> QED BY <1>4, <1>7 DEF Count, A

\* A read takes the record that begins after the settled lines, or leaves it open.
TakesNext ==
    \E record :
        /\ record[1] = input[Settled + 1] /\ record \in Seq(TextLines)
        /\ Settled \in 0 .. Len(input) - 1 /\ OpenAfter[Settled] = 0
        /\ work' = Taking(work, record)
        /\ work'.count = work.count + 1 => ReadOK'

LEMMA ReadTakes ==
    ASSUME Asked, ReadOK, Read
    PROVE  TakesNext \/ (work' = work /\ ReadOK')
<1>1. /\ UNCHANGED <<task, input>> /\ at' = at + 1 /\ at < Len(input)
      /\ open \in Seq(TextLines) /\ at \in 0 .. Len(input) /\ Len(open) <= at
  BY DEF Read, ReadOK
<1>2. PICK a : a = at OBVIOUS
<1>3. PICK s : s = Settled OBVIOUS
<1>4. PICK n : n = Len(open) OBVIOUS
<1>5. n \in Nat /\ a \in Nat /\ s \in Nat /\ s + n = a /\ a < Len(input) /\ Len(input) \in Nat /\ a' = a
  BY <1>1, <1>2, <1>3, <1>4, AskedFacts DEF Settled
<1>6. /\ OpenAfter[a] = n /\ OpenAfter[s] = 0 /\ (open # <<>> <=> n # 0)
      /\ (open # <<>> => open[1] = input[s + 1] /\ task.csv)
      /\ \A i \in s + 1 .. a - 1 : OpenAfter[i] # 0
      /\ work.count = Count(s + 1)
  BY <1>1, <1>2, <1>3, <1>4 DEF ReadOK
<1> DEFINE record == Append(open, input[at + 1])
           odd == input[at + 1].odd
           whole == ~task.csv \/ IF open = <<>> THEN ~odd ELSE odd \/ Len(record) >= Runaway
<1>7. IF whole THEN open' = <<>> /\ work' = Taking(work, record)
               ELSE open' = record /\ UNCHANGED work
  BY DEF Read
<1>8. input[at + 1] \in TextLines /\ odd \in BOOLEAN
  <2>1. at + 1 \in 1 .. Len(input) BY <1>2, <1>5
  <2>2. input[at + 1] \in TextLines BY <2>1, AskedFacts
  <2> QED BY <2>2 DEF TextLines
<1>9. /\ record \in Seq(TextLines) /\ Len(record) = n + 1 /\ record[1] = input[s + 1]
  <2> DEFINE line == input[at + 1]
  <2>1. line \in TextLines BY <1>8
  <2> HIDE DEF line
  <2>2. Append(open, line) \in Seq(TextLines) /\ Len(Append(open, line)) = n + 1
        /\ Append(open, line)[1] = IF n = 0 THEN line ELSE open[1]
    BY <1>1, <1>4, <1>5, <2>1
  <2>3. n = 0 => line = input[s + 1] BY <1>2, <1>5 DEF line
  <2> QED BY <1>6, <2>2, <2>3 DEF line
<1>10. OpenAfter[a + 1] = IF whole THEN 0 ELSE n + 1
  <2>1. a + 1 \in 1 .. Len(input) /\ a + 1 \in 0 .. Len(input) /\ (a + 1) - 1 = a BY <1>5
  <2>2. CASE ~task.csv
    <3>1. OpenAfter[a + 1] = 0 BY <2>1, <2>2, OpenSteps
    <3> QED BY <2>2, <3>1
  <2>3. CASE task.csv
    <3>1. OpenAfter[a + 1] = Opened(OpenAfter[(a + 1) - 1], input[a + 1].odd) BY <2>1, <2>3, OpenSteps
    <3>2. OpenAfter[a + 1] = Opened(n, odd) BY <1>2, <1>6, <2>1, <3>1
    <3>3. Len(record) = n + 1 BY <1>9
    <3> HIDE DEF record, odd
    <3> QED BY <1>6, <1>8, <2>3, <3>2, <3>3 DEF Opened
  <2> QED BY <2>2, <2>3
<1>11. OpenAfter' = OpenAfter /\ FirstLines' = FirstLines BY <1>1, DocStays
<1>12. at' = a + 1 /\ input' = input /\ task' = task BY <1>1, <1>2
<1>13. OpenAfter[a] = n /\ (n # 0 => s + 1 <= a) BY <1>5, <1>6
<1>14. \A i \in s + 1 .. a : OpenAfter[i] # 0
  <2> TAKE i \in s + 1 .. a
  <2>1. i \in s + 1 .. a - 1 \/ i = a BY <1>5
  <2>2. i = a => n # 0 BY <1>5
  <2> QED BY <1>6, <2>1, <2>2
<1> HIDE DEF record, odd
<1>15. CASE whole
  <2> DEFINE m == a + 1
  <2>0. m = a + 1 OBVIOUS
  <2>1. open' = <<>> /\ work' = Taking(work, record) BY <1>7, <1>15
  <2>2. s \in 0 .. Len(input) - 1 BY <1>5
  <2>3. ASSUME work'.count = work.count + 1 PROVE ReadOK'
    <3>1. s + 1 \in FirstLines
      <4>1. s + 1 \in 1 .. Len(input) /\ (s + 1) - 1 = s BY <1>5
      <4> QED BY <1>6, <4>1 DEF FirstLines
    <3>2. Count(m + 1) = Count(s + 1) + 1
      <4>1. s + 1 <= m /\ m \in Nat BY <1>5
      <4>2. \A i \in s + 1 .. m - 1 : OpenAfter[i] # 0
        <5>1. m - 1 = a BY <1>5
        <5> QED BY <1>14, <5>1
      <4> HIDE DEF m
      <4> QED BY <1>5, <3>1, <4>1, <4>2, NextCount
    <3>3. Settled' = m /\ Len(open') = 0 BY <1>5, <1>12, <2>1 DEF Settled
    <3>4. open' \in Seq(TextLines) /\ open' = <<>> BY <2>1
    <3>5. OpenAfter[m] = 0 /\ m \in 0 .. Len(input) BY <1>5, <1>10, <1>15
    <3>6. work'.count = Count(m + 1) BY <1>6, <2>3, <3>2
    <3>7. \A i \in m + 1 .. m - 1 : FALSE BY <1>5
    <3>8. at' = m BY <1>12
    <3> HIDE DEF m
    <3>9. m \in Nat BY <1>5, <2>0
    <3>10. (Count(Settled + 1))' = Count(m + 1) BY <1>11, <3>3 DEF Count, FirstBelow
    <3>11. OpenAfter'[at'] = 0 /\ OpenAfter'[Settled'] = 0 /\ at' \in 0 .. Len(input') /\ Len(open') <= at'
      BY <1>11, <1>12, <3>3, <3>5, <3>8, <3>9
    <3>12. \A i \in Settled' + 1 .. at' - 1 : FALSE BY <3>3, <3>7, <3>8
    <3> QED BY <3>3, <3>4, <3>6, <3>10, <3>11, <3>12 DEF ReadOK
  <2> QED BY <1>3, <1>6, <1>9, <2>1, <2>2, <2>3 DEF TakesNext
<1>16. CASE ~whole
  <2>1. open' = record /\ work' = work BY <1>7, <1>16
  <2>2. task.csv BY <1>16
  <2> DEFINE m == a + 1
  <2>3. Len(open') = n + 1 /\ open' \in Seq(TextLines) /\ open'[1] = input[s + 1] BY <1>9, <2>1
  <2>4. Settled' = s BY <1>5, <1>12, <2>3 DEF Settled
  <2>5. at' = m /\ OpenAfter[m] = n + 1 /\ m \in 0 .. Len(input) /\ n + 1 <= m
    BY <1>5, <1>10, <1>12, <1>16
  <2>6. \A i \in s + 1 .. m - 1 : OpenAfter[i] # 0
    <3>1. m - 1 = a BY <1>5
    <3> QED BY <1>14, <3>1
  <2> HIDE DEF m
  <2>7. (Count(Settled + 1))' = Count(s + 1) BY <1>11, <2>4 DEF Count, FirstBelow
  <2>8. OpenAfter'[at'] = Len(open') /\ OpenAfter'[Settled'] = 0 /\ at' \in 0 .. Len(input') /\ Len(open') <= at'
    BY <1>6, <1>11, <1>12, <2>3, <2>4, <2>5
  <2>9. open'[1] = input'[Settled' + 1] /\ task'.csv BY <1>12, <2>2, <2>3, <2>4
  <2>10. \A i \in Settled' + 1 .. at' - 1 : OpenAfter'[i] # 0 BY <1>11, <2>4, <2>5, <2>6
  <2>11. work'.count = Count(s + 1) BY <1>6, <2>1
  <2>12. ReadOK' BY <2>3, <2>7, <2>8, <2>9, <2>10, <2>11 DEF ReadOK
  <2> QED BY <2>1, <2>12
<1> QED BY <1>15, <1>16

\* What there is at the end of the document.
LEMMA EndTakes ==
    ASSUME Asked, ReadOK, at = Len(input)
    PROVE  /\ work.count \in Nat
           /\ open = <<>> => Taken(work.count) = Records
           /\ open # <<>> => /\ open[1] = input[Settled + 1] /\ open \in Seq(TextLines)
                             /\ Settled \in 0 .. Len(input) - 1 /\ OpenAfter[Settled] = 0
                             /\ Taken(work.count + 1) = Records
<1>1. open \in Seq(TextLines) /\ at \in 0 .. Len(input) /\ Len(open) <= at BY DEF ReadOK
<1>2. PICK a : a = at OBVIOUS
<1>3. PICK s : s = Settled OBVIOUS
<1>4. PICK n : n = Len(open) OBVIOUS
<1>5. n \in Nat /\ a \in Nat /\ s \in Nat /\ s + n = a /\ a = Len(input) /\ Len(input) \in Nat
  BY <1>1, <1>2, <1>3, <1>4, AskedFacts DEF Settled
<1>6. /\ OpenAfter[s] = 0 /\ (open # <<>> <=> n # 0)
      /\ (open # <<>> => open[1] = input[s + 1] /\ task.csv)
      /\ \A i \in s + 1 .. a - 1 : OpenAfter[i] # 0
      /\ work.count = Count(s + 1)
  BY <1>1, <1>2, <1>3, <1>4 DEF ReadOK
<1>7. \A t \in Nat : Count(t) \in Nat
  <2> TAKE t \in Nat
  <2>1. FirstBelow(t) \subseteq FirstLines BY DEF FirstBelow
  <2>2. IsFiniteSet(FirstLines) BY RecordFacts
  <2>3. IsFiniteSet(FirstBelow(t)) BY <2>1, <2>2, FS_Subset
  <2> QED BY <2>3, FS_CardinalityType DEF Count
<1>8. work.count \in Nat
  <2>1. s + 1 \in Nat BY <1>5
  <2> QED BY <1>6, <1>7, <2>1
<1>9. ASSUME open = <<>> PROVE Taken(work.count) = Records
  <2> DEFINE m == s + 1
  <2>1. m > Len(input) /\ m \in Nat BY <1>5, <1>6, <1>9
  <2> HIDE DEF m
  <2>2. Taken(Count(m)) = Records BY <2>1, AllTaken
  <2> QED BY <1>6, <2>2 DEF m
<1>10. ASSUME open # <<>> PROVE s \in 0 .. Len(input) - 1 /\ Taken(work.count + 1) = Records
  <2>1. n # 0 /\ s + 1 <= a /\ s \in 0 .. Len(input) - 1 BY <1>5, <1>6, <1>10
  <2>2. s + 1 \in FirstLines
    <3>1. s + 1 \in 1 .. Len(input) /\ (s + 1) - 1 = s BY <1>5, <2>1
    <3> QED BY <1>6, <3>1 DEF FirstLines
  <2>3. Count(a + 1) = Count(s + 1) + 1 BY <1>5, <1>6, <2>1, <2>2, NextCount
  <2> DEFINE m == a + 1
  <2>4. m > Len(input) /\ m \in Nat BY <1>5
  <2>5. Count(m) = work.count + 1 BY <1>6, <2>3
  <2> HIDE DEF m
  <2>6. Taken(Count(m)) = Records BY <2>4, AllTaken
  <2> QED BY <2>1, <2>5, <2>6
<1> QED BY <1>1, <1>3, <1>6, <1>8, <1>9, <1>10

-----------------------------------------------------------------------------
(* Runs that are apart from each other.                                    *)

Held(q) == UNION {Members(q[k]) : k \in DOMAIN q}
Sorted(q, R, D) ==
    /\ \A k \in DOMAIN q : q[k] \in Seq(D) /\ Rising(q[k], R)
    /\ \A j, k \in DOMAIN q : j # k => Members(q[j]) \cap Members(q[k]) = {}

LEMMA InMembers == \A s, x : x \in Members(s) <=> \E i \in DOMAIN s : x = s[i]
BY DEF Members

LEMMA InHeld == \A q, x : x \in Held(q) <=> \E k \in DOMAIN q : x \in Members(q[k])
BY DEF Held

LEMMA SeqFacts ==
    ASSUME NEW D, NEW s \in Seq(D)
    PROVE  /\ Members(s) \subseteq D /\ (s = <<>> <=> Members(s) = {})
           /\ s # <<>> => /\ Head(s) \in D /\ Tail(s) \in Seq(D)
                          /\ Members(s) = {Head(s)} \cup Members(Tail(s))
           /\ \A e : Members(Append(s, e)) = Members(s) \cup {e}
<1>1. Len(s) \in Nat /\ DOMAIN s = 1 .. Len(s) /\ \A i \in 1 .. Len(s) : s[i] \in D OBVIOUS
<1>2. Members(s) \subseteq D BY <1>1 DEF Members
<1>3. s = <<>> <=> Members(s) = {}
  <2>1. s = <<>> => Members(s) = {} BY DEF Members
  <2>2. ASSUME s # <<>> PROVE Members(s) # {}
    <3>1. 1 \in DOMAIN s BY <1>1, <2>2
    <3>2. s[1] \in Members(s) BY <3>1 DEF Members
    <3> QED BY <3>2
  <2> QED BY <2>1, <2>2
<1>4. ASSUME s # <<>>
      PROVE  Head(s) \in D /\ Tail(s) \in Seq(D) /\ Members(s) = {Head(s)} \cup Members(Tail(s))
  <2> DEFINE t == Tail(s)
  <2>1. /\ Head(s) = s[1] /\ 1 \in DOMAIN s /\ t \in Seq(D) /\ DOMAIN t = 1 .. Len(s) - 1
        /\ \A i \in 1 .. Len(s) - 1 : t[i] = s[i + 1]
    BY <1>1, <1>4
  <2> HIDE DEF t
  <2>2. ASSUME NEW x \in Members(s) PROVE x = Head(s) \/ x \in Members(t)
    <3>1. PICK i \in DOMAIN s : x = s[i] BY InMembers
    <3>2. CASE i = 1 BY <2>1, <3>1, <3>2
    <3>3. CASE i # 1
      <4>1. i - 1 \in 1 .. Len(s) - 1 /\ (i - 1) + 1 = i BY <1>1, <3>3
      <4>2. t[i - 1] = x BY <2>1, <3>1, <4>1
      <4> QED BY <2>1, <4>1, <4>2, InMembers
    <3> QED BY <3>2, <3>3
  <2>3. ASSUME NEW x \in Members(t) PROVE x \in Members(s)
    <3>1. PICK i \in DOMAIN t : x = t[i] BY InMembers
    <3>2. i + 1 \in DOMAIN s /\ x = s[i + 1] BY <1>1, <2>1, <3>1
    <3> QED BY <3>2, InMembers
  <2>4. Head(s) \in Members(s) BY <2>1, InMembers
  <2> QED BY <1>1, <2>1, <2>2, <2>3, <2>4 DEF t
<1>5. ASSUME NEW e PROVE Members(Append(s, e)) = Members(s) \cup {e}
  <2> DEFINE t == Append(s, e)
             n == Len(s) + 1
  <2>1. /\ DOMAIN t = 1 .. n /\ t[n] = e
        /\ \A i \in 1 .. Len(s) : t[i] = s[i]
    <3>1. s \in Seq(D \cup {e}) /\ e \in D \cup {e}
      <4>1. s \in [1 .. Len(s) -> D \cup {e}] BY <1>1
      <4> QED BY <1>1, <4>1, SeqDef
    <3> QED BY <1>1, <3>1
  <2> HIDE DEF t
  <2>2. ASSUME NEW x \in Members(t) PROVE x \in Members(s) \cup {e}
    <3>1. PICK i \in DOMAIN t : x = t[i] BY InMembers
    <3>2. i = n \/ i \in 1 .. Len(s) BY <1>1, <2>1
    <3> QED BY <1>1, <2>1, <3>1, <3>2, InMembers
  <2>3. ASSUME NEW x \in Members(s) PROVE x \in Members(t)
    <3>1. PICK i \in DOMAIN s : x = s[i] BY InMembers
    <3>2. i \in DOMAIN t /\ t[i] = x BY <1>1, <2>1, <3>1
    <3> QED BY <3>2, InMembers
  <2>4. n \in DOMAIN t BY <1>1, <2>1
  <2>5. e \in Members(t) BY <2>1, <2>4, InMembers
  <2> QED BY <2>2, <2>3, <2>5 DEF t
<1> QED BY <1>2, <1>3, <1>4, <1>5

LEMMA AppendOnce ==
    ASSUME NEW D, NEW m \in Seq(D), Once(m), NEW e \in D, e \notin Members(m)
    PROVE  Once(Append(m, e)) /\ Append(m, e) \in Seq(D) /\ Len(Append(m, e)) = Len(m) + 1
<1> DEFINE t == Append(m, e)
           n == Len(m) + 1
<1>1. /\ DOMAIN t = 1 .. n /\ t[n] = e /\ \A i \in 1 .. Len(m) : t[i] = m[i]
      /\ DOMAIN m = 1 .. Len(m) /\ Len(m) \in Nat /\ t \in Seq(D) /\ Len(t) = n
  OBVIOUS
<1> HIDE DEF t
<1>2. \A i \in 1 .. Len(m) : m[i] # e BY <1>1, InMembers
<1>3. \A i \in DOMAIN t : i = n \/ i \in 1 .. Len(m) BY <1>1
<1>4. Once(t) BY <1>1, <1>2, <1>3 DEF Once
<1> QED BY <1>1, <1>4 DEF t

\* The first of a rising sequence is before the others.
LEMMA TailRises ==
    ASSUME NEW D, NEW R, Linear(R, D), NEW s \in Seq(D), Rising(s, R), s # <<>>
    PROVE  /\ Tail(s) \in Seq(D) /\ Rising(Tail(s), R) /\ Head(s) \in D
           /\ Members(s) = {Head(s)} \cup Members(Tail(s)) /\ Head(s) \notin Members(Tail(s))
           /\ \A x \in Members(Tail(s)) : <<Head(s), x>> \in R
<1> DEFINE t == Tail(s)
<1>1. Len(s) \in Nat /\ DOMAIN s = 1 .. Len(s) OBVIOUS
<1>2. /\ Head(s) = s[1] /\ 1 \in DOMAIN s /\ t \in Seq(D) /\ DOMAIN t = 1 .. Len(s) - 1
      /\ \A i \in 1 .. Len(s) - 1 : t[i] = s[i + 1]
  BY <1>1
<1>3. Head(s) \in D /\ Members(s) = {Head(s)} \cup Members(t) BY SeqFacts
<1> HIDE DEF t
<1>4. Rising(t, R)
  <2> SUFFICES ASSUME NEW i \in DOMAIN t, NEW j \in DOMAIN t, i < j PROVE <<t[i], t[j]>> \in R
    BY DEF Rising
  <2>1. i + 1 \in DOMAIN s /\ j + 1 \in DOMAIN s /\ i + 1 < j + 1 BY <1>1, <1>2
  <2>2. <<s[i + 1], s[j + 1]>> \in R BY <2>1 DEF Rising
  <2> QED BY <1>2, <2>2
<1>5. ASSUME NEW x \in Members(t) PROVE <<Head(s), x>> \in R
  <2>1. PICK i \in DOMAIN t : x = t[i] BY InMembers
  <2>2. i + 1 \in DOMAIN s /\ 1 < i + 1 BY <1>1, <1>2
  <2>3. <<s[1], s[i + 1]>> \in R BY <1>2, <2>2 DEF Rising
  <2> QED BY <1>2, <2>1, <2>3
<1>6. Head(s) \notin Members(t) BY <1>3, <1>5 DEF Linear
<1> QED BY <1>2, <1>3, <1>4, <1>5, <1>6 DEF t

LEMMA AppendRises ==
    ASSUME NEW D, NEW R, NEW s \in Seq(D), Rising(s, R), NEW e \in D,
           \A x \in Members(s) : <<x, e>> \in R
    PROVE  Append(s, e) \in Seq(D) /\ Rising(Append(s, e), R)
<1> DEFINE t == Append(s, e)
           n == Len(s) + 1
<1>1. Len(s) \in Nat /\ DOMAIN s = 1 .. Len(s) OBVIOUS
<1>2. t \in Seq(D) /\ DOMAIN t = 1 .. n /\ t[n] = e /\ \A i \in 1 .. Len(s) : t[i] = s[i] OBVIOUS
<1> HIDE DEF t
<1>3. ASSUME NEW i \in DOMAIN t, NEW j \in DOMAIN t, i < j PROVE <<t[i], t[j]>> \in R
  <2>1. i \in DOMAIN s /\ t[i] = s[i] BY <1>1, <1>2, <1>3
  <2>2. CASE j = n
    <3>1. s[i] \in Members(s) BY <2>1, InMembers
    <3> QED BY <1>2, <2>1, <2>2, <3>1
  <2>3. CASE j # n
    <3>1. j \in DOMAIN s /\ t[j] = s[j] BY <1>1, <1>2, <2>3
    <3> QED BY <1>3, <2>1, <3>1 DEF Rising
  <2> QED BY <2>2, <2>3
<1> QED BY <1>2, <1>3 DEF Rising, t

Pops(p, q, r) ==
    /\ r \in DOMAIN q /\ q[r] # <<>> /\ DOMAIN p = DOMAIN q /\ p[r] = Tail(q[r])
    /\ \A k \in DOMAIN q : k # r => p[k] = q[k]

\* What a merge pops: the first of one run.
LEMMA PoppedRun ==
    ASSUME NEW D, NEW R, Linear(R, D), NEW q, Sorted(q, R, D), NEW r, NEW p, Pops(p, q, r)
    PROVE  /\ Sorted(p, R, D) /\ DOMAIN p = DOMAIN q
           /\ Held(q) = Held(p) \cup {Head(q[r])} /\ Head(q[r]) \notin Held(p) /\ Head(q[r]) \in D
<1> DEFINE e == Head(q[r])
<1>1. /\ DOMAIN p = DOMAIN q /\ p[r] = Tail(q[r]) /\ \A k \in DOMAIN q : k # r => p[k] = q[k]
      /\ r \in DOMAIN q /\ q[r] # <<>>
  BY DEF Pops
<1>2. /\ Tail(q[r]) \in Seq(D) /\ Rising(Tail(q[r]), R) /\ e \in D
      /\ Members(q[r]) = {e} \cup Members(Tail(q[r])) /\ e \notin Members(Tail(q[r]))
  BY <1>1, TailRises DEF Sorted
<1> HIDE DEF e
<1>3. \A k \in DOMAIN q : Members(p[k]) \subseteq Members(q[k])
  BY <1>1, <1>2
<1>4. Sorted(p, R, D)
  <2>1. \A k \in DOMAIN p : p[k] \in Seq(D) /\ Rising(p[k], R) BY <1>1, <1>2 DEF Sorted
  <2>2. \A j, k \in DOMAIN p : j # k => Members(p[j]) \cap Members(p[k]) = {}
    BY <1>1, <1>3 DEF Sorted
  <2> QED BY <2>1, <2>2 DEF Sorted
<1>5. e \notin Held(p)
  <2> SUFFICES ASSUME e \in Held(p) PROVE FALSE OBVIOUS
  <2>1. PICK k \in DOMAIN p : e \in Members(p[k]) BY InHeld
  <2>2. k # r BY <1>1, <1>2, <2>1
  <2>3. e \in Members(q[k]) /\ e \in Members(q[r]) BY <1>1, <1>2, <1>3, <2>1
  <2> QED BY <1>1, <2>2, <2>3 DEF Sorted
<1>6. ASSUME NEW x \in Held(q) PROVE x \in Held(p) \cup {e}
  <2>1. PICK k \in DOMAIN q : x \in Members(q[k]) BY InHeld
  <2>2. x = e \/ x \in Members(p[k]) BY <1>1, <1>2, <2>1
  <2> QED BY <1>1, <2>2, InHeld
<1>7. ASSUME NEW x \in Held(p) PROVE x \in Held(q)
  <2>1. PICK k \in DOMAIN p : x \in Members(p[k]) BY InHeld
  <2> QED BY <1>1, <1>3, <2>1, InHeld
<1>8. e \in Held(q) BY <1>1, <1>2, InHeld
<1> QED BY <1>1, <1>2, <1>4, <1>5, <1>6, <1>7, <1>8 DEF e

\* The first of run r is before the other firsts.
Foremost(q, R, r) ==
    /\ r \in DOMAIN q /\ q[r] # <<>>
    /\ \A s \in DOMAIN q : s # r /\ q[s] # <<>> => <<Head(q[r]), Head(q[s])>> \in R

\* Then it is before all.
LEMMA FirstOfAll ==
    ASSUME NEW D, NEW R, Linear(R, D), NEW q, Sorted(q, R, D), NEW r, Foremost(q, R, r)
    PROVE  \A x \in Held(q) : x # Head(q[r]) => <<Head(q[r]), x>> \in R
<1>0. /\ r \in DOMAIN q /\ q[r] # <<>>
      /\ \A s \in DOMAIN q : s # r /\ q[s] # <<>> => <<Head(q[r]), Head(q[s])>> \in R
  BY DEF Foremost
<1> SUFFICES ASSUME NEW x \in Held(q), x # Head(q[r]) PROVE <<Head(q[r]), x>> \in R OBVIOUS
<1>1. PICK k \in DOMAIN q : x \in Members(q[k]) BY InHeld
<1>2. q[k] \in Seq(D) /\ Rising(q[k], R) BY DEF Sorted
<1>3. q[k] # <<>> BY <1>1, <1>2, SeqFacts
<1>4. /\ Members(q[k]) = {Head(q[k])} \cup Members(Tail(q[k])) /\ Head(q[k]) \in D
      /\ \A y \in Members(Tail(q[k])) : <<Head(q[k]), y>> \in R
      /\ Members(q[k]) \subseteq D
  BY <1>2, <1>3, TailRises, SeqFacts
<1>5. Head(q[r]) \in D BY <1>0, TailRises DEF Sorted
<1>6. CASE k = r BY <1>1, <1>4, <1>6
<1>7. CASE k # r
  <2>1. <<Head(q[r]), Head(q[k])>> \in R BY <1>0, <1>3, <1>7
  <2>2. x = Head(q[k]) \/ <<Head(q[k]), x>> \in R BY <1>1, <1>4
  <2> QED BY <1>1, <1>4, <1>5, <2>1, <2>2 DEF Linear
<1> QED BY <1>6, <1>7

\* There is such a run.
LEMMA FirstExists ==
    ASSUME NEW D, NEW R, Linear(R, D), NEW n \in Nat, NEW q, DOMAIN q = 1 .. n, Sorted(q, R, D),
           \E r \in DOMAIN q : q[r] # <<>>
    PROVE  \E r : Foremost(q, R, r)
<1> DEFINE S == {r \in DOMAIN q : q[r] # <<>>}
           low == [r \in S |-> {s \in S : <<Head(q[s]), Head(q[r])>> \in R}]
<1>1. IsFiniteSet(S)
  <2> DEFINE a == 1
             A == a .. n
  <2>1. a \in Int /\ n \in Int /\ S \subseteq A OBVIOUS
  <2> HIDE DEF a, S
  <2>2. IsFiniteSet(A) BY <2>1, FS_Interval
  <2> HIDE DEF A
  <2> QED BY <2>1, <2>2, FS_Subset
<1>2. \A r \in S : Head(q[r]) \in D /\ Head(q[r]) \in Members(q[r])
  <2> TAKE r \in S
  <2>1. q[r] \in Seq(D) /\ q[r] # <<>> BY DEF Sorted
  <2> QED BY <2>1, SeqFacts
<1>3. \A r, s \in S : r # s => Head(q[r]) # Head(q[s]) BY <1>2 DEF Sorted
<1>4. \A r, s \in S : s \in low[r] <=> <<Head(q[s]), Head(q[r])>> \in R OBVIOUS
<1>5. \A r \in S : low[r] \subseteq S OBVIOUS
<1> HIDE DEF low
<1>6. Ranked(S, low)
  <2>1. \A r \in S : r \notin low[r] BY <1>2, <1>4 DEF Linear
  <2>2. ASSUME NEW r \in S, NEW s \in low[r] PROVE low[s] \subseteq low[r]
    <3>1. s \in S /\ <<Head(q[s]), Head(q[r])>> \in R BY <1>4, <1>5
    <3>2. ASSUME NEW t \in low[s] PROVE t \in low[r]
      <4>1. t \in S /\ <<Head(q[t]), Head(q[s])>> \in R BY <1>4, <1>5, <3>1
      <4>2. <<Head(q[t]), Head(q[r])>> \in R BY <1>2, <3>1, <4>1 DEF Linear
      <4> QED BY <1>4, <4>1, <4>2
    <3> QED BY <3>2
  <2>3. ASSUME NEW r \in S, NEW s \in S, r # s PROVE r \in low[s] \/ s \in low[r]
    BY <1>2, <1>3, <1>4, <2>3 DEF Linear
  <2> HIDE DEF S
  <2> QED BY <1>1, <1>5, <2>1, <2>2, <2>3 DEF Ranked
<1>7. S # {} OBVIOUS
<1>8. PICK r \in S : \A s \in S \ {r} : r \in low[s]
  <2> HIDE DEF S
  <2> QED BY <1>6, <1>7, LeastRanked
<1>9. \A s \in S : s # r => <<Head(q[r]), Head(q[s])>> \in R BY <1>4, <1>8
<1>10. Foremost(q, R, r) BY <1>9 DEF Foremost
<1> QED BY <1>10

Recs(runs) == [k \in DOMAIN runs |-> runs[k].recs]

LEMMA AppendedRun ==
    ASSUME NEW q, Row(q), NEW x
    PROVE  /\ Row(Append(q, x)) /\ Len(q) \in Nat /\ DOMAIN q = 1 .. Len(q)
           /\ DOMAIN Recs(q) = 1 .. Len(q) /\ DOMAIN Recs(Append(q, x)) = 1 .. Len(q) + 1
           /\ Len(Append(q, x)) = Len(q) + 1
           /\ \A k \in 1 .. Len(q) : Append(q, x)[k] = q[k] /\ Recs(Append(q, x))[k] = Recs(q)[k]
           /\ Recs(Append(q, x))[Len(q) + 1] = x.recs
<1>1. PICK S : q \in Seq(S) BY DEF Row
<1>2. q \in Seq(S \cup {x}) /\ x \in S \cup {x} /\ Len(q) \in Nat
  <2>1. Len(q) \in Nat /\ q \in [1 .. Len(q) -> S \cup {x}] BY <1>1
  <2> QED BY <2>1, SeqDef
<1> DEFINE t == Append(q, x)
           n == Len(q)
<1>3. /\ t \in Seq(S \cup {x}) /\ DOMAIN t = 1 .. n + 1 /\ DOMAIN q = 1 .. n /\ Len(t) = n + 1
      /\ t[n + 1] = x /\ \A k \in 1 .. n : t[k] = q[k]
  BY <1>2
<1>4. Row(t) BY <1>3 DEF Row
<1> HIDE DEF t, n
<1>5. n \in Nat BY <1>2 DEF n
<1>6. DOMAIN Recs(t) = 1 .. n + 1 /\ DOMAIN Recs(q) = 1 .. n BY <1>3 DEF Recs
<1>7. \A k \in 1 .. n : Recs(t)[k] = Recs(q)[k]
  <2>1. \A k \in 1 .. n : k \in 1 .. n + 1 BY <1>5
  <2> QED BY <1>3, <2>1 DEF Recs
<1>8. Recs(t)[n + 1] = x.recs
  <2>1. n + 1 \in 1 .. n + 1 BY <1>5
  <2> QED BY <1>3, <2>1 DEF Recs
<1> QED BY <1>3, <1>4, <1>5, <1>6, <1>7, <1>8 DEF t, n

\* p has one run more than the n of q.
Grows(p, q, n, part) ==
    /\ n \in Nat /\ DOMAIN q = 1 .. n /\ DOMAIN p = 1 .. n + 1
    /\ p[n + 1] = part /\ \A k \in 1 .. n : p[k] = q[k]

LEMMA SortedGrows ==
    ASSUME NEW D, NEW R, NEW q, NEW p, NEW n, NEW part, Grows(p, q, n, part), Sorted(q, R, D),
           part \in Seq(D), Rising(part, R), Members(part) \cap Held(q) = {}
    PROVE  Sorted(p, R, D) /\ Held(p) = Held(q) \cup Members(part)
<1>0. /\ n \in Nat /\ DOMAIN q = 1 .. n /\ DOMAIN p = 1 .. n + 1 /\ \A k \in 1 .. n : p[k] = q[k]
      /\ p[n + 1] = part
  BY DEF Grows
<1>1. \A k \in DOMAIN p : k = n + 1 \/ (k \in DOMAIN q /\ p[k] = q[k]) BY <1>0
<1>2. n + 1 \in DOMAIN p /\ \A k \in DOMAIN q : k \in DOMAIN p /\ p[k] = q[k] BY <1>0
<1>3. \A k \in DOMAIN q : Members(q[k]) \cap Members(p[n + 1]) = {} BY <1>0, InHeld
<1>4. Sorted(p, R, D)
  <2>1. \A k \in DOMAIN p : p[k] \in Seq(D) /\ Rising(p[k], R) BY <1>0, <1>1 DEF Sorted
  <2>2. ASSUME NEW j \in DOMAIN p, NEW k \in DOMAIN p, j # k
        PROVE  Members(p[j]) \cap Members(p[k]) = {}
    <3>1. CASE j = n + 1
      <4>1. k \in DOMAIN q /\ p[k] = q[k] BY <1>1, <2>2, <3>1
      <4> QED BY <1>3, <3>1, <4>1
    <3>2. CASE k = n + 1
      <4>1. j \in DOMAIN q /\ p[j] = q[j] BY <1>1, <2>2, <3>2
      <4> QED BY <1>3, <3>2, <4>1
    <3>3. CASE j # n + 1 /\ k # n + 1 BY <1>1, <2>2, <3>3 DEF Sorted
    <3> QED BY <3>1, <3>2, <3>3
  <2> QED BY <2>1, <2>2 DEF Sorted
<1>5. ASSUME NEW x \in Held(p) PROVE x \in Held(q) \cup Members(p[n + 1])
  <2>1. PICK k \in DOMAIN p : x \in Members(p[k]) BY InHeld
  <2> QED BY <1>1, <2>1, InHeld
<1>6. ASSUME NEW x \in Held(q) \cup Members(p[n + 1]) PROVE x \in Held(p)
  <2>1. CASE x \in Members(p[n + 1]) BY <1>2, <2>1, InHeld
  <2>2. CASE x \in Held(q)
    <3>1. PICK k \in DOMAIN q : x \in Members(q[k]) BY <2>2, InHeld
    <3> QED BY <1>2, <3>1, InHeld
  <2> QED BY <2>1, <2>2
<1> QED BY <1>0, <1>4, <1>5, <1>6

\* What a spill writes.
LEMMA InOrderRises ==
    ASSUME NEW D, NEW R, Linear(R, D), \A e, f \in D : <<e, f>> \in R <=> RunBefore(e, f),
           NEW s \in Seq(D), Once(s), NEW t, t = InOrder(s, RunBefore)
    PROVE  t \in Seq(D) /\ Len(t) = Len(s) /\ Rising(t, R) /\ Members(t) = Members(s)
<1> DEFINE low(i) == {j \in DOMAIN s : RunBefore(s[j], s[i])}
           pick(k) == CHOOSE i \in DOMAIN s : Cardinality(low(i)) = k - 1
<1>1. DOMAIN s = 1 .. Len(s) /\ \A i \in DOMAIN s : s[i] \in D OBVIOUS
<1>2. \A i \in DOMAIN s : low(i) = Earlier(s, R, i) BY <1>1 DEF Earlier
<1>3. t = [k \in DOMAIN s |-> s[pick(k)]] BY DEF InOrder
<1>4. \A k \in DOMAIN s : \E i \in DOMAIN s : Cardinality(Earlier(s, R, i)) = k - 1 BY EarlierRanks
<1> HIDE DEF low
<1>5. \A k \in DOMAIN s : \E i \in DOMAIN s : Cardinality(low(i)) = k - 1 BY <1>2, <1>4
<1>6. \A k \in DOMAIN s : pick(k) \in DOMAIN s /\ Cardinality(low(pick(k))) = k - 1
  <2> TAKE k \in DOMAIN s
  <2>1. \E i \in DOMAIN s : Cardinality(low(i)) = k - 1 BY <1>5
  <2> QED BY <2>1
<1> HIDE DEF pick
<1>7. \A k \in DOMAIN s : t[k] = s[pick(k)] BY <1>3
<1>8. DOMAIN t = DOMAIN s /\ t = [k \in DOMAIN t |-> t[k]] BY <1>3
<1>9. \A k \in DOMAIN s : \E i \in DOMAIN s : t[k] = s[i] /\ Cardinality(Earlier(s, R, i)) = k - 1
  BY <1>2, <1>6, <1>7
<1>10. Arranges(t, s, R) BY <1>8, <1>9 DEF Arranges
<1> QED BY <1>8, <1>10, Arranged

-----------------------------------------------------------------------------
(* sort.                                                                   *)

Entry(r) == [key |-> SortKey(r.line), load |-> r.no]
Entries == {Entry(r) : r \in Records}
EntriesOf(c) == {Entry(r) : r \in Taken(c)}
Lower == {p \in Entries \X Entries : RunBefore(p[1], p[2])}

\* By key, one way or the other, and equals by number.
ByKey(largest) ==
    {p \in Entries \X Entries :
        \/ IF largest THEN Before(p[2].key, p[1].key) ELSE Before(p[1].key, p[2].key)
        \/ p[1].key = p[2].key /\ p[1].load < p[2].load}

LEMMA EntryFacts ==
    ASSUME Asked
    PROVE  /\ \A r \in Records : /\ Entry(r) \in Entries /\ Entry(r).load = r.no
                                 /\ Entry(r).key = SortKey(r.line)
           /\ \A e \in Entries : \E r \in Records : e = Entry(r)
           /\ \A r, s \in Records : Entry(r) = Entry(s) => r = s
           /\ \A e \in Entries : e.key \in Texts /\ e.load \in Int
           /\ \A e, f \in Entries : e.load = f.load => e = f
<1>1. /\ \A r \in Records : /\ Entry(r) \in Entries /\ Entry(r).load = r.no
                            /\ Entry(r).key = SortKey(r.line)
      /\ \A e \in Entries : \E r \in Records : e = Entry(r)
  BY DEF Entries, Entry
<1>2. \A r \in Records : SortKey(r.line) \in Texts /\ r.no \in Int
  <2> TAKE r \in Records
  <2>1. Columned /\ Keyed(r.line) /\ r.no \in Int BY AskedFacts, RecordFacts
  <2> QED BY <2>1, KeysDecide
<1>3. \A r, s \in Records : r.no = s.no => r = s BY RecordFacts
<1>4. \A r, s \in Records : Entry(r) = Entry(s) => r = s BY <1>1, <1>3
<1>5. \A e \in Entries : e.key \in Texts /\ e.load \in Int BY <1>1, <1>2
<1>6. \A e, f \in Entries : e.load = f.load => e = f BY <1>1, <1>3
<1> QED BY <1>1, <1>4, <1>5, <1>6

LEMMA ByKeyOrders ==
    ASSUME Asked, NEW largest \in BOOLEAN
    PROVE  /\ Linear(ByKey(largest), Entries)
           /\ \A e, f \in Entries : <<e, f>> \in ByKey(largest) <=>
                \/ (IF largest THEN Before(f.key, e.key) ELSE Before(e.key, f.key))
                \/ e.key = f.key /\ e.load < f.load
<1>1. \A e, f \in Entries : <<e, f>> \in ByKey(largest) <=>
         \/ (IF largest THEN Before(f.key, e.key) ELSE Before(e.key, f.key))
         \/ e.key = f.key /\ e.load < f.load
  BY DEF ByKey
<1>2. \A e \in Entries : e.key \in Texts /\ e.load \in Int BY EntryFacts
<1>3. \A e \in Entries : <<e, e>> \notin ByKey(largest) BY <1>1, <1>2, BeforeOrders
<1>4. ASSUME NEW e \in Entries, NEW f \in Entries, e # f
      PROVE  <<e, f>> \in ByKey(largest) \/ <<f, e>> \in ByKey(largest)
  <2>1. e.load # f.load /\ e.load \in Int /\ f.load \in Int BY <1>2, <1>4, EntryFacts
  <2>2. e.load < f.load \/ f.load < e.load BY <2>1
  <2>3. e.key = f.key \/ Before(e.key, f.key) \/ Before(f.key, e.key) BY <1>2, BeforeOrders
  <2> QED BY <1>1, <2>2, <2>3
<1>5. ASSUME NEW e \in Entries, NEW f \in Entries, NEW g \in Entries,
             <<e, f>> \in ByKey(largest), <<f, g>> \in ByKey(largest)
      PROVE  <<e, g>> \in ByKey(largest)
  <2>1. e.key \in Texts /\ f.key \in Texts /\ g.key \in Texts /\ e.load \in Int /\ f.load \in Int
        /\ g.load \in Int
    BY <1>2
  <2>2. e.load < f.load /\ f.load < g.load => e.load < g.load BY <2>1
  <2>3. CASE largest
    <3>1. Before(f.key, e.key) \/ (e.key = f.key /\ e.load < f.load) BY <1>1, <1>5, <2>3
    <3>2. Before(g.key, f.key) \/ (f.key = g.key /\ f.load < g.load) BY <1>1, <1>5, <2>3
    <3>3. Before(g.key, e.key) \/ (e.key = g.key /\ e.load < g.load)
      BY <2>1, <2>2, <3>1, <3>2, BeforeOrders
    <3> QED BY <1>1, <2>3, <3>3
  <2>4. CASE ~largest
    <3>1. Before(e.key, f.key) \/ (e.key = f.key /\ e.load < f.load) BY <1>1, <1>5, <2>4
    <3>2. Before(f.key, g.key) \/ (f.key = g.key /\ f.load < g.load) BY <1>1, <1>5, <2>4
    <3>3. Before(e.key, g.key) \/ (e.key = g.key /\ e.load < g.load)
      BY <2>1, <2>2, <3>1, <3>2, BeforeOrders
    <3> QED BY <1>1, <2>4, <3>3
  <2> QED BY <2>3, <2>4
<1> QED BY <1>1, <1>3, <1>4, <1>5 DEF Linear

\* In the order asked for, entries stand as their records do.
LEMMA EntriesPrecede ==
    ASSUME Asked, NEW r \in Records, NEW s \in Records
    PROVE  <<Entry(r), Entry(s)>> \in ByKey(task.reverse) <=> Precedes(r, s)
<1>1. task.reverse \in BOOLEAN BY AskedFacts
<1>2. /\ Entry(r) \in Entries /\ Entry(r).load = r.no /\ Entry(r).key = SortKey(r.line)
      /\ Entry(s) \in Entries /\ Entry(s).load = s.no /\ Entry(s).key = SortKey(s.line)
  BY EntryFacts
<1> QED BY <1>1, <1>2, ByKeyOrders, PrecedesIs

LEMMA LowerOrders ==
    ASSUME Asked, task.op = "sort"
    PROVE  /\ Linear(Lower, Entries)
           /\ \A e, f \in Entries : <<e, f>> \in Lower <=> RunBefore(e, f)
           /\ \A r \in Records : Entry(r) \in Entries /\ Entry(r).load = r.no
           /\ \A e \in Entries : \E r \in Records : e = Entry(r)
           /\ \A r, s \in Records : /\ <<Entry(r), Entry(s)>> \in Lower <=> Precedes(r, s)
                                    /\ Entry(r) = Entry(s) => r = s
<1>1. \A e, f \in Entries : <<e, f>> \in Lower <=> RunBefore(e, f) BY DEF Lower
<1>2. \A e, f \in Entries : RunBefore(e, f) <=>
         \/ (IF task.reverse THEN Before(f.key, e.key) ELSE Before(e.key, f.key))
         \/ e.key = f.key /\ e.load < f.load
  BY DEF RunBefore, KeyBefore, Turned
<1>3. task.reverse \in BOOLEAN BY AskedFacts
<1>4. \A e, f \in Entries : <<e, f>> \in Lower <=> <<e, f>> \in ByKey(task.reverse)
  BY <1>1, <1>2, <1>3, ByKeyOrders
<1>5. Lower = ByKey(task.reverse)
  <2>1. \A p \in Lower : p \in Entries \X Entries BY DEF Lower
  <2>2. \A p \in ByKey(task.reverse) : p \in Entries \X Entries BY DEF ByKey
  <2> QED BY <1>4, <2>1, <2>2
<1> QED BY <1>1, <1>3, <1>5, ByKeyOrders, EntryFacts, EntriesPrecede

\* What is in memory and in the runs is H, each part once.
SortHolds(w, H) ==
    /\ w.memory \in Seq(Entries) /\ Once(w.memory) /\ Row(w.runs)
    /\ Sorted(Recs(w.runs), Lower, Entries)
    /\ Held(Recs(w.runs)) \cap Members(w.memory) = {}
    /\ Held(Recs(w.runs)) \cup Members(w.memory) = H

Shaped(w) == Fields \subseteq DOMAIN w

LEMMA SpilledFields ==
    ASSUME NEW w, Shaped(w)
    PROVE  /\ Shaped(Spilled(w)) /\ Spilled(w).memory = <<>> /\ Spilled(w).count = w.count
           /\ Spilled(w).runs = Append(w.runs, [file |-> File("run", Len(w.runs), 0),
                                                recs |-> InOrder(w.memory, RunBefore)])
BY DEF Spilled, Shaped, Fields

LEMMA SpilledHolds ==
    ASSUME Asked, task.op = "sort", NEW w, Shaped(w), NEW H, SortHolds(w, H)
    PROVE  /\ SortHolds(Spilled(w), H) /\ Spilled(w).memory = <<>> /\ Shaped(Spilled(w))
           /\ Spilled(w).count = w.count /\ Held(Recs(Spilled(w).runs)) = H
<1> DEFINE m == w.memory
           q == w.runs
           t == InOrder(m, RunBefore)
           x == [file |-> File("run", Len(q), 0), recs |-> t]
           v == Spilled(w)
           n == Len(q)
<1>1. v.memory = <<>> /\ v.runs = Append(q, x) /\ v.count = w.count /\ Shaped(v) BY SpilledFields
<1>2. /\ m \in Seq(Entries) /\ Once(m) /\ Row(q) /\ Sorted(Recs(q), Lower, Entries)
      /\ Held(Recs(q)) \cap Members(m) = {} /\ Held(Recs(q)) \cup Members(m) = H
  BY DEF SortHolds
<1>3. x.recs = t OBVIOUS
<1>4. t \in Seq(Entries) /\ Rising(t, Lower) /\ Members(t) = Members(m)
  <2> HIDE DEF m
  <2>1. t = InOrder(m, RunBefore) OBVIOUS
  <2> HIDE DEF t
  <2> QED BY <1>2, <2>1, LowerOrders, InOrderRises
<1> HIDE DEF m, q, x, v, t, n
<1>5. /\ Row(v.runs) /\ n \in Nat /\ DOMAIN Recs(q) = 1 .. n /\ DOMAIN Recs(v.runs) = 1 .. n + 1
      /\ \A k \in 1 .. n : Recs(v.runs)[k] = Recs(q)[k]
      /\ Recs(v.runs)[n + 1] = t
  <2>1. Row(q) BY <1>2
  <2>2. /\ Row(Append(q, x)) /\ Len(q) \in Nat
        /\ DOMAIN Recs(q) = 1 .. Len(q) /\ DOMAIN Recs(Append(q, x)) = 1 .. Len(q) + 1
        /\ \A k \in 1 .. Len(q) : Recs(Append(q, x))[k] = Recs(q)[k]
        /\ Recs(Append(q, x))[Len(q) + 1] = x.recs
    BY <2>1, AppendedRun
  <2> QED BY <1>1, <1>3, <2>2 DEF n
<1> DEFINE a == Recs(q)
           b == Recs(v.runs)
<1>6. Sorted(b, Lower, Entries) /\ Held(b) = Held(a) \cup Members(t)
  <2>1. b[n + 1] \in Seq(Entries) /\ Rising(b[n + 1], Lower) /\ Members(b[n + 1]) \cap Held(a) = {}
        /\ b[n + 1] = t
    BY <1>2, <1>4, <1>5
  <2>2. DOMAIN a = 1 .. n /\ DOMAIN b = 1 .. n + 1 /\ \A k \in 1 .. n : b[k] = a[k] BY <1>5
  <2>3. Sorted(a, Lower, Entries) BY <1>2
  <2> HIDE DEF a, b
  <2>4. Sorted(b, Lower, Entries) /\ Held(b) = Held(a) \cup Members(b[n + 1])
    <3>1. Grows(b, a, n, t) BY <1>5, <2>1, <2>2 DEF Grows
    <3>2. t \in Seq(Entries) /\ Rising(t, Lower) /\ Members(t) \cap Held(a) = {} BY <2>1
    <3> QED BY <2>1, <2>3, <3>1, <3>2, SortedGrows
  <2> QED BY <2>1, <2>4
<1>7. Members(<<>>) = {} /\ <<>> \in Seq(Entries) /\ Once(<<>>) BY DEF Members, Once
<1>8. SortHolds(v, H) BY <1>1, <1>2, <1>4, <1>5, <1>6, <1>7 DEF SortHolds
<1>9. Held(b) = H BY <1>2, <1>4, <1>6
<1> QED BY <1>1, <1>8, <1>9 DEF v

\* One more record.
LEMMA SortingHolds ==
    ASSUME Asked, task.op = "sort", NEW w, Shaped(w), NEW H, SortHolds(w, H),
           NEW record, NEW r \in Records, record[1] = r.line[1], r.line = <<record[1]>>,
           w.count = r.no, Entry(r) \notin H
    PROVE  /\ SortHolds(Sorting(w, record), H \cup {Entry(r)})
           /\ Shaped(Sorting(w, record)) /\ Sorting(w, record).count = w.count
<1> DEFINE e == [key |-> SortKey(record), load |-> w.count]
           v == [w EXCEPT !.memory = Append(@, e)]
           m == w.memory
<1>1. e = Entry(r)
  <2> DEFINE line == record[1]
  <2>1. record[1] = line OBVIOUS
  <2> HIDE DEF line
  <2>2. SortKey(record) = SortKey(<<line>>) BY <2>1, KeySeesFirst
  <2>3. r.line = <<line>> BY DEF line
  <2> QED BY <2>2, <2>3 DEF Entry
<1>2. v.memory = Append(m, e) /\ v.runs = w.runs /\ v.count = w.count /\ Shaped(v)
  BY DEF Shaped, Fields
<1>3. Sorting(w, record) = SpilledIfFull(v) BY DEF Sorting
<1> HIDE DEF e, v, m
<1>4. e \in Entries /\ e \notin H BY <1>1, LowerOrders
<1>5. /\ m \in Seq(Entries) /\ Once(m) /\ Row(w.runs) /\ Sorted(Recs(w.runs), Lower, Entries)
      /\ Held(Recs(w.runs)) \cap Members(m) = {} /\ Held(Recs(w.runs)) \cup Members(m) = H
  BY DEF SortHolds, m
<1>6. Append(m, e) \in Seq(Entries) /\ Members(Append(m, e)) = Members(m) \cup {e} BY <1>4, <1>5, SeqFacts
<1>7. Once(Append(m, e))
  <2>1. e \notin Members(m) BY <1>4, <1>5
  <2> QED BY <1>4, <1>5, <2>1, AppendOnce
<1>8. SortHolds(v, H \cup {e}) BY <1>2, <1>4, <1>5, <1>6, <1>7 DEF SortHolds
<1>9. CASE Len(v.memory) >= Budget
  <2>1. SpilledIfFull(v) = Spilled(v) BY <1>9 DEF SpilledIfFull
  <2> DEFINE G == H \cup {e}
  <2>2. SortHolds(v, G) BY <1>8
  <2> HIDE DEF G
  <2>3. SortHolds(Spilled(v), G) /\ Shaped(Spilled(v)) /\ Spilled(v).count = v.count
    BY <1>2, <2>2, SpilledHolds
  <2> QED BY <1>1, <1>2, <1>3, <2>1, <2>3 DEF G
<1>10. CASE ~(Len(v.memory) >= Budget)
  <2>1. SpilledIfFull(v) = v BY <1>10 DEF SpilledIfFull
  <2> QED BY <1>1, <1>2, <1>3, <1>8, <2>1
<1> QED BY <1>9, <1>10

LEMMA SortTaking ==
    ASSUME task.op = "sort", NEW w, NEW record, Shaped(Sorting(w, record)),
           Sorting(w, record).count = w.count
    PROVE  /\ Taking(w, record).memory = Sorting(w, record).memory
           /\ Taking(w, record).runs = Sorting(w, record).runs
           /\ Taking(w, record).count = w.count + 1 /\ Shaped(Taking(w, record))
<1>1. Taking(w, record) = [Sorting(w, record) EXCEPT !.count = @ + 1] BY DEF Taking
<1> DEFINE v == Sorting(w, record)
<1>2. Shaped(v) /\ v.count = w.count OBVIOUS
<1> HIDE DEF v
<1>3. Taking(w, record) = [v EXCEPT !.count = @ + 1] BY <1>1 DEF v
<1>4. /\ Taking(w, record).memory = v.memory /\ Taking(w, record).runs = v.runs
      /\ Taking(w, record).count = w.count + 1 /\ Shaped(Taking(w, record))
  BY <1>2, <1>3 DEF Shaped, Fields
<1> QED BY <1>4 DEF v

-----------------------------------------------------------------------------
(* Its merge.                                                              *)

Part(q, lo, hi) == UNION {Members(q[k]) : k \in lo .. hi}

LastOf(w) == Len(w.runs) <= FanIn

\* The runs hold all there is; those merged in this pass hold what the next
\* one begins with; what is being merged is in the output and in the readers.
MergeOK(w) ==
    /\ Shaped(w) /\ Row(w.runs) /\ Row(w.next) /\ w.from \in 0 .. Len(w.runs)
    /\ LastOf(w) => w.from = 0 /\ w.next = <<>>
    /\ Sorted(Recs(w.runs), Lower, Entries) /\ Held(Recs(w.runs)) = Entries
    /\ Sorted(Recs(w.next), Lower, Entries)
    /\ Held(Recs(w.next)) = Part(Recs(w.runs), 1, w.from)
    /\ Row(w.readers) /\ w.out \in Seq(Entries) /\ Rising(w.out, Lower)
    /\ w.readers = <<>> => w.out = <<>>
    /\ w.readers # <<>> =>
         /\ w.from + Len(w.readers) =
              IF LastOf(w) THEN Len(w.runs) ELSE Lesser(w.from + FanIn, Len(w.runs))
         /\ Sorted(w.readers, Lower, Entries)
         /\ Held(w.readers) \cup Members(w.out)
              = Part(Recs(w.runs), w.from + 1, w.from + Len(w.readers))
         /\ \A x \in Members(w.out), y \in Held(w.readers) : <<x, y>> \in Lower

LEMMA InPart == \A q, lo, hi, x : x \in Part(q, lo, hi) <=> \E k \in lo .. hi : x \in Members(q[k])
BY DEF Part

LEMMA RowFacts ==
    ASSUME NEW q, Row(q)
    PROVE  /\ Len(q) \in Nat /\ DOMAIN q = 1 .. Len(q) /\ (q = <<>> <=> Len(q) = 0)
           /\ DOMAIN Recs(q) = 1 .. Len(q) /\ \A k \in 1 .. Len(q) : Recs(q)[k] = q[k].recs
           /\ Held(Recs(q)) = Part(Recs(q), 1, Len(q))
<1>1. PICK S : q \in Seq(S) BY DEF Row
<1>2. Len(q) \in Nat /\ DOMAIN q = 1 .. Len(q) /\ (q = <<>> <=> Len(q) = 0) BY <1>1
<1>3. DOMAIN Recs(q) = 1 .. Len(q) /\ \A k \in 1 .. Len(q) : Recs(q)[k] = q[k].recs BY <1>2 DEF Recs
<1>4. Held(Recs(q)) = Part(Recs(q), 1, Len(q)) BY <1>3 DEF Held, Part
<1> QED BY <1>2, <1>3, <1>4

\* p is the m of the n of q after the first f.
Slice(p, m, q, n, f) ==
    /\ n \in Nat /\ f \in Nat /\ m \in Nat /\ f + m <= n
    /\ DOMAIN q = 1 .. n /\ DOMAIN p = 1 .. m /\ \A k \in 1 .. m : p[k] = q[f + k]

\* The readers of some of the runs.
LEMMA ReadersOpen ==
    ASSUME NEW D, NEW R, NEW q, Sorted(q, R, D), NEW n, NEW f, NEW m, NEW p, Slice(p, m, q, n, f)
    PROVE  Sorted(p, R, D) /\ Held(p) = Part(q, f + 1, f + m)
<1>0. /\ n \in Nat /\ f \in Nat /\ m \in Nat /\ f + m <= n
      /\ DOMAIN q = 1 .. n /\ DOMAIN p = 1 .. m /\ \A k \in 1 .. m : p[k] = q[f + k]
  BY DEF Slice
<1>1. \A k \in DOMAIN p : f + k \in DOMAIN q /\ p[k] = q[f + k] /\ f + k \in f + 1 .. f + m BY <1>0
<1>2. \A j, k \in DOMAIN p : j # k => f + j # f + k BY <1>0
<1>3. \A i \in f + 1 .. f + m : i - f \in DOMAIN p /\ p[i - f] = q[i]
  <2> TAKE i \in f + 1 .. f + m
  <2>1. i - f \in 1 .. m /\ f + (i - f) = i BY <1>0
  <2> QED BY <1>0, <2>1
<1>4. Sorted(p, R, D)
  <2>1. \A k \in DOMAIN p : p[k] \in Seq(D) /\ Rising(p[k], R) BY <1>1 DEF Sorted
  <2>2. ASSUME NEW j \in DOMAIN p, NEW k \in DOMAIN p, j # k
        PROVE  Members(p[j]) \cap Members(p[k]) = {}
    <3>1. f + j \in DOMAIN q /\ f + k \in DOMAIN q /\ f + j # f + k BY <1>1, <1>2, <2>2
    <3>2. Members(q[f + j]) \cap Members(q[f + k]) = {} BY <3>1 DEF Sorted
    <3> QED BY <1>1, <3>2
  <2> QED BY <2>1, <2>2 DEF Sorted
<1>5. ASSUME NEW x \in Held(p) PROVE x \in Part(q, f + 1, f + m)
  <2>1. PICK k \in DOMAIN p : x \in Members(p[k]) BY InHeld
  <2> QED BY <1>1, <2>1, InPart
<1>6. ASSUME NEW x \in Part(q, f + 1, f + m) PROVE x \in Held(p)
  <2>1. PICK i \in f + 1 .. f + m : x \in Members(q[i]) BY InPart
  <2> QED BY <1>3, <2>1, InHeld
<1> QED BY <1>4, <1>5, <1>6

Opening(w, c) == [w EXCEPT !.readers = [k \in DOMAIN c |-> c[k].recs], !.out = <<>>]

\* BeginMerge.
LEMMA BeginHolds ==
    ASSUME Asked, NEW w, MergeOK(w), w.readers = <<>>,
           NEW c, c = IF LastOf(w) THEN w.runs ELSE SubSeq(w.runs, w.from + 1, Lesser(w.from + FanIn, Len(w.runs))),
           c # <<>>, NEW v, v = Opening(w, c)
    PROVE  MergeOK(v)
<1> DEFINE readers == [k \in DOMAIN c |-> c[k].recs]
           q == w.runs
           f == w.from
           n == Len(q)
           u == Lesser(f + FanIn, n)
           m == IF LastOf(w) THEN n ELSE u - f
<1>1. /\ v.readers = readers /\ v.out = <<>> /\ v.runs = q /\ v.next = w.next /\ v.from = f /\ Shaped(v)
  BY DEF MergeOK, Shaped, Fields, Opening
<1>2. /\ Row(q) /\ f \in 0 .. n /\ (LastOf(w) => f = 0) /\ FanIn \in Nat \ {0}
      /\ Sorted(Recs(q), Lower, Entries)
  BY AskedFacts DEF MergeOK
<1>3. /\ n \in Nat /\ DOMAIN q = 1 .. n /\ DOMAIN Recs(q) = 1 .. n
      /\ \A k \in 1 .. n : Recs(q)[k] = q[k].recs
  BY <1>2, RowFacts
<1>4. u \in f .. n /\ m \in Nat /\ f + m <= n /\ f + m = IF LastOf(w) THEN n ELSE u
  <2> DEFINE wholly == LastOf(w)
  <2> HIDE DEF wholly
  <2>0. f \in Nat /\ n \in Nat /\ f <= n /\ FanIn \in Nat /\ (wholly => f = 0) BY <1>2, <1>3 DEF wholly
  <2> HIDE DEF f, n
  <2>1. u \in f .. n
    <3>1. CASE f + FanIn < n BY ONLY <2>0, <3>1 DEF Lesser
    <3>2. CASE ~(f + FanIn < n) BY ONLY <2>0, <3>2 DEF Lesser
    <3> QED BY <3>1, <3>2
  <2> HIDE DEF u
  <2>2. m = IF wholly THEN n ELSE u - f BY DEF wholly
  <2> HIDE DEF m
  <2>3. m \in Nat /\ f + m <= n /\ f + m = IF wholly THEN n ELSE u
    <3>1. CASE wholly BY ONLY <2>0, <2>2, <3>1
    <3>2. CASE ~wholly BY ONLY <2>0, <2>1, <2>2, <3>2
    <3> QED BY <3>1, <3>2
  <2> QED BY <2>1, <2>3 DEF wholly
<1>5. PICK S : q \in Seq(S) BY <1>2 DEF Row
<1>6. c \in Seq(S) /\ Len(c) = m /\ \A k \in 1 .. m : c[k] = q[f + k]
  <2>1. CASE LastOf(w) BY <1>2, <1>3, <1>5, <2>1
  <2>2. CASE ~LastOf(w)
    <3> DEFINE a == f + 1
               t == SubSeq(q, a, u)
    <3>1. c = t /\ m = u - f BY <2>2
    <3> HIDE DEF u, f, n, q, m
    <3>2. a \in 1 .. n + 1 /\ u \in a - 1 .. n /\ u - a + 1 = u - f
      <4>1. f \in Nat /\ n \in Nat /\ f <= n /\ u \in f .. n BY <1>2, <1>3, <1>4
      <4> QED BY ONLY <4>1
    <3>3. t \in Seq(S) /\ Len(t) = u - f /\ \A k \in 1 .. u - f : t[k] = q[f + k]
      <4>1. \A k \in 1 .. u - f : a + k - 1 = f + k BY <1>2
      <4> HIDE DEF a
      <4>2. a \in Int /\ u \in Int BY <3>2
      <4>3. t \in Seq(S) /\ Len(t) = u - a + 1 /\ \A k \in 1 .. u - a + 1 : t[k] = q[a + k - 1]
        BY <1>3, <1>5, <3>2, <4>2
      <4> QED BY <3>2, <4>1, <4>3
    <3> QED BY <3>1, <3>3
  <2> QED BY <2>1, <2>2
<1> HIDE DEF q, f, n, u
<1>7. DOMAIN c = 1 .. m /\ DOMAIN readers = 1 .. m /\ \A k \in 1 .. m : readers[k] = c[k].recs BY <1>6
<1>8. \A k \in 1 .. m : readers[k] = Recs(q)[f + k]
  <2> TAKE k \in 1 .. m
  <2>1. f + k \in 1 .. n BY <1>2, <1>3, <1>4
  <2> QED BY <1>3, <1>6, <1>7, <2>1
<1>9. Row(readers) /\ Len(readers) = m /\ readers # <<>>
  <2> DEFINE T == {readers[k] : k \in 1 .. m}
  <2>1. readers \in [1 .. m -> T] BY <1>7
  <2> HIDE DEF readers, m, T
  <2>2. readers \in Seq(T) BY <1>4, <2>1, SeqDef
  <2>3. Len(readers) = m BY <1>4, <1>7, <2>2
  <2>4. m # 0 BY <1>6
  <2> QED BY <2>2, <2>3, <2>4 DEF Row
<1> HIDE DEF readers, m
<1>10. Sorted(readers, Lower, Entries) /\ Held(readers) = Part(Recs(q), f + 1, f + m)
  <2> DEFINE b == Recs(q)
  <2>1. Sorted(b, Lower, Entries) /\ DOMAIN b = 1 .. n /\ \A k \in 1 .. m : readers[k] = b[f + k]
    BY <1>2, <1>3, <1>8
  <2> HIDE DEF b
  <2>2. Sorted(readers, Lower, Entries) /\ Held(readers) = Part(b, f + 1, f + m)
    <3>1. n \in Nat /\ f \in Nat /\ m \in Nat /\ f + m <= n /\ DOMAIN readers = 1 .. m
      BY <1>2, <1>3, <1>4, <1>7
    <3>2. Slice(readers, m, b, n, f) BY <2>1, <3>1 DEF Slice
    <3> QED BY <2>1, <3>2, ReadersOpen
  <2> QED BY <2>2 DEF b
<1>11. Members(<<>>) = {} /\ <<>> \in Seq(Entries) /\ Rising(<<>>, Lower) BY DEF Members, Rising
<1>12. LastOf(v) <=> LastOf(w) BY <1>1 DEF LastOf, q
<1>13. v.from + Len(v.readers) = IF LastOf(v) THEN Len(v.runs) ELSE Lesser(v.from + FanIn, Len(v.runs))
  <2>1. v.from = f /\ Len(v.readers) = m /\ Len(v.runs) = n BY <1>1, <1>9 DEF n
  <2>2. u = Lesser(f + FanIn, n) BY DEF u
  <2>3. f + m = IF LastOf(w) THEN n ELSE u BY <1>4
  <2> QED BY ONLY <1>12, <2>1, <2>2, <2>3
<1>14. /\ v.readers # <<>> /\ Sorted(v.readers, Lower, Entries)
       /\ Held(v.readers) \cup Members(v.out) = Part(Recs(v.runs), v.from + 1, v.from + Len(v.readers))
       /\ \A x \in Members(v.out), y \in Held(v.readers) : <<x, y>> \in Lower
  BY <1>1, <1>9, <1>10, <1>11
<1>15. /\ Row(v.readers) /\ v.out \in Seq(Entries) /\ Rising(v.out, Lower) BY <1>1, <1>9, <1>11
<1> QED BY <1>1, <1>12, <1>13, <1>14, <1>15 DEF MergeOK, q, f

\* Pump.
LEMMA PumpHolds ==
    ASSUME Asked, task.op = "sort", NEW w, MergeOK(w), \E r \in DOMAIN w.readers : w.readers[r] # <<>>,
           NEW r, r = NextReader(w.readers), NEW v,
           v = [w EXCEPT !.readers[r] = Tail(@), !.out = Append(@, Head(w.readers[r]))]
    PROVE  MergeOK(v)
<1> DEFINE q == w.readers
           e == Head(q[r])
           p == [q EXCEPT ![r] = Tail(@)]
           o == Append(w.out, e)
           S == {t \in DOMAIN q : q[t] # <<>>}
<1>0. Linear(Lower, Entries) BY LowerOrders
<1>1. /\ Shaped(w) /\ Row(q) /\ w.out \in Seq(Entries) /\ Rising(w.out, Lower) BY DEF MergeOK
<1>2. Len(q) \in Nat /\ DOMAIN q = 1 .. Len(q) /\ q # <<>>
  <2>1. Len(q) \in Nat /\ DOMAIN q = 1 .. Len(q) /\ (q = <<>> <=> Len(q) = 0) BY <1>1, RowFacts
  <2> QED BY <2>1
<1>3. /\ Sorted(q, Lower, Entries)
      /\ Held(q) \cup Members(w.out) = Part(Recs(w.runs), w.from + 1, w.from + Len(q))
      /\ \A x \in Members(w.out), y \in Held(q) : <<x, y>> \in Lower
  BY <1>2 DEF MergeOK
<1>4. v.readers = p /\ v.out = o /\ v.runs = w.runs /\ v.next = w.next /\ v.from = w.from /\ Shaped(v)
  <2> DEFINE b == [w EXCEPT !.readers = p]
  <2>1. b.readers = p /\ b.out = w.out /\ b.runs = w.runs /\ b.next = w.next /\ b.from = w.from
        /\ DOMAIN b = DOMAIN w
    BY <1>1 DEF Shaped, Fields
  <2>2. v = [b EXCEPT !.out = o]
    <3>1. v = [[w EXCEPT !.readers = p] EXCEPT !.out = o] OBVIOUS
    <3> QED BY <3>1
  <2> HIDE DEF b
  <2> QED BY <1>1, <2>1, <2>2 DEF Shaped, Fields
<1> HIDE DEF p, o, q
<1>5. S # {} /\ S \subseteq DOMAIN q BY DEF q
<1>6. r \in S /\ \A t \in S \ {r} : PopBefore(Head(q[r]), r, Head(q[t]), t)
  <2> HIDE DEF e
  <2>a. PICK t : Foremost(q, Lower, t)
    <3> DEFINE n == Len(q)
    <3>1. n \in Nat /\ DOMAIN q = 1 .. n /\ \E s \in DOMAIN q : q[s] # <<>> BY <1>2, <1>5
    <3>2. Sorted(q, Lower, Entries) BY <1>3
    <3> HIDE DEF n
    <3> QED BY ONLY <1>0, <3>1, <3>2, FirstExists
  <2>1. /\ t \in DOMAIN q /\ q[t] # <<>>
        /\ \A s \in DOMAIN q : s # t /\ q[s] # <<>> => <<Head(q[t]), Head(q[s])>> \in Lower
    BY <2>a DEF Foremost
  <2>2. \A s \in S \ {t} : PopBefore(Head(q[t]), t, Head(q[s]), s)
    <3> TAKE s \in S \ {t}
    <3>1. <<Head(q[t]), Head(q[s])>> \in Lower BY <2>1
    <3>2. RunBefore(Head(q[t]), Head(q[s])) BY <3>1 DEF Lower
    <3> QED BY <3>2 DEF RunBefore, PopBefore
  <2>3. t \in S BY <2>1
  <2>4. NextReader(q) = CHOOSE i \in S : \A s \in S \ {i} : PopBefore(Head(q[i]), i, Head(q[s]), s)
    BY DEF NextReader
  <2>5. r = NextReader(q) BY DEF q
  <2> HIDE DEF S
  <2> QED BY <2>2, <2>3, <2>4, <2>5
<1>7. r \in DOMAIN q /\ q[r] # <<>> BY <1>6
<1>8. \A t \in DOMAIN q : t # r /\ q[t] # <<>> => <<e, Head(q[t])>> \in Lower
  <2> SUFFICES ASSUME NEW t \in DOMAIN q, t # r, q[t] # <<>> PROVE <<e, Head(q[t])>> \in Lower OBVIOUS
  <2>1. PopBefore(Head(q[r]), r, Head(q[t]), t) BY <1>6
  <2>2. RunBefore(e, Head(q[t])) BY <2>1 DEF PopBefore, RunBefore
  <2>3. e \in Entries /\ Head(q[t]) \in Entries
    <3>1. q[t] \in Seq(Entries) /\ q[r] \in Seq(Entries) BY <1>3, <1>7 DEF Sorted
    <3> QED BY <1>7, <3>1, SeqFacts
  <2> QED BY <2>2, <2>3, LowerOrders
<1>9. /\ Sorted(p, Lower, Entries) /\ DOMAIN p = DOMAIN q
      /\ Held(q) = Held(p) \cup {e} /\ e \notin Held(p) /\ e \in Entries
  <2>1. Pops(p, q, r) BY <1>7 DEF p, Pops
  <2>2. Sorted(q, Lower, Entries) BY <1>3
  <2> QED BY <1>0, <2>1, <2>2, PoppedRun
<1>10. \A x \in Held(q) : x # e => <<e, x>> \in Lower BY <1>0, <1>3, <1>7, <1>8, FirstOfAll DEF Foremost
<1> HIDE DEF e
<1>11. o \in Seq(Entries) /\ Rising(o, Lower) /\ Members(o) = Members(w.out) \cup {e}
  <2> DEFINE s == w.out
  <2>1. s \in Seq(Entries) /\ Rising(s, Lower) /\ e \in Entries /\ \A x \in Members(s) : <<x, e>> \in Lower
    BY <1>1, <1>3, <1>9
  <2> HIDE DEF s
  <2>2. Append(s, e) \in Seq(Entries) /\ Rising(Append(s, e), Lower) BY <2>1, AppendRises
  <2>3. Members(Append(s, e)) = Members(s) \cup {e} BY <2>1, SeqFacts
  <2> QED BY <2>2, <2>3 DEF o, s
<1>12. \A x \in Members(o), y \in Held(p) : <<x, y>> \in Lower BY <1>3, <1>9, <1>10, <1>11
<1>13. Held(p) \cup Members(o) = Held(q) \cup Members(w.out) BY <1>9, <1>11
<1>14. Row(p) /\ Len(p) = Len(q) /\ p # <<>>
  <2> DEFINE T == {p[k] : k \in 1 .. Len(q)}
             n == Len(q)
  <2>1. p \in [1 .. n -> T] BY <1>2, <1>9 DEF p
  <2>2. n \in Nat /\ n # 0
    <3>1. q = <<>> <=> Len(q) = 0 BY <1>1, RowFacts
    <3> QED BY <1>2, <3>1
  <2> HIDE DEF T, n
  <2>3. p \in Seq(T) BY <2>1, <2>2, SeqDef
  <2>4. Len(p) = n BY <2>1, <2>2, <2>3
  <2> QED BY <2>2, <2>3, <2>4 DEF Row, n
<1>15. LastOf(v) <=> LastOf(w) BY <1>4 DEF LastOf
<1>16. /\ w.from \in 0 .. Len(w.runs) /\ Row(w.runs) /\ Row(w.next)
       /\ (LastOf(w) => w.from = 0 /\ w.next = <<>>)
       /\ Sorted(Recs(w.runs), Lower, Entries) /\ Held(Recs(w.runs)) = Entries
       /\ Sorted(Recs(w.next), Lower, Entries)
       /\ Held(Recs(w.next)) = Part(Recs(w.runs), 1, w.from)
       /\ w.from + Len(q) = IF LastOf(w) THEN Len(w.runs) ELSE Lesser(w.from + FanIn, Len(w.runs))
  BY <1>2 DEF MergeOK, q
<1> QED BY <1>3, <1>4, <1>9, <1>11, <1>12, <1>13, <1>14, <1>15, <1>16 DEF MergeOK

\* EndChunk.
LEMMA ChunkHolds ==
    ASSUME Asked, NEW w, MergeOK(w), ~LastOf(w), w.readers # <<>>,
           \A r \in DOMAIN w.readers : w.readers[r] = <<>>,
           NEW x, x.recs = w.out, NEW v,
           v = IF w.from + FanIn < Len(w.runs)
               THEN [w EXCEPT !.readers = <<>>, !.out = <<>>, !.from = @ + FanIn, !.next = Append(w.next, x)]
               ELSE [w EXCEPT !.runs = Append(w.next, x), !.readers = <<>>, !.out = <<>>, !.from = 0,
                              !.next = <<>>, !.pass = @ + 1]
    PROVE  MergeOK(v)
<1> DEFINE q == Recs(w.runs)
           n == Len(w.runs)
           f == w.from
           u == f + Len(w.readers)
           a == Recs(w.next)
           z == Append(w.next, x)
           b == Recs(z)
           o == w.out
           l == Len(w.next)
<1>1. /\ Shaped(w) /\ Row(w.runs) /\ Row(w.next) /\ f \in 0 .. n
      /\ Sorted(q, Lower, Entries) /\ Held(q) = Entries
      /\ Sorted(a, Lower, Entries) /\ Held(a) = Part(q, 1, f)
      /\ o \in Seq(Entries) /\ Rising(o, Lower)
      /\ u = Lesser(f + FanIn, n)
      /\ Held(w.readers) \cup Members(o) = Part(q, f + 1, u)
  BY DEF MergeOK
<1>2. /\ n \in Nat /\ DOMAIN q = 1 .. n /\ Held(q) = Part(q, 1, n) /\ FanIn \in Nat \ {0}
  BY <1>1, RowFacts, AskedFacts
<1>3. Held(w.readers) = {}
  <2>1. \A k \in DOMAIN w.readers : Members(w.readers[k]) = {} BY DEF Members
  <2> QED BY <2>1 DEF Held
<1>4. /\ Row(z) /\ l \in Nat /\ DOMAIN a = 1 .. l /\ DOMAIN b = 1 .. l + 1
      /\ \A k \in 1 .. l : b[k] = a[k]
      /\ b[l + 1] = o
  <2>1. /\ Row(Append(w.next, x)) /\ Len(w.next) \in Nat
        /\ DOMAIN Recs(w.next) = 1 .. Len(w.next)
        /\ DOMAIN Recs(Append(w.next, x)) = 1 .. Len(w.next) + 1
        /\ \A k \in 1 .. Len(w.next) : Recs(Append(w.next, x))[k] = Recs(w.next)[k]
        /\ Recs(Append(w.next, x))[Len(w.next) + 1] = x.recs
    <3>1. Row(w.next) BY <1>1
    <3> QED BY ONLY <3>1, AppendedRun
  <2> QED BY <2>1
<1>5. w.from + FanIn < Len(w.runs) =>
        /\ v.readers = <<>> /\ v.out = <<>> /\ v.from = f + FanIn /\ v.next = z /\ v.runs = w.runs
        /\ Shaped(v)
  <2> HIDE DEF z
  <2> DEFINE f2 == f + FanIn
             w1 == [w EXCEPT !.readers = <<>>]
             w2 == [w1 EXCEPT !.out = <<>>]
             w3 == [w2 EXCEPT !.from = f2]
             w4 == [w3 EXCEPT !.next = z]
  <2>1. w1.readers = <<>> /\ w1.from = f /\ w1.runs = w.runs /\ Shaped(w1) BY <1>1 DEF Shaped, Fields
  <2>2. w2.readers = <<>> /\ w2.out = <<>> /\ w2.from = f /\ w2.runs = w.runs /\ Shaped(w2)
    <3> HIDE DEF w1
    <3> QED BY <2>1 DEF Shaped, Fields
  <2>3. w3.readers = <<>> /\ w3.out = <<>> /\ w3.from = f2 /\ w3.runs = w.runs /\ Shaped(w3)
    <3> HIDE DEF w2, f2
    <3> QED BY <2>2 DEF Shaped, Fields
  <2>4. /\ w4.readers = <<>> /\ w4.out = <<>> /\ w4.from = f2 /\ w4.next = z /\ w4.runs = w.runs
        /\ Shaped(w4)
    <3> HIDE DEF w3, f2
    <3> QED BY <2>3 DEF Shaped, Fields
  <2>5. w.from + FanIn < Len(w.runs) => v = w4 BY DEF z
  <2> HIDE DEF w4
  <2> QED BY <2>4, <2>5
<1>6. ~(w.from + FanIn < Len(w.runs)) =>
        /\ v.readers = <<>> /\ v.out = <<>> /\ v.from = 0 /\ v.next = <<>> /\ v.runs = z /\ Shaped(v)
  <2> HIDE DEF z
  <2> DEFINE w0 == [w EXCEPT !.runs = z]
             w1 == [w0 EXCEPT !.readers = <<>>]
             w2 == [w1 EXCEPT !.out = <<>>]
             w3 == [w2 EXCEPT !.from = 0]
             w4 == [w3 EXCEPT !.next = <<>>]
             w5 == [w4 EXCEPT !.pass = w.pass + 1]
  <2>0. w0.runs = z /\ Shaped(w0) BY <1>1 DEF Shaped, Fields
  <2>1. w1.readers = <<>> /\ w1.runs = z /\ Shaped(w1)
    <3> HIDE DEF w0
    <3> QED BY <2>0 DEF Shaped, Fields
  <2>2. w2.readers = <<>> /\ w2.out = <<>> /\ w2.runs = z /\ Shaped(w2)
    <3> HIDE DEF w1
    <3> QED BY <2>1 DEF Shaped, Fields
  <2>3. w3.readers = <<>> /\ w3.out = <<>> /\ w3.from = 0 /\ w3.runs = z /\ Shaped(w3)
    <3> HIDE DEF w2
    <3> QED BY <2>2 DEF Shaped, Fields
  <2>4. /\ w4.readers = <<>> /\ w4.out = <<>> /\ w4.from = 0 /\ w4.next = <<>> /\ w4.runs = z
        /\ Shaped(w4)
    <3> HIDE DEF w3
    <3> QED BY <2>3 DEF Shaped, Fields
  <2>5. /\ w5.readers = <<>> /\ w5.out = <<>> /\ w5.from = 0 /\ w5.next = <<>> /\ w5.runs = z
        /\ Shaped(w5)
    <3> HIDE DEF w4
    <3> QED BY <2>4 DEF Shaped, Fields
  <2>6. ~(w.from + FanIn < Len(w.runs)) => v = w5 BY DEF z
  <2> HIDE DEF w5
  <2> QED BY <2>5, <2>6
<1>7. \A y : y \in Part(q, 1, u) <=> y \in Part(q, 1, f) \/ y \in Part(q, f + 1, u)
  <2>1. u \in f .. n BY <1>1, <1>2 DEF Lesser
  <2> HIDE DEF u, f, q, n
  <2>2. \A k : k \in 1 .. u <=> k \in 1 .. f \/ k \in f + 1 .. u BY <1>1, <1>2, <2>1
  <2> QED BY <2>2, InPart
<1>8. Members(o) \cap Held(a) = {}
  <2> SUFFICES ASSUME NEW y, y \in Members(o), y \in Held(a) PROVE FALSE OBVIOUS
  <2>1. y \in Part(q, f + 1, u) /\ y \in Part(q, 1, f) BY <1>1
  <2>2. u \in f .. n BY <1>1, <1>2 DEF Lesser
  <2> HIDE DEF u, f, q, n
  <2>3. PICK j \in f + 1 .. u : y \in Members(q[j]) BY <2>1, InPart
  <2>4. PICK k \in 1 .. f : y \in Members(q[k]) BY <2>1, InPart
  <2>5. j \in DOMAIN q /\ k \in DOMAIN q /\ j # k BY <1>1, <1>2, <2>2
  <2> QED BY <1>1, <2>3, <2>4, <2>5 DEF Sorted
<1>9. Sorted(b, Lower, Entries) /\ Held(b) = Held(a) \cup Members(o)
  <2>1. Grows(b, a, l, o) BY <1>4 DEF Grows
  <2> HIDE DEF a, b, o, l
  <2> QED BY <1>1, <1>8, <2>1, SortedGrows
<1>10. Held(b) = Part(q, 1, u) BY <1>1, <1>3, <1>7, <1>9
<1>11. Members(<<>>) = {} /\ <<>> \in Seq(Entries) /\ Rising(<<>>, Lower) /\ Row(<<>>)
       /\ Held(Recs(<<>>)) = {} /\ Sorted(Recs(<<>>), Lower, Entries)
  <2>1. <<>> \in Seq(Entries) /\ DOMAIN <<>> = {} OBVIOUS
  <2>2. DOMAIN Recs(<<>>) = {} BY <2>1 DEF Recs
  <2> QED BY <2>1, <2>2 DEF Members, Rising, Row, Held, Sorted
<1> HIDE DEF q, a, b, o, l, u, z
<1>12. CASE w.from + FanIn < Len(w.runs)
  <2>1. u = f + FanIn /\ f + FanIn \in 0 .. n BY <1>1, <1>2, <1>12 DEF Lesser
  <2>2. ~LastOf(v) BY <1>5, <1>12 DEF LastOf
  <2>3. /\ Held(Recs(v.next)) = Part(Recs(v.runs), 1, v.from) /\ Sorted(Recs(v.next), Lower, Entries)
    BY <1>5, <1>9, <1>10, <1>12, <2>1 DEF b, q
  <2>4. Sorted(Recs(v.runs), Lower, Entries) /\ Held(Recs(v.runs)) = Entries
    BY <1>1, <1>5, <1>12 DEF q
  <2>5. v.from \in 0 .. Len(v.runs) BY <1>5, <1>12, <2>1
  <2> QED BY <1>1, <1>4, <1>5, <1>11, <1>12, <2>2, <2>3, <2>4, <2>5 DEF MergeOK
<1>13. CASE ~(w.from + FanIn < Len(w.runs))
  <2>1. u = n BY <1>1, <1>2, <1>13 DEF Lesser
  <2>2. Held(b) = Entries BY <1>1, <1>2, <1>10, <2>1
  <2>3. Part(Recs(v.runs), 1, 0) = {} BY InPart
  <2>4. Sorted(Recs(v.runs), Lower, Entries) /\ Held(Recs(v.runs)) = Entries
    BY <1>6, <1>9, <1>13, <2>2 DEF b
  <2>5. Len(v.runs) \in Nat BY <1>4, <1>6, <1>13, RowFacts
  <2>6. v.from \in 0 .. Len(v.runs) BY <1>6, <1>13, <2>5
  <2> QED BY <1>4, <1>6, <1>11, <1>13, <2>3, <2>4, <2>6 DEF MergeOK
<1> QED BY <1>12, <1>13

\* What rises and holds the entries of all records is their order.
LEMMA SortedExactly ==
    ASSUME Asked, task.op = "sort", NEW o \in Seq(Entries), Rising(o, Lower), Members(o) = Entries,
           NEW z, z = [k \in DOMAIN o |-> o[k].load]
    PROVE  /\ Len(z) = Cardinality(Records)
           /\ \A r \in Records : z[Place(Records, r)] = r.no
<1>1. Len(o) \in Nat /\ DOMAIN o = 1 .. Len(o) /\ \A k \in DOMAIN o : o[k] \in Entries OBVIOUS
<1> DEFINE rec(k) == CHOOSE r \in Records : o[k] = Entry(r)
           g == [k \in 1 .. Len(o) |-> rec(k)]
           R == {p \in Records \X Records : Precedes(p[1], p[2])}
<1>2. \A k \in DOMAIN o : rec(k) \in Records /\ o[k] = Entry(rec(k)) BY <1>1, LowerOrders
<1> HIDE DEF rec
<1>3. /\ g \in Seq(Records) /\ Len(g) = Len(o) /\ DOMAIN g = 1 .. Len(o)
      /\ \A k \in 1 .. Len(o) : g[k] \in Records /\ o[k] = Entry(g[k])
  BY <1>1, <1>2
<1> HIDE DEF g
<1>4. \A r, s \in Records : <<r, s>> \in R <=> <<Entry(r), Entry(s)>> \in Lower
  <2>1. \A r, s \in Records : <<r, s>> \in R <=> Precedes(r, s) OBVIOUS
  <2> HIDE DEF R
  <2> QED BY <2>1, LowerOrders
<1> HIDE DEF R
<1>5. \A r, s \in Records : Entry(r) \in Entries /\ (Entry(r) = Entry(s) => r = s) /\ Entry(r).load = r.no
  BY LowerOrders
<1>6. Linear(R, Records)
  <2>1. Linear(Lower, Entries) BY LowerOrders
  <2> QED BY <1>4, <1>5, <2>1 DEF Linear
<1>7. Rising(g, R)
  <2> SUFFICES ASSUME NEW i \in DOMAIN g, NEW j \in DOMAIN g, i < j PROVE <<g[i], g[j]>> \in R
    BY DEF Rising
  <2>1. <<o[i], o[j]>> \in Lower BY <1>1, <1>3 DEF Rising
  <2> QED BY <1>3, <1>4, <2>1
<1>8. Members(g) = Records
  <2>1. ASSUME NEW r \in Records PROVE r \in Members(g)
    <3>1. Entry(r) \in Members(o) BY <1>5
    <3>2. PICK k \in DOMAIN o : o[k] = Entry(r) BY <3>1, InMembers
    <3>3. g[k] = r BY <1>1, <1>3, <1>5, <3>2
    <3> QED BY <1>1, <1>3, <3>3, InMembers
  <2>2. \A r \in Members(g) : r \in Records BY <1>3, InMembers
  <2> QED BY <2>1, <2>2
<1>9. /\ Cardinality(Records) = Len(o)
      /\ \A k \in 1 .. Len(o) : Cardinality(Below(Records, R, g[k])) = k - 1
  <2>1. /\ Cardinality(Members(g)) = Len(g)
        /\ \A k \in 1 .. Len(g) : Cardinality(Below(Members(g), R, g[k])) = k - 1
    BY <1>3, <1>6, <1>7, Standing
  <2> QED BY <1>3, <1>8, <2>1
<1>10. ASSUME NEW r \in Records PROVE z[Place(Records, r)] = r.no
  <2>0. r \in Members(g) /\ DOMAIN g = 1 .. Len(o) BY <1>3, <1>8
  <2>1. PICK k \in 1 .. Len(o) : g[k] = r BY ONLY <2>0, InMembers
  <2>2. {s \in Records : Precedes(s, r)} = Below(Records, R, g[k]) BY <2>1 DEF R, Below
  <2>3. Cardinality(Below(Records, R, g[k])) = k - 1 BY <1>9
  <2>4. Place(Records, r) = 1 + (k - 1) BY <2>2, <2>3 DEF Place
  <2>5. Place(Records, r) = k BY <2>4
  <2>6. z[k] = o[k].load BY <1>1
  <2> QED BY <1>3, <1>5, <2>1, <2>5, <2>6
<1>11. Len(z) = Len(o)
  <2>1. DOMAIN z = 1 .. Len(o) BY <1>1
  <2> DEFINE T == {o[k].load : k \in 1 .. Len(o)}
             n == Len(o)
  <2>2. z \in [1 .. n -> T] BY <1>1
  <2>3. n \in Nat BY <1>1
  <2> HIDE DEF T, n
  <2>4. z \in Seq(T) BY <2>2, <2>3, SeqDef
  <2>5. Len(z) = n BY <2>2, <2>3, <2>4
  <2> QED BY <2>5 DEF n
<1> QED BY <1>9, <1>10, <1>11

-----------------------------------------------------------------------------
(* The passes over the records.                                            *)

\* What is read next, and the record it is.
Carries(w, record, r) ==
    /\ r \in Records /\ r.line = <<record[1]>> /\ record[1] \in TextLines
    /\ r.no = w.count /\ w.count \in Nat
    /\ Taken(w.count + 1) = Taken(w.count) \cup {r} /\ r \notin Taken(w.count)

ReadsOne ==
    \E record, r : /\ Carries(work, record, r) /\ work' = Taking(work, record)
                   /\ work'.count = work.count + 1 => ReadOK'

LEMMA ReadCarries ==
    ASSUME Asked, ReadOK, Read
    PROVE  ReadsOne \/ (work' = work /\ ReadOK')
<1>1. CASE TakesNext
  <2>1. PICK record :
          /\ record[1] = input[Settled + 1] /\ record \in Seq(TextLines)
          /\ Settled \in 0 .. Len(input) - 1 /\ OpenAfter[Settled] = 0
          /\ work' = Taking(work, record)
          /\ work'.count = work.count + 1 => ReadOK'
    BY <1>1 DEF TakesNext
  <2>2. at \in 0 .. Len(input) /\ work.count = Count(Settled + 1) BY DEF ReadOK
  <2>3. PICK r \in Records :
             /\ r.no = work.count /\ r.line = <<input[Settled + 1]>>
             /\ Settled + 1 \in FirstLines
             /\ work.count \in Nat
             /\ Taken(work.count + 1) = Taken(work.count) \cup {r} /\ r \notin Taken(work.count)
    BY <2>1, <2>2, NextRecord
  <2>4. Settled + 1 \in 1 .. Len(input) BY <2>1, AskedFacts
  <2>5. input[Settled + 1] \in TextLines BY <2>4, LineKeyed
  <2>6. Carries(work, record, r) BY <2>1, <2>3, <2>5 DEF Carries
  <2> QED BY <2>1, <2>6 DEF ReadsOne
<1>2. CASE work' = work /\ ReadOK' BY <1>2
<1> QED BY <1>1, <1>2, ReadTakes

LEMMA EndCarries ==
    ASSUME Asked, ReadOK, at = Len(input), open # <<>>
    PROVE  \E r : Carries(work, open, r) /\ Taken(work.count + 1) = Records
<1>1. /\ open[1] = input[Settled + 1]
      /\ Settled \in 0 .. Len(input) - 1 /\ OpenAfter[Settled] = 0
      /\ Taken(work.count + 1) = Records
  BY EndTakes
<1>2. at \in 0 .. Len(input) /\ work.count = Count(Settled + 1) BY DEF ReadOK
<1>3. PICK r \in Records :
           /\ r.no = work.count /\ r.line = <<input[Settled + 1]>>
           /\ Settled + 1 \in FirstLines
           /\ work.count \in Nat
           /\ Taken(work.count + 1) = Taken(work.count) \cup {r} /\ r \notin Taken(work.count)
  BY <1>1, <1>2, NextRecord
<1>4. Settled + 1 \in 1 .. Len(input) BY <1>1, AskedFacts
<1>5. input[Settled + 1] \in TextLines BY <1>4, LineKeyed
<1>6. Carries(work, open, r) BY <1>1, <1>3, <1>5 DEF Carries
<1> QED BY <1>1, <1>6

\* What no record changes.
Fresh(w) == Shaped(w) /\ w.readers = <<>> /\ w.out = <<>> /\ w.next = <<>> /\ w.from = 0

LEMMA TakingFresh ==
    ASSUME NEW w, Fresh(w), NEW record
    PROVE  Fresh(Taking(w, record))
<1>1. Spills(w, Taking(w, record)) BY TakingSpills DEF Fresh, Shaped
<1> QED BY <1>1 DEF Spills, Fresh, Shaped

\* What is known of an operation, whatever it is.
Course ==
    /\ Asked /\ phase \in {"read", "merge", "done", "failed"}
    /\ phase = "read" => ReadOK /\ Fresh(work)
    /\ phase = "merge" => task.op \in {"sort", "group"} /\ open = <<>>

-----------------------------------------------------------------------------
(* sort.                                                                   *)

LEMMA SortStays ==
    ASSUME UNCHANGED <<task, input>>
    PROVE  /\ Entries' = Entries /\ Lower' = Lower /\ Records' = Records /\ Asked' = Asked
           /\ \A c : EntriesOf(c)' = EntriesOf(c) /\ (Taken(c))' = Taken(c)
<1>1. Records' = Records /\ Asked' = Asked BY DocStays
<1>2. \A r : Entry(r)' = Entry(r) BY DEF Entry, SortKey, KeyOf
<1>3. Entries' = Entries BY <1>1, <1>2 DEF Entries
<1>4. \A c : Taken(c)' = Taken(c) BY <1>1 DEF Taken
<1>5. \A c : EntriesOf(c)' = EntriesOf(c) BY <1>2, <1>4 DEF EntriesOf
<1>6. \A e, f : RunBefore(e, f)' <=> RunBefore(e, f) BY DEF RunBefore, KeyBefore, Turned
<1>7. Lower' = Lower BY <1>3, <1>6 DEF Lower
<1> QED BY <1>1, <1>3, <1>4, <1>5, <1>7

\* A record read is one more entry.
LEMMA SortReads ==
    ASSUME Asked, task.op = "sort", NEW w, Shaped(w), SortHolds(w, EntriesOf(w.count)),
           NEW record, NEW r, Carries(w, record, r), NEW v, v = Taking(w, record)
    PROVE  SortHolds(v, EntriesOf(w.count + 1)) /\ v.count = w.count + 1 /\ Shaped(v)
<1>1. /\ r \in Records /\ r.line = <<record[1]>> /\ r.no = w.count
      /\ Taken(w.count + 1) = Taken(w.count) \cup {r} /\ r \notin Taken(w.count)
  BY DEF Carries
<1>2. record[1] = r.line[1] BY <1>1
<1> DEFINE H == EntriesOf(w.count)
<1>3. Entry(r) \notin H
  <2> SUFFICES ASSUME NEW s \in Taken(w.count), Entry(r) = Entry(s) PROVE FALSE BY DEF EntriesOf
  <2>1. s \in Records BY DEF Taken
  <2>2. r = s BY <1>1, <2>1, LowerOrders
  <2> QED BY <1>1, <2>2
<1>4. EntriesOf(w.count + 1) = H \cup {Entry(r)} BY <1>1 DEF EntriesOf
<1>5. SortHolds(w, H) OBVIOUS
<1> HIDE DEF H
<1>6. /\ SortHolds(Sorting(w, record), H \cup {Entry(r)})
      /\ Shaped(Sorting(w, record)) /\ Sorting(w, record).count = w.count
  BY <1>1, <1>2, <1>3, <1>5, SortingHolds
<1>7. /\ v.memory = Sorting(w, record).memory /\ v.runs = Sorting(w, record).runs
      /\ v.count = w.count + 1 /\ Shaped(v)
  BY <1>6, SortTaking
<1>8. SortHolds(v, H \cup {Entry(r)}) BY <1>6, <1>7 DEF SortHolds
<1> QED BY <1>4, <1>7, <1>8

\* Everything was spilled: what the merge begins with.
LEMMA SortBegins ==
    ASSUME Asked, task.op = "sort", NEW w, Fresh(w), SortHolds(w, Entries), w.memory = <<>>
    PROVE  MergeOK(w)
<1>1. /\ Shaped(w) /\ Row(w.runs) /\ Sorted(Recs(w.runs), Lower, Entries)
      /\ w.readers = <<>> /\ w.out = <<>> /\ w.next = <<>> /\ w.from = 0
      /\ Held(Recs(w.runs)) \cup Members(w.memory) = Entries
  BY DEF SortHolds, Fresh
<1>2. Members(<<>>) = {} /\ <<>> \in Seq(Entries) /\ Rising(<<>>, Lower) /\ Row(<<>>)
       /\ Held(Recs(<<>>)) = {} /\ Sorted(Recs(<<>>), Lower, Entries)
  <2>1. <<>> \in Seq(Entries) /\ DOMAIN <<>> = {} OBVIOUS
  <2>2. DOMAIN Recs(<<>>) = {} BY <2>1 DEF Recs
  <2> QED BY <2>1, <2>2 DEF Members, Rising, Row, Held, Sorted
<1>3. Part(Recs(w.runs), 1, 0) = {} BY InPart
<1>4. Len(w.runs) \in Nat BY <1>1, RowFacts
<1>5. w.from \in 0 .. Len(w.runs) BY <1>1, <1>4
<1>6. Held(Recs(w.runs)) = Entries BY <1>1, <1>2
<1> QED BY <1>1, <1>2, <1>3, <1>5, <1>6 DEF MergeOK

\* EndMerge.
LEMMA MergeEnds ==
    ASSUME Asked, task.op = "sort", NEW w, MergeOK(w), LastOf(w),
           \A r \in DOMAIN w.readers : w.readers[r] = <<>>,
           w.runs # <<>> => w.readers # <<>>
    PROVE  w.out \in Seq(Entries) /\ Rising(w.out, Lower) /\ Members(w.out) = Entries
<1> DEFINE q == Recs(w.runs)
           n == Len(w.runs)
<1>1. /\ Row(w.runs) /\ w.from = 0 /\ Held(q) = Entries
      /\ w.out \in Seq(Entries) /\ Rising(w.out, Lower)
  BY DEF MergeOK
<1>2. n \in Nat /\ Held(q) = Part(q, 1, n) /\ (w.runs = <<>> <=> n = 0) BY <1>1, RowFacts
<1>3. CASE w.readers # <<>>
  <2> DEFINE l == Len(w.readers)
  <2>0. w.from + l = IF LastOf(w) THEN Len(w.runs) ELSE Lesser(w.from + FanIn, Len(w.runs))
    BY <1>3 DEF MergeOK
  <2>1. 0 + l = n BY <1>1, <2>0
  <2>2. Held(w.readers) \cup Members(w.out) = Part(q, w.from + 1, w.from + l)
    BY <1>3 DEF MergeOK
  <2>3. Held(w.readers) = {}
    <3>1. \A k \in DOMAIN w.readers : Members(w.readers[k]) = {} BY DEF Members
    <3> QED BY <3>1 DEF Held
  <2>4. 0 + 1 = 1 OBVIOUS
  <2> HIDE DEF l, n, q
  <2>5. Members(w.out) = Part(q, 1, n) BY <1>1, <2>1, <2>2, <2>3, <2>4
  <2> QED BY <1>1, <1>2, <2>5
<1>4. CASE w.readers = <<>>
  <2>1. w.out = <<>> /\ n = 0 BY <1>2, <1>4 DEF MergeOK
  <2>2. Part(q, 1, 0) = {} BY InPart
  <2>3. Members(w.out) = {} BY <2>1 DEF Members
  <2> HIDE DEF n, q
  <2> QED BY <1>1, <1>2, <2>1, <2>2, <2>3
<1> QED BY <1>3, <1>4

SortInv ==
    task.op = "sort" =>
        /\ phase = "read" => SortHolds(work, EntriesOf(work.count))
        /\ phase = "merge" => MergeOK(work)
        /\ phase = "done" => SortExact(Records)

LEMMA TakingCounts ==
    ASSUME NEW w, Shaped(w), NEW record
    PROVE  Taking(w, record).count = w.count + 1
<1> DEFINE Counts(v) == "count" \in DOMAIN v /\ v.count = w.count
           taken == CASE task.op = "sort" -> Sorting(w, record)
                      [] task.op = "group" -> Grouping(w, record)
                      [] OTHER -> Choosing(w, record)
<1>1. ASSUME NEW m PROVE Counts([w EXCEPT !.memory = m]) BY DEF Shaped, Fields
<1>2. ASSUME NEW v, Counts(v) PROVE Counts(SpilledIfFull(v))
  BY <1>2 DEF SpilledIfFull, Spilled
<1>3. Counts(Sorting(w, record)) BY <1>1, <1>2 DEF Sorting
<1>4. Counts(Grouping(w, record))
  <2> DEFINE key == Field(record, task.cols[1])
             here == {k \in DOMAIN w.memory : w.memory[k].key = key}
             c == CHOOSE k \in here : TRUE
             m1 == [w.memory EXCEPT ![c].load = Added1(w.memory[c].load, record[1].num)]
             m2 == Append(w.memory, [key |-> key, load |-> Added1(NoAcc, record[1].num)])
  <2>1. Grouping(w, record) = IF here # {} THEN [w EXCEPT !.memory = m1]
                              ELSE SpilledIfFull([w EXCEPT !.memory = m2])
    BY DEF Grouping
  <2> HIDE DEF m1, m2, here, Counts
  <2> QED BY <1>1, <1>2, <2>1
<1>5. Counts(Choosing(w, record))
  <2> DEFINE e == [key |-> KeyOf(record, task.cols[1]), load |-> w.count]
             m == w.memory
             under(a, b) == Before(a.key, b.key) \/ (a.key = b.key /\ a.load < b.load)
             worst == CHOOSE k \in DOMAIN m : \A j \in DOMAIN m \ {k} :
                        IF task.reverse THEN under(m[k], m[j]) ELSE under(m[j], m[k])
             better == IF task.reverse THEN Before(m[worst].key, e.key) ELSE Before(e.key, m[worst].key)
             m1 == Append(m, e)
             m2 == Append(RemoveAt(m, worst), e)
  <2>1. Choosing(w, record) =
          CASE Len(m) < task.n -> [w EXCEPT !.memory = m1]
            [] Len(m) >= task.n /\ better -> [w EXCEPT !.memory = m2]
            [] OTHER -> w
    BY DEF Choosing
  <2>2. Counts(w) BY DEF Shaped, Fields
  <2> HIDE DEF m1, m2, better, Counts
  <2> QED BY <1>1, <2>1, <2>2
<1>6. Counts(taken) BY <1>3, <1>4, <1>5
<1>7. Taking(w, record) = [taken EXCEPT !.count = taken.count + 1] BY DEF Taking
<1> HIDE DEF taken
<1> QED BY <1>6, <1>7

-----------------------------------------------------------------------------
(* The steps.                                                              *)

LEMMA CourseBegins == BatInit => Course
<1> SUFFICES ASSUME BatInit PROVE Course OBVIOUS
<1>1. task \in Tasks /\ input \in Inputs /\ at = 0 /\ open = <<>> /\ phase \in {"read", "done"} /\ work = NoWork
  BY DEF BatInit
<1>2. Asked BY <1>1 DEF Asked
<1>3. Fresh(work) BY <1>1 DEF Fresh, Shaped, Fields, NoWork
<1>4. OpenAfter[0] = 0 /\ Len(input) \in Nat BY <1>2, OpenSteps, AskedFacts
<1>5. Settled = 0 /\ Len(open) = 0 /\ open \in Seq(TextLines)
  <2>1. Len(open) = 0 /\ open \in Seq(TextLines) BY <1>1
  <2>2. at = 0 /\ 0 - 0 = 0 BY <1>1
  <2> QED BY <2>1, <2>2 DEF Settled
<1>6. Count(1) = 0
  <2>1. \A j \in FirstLines : ~(j < 1) BY DEF FirstLines
  <2>2. FirstBelow(1) = {} BY <2>1 DEF FirstBelow
  <2> QED BY <2>2, FS_EmptySet DEF Count
<1>7. work.count = 0 BY <1>1 DEF NoWork
<1>8. ReadOK
  <2>1. Settled + 1 = 1 /\ at - 1 < Settled + 1 BY <1>1, <1>5
  <2>2. \A i \in Settled + 1 .. at - 1 : FALSE BY <1>1, <1>5
  <2>3. at \in 0 .. Len(input) /\ Len(open) <= at BY <1>1, <1>4, <1>5
  <2> QED BY <1>1, <1>4, <1>5, <1>6, <1>7, <2>1, <2>2, <2>3 DEF ReadOK
<1> QED BY <1>1, <1>2, <1>3, <1>8 DEF Course

LEMMA CourseSteps == Course /\ [BatNext]_batVars => Course'
<1> SUFFICES ASSUME Course, [BatNext]_batVars PROVE Course' OBVIOUS
<1>1. UNCHANGED <<task, input>>
  BY DEF BatNext, Read, EndOfInput, BeginMerge, Pump, Fold, EndChunk, EndMerge, Fail, batVars
<1>2. Asked' BY <1>1 DEF Course, Asked
<1>3. CASE Read
  <2>1. phase = "read" /\ phase' = phase BY <1>3 DEF Read
  <2>2. ReadOK /\ Fresh(work) /\ Asked BY <2>1 DEF Course
  <2>3. ReadOK' /\ Fresh(work)'
    <3>1. CASE work' = work /\ ReadOK' BY <2>2, <3>1
    <3>2. CASE ReadsOne
      <4>1. PICK record, r : /\ Carries(work, record, r) /\ work' = Taking(work, record)
                             /\ work'.count = work.count + 1 => ReadOK'
        BY <3>2 DEF ReadsOne
      <4>2. Taking(work, record).count = work.count + 1 /\ Fresh(Taking(work, record))
        BY <2>2, TakingCounts, TakingFresh DEF Fresh
      <4>3. work'.count = work.count + 1 /\ Fresh(work') BY <4>1, <4>2
      <4> QED BY <4>1, <4>3
    <3> QED BY <1>3, <2>2, <3>1, <3>2, ReadCarries
  <2> QED BY <1>2, <2>1, <2>3 DEF Course
<1>4. CASE EndOfInput
  <2>1. open' = <<>> BY <1>4 DEF EndOfInput
  <2>2. /\ phase' \in {"merge", "done"}
        /\ phase' = "merge" => task.op \in {"sort", "group"}
    BY <1>4 DEF EndOfInput
  <2> QED BY <1>1, <1>2, <2>1, <2>2 DEF Course
<1>5. CASE BeginMerge \/ Pump \/ Fold \/ EndChunk \/ EndMerge
  <2>1. open' = open /\ phase = "merge" /\ phase' \in {"merge", "done"}
    BY <1>5 DEF BeginMerge, Pump, Fold, EndChunk, EndMerge
  <2> QED BY <1>1, <1>2, <2>1 DEF Course
<1>6. CASE Fail
  <2>1. phase' = "failed" BY <1>6 DEF Fail
  <2> QED BY <1>2, <2>1 DEF Course
<1>7. CASE UNCHANGED batVars
  <2>1. /\ phase' = phase /\ work' = work /\ open' = open /\ at' = at /\ task' = task /\ input' = input
    BY <1>7 DEF batVars
  <2>2. OpenAfter' = OpenAfter /\ FirstLines' = FirstLines BY <1>1, DocStays
  <2>3. (ReadOK /\ Fresh(work))' <=> ReadOK /\ Fresh(work)
    BY <2>1, <2>2 DEF ReadOK, Settled, Count, FirstBelow
  <2> QED BY <1>2, <2>1, <2>3 DEF Course
<1> QED BY <1>3, <1>4, <1>5, <1>6, <1>7 DEF BatNext

LEMMA SortInit == BatInit => SortInv
<1> SUFFICES ASSUME BatInit, task.op = "sort" PROVE SortInv BY DEF SortInv
<1>1. phase = "read" /\ work = NoWork /\ Asked BY DEF BatInit, Asked
<1>2. work.memory = <<>> /\ work.runs = <<>> /\ work.count = 0 BY <1>1 DEF NoWork
<1>3. EntriesOf(0) = {}
  <2>1. \A r \in Records : ~(r.no < 0) BY <1>1, RecordFacts
  <2>2. Taken(0) = {} BY <2>1 DEF Taken
  <2> QED BY <2>2 DEF EntriesOf
<1>4. Members(<<>>) = {} /\ <<>> \in Seq(Entries) /\ Once(<<>>) /\ Row(<<>>)
       /\ Held(Recs(<<>>)) = {} /\ Sorted(Recs(<<>>), Lower, Entries)
  <2>1. <<>> \in Seq(Entries) /\ DOMAIN <<>> = {} OBVIOUS
  <2>2. DOMAIN Recs(<<>>) = {} BY <2>1 DEF Recs
  <2> QED BY <2>1, <2>2 DEF Members, Once, Row, Held, Sorted
<1>5. SortHolds(work, EntriesOf(work.count)) BY <1>2, <1>3, <1>4 DEF SortHolds
<1> QED BY <1>1, <1>5 DEF SortInv

LEMMA SortSteps == Course /\ Course' /\ SortInv /\ [BatNext]_batVars => SortInv'
<1> SUFFICES ASSUME Course, Course', SortInv, [BatNext]_batVars, task'.op = "sort" PROVE SortInv'
  BY DEF SortInv
<1>1. UNCHANGED <<task, input>>
  BY DEF BatNext, Read, EndOfInput, BeginMerge, Pump, Fold, EndChunk, EndMerge, Fail, batVars
<1>2. task.op = "sort" /\ Asked BY <1>1 DEF Course
<1>3. /\ Entries' = Entries /\ Lower' = Lower /\ Records' = Records
      /\ \A c : EntriesOf(c)' = EntriesOf(c)
  BY <1>1, SortStays
<1>4. ASSUME NEW v, work' = v, MergeOK(v), phase' = "merge" PROVE SortInv'
  <2>1. MergeOK(work)' BY <1>3, <1>4 DEF MergeOK, LastOf
  <2> QED BY <1>4, <2>1 DEF SortInv
<1>5. ASSUME NEW v, work' = v, NEW c, c = v.count, SortHolds(v, EntriesOf(c)), phase' = "read" PROVE SortInv'
  <2>1. PICK H : H = EntriesOf(c) OBVIOUS
  <2>2. EntriesOf(c)' = H BY <1>3, <2>1
  <2>3. SortHolds(work, H)' BY <1>3, <1>5, <2>1 DEF SortHolds
  <2>4. SortHolds(work, EntriesOf(work.count))'
    <3>1. work'.count = c BY <1>5
    <3>2. EntriesOf(work.count)' = H BY <2>2, <3>1 DEF EntriesOf, Taken
    <3> QED BY <2>3, <3>2 DEF SortHolds
  <2> QED BY <1>5, <2>4 DEF SortInv
<1>6. CASE Read
  <2>1. phase = "read" /\ phase' = phase BY <1>6 DEF Read
  <2>2. ReadOK /\ Fresh(work) /\ SortHolds(work, EntriesOf(work.count)) BY <1>2, <2>1 DEF Course, SortInv
  <2>3. PICK v : work' = v OBVIOUS
  <2>4. PICK c : c = v.count OBVIOUS
  <2>5. SortHolds(v, EntriesOf(c))
    <3>1. CASE work' = work BY <2>2, <2>3, <2>4, <3>1
    <3>2. CASE ReadsOne
      <4>1. PICK record, r : Carries(work, record, r) /\ work' = Taking(work, record)
        BY <3>2 DEF ReadsOne
      <4>2. v = Taking(work, record) /\ Shaped(work) BY <2>2, <2>3, <4>1 DEF Fresh
      <4>3. SortHolds(v, EntriesOf(work.count + 1)) /\ v.count = work.count + 1
        BY <1>2, <2>2, <4>1, <4>2, SortReads
      <4> QED BY <2>4, <4>3
    <3> QED BY <1>2, <1>6, <2>2, <3>1, <3>2, ReadCarries
  <2> QED BY <1>5, <2>1, <2>3, <2>4, <2>5
<1>7. CASE EndOfInput
  <2>1. phase = "read" /\ at = Len(input) BY <1>7 DEF EndOfInput
  <2>2. ReadOK /\ Fresh(work) /\ SortHolds(work, EntriesOf(work.count)) BY <1>2, <2>1 DEF Course, SortInv
  <2>3. PICK w : w = IF open = <<>> THEN work ELSE Taking(work, open) OBVIOUS
  <2>4. work' = (IF w.memory # <<>> THEN Spilled(w) ELSE w) /\ phase' = "merge"
    BY <1>2, <1>7, <2>3 DEF EndOfInput
  <2>5. EntriesOf(w.count) = Entries /\ SortHolds(w, EntriesOf(w.count)) /\ Fresh(w)
    <3>1. \A c : Taken(c) = Records => EntriesOf(c) = Entries BY DEF EntriesOf, Entries
    <3>2. CASE open = <<>>
      <4>1. w = work BY <2>3, <3>2
      <4>2. Taken(work.count) = Records BY <1>2, <2>1, <2>2, <3>2, EndTakes
      <4> QED BY <2>2, <3>1, <4>1, <4>2
    <3>3. CASE open # <<>>
      <4>1. w = Taking(work, open) BY <2>3, <3>3
      <4>2. PICK r : Carries(work, open, r) /\ Taken(work.count + 1) = Records
        BY <1>2, <2>1, <2>2, <3>3, EndCarries
      <4>3. Shaped(work) BY <2>2 DEF Fresh
      <4>4. SortHolds(w, EntriesOf(work.count + 1)) /\ w.count = work.count + 1
        BY <1>2, <2>2, <4>1, <4>2, <4>3, SortReads
      <4>5. Fresh(w) BY <2>2, <4>1, TakingFresh
      <4> QED BY <3>1, <4>2, <4>4, <4>5
    <3> QED BY <3>2, <3>3
  <2>6. SortHolds(w, Entries) /\ Shaped(w) BY <2>5 DEF Fresh
  <2>7. CASE w.memory = <<>>
    <3>1. MergeOK(w) BY <1>2, <2>5, <2>6, <2>7, SortBegins
    <3> QED BY <1>4, <2>4, <2>7, <3>1
  <2>8. CASE w.memory # <<>>
    <3>1. SortHolds(Spilled(w), Entries) /\ Spilled(w).memory = <<>> /\ Shaped(Spilled(w))
      BY <1>2, <2>6, SpilledHolds
    <3>2. Spills(w, Spilled(w)) BY <1>2, <2>6, SpilledSpills DEF Shaped
    <3>3. Fresh(Spilled(w)) BY <2>5, <3>1, <3>2 DEF Spills, Fresh
    <3>4. MergeOK(Spilled(w)) BY <1>2, <3>1, <3>3, SortBegins
    <3> QED BY <1>4, <2>4, <2>8, <3>4
  <2> QED BY <2>7, <2>8
<1>8. LastPass <=> LastOf(work) BY <1>2 DEF LastPass, LastOf
<1>9. CASE BeginMerge
  <2>1. phase = "merge" /\ phase' = phase /\ work.readers = <<>> /\ ChunkOf(work) # <<>>
        /\ work' = [work EXCEPT !.readers = [k \in DOMAIN ChunkOf(work) |-> ChunkOf(work)[k].recs],
                                !.out = <<>>]
    BY <1>9 DEF BeginMerge
  <2>2. MergeOK(work) BY <1>2, <2>1 DEF SortInv
  <2>3. PICK c : c = ChunkOf(work) OBVIOUS
  <2>4. c = IF LastOf(work) THEN work.runs
            ELSE SubSeq(work.runs, work.from + 1, Lesser(work.from + FanIn, Len(work.runs)))
    BY <1>8, <2>3 DEF ChunkOf
  <2>5. PICK v : v = Opening(work, c) OBVIOUS
  <2>6. work' = v /\ c # <<>> BY <2>1, <2>3, <2>5 DEF Opening
  <2>7. MergeOK(v) BY <1>2, <2>1, <2>2, <2>4, <2>5, <2>6, BeginHolds
  <2> QED BY <1>4, <2>1, <2>6, <2>7
<1>10. CASE Pump
  <2>1. /\ phase = "merge" /\ phase' = phase /\ Ready
        /\ \E r \in {NextReader(work.readers)} :
              work' = [work EXCEPT !.readers[r] = Tail(@), !.out = Append(@, Head(work.readers[r]))]
    BY <1>10 DEF Pump
  <2>2. MergeOK(work) /\ \E r \in DOMAIN work.readers : work.readers[r] # <<>>
    BY <1>2, <2>1 DEF SortInv, Ready
  <2>3. PICK r : r = NextReader(work.readers) OBVIOUS
  <2>4. PICK v : v = [work EXCEPT !.readers[r] = Tail(@), !.out = Append(@, Head(work.readers[r]))] OBVIOUS
  <2>5. work' = v BY <2>1, <2>3, <2>4
  <2>6. MergeOK(v) BY <1>2, <2>2, <2>3, <2>4, PumpHolds
  <2> QED BY <1>4, <2>1, <2>5, <2>6
<1>11. CASE Fold BY <1>2, <1>11 DEF Fold
<1>12. CASE EndChunk
  <2>1. /\ phase = "merge" /\ phase' = phase /\ ~LastPass /\ work.readers # <<>> /\ ~Ready
    BY <1>12 DEF EndChunk
  <2>2. PICK x : x = [file |-> OutFile, recs |-> work.out] OBVIOUS
  <2>3. PICK next : next = Append(work.next, x) OBVIOUS
  <2>4. IF work.from + FanIn < Len(work.runs)
        THEN work' = [work EXCEPT !.readers = <<>>, !.out = <<>>, !.from = @ + FanIn, !.next = next]
        ELSE work' = [work EXCEPT !.runs = next, !.readers = <<>>, !.out = <<>>, !.from = 0,
                                     !.next = <<>>, !.pass = @ + 1]
    BY <1>12, <2>2, <2>3 DEF EndChunk
  <2>5. PICK v : v = IF work.from + FanIn < Len(work.runs)
        THEN [work EXCEPT !.readers = <<>>, !.out = <<>>, !.from = @ + FanIn, !.next = Append(work.next, x)]
        ELSE [work EXCEPT !.runs = Append(work.next, x), !.readers = <<>>, !.out = <<>>, !.from = 0,
                                     !.next = <<>>, !.pass = @ + 1]
    OBVIOUS
  <2>6. work' = v BY <2>3, <2>4, <2>5
  <2>7. MergeOK(work) /\ ~LastOf(work) /\ x.recs = work.out BY <1>2, <1>8, <2>1, <2>2 DEF SortInv
  <2>8. \A r \in DOMAIN work.readers : work.readers[r] = <<>> BY <2>1 DEF Ready
  <2>9. MergeOK(v) BY <1>2, <2>1, <2>5, <2>7, <2>8, ChunkHolds
  <2> QED BY <1>4, <2>1, <2>6, <2>9
<1>13. CASE EndMerge
  <2>1. /\ phase = "merge" /\ phase' = "done" /\ LastPass /\ ~Ready
        /\ work.runs # <<>> => work.readers # <<>>
        /\ rows' = [k \in DOMAIN work.out |-> work.out[k].load]
    BY <1>2, <1>13 DEF EndMerge
  <2>2. MergeOK(work) /\ LastOf(work) BY <1>2, <1>8, <2>1 DEF SortInv
  <2>3. \A r \in DOMAIN work.readers : work.readers[r] = <<>> BY <2>1 DEF Ready
  <2>4. PICK o : o = work.out OBVIOUS
  <2>5. o \in Seq(Entries) /\ Rising(o, Lower) /\ Members(o) = Entries
    BY <1>2, <2>1, <2>2, <2>3, <2>4, MergeEnds
  <2>6. PICK z : z = [k \in DOMAIN o |-> o[k].load] OBVIOUS
  <2>7. Len(z) = Cardinality(Records) /\ \A r \in Records : z[Place(Records, r)] = r.no
    BY <1>2, <2>5, <2>6, SortedExactly
  <2>8. rows' = z BY <2>1, <2>4, <2>6
  <2>9. PICK recs : recs = Records OBVIOUS
  <2>10. \A r \in recs : Place(recs, r)' = Place(recs, r) BY <1>1 DEF Place, Precedes, KeyOf
  <2>11. SortExact(recs)' BY <2>7, <2>8, <2>9, <2>10 DEF SortExact
  <2>12. SortExact(Records)' BY <1>3, <2>9, <2>11 DEF SortExact
  <2> QED BY <2>1, <2>12 DEF SortInv
<1>14. CASE Fail
  <2>1. phase' = "failed" BY <1>14 DEF Fail
  <2> QED BY <2>1 DEF SortInv
<1>15. CASE UNCHANGED batVars
  <2>1. phase' = phase /\ work' = work /\ rows' = rows BY <1>15 DEF batVars
  <2>2. CASE phase = "read"
    <3>1. SortHolds(work, EntriesOf(work.count)) BY <1>2, <2>2 DEF SortInv
    <3> QED BY <1>5, <2>1, <2>2, <3>1
  <2>3. CASE phase = "merge"
    <3>1. MergeOK(work) BY <1>2, <2>3 DEF SortInv
    <3> QED BY <1>4, <2>1, <2>3, <3>1
  <2>4. CASE phase = "done"
    <3>1. SortExact(Records) BY <1>2, <2>4 DEF SortInv
    <3>2. PICK recs : recs = Records OBVIOUS
    <3>3. \A r \in recs : Place(recs, r)' = Place(recs, r) BY <1>1 DEF Place, Precedes, KeyOf
    <3>4. SortExact(recs)' BY <2>1, <3>1, <3>2, <3>3 DEF SortExact
    <3>5. SortExact(Records)' BY <1>3, <3>2, <3>4 DEF SortExact
    <3> QED BY <2>1, <2>4, <3>5 DEF SortInv
  <2>5. CASE phase = "failed" BY <2>1, <2>5 DEF SortInv
  <2> QED BY <2>2, <2>3, <2>4, <2>5 DEF Course
<1> QED BY <1>6, <1>7, <1>9, <1>10, <1>11, <1>12, <1>13, <1>14, <1>15 DEF BatNext

-----------------------------------------------------------------------------
(* top.                                                                    *)

LEMMA Removed ==
    ASSUME NEW D, NEW m \in Seq(D), Once(m), NEW i \in DOMAIN m
    PROVE  /\ RemoveAt(m, i) \in Seq(D) /\ Once(RemoveAt(m, i)) /\ Len(RemoveAt(m, i)) = Len(m) - 1
           /\ Members(RemoveAt(m, i)) = Members(m) \ {m[i]}
<1> DEFINE n == Len(m)
           a == SubSeq(m, 1, i - 1)
           b == SubSeq(m, i + 1, n)
           t == RemoveAt(m, i)
<1>1. n \in Nat /\ DOMAIN m = 1 .. n /\ i \in 1 .. n /\ \A k \in 1 .. n : m[k] \in D OBVIOUS
<1>2. a \in Seq(D) /\ Len(a) = i - 1 /\ \A k \in 1 .. i - 1 : a[k] = m[k] BY <1>1
<1>3. b \in Seq(D) /\ Len(b) = n - i /\ \A k \in 1 .. n - i : b[k] = m[i + k]
  <2> DEFINE l == i + 1
  <2>1. b = SubSeq(m, l, n) OBVIOUS
  <2> HIDE DEF b, n
  <2>2. l \in 1 .. n + 1 /\ n - l + 1 = n - i /\ \A k \in 1 .. n - i : l + k - 1 = i + k /\ l + k - 1 \in 1 .. n
    BY ONLY <1>1
  <2> HIDE DEF l
  <2>3. n = Len(m) BY DEF n
  <2>4. b \in Seq(D) /\ Len(b) = n - l + 1 /\ \A k \in 1 .. n - l + 1 : b[k] = m[l + k - 1]
    BY <1>1, <2>1, <2>2, <2>3
  <2> QED BY <2>2, <2>4
<1>4. t = a \o b BY DEF RemoveAt
<1> HIDE DEF a, b, t, n
<1>5. t \in Seq(D) /\ Len(t) = (i - 1) + (n - i)
  <2>0. a \in Seq(D) /\ b \in Seq(D) BY <1>2, <1>3
  <2>1. a \o b \in Seq(D) /\ Len(a \o b) = Len(a) + Len(b) BY ONLY <2>0
  <2> QED BY <1>2, <1>3, <1>4, <2>1
<1>6. Len(t) = n - 1 /\ DOMAIN t = 1 .. n - 1 BY <1>1, <1>5
<1>7. \A k \in 1 .. n - 1 : t[k] = IF k < i THEN m[k] ELSE m[k + 1]
  <2> TAKE k \in 1 .. n - 1
  <2>1. t[k] = IF k <= Len(a) THEN a[k] ELSE b[k - Len(a)]
    <3>1. k \in 1 .. Len(a) + Len(b) BY <1>1, <1>2, <1>3
    <3> QED BY <1>2, <1>3, <1>4, <3>1
  <2>2. CASE k < i
    <3>1. k \in 1 .. i - 1 /\ k <= i - 1 BY <1>1, <2>2
    <3> QED BY <1>2, <2>1, <2>2, <3>1
  <2>3. CASE ~(k < i)
    <3>1. ~(k <= i - 1) /\ k - (i - 1) \in 1 .. n - i /\ i + (k - (i - 1)) = k + 1 BY <1>1, <2>3
    <3> QED BY <1>2, <1>3, <2>1, <2>3, <3>1
  <2> QED BY <2>2, <2>3
<1>8. Once(t)
  <2> SUFFICES ASSUME NEW j \in 1 .. n - 1, NEW k \in 1 .. n - 1, t[j] = t[k] PROVE j = k
    BY <1>6 DEF Once
  <2> DEFINE at1(l) == IF l < i THEN l ELSE l + 1
  <2>1. at1(j) \in 1 .. n /\ at1(k) \in 1 .. n /\ (at1(j) = at1(k) => j = k) BY <1>1
  <2>2. t[j] = m[at1(j)] /\ t[k] = m[at1(k)] BY <1>7
  <2> HIDE DEF at1
  <2> QED BY <1>1, <2>1, <2>2 DEF Once
<1>9. ASSUME NEW x \in Members(t) PROVE x \in Members(m) \ {m[i]}
  <2>1. PICK k \in 1 .. n - 1 : x = t[k] BY <1>6, InMembers
  <2> DEFINE l == IF k < i THEN k ELSE k + 1
  <2>2. l \in 1 .. n /\ l # i BY <1>1
  <2>3. x = m[l] BY <1>7, <2>1
  <2> HIDE DEF l
  <2>4. m[l] # m[i] BY <1>1, <2>2 DEF Once
  <2> QED BY <1>1, <2>2, <2>3, <2>4, InMembers
<1>10. ASSUME NEW x \in Members(m), x # m[i] PROVE x \in Members(t)
  <2>1. PICK l \in 1 .. n : x = m[l] BY <1>1, InMembers
  <2> DEFINE k == IF l < i THEN l ELSE l - 1
  <2>2. k \in 1 .. n - 1 /\ l = IF k < i THEN k ELSE k + 1 BY <1>1, <1>10, <2>1
  <2>3. k < i => l = k BY <2>2
  <2>4. ~(k < i) => l = k + 1 BY <2>2
  <2> HIDE DEF k
  <2>5. t[k] = x BY <1>7, <2>1, <2>2, <2>3, <2>4
  <2> QED BY <1>6, <2>2, <2>5, InMembers
<1>11. Members(t) = Members(m) \ {m[i]} BY <1>9, <1>10
<1> QED BY <1>5, <1>6, <1>8, <1>11 DEF t, n

\* One of a few is before all others, and one after.
LEMMA Ends ==
    ASSUME NEW D, NEW R, Linear(R, D), NEW m \in Seq(D), Once(m), m # <<>>
    PROVE  /\ \E k \in DOMAIN m : \A j \in DOMAIN m \ {k} : <<m[k], m[j]>> \in R
           /\ \E k \in DOMAIN m : \A j \in DOMAIN m \ {k} : <<m[j], m[k]>> \in R
<1> DEFINE c(i) == Cardinality(Earlier(m, R, i))
           n == Len(m)
<1>1. n \in Nat /\ n # 0 /\ DOMAIN m = 1 .. n OBVIOUS
<1>2. /\ \A i \in DOMAIN m : c(i) \in 0 .. n - 1
      /\ \A i, j \in DOMAIN m : <<m[i], m[j]>> \in R <=> c(i) < c(j)
      /\ \A k \in DOMAIN m : \E i \in DOMAIN m : c(i) = k - 1
  BY EarlierRanks
<1>3. \A i, j \in DOMAIN m : i # j => <<m[i], m[j]>> \in R \/ <<m[j], m[i]>> \in R
  BY DEF Linear, Once
<1> HIDE DEF c, n
<1>4. 1 \in DOMAIN m /\ n \in DOMAIN m BY <1>1
<1>5. PICK k \in DOMAIN m : c(k) = 1 - 1 BY <1>2, <1>4
<1>6. PICK l \in DOMAIN m : c(l) = n - 1 BY <1>2, <1>4
<1>7. ASSUME NEW j \in DOMAIN m \ {k} PROVE <<m[k], m[j]>> \in R
  <2>1. c(j) \in 0 .. n - 1 /\ c(k) = 0 BY <1>2, <1>5
  <2>2. ~(c(j) < c(k)) BY <2>1
  <2> QED BY <1>2, <1>3, <2>2
<1>8. ASSUME NEW j \in DOMAIN m \ {l} PROVE <<m[j], m[l]>> \in R
  <2>1. c(j) \in 0 .. n - 1 /\ c(l) = n - 1 BY <1>2, <1>6
  <2>2. ~(c(l) < c(j)) BY <1>1, <2>1
  <2> QED BY <1>2, <1>3, <2>2
<1> QED BY <1>7, <1>8

\* What the memory keeps of H, n of it at most.
Chosen(m, H, n) ==
    /\ m \in Seq(Entries) /\ Once(m) /\ Members(m) \subseteq H /\ Len(m) <= n
    /\ Len(m) < n => Members(m) = H
    /\ \A x \in Members(m), y \in H \ Members(m) :
         IF task.reverse THEN ~Before(x.key, y.key) ELSE <<x, y>> \in ByKey(FALSE)

\* One more record, of n at most.
LEMMA Chooses ==
    ASSUME Asked, task.op = "top", NEW w, Shaped(w), NEW H, H = EntriesOf(w.count),
           Chosen(w.memory, H, task.n), task.n # 0,
           NEW record, NEW r, Carries(w, record, r), NEW v, v = Taking(w, record)
    PROVE  Chosen(v.memory, EntriesOf(w.count + 1), task.n)
<1> DEFINE e == [key |-> KeyOf(record, task.cols[1]), load |-> w.count]
           m == w.memory
           under(a, b) == Before(a.key, b.key) \/ (a.key = b.key /\ a.load < b.load)
           worst == CHOOSE k \in DOMAIN m : \A j \in DOMAIN m \ {k} :
                        IF task.reverse THEN under(m[k], m[j]) ELSE under(m[j], m[k])
           better == IF task.reverse THEN Before(m[worst].key, e.key) ELSE Before(e.key, m[worst].key)
           m1 == Append(m, e)
           m2 == Append(RemoveAt(m, worst), e)
           n == task.n
           G == H \cup {e}
<1>1. v.memory = CASE Len(m) < n -> m1 [] Len(m) >= n /\ better -> m2 [] OTHER -> m
  <2>1. Choosing(w, record) =
          CASE Len(m) < n -> [w EXCEPT !.memory = m1]
            [] Len(m) >= n /\ better -> [w EXCEPT !.memory = m2]
            [] OTHER -> w
    BY DEF Choosing
  <2>2. Taking(w, record) = [Choosing(w, record) EXCEPT !.count = @ + 1] BY DEF Taking
  <2> HIDE DEF better, m1, m2, n, m
  <2>3. \A x : [w EXCEPT !.memory = x].memory = x BY DEF Shaped, Fields
  <2>4. Choosing(w, record).memory = CASE Len(m) < n -> m1 [] Len(m) >= n /\ better -> m2 [] OTHER -> m
    <3>1. w.memory = m BY DEF m
    <3> QED BY <2>1, <2>3, <3>1
  <2>5. v.memory = Choosing(w, record).memory BY <2>2
  <2> QED BY <2>4, <2>5
<1>2. /\ r \in Records /\ r.line = <<record[1]>> /\ r.no = w.count /\ w.count \in Nat
      /\ Taken(w.count + 1) = Taken(w.count) \cup {r} /\ r \notin Taken(w.count)
  BY DEF Carries
<1>3. e = Entry(r)
  <2> DEFINE line == record[1]
  <2>1. record[1] = line OBVIOUS
  <2> HIDE DEF line
  <2>2. SortKey(record) = SortKey(<<line>>) BY <2>1, KeySeesFirst
  <2>3. r.line = <<line>> BY <1>2 DEF line
  <2>4. SortKey(record) = KeyOf(record, task.cols[1]) BY AskedFacts DEF SortKey
  <2> QED BY <1>2, <2>2, <2>3, <2>4 DEF Entry
<1>4. e \in Entries /\ e.load = w.count BY <1>2, <1>3, EntryFacts
<1>5. H \subseteq Entries /\ \A y \in H : y.load < e.load
  <2>1. \A s \in Taken(w.count) : s \in Records /\ s.no < w.count BY DEF Taken
  <2> QED BY <1>4, <2>1, EntryFacts DEF EntriesOf
<1>6. e \notin H
  <2>1. w.count \in Nat /\ ~(w.count < w.count) BY <1>2
  <2> HIDE DEF e
  <2> QED BY <1>4, <1>5, <2>1
<1>7. EntriesOf(w.count + 1) = G BY <1>2, <1>3 DEF EntriesOf
<1>8. n \in Nat \ {0} /\ task.reverse \in BOOLEAN BY AskedFacts
<1>9. /\ m \in Seq(Entries) /\ Once(m) /\ Members(m) \subseteq H /\ Len(m) <= n
      /\ Len(m) < n => Members(m) = H
      /\ \A x \in Members(m), y \in H \ Members(m) :
           IF task.reverse THEN ~Before(x.key, y.key) ELSE <<x, y>> \in ByKey(FALSE)
  BY DEF Chosen
<1>10. \A x, y \in Entries : <<x, y>> \in ByKey(FALSE) <=> under(x, y) BY ByKeyOrders
<1>11. \A x \in Entries : x.key \in Texts /\ x.load \in Int BY EntryFacts
<1> HIDE DEF e, m1, m2, m, n, G, under, worst, better
<1>12. Len(m) \in Nat /\ DOMAIN m = 1 .. Len(m) BY <1>9
<1>13. CASE Len(m) < n
  <2>0. ~(Len(m) >= n) BY <1>8, <1>12, <1>13
  <2>1. v.memory = m1 BY <1>1, <1>13, <2>0
  <2>2. Members(m) = H /\ e \notin Members(m) BY <1>6, <1>9, <1>13
  <2>3. Once(m1) /\ m1 \in Seq(Entries) /\ Len(m1) = Len(m) + 1 BY <1>4, <1>9, <2>2, AppendOnce DEF m1
  <2>4. Members(m1) = G BY <1>9, <2>2, SeqFacts DEF m1, G
  <2>5. Len(m1) <= n BY <1>8, <1>12, <1>13, <2>3
  <2>6. Chosen(m1, G, n) BY <2>3, <2>4, <2>5 DEF Chosen
  <2> QED BY <1>7, <2>1, <2>6 DEF n
<1>14. CASE ~(Len(m) < n)
  <2>0. Len(m) = n /\ Len(m) >= n /\ n # 0
    <3>1. n \in Nat \ {0} /\ Len(m) \in Nat BY <1>8, <1>12
    <3>2. Len(m) <= n BY <1>9
    <3> QED BY ONLY <1>14, <3>1, <3>2
  <2>1. Len(m) = n /\ Len(m) >= n /\ m # <<>> BY <2>0
  <2>2. worst \in DOMAIN m /\ \A j \in DOMAIN m \ {worst} :
                        IF task.reverse THEN under(m[worst], m[j]) ELSE under(m[j], m[worst])
    <3>1. Linear(ByKey(FALSE), Entries) BY ByKeyOrders
    <3>2. PICK R : R = ByKey(FALSE) OBVIOUS
    <3>3. /\ \E k \in DOMAIN m : \A j \in DOMAIN m \ {k} : <<m[k], m[j]>> \in R
          /\ \E k \in DOMAIN m : \A j \in DOMAIN m \ {k} : <<m[j], m[k]>> \in R
      BY <1>9, <2>1, <3>1, <3>2, Ends
    <3>4. \A k \in DOMAIN m : m[k] \in Entries BY <1>9, <1>12
    <3>5. \E k \in DOMAIN m : \A j \in DOMAIN m \ {k} :
             IF task.reverse THEN under(m[k], m[j]) ELSE under(m[j], m[k])
      BY <1>10, <3>2, <3>3, <3>4
    <3> QED BY <3>5 DEF worst
  <2> DEFINE x0 == m[worst]
  <2>3. x0 \in Members(m) /\ x0 \in H /\ x0 \in Entries BY <1>5, <1>9, <2>2, InMembers
  <2>4. \A x \in Members(m) : x \in H /\ x \in Entries /\ (x # x0 => IF task.reverse THEN under(x0, x) ELSE under(x, x0))
    <3> TAKE x \in Members(m)
    <3>1. PICK j \in DOMAIN m : x = m[j] BY InMembers
    <3>2. x # x0 => j # worst BY <3>1
    <3> QED BY <1>5, <1>9, <2>2, <3>1, <3>2
  <2>5. better <=> IF task.reverse THEN Before(x0.key, e.key) ELSE Before(e.key, x0.key) BY DEF better
  <2> DEFINE t == RemoveAt(m, worst)
  <2>6. t \in Seq(Entries) /\ Once(t) /\ Len(t) = Len(m) - 1 /\ Members(t) = Members(m) \ {x0}
    BY <1>9, <2>2, Removed
  <2> HIDE DEF x0, t
  <2>7. CASE better
    <3>1. v.memory = m2 /\ m2 = Append(t, e) BY <1>1, <1>14, <2>1, <2>7 DEF m2, t
    <3>2. e \notin Members(t) BY <1>6, <1>9, <2>6
    <3>3. Once(m2) /\ m2 \in Seq(Entries) /\ Len(m2) = Len(t) + 1 BY <1>4, <2>6, <3>1, <3>2, AppendOnce
    <3>4. Members(m2) = (Members(m) \ {x0}) \cup {e} BY <2>6, <3>1, SeqFacts
    <3>5. Len(m2) = n BY <1>12, <2>1, <2>6, <3>3
    <3>6. ASSUME NEW x \in Members(m2), NEW y \in G \ Members(m2)
          PROVE  IF task.reverse THEN ~Before(x.key, y.key) ELSE <<x, y>> \in ByKey(FALSE)
      <4>1. y \in H /\ y \in Entries /\ (y = x0 \/ y \notin Members(m))
        BY <1>5, <3>4 DEF G
      <4>2. (x \in Members(m) /\ x # x0) \/ x = e BY <3>4
      <4>3. x \in Entries BY <1>4, <2>4, <4>2
      <4>4. x.key \in Texts /\ y.key \in Texts /\ x0.key \in Texts /\ e.key \in Texts
            /\ x.load \in Int /\ y.load \in Int /\ x0.load \in Int /\ e.load \in Int
        BY <1>4, <1>11, <2>3, <4>1, <4>3
      <4>5. CASE task.reverse
        <5>1. ~Before(x0.key, y.key)
          <6>1. y = x0 => ~Before(x0.key, y.key) BY <4>4, BeforeOrders
          <6> QED BY <1>9, <2>3, <4>1, <4>5, <6>1
        <5>2. Before(x0.key, e.key) BY <2>5, <2>7, <4>5
        <5>3. Before(x0.key, x.key) \/ x0.key = x.key
          <6>1. x # e => under(x0, x) BY <2>4, <4>2, <4>5
          <6> QED BY <5>2, <6>1 DEF under
        <5>4. ~Before(x.key, y.key) BY <4>4, <5>1, <5>3, BeforeOrders
        <5> QED BY <4>5, <5>4
      <4>6. CASE ~task.reverse
        <5>1. y # x0 => under(x0, y) BY <1>9, <1>10, <2>3, <4>1, <4>6
        <5>2. Before(e.key, x0.key) BY <2>5, <2>7, <4>6
        <5>3. x # e => under(x, x0) BY <2>4, <4>2, <4>6
        <5>4. under(x, x0) BY <5>2, <5>3 DEF under
        <5>5. under(x, y)
          <6>1. CASE y = x0 BY <5>4, <6>1
          <6>2. CASE y # x0
            <7>1. <<x, x0>> \in ByKey(FALSE) /\ <<x0, y>> \in ByKey(FALSE)
              BY <1>10, <2>3, <4>1, <4>3, <5>1, <5>4, <6>2
            <7>2. Linear(ByKey(FALSE), Entries) BY ByKeyOrders
            <7>3. <<x, y>> \in ByKey(FALSE) BY <2>3, <4>1, <4>3, <7>1, <7>2 DEF Linear
            <7> QED BY <1>10, <4>1, <4>3, <7>3
          <6> QED BY <6>1, <6>2
        <5> QED BY <1>10, <4>1, <4>3, <4>6, <5>5
      <4> QED BY <1>8, <4>5, <4>6
    <3>7. Members(m2) \subseteq G BY <1>9, <3>4 DEF G
    <3>8. Chosen(m2, G, n)
      <4>1. Len(m2) <= n /\ ~(Len(m2) < n) BY <1>8, <3>5
      <4> QED BY <3>3, <3>6, <3>7, <4>1 DEF Chosen
    <3> QED BY <1>7, <3>1, <3>8 DEF n
  <2>8. CASE ~better
    <3>1. v.memory = m BY <1>1, <1>14, <2>8
    <3>2. ASSUME NEW x \in Members(m), NEW y \in G \ Members(m)
          PROVE  IF task.reverse THEN ~Before(x.key, y.key) ELSE <<x, y>> \in ByKey(FALSE)
      <4>1. CASE y # e BY <1>9, <4>1 DEF G
      <4>2. CASE y = e
        <5>1. x \in H /\ x \in Entries BY <2>4
        <5>2. x.key \in Texts /\ x0.key \in Texts /\ e.key \in Texts /\ x.load < e.load
          BY <1>4, <1>5, <1>11, <2>3, <5>1
        <5>3. CASE task.reverse
          <6>1. ~Before(x0.key, e.key) BY <2>5, <2>8, <5>3
          <6>2. Before(x0.key, x.key) \/ x0.key = x.key BY <2>4, <5>3 DEF under
          <6>3. ~Before(x.key, e.key) BY <5>2, <6>1, <6>2, BeforeOrders
          <6> QED BY <4>2, <5>3, <6>3
        <5>4. CASE ~task.reverse
          <6>1. ~Before(e.key, x0.key) BY <2>5, <2>8, <5>4
          <6>2. Before(x.key, x0.key) \/ x.key = x0.key BY <2>4, <5>4 DEF under
          <6>3. ~Before(e.key, x.key) BY <5>2, <6>1, <6>2, BeforeOrders
          <6>4. under(x, e) BY <5>2, <6>3, BeforeOrders DEF under
          <6> QED BY <1>4, <1>10, <4>2, <5>1, <5>4, <6>4
        <5> QED BY <5>3, <5>4
      <4> QED BY <4>1, <4>2
    <3>3. Chosen(m, G, n)
      <4>1. Members(m) \subseteq G /\ ~(Len(m) < n) BY <1>9, <1>14 DEF G
      <4> QED BY <1>9, <3>2, <4>1 DEF Chosen
    <3> QED BY <1>7, <3>1, <3>3 DEF n
  <2> QED BY <2>7, <2>8
<1> QED BY <1>13, <1>14

\* Displayed.
LEMMA DisplayedRises ==
    ASSUME Asked, NEW m \in Seq(Entries), Once(m), NEW t, t = Displayed(m)
    PROVE  /\ t \in Seq(Entries) /\ Len(t) = Len(m) /\ Rising(t, ByKey(task.reverse))
           /\ Members(t) = Members(m)
<1> DEFINE R == ByKey(task.reverse)
           shown(e, f) == \/ IF task.reverse THEN Before(f.key, e.key) ELSE Before(e.key, f.key)
                          \/ e.key = f.key /\ e.load < f.load
           low(i) == {j \in DOMAIN m : shown(m[j], m[i])}
           pick(k) == CHOOSE i \in DOMAIN m : Cardinality(low(i)) = k - 1
<1>1. DOMAIN m = 1 .. Len(m) /\ \A i \in DOMAIN m : m[i] \in Entries OBVIOUS
<1>2. Linear(R, Entries) /\ \A e, f \in Entries : <<e, f>> \in R <=> shown(e, f)
  <2>1. task.reverse \in BOOLEAN BY AskedFacts
  <2> QED BY <2>1, ByKeyOrders
<1>3. t = [k \in DOMAIN m |-> m[pick(k)]] BY DEF Displayed, InOrder
<1> HIDE DEF shown, R
<1>4. \A i \in DOMAIN m : low(i) = Earlier(m, R, i) BY <1>1, <1>2 DEF Earlier
<1>5. \A k \in DOMAIN m : \E i \in DOMAIN m : Cardinality(Earlier(m, R, i)) = k - 1 BY <1>2, EarlierRanks
<1> HIDE DEF low
<1>6. \A k \in DOMAIN m : \E i \in DOMAIN m : Cardinality(low(i)) = k - 1 BY <1>4, <1>5
<1>7. \A k \in DOMAIN m : pick(k) \in DOMAIN m /\ Cardinality(low(pick(k))) = k - 1
  <2> TAKE k \in DOMAIN m
  <2>1. \E i \in DOMAIN m : Cardinality(low(i)) = k - 1 BY <1>6
  <2> QED BY <2>1
<1> HIDE DEF pick
<1>8. \A k \in DOMAIN m : t[k] = m[pick(k)] BY <1>3
<1>9. DOMAIN t = DOMAIN m /\ t = [k \in DOMAIN t |-> t[k]] BY <1>3
<1>10. \A k \in DOMAIN m : \E i \in DOMAIN m : t[k] = m[i] /\ Cardinality(Earlier(m, R, i)) = k - 1
  BY <1>4, <1>7, <1>8
<1>11. Arranges(t, m, R) BY <1>9, <1>10 DEF Arranges
<1>12. t \in Seq(Entries) /\ Len(t) = Len(m) /\ Rising(t, R) /\ Members(t) = Members(m)
  BY <1>2, <1>9, <1>11, Arranged
<1> QED BY <1>12 DEF R

\* The records in the order asked for.
Order == {p \in Records \X Records : Precedes(p[1], p[2])}

LEMMA OrderFacts ==
    ASSUME Asked
    PROVE  /\ Linear(Order, Records) /\ IsFiniteSet(Records) /\ Cardinality(Records) \in Nat
           /\ \A r, s \in Records : /\ <<r, s>> \in Order <=> Precedes(r, s)
                                    /\ <<r, s>> \in Order <=> <<Entry(r), Entry(s)>> \in ByKey(task.reverse)
           /\ \A r \in Records : /\ Place(Records, r) = 1 + Cardinality(Below(Records, Order, r))
                                 /\ IsFiniteSet(Below(Records, Order, r))
                                 /\ Cardinality(Below(Records, Order, r)) \in Nat
           /\ \A r, s \in Records : Place(Records, r) = Place(Records, s) => r = s
           /\ \A k \in 1 .. Cardinality(Records) : \E r \in Records : Place(Records, r) = k
<1>1. \A r, s \in Records : <<r, s>> \in Order <=> Precedes(r, s) BY DEF Order
<1>2. \A r, s \in Records : <<r, s>> \in Order <=> <<Entry(r), Entry(s)>> \in ByKey(task.reverse)
  BY <1>1, EntriesPrecede
<1>3. Linear(Order, Records)
  <2>1. Linear(ByKey(task.reverse), Entries) BY AskedFacts, ByKeyOrders
  <2>2. \A r, s \in Records : Entry(r) \in Entries /\ (Entry(r) = Entry(s) => r = s) BY EntryFacts
  <2> QED BY <1>2, <2>1, <2>2 DEF Linear
<1>4. IsFiniteSet(Records)
  <2> DEFINE f == [i \in FirstLines |-> RecordAt(i)]
  <2>1. f \in Surjection(FirstLines, Records)
    <3>1. \A i \in FirstLines : RecordAt(i) \in Records BY RecordFacts
    <3>2. f \in [FirstLines -> Records] BY <3>1
    <3>3. \A r \in Records : \E i \in FirstLines : f[i] = r BY RecordFacts
    <3> HIDE DEF f
    <3> QED BY <3>2, <3>3 DEF Surjection
  <2>2. IsFiniteSet(FirstLines) BY RecordFacts
  <2> HIDE DEF f
  <2> QED BY <2>1, <2>2, FS_Surjection
<1> DEFINE low == [r \in Records |-> Below(Records, Order, r)]
<1>5. \A r \in Records : low[r] \subseteq Records /\ \A s \in Records : s \in low[r] <=> <<s, r>> \in Order
  BY DEF Below
<1>6. \A r \in Records : low[r] = Below(Records, Order, r) OBVIOUS
<1> HIDE DEF low
<1>7. Ranked(Records, low)
  <2>1. \A r \in Records : r \notin low[r] BY <1>3, <1>5 DEF Linear
  <2>2. ASSUME NEW r \in Records, NEW s \in low[r] PROVE low[s] \subseteq low[r]
    BY <1>3, <1>5 DEF Linear
  <2>3. ASSUME NEW r \in Records, NEW s \in Records, r # s PROVE r \in low[s] \/ s \in low[r]
    BY <1>3, <1>5, <2>3 DEF Linear
  <2> QED BY <1>4, <1>5, <2>1, <2>2, <2>3 DEF Ranked
<1> DEFINE N == Cardinality(Records)
<1>8. /\ N \in Nat
      /\ \A x \in Records : Cardinality(low[x]) \in 0 .. N - 1
      /\ \A x, y \in Records : x \in low[y] <=> Cardinality(low[x]) < Cardinality(low[y])
      /\ \A k \in 0 .. N - 1 : \E x \in Records : Cardinality(low[x]) = k
  BY <1>7, RankedFacts
<1>9. \A r \in Records : Place(Records, r) = 1 + Cardinality(low[r])
  <2> TAKE r \in Records
  <2>1. {s \in Records : Precedes(s, r)} = Below(Records, Order, r) BY <1>1 DEF Below
  <2> QED BY <1>6, <2>1 DEF Place
<1>10. ASSUME NEW r \in Records, NEW s \in Records, Place(Records, r) = Place(Records, s) PROVE r = s
  <2>1. Cardinality(low[r]) = Cardinality(low[s])
    <3>1. Cardinality(low[r]) \in Int /\ Cardinality(low[s]) \in Int BY <1>8
    <3> QED BY <1>9, <1>10, <3>1
  <2>2. Cardinality(low[r]) \in Int BY <1>8
  <2>3. r \notin low[s] /\ s \notin low[r] BY <1>8, <2>1, <2>2
  <2> QED BY <1>3, <1>5, <2>3 DEF Linear
<1>11. ASSUME NEW k \in 1 .. N PROVE \E r \in Records : Place(Records, r) = k
  <2>1. k - 1 \in 0 .. N - 1 /\ 1 + (k - 1) = k BY <1>8
  <2>2. PICK r \in Records : Cardinality(low[r]) = k - 1 BY <1>8, <2>1
  <2> QED BY <1>9, <2>1, <2>2
<1>12. \A r \in Records : IsFiniteSet(Below(Records, Order, r)) /\ Cardinality(Below(Records, Order, r)) \in Nat
  <2> TAKE r \in Records
  <2>1. Below(Records, Order, r) \subseteq Records BY DEF Below
  <2>2. IsFiniteSet(Below(Records, Order, r)) BY <1>4, <2>1, FS_Subset
  <2> QED BY <2>2, FS_CardinalityType
<1>13. \A r \in Records : Place(Records, r) = 1 + Cardinality(Below(Records, Order, r)) BY <1>6, <1>9
<1> QED BY <1>1, <1>2, <1>3, <1>4, <1>8, <1>10, <1>11, <1>12, <1>13

\* The records of entries in the order asked for.
LEMMA TheirRecords ==
    ASSUME Asked, NEW t \in Seq(Entries), Rising(t, ByKey(task.reverse))
    PROVE  \E g \in Seq(Records) :
             /\ Len(g) = Len(t) /\ DOMAIN g = 1 .. Len(t) /\ Rising(g, Order)
             /\ \A k \in 1 .. Len(t) : g[k] \in Records /\ t[k] = Entry(g[k])
             /\ \A r \in Records : r \in Members(g) <=> Entry(r) \in Members(t)
<1> DEFINE rec(k) == CHOOSE r \in Records : t[k] = Entry(r)
           n == Len(t)
           g == [k \in 1 .. n |-> rec(k)]
<1>1. n \in Nat /\ DOMAIN t = 1 .. n /\ \A k \in DOMAIN t : t[k] \in Entries OBVIOUS
<1>2. \A k \in DOMAIN t : rec(k) \in Records /\ t[k] = Entry(rec(k)) BY <1>1, EntryFacts
<1> HIDE DEF rec, n
<1>3. g \in Seq(Records) /\ Len(g) = n /\ DOMAIN g = 1 .. n /\ \A k \in 1 .. n : g[k] \in Records /\ t[k] = Entry(g[k])
  <2>1. g \in [1 .. n -> Records] BY <1>1, <1>2
  <2>2. \A k \in 1 .. n : g[k] \in Records /\ t[k] = Entry(g[k]) BY <1>1, <1>2
  <2> HIDE DEF g
  <2>3. g \in Seq(Records) BY <1>1, <2>1, SeqDef
  <2> QED BY <1>1, <2>1, <2>2, <2>3
<1> HIDE DEF g
<1>4. Rising(g, Order)
  <2> SUFFICES ASSUME NEW i \in DOMAIN g, NEW j \in DOMAIN g, i < j PROVE <<g[i], g[j]>> \in Order
    BY DEF Rising
  <2>1. <<t[i], t[j]>> \in ByKey(task.reverse) BY <1>1, <1>3 DEF Rising
  <2> QED BY <1>3, <2>1, OrderFacts
<1>5. ASSUME NEW r \in Records PROVE r \in Members(g) <=> Entry(r) \in Members(t)
  <2>1. ASSUME r \in Members(g) PROVE Entry(r) \in Members(t)
    <3>1. PICK k \in 1 .. n : r = g[k] BY <1>3, <2>1, InMembers
    <3> QED BY <1>1, <1>3, <3>1, InMembers
  <2>2. ASSUME Entry(r) \in Members(t) PROVE r \in Members(g)
    <3>1. PICK k \in 1 .. n : Entry(r) = t[k] BY <1>1, <2>2, InMembers
    <3>2. g[k] = r BY <1>3, <3>1, EntryFacts
    <3> QED BY <1>3, <3>2, InMembers
  <2> QED BY <2>1, <2>2
<1> QED BY <1>3, <1>4, <1>5 DEF n

\* The k-th number is of the record in place k, or of one of its key.
TopRows(z) ==
    /\ Len(z) = Lesser(task.n, Cardinality(Records)) /\ IsInjective(z)
    /\ \A k \in DOMAIN z : \E r \in Records : \E s \in Records :
         /\ r.no = z[k] /\ Place(Records, s) = k
         /\ IF task.reverse THEN SortKey(r.line) = SortKey(s.line) ELSE r = s

\* What was chosen, displayed, is what was asked for.
LEMMA TopExactly ==
    ASSUME Asked, task.op = "top", NEW m, Chosen(m, Entries, task.n), NEW t, t = Displayed(m),
           NEW z, z = [k \in DOMAIN m |-> t[k].load]
    PROVE  TopRows(z)
<1>1. /\ m \in Seq(Entries) /\ Once(m) /\ Len(m) <= task.n
      /\ Len(m) < task.n => Members(m) = Entries
      /\ \A x \in Members(m), y \in Entries \ Members(m) :
           IF task.reverse THEN ~Before(x.key, y.key) ELSE <<x, y>> \in ByKey(FALSE)
  BY DEF Chosen
<1>2. /\ t \in Seq(Entries) /\ Len(t) = Len(m) /\ Rising(t, ByKey(task.reverse))
      /\ Members(t) = Members(m)
  BY <1>1, DisplayedRises
<1> DEFINE n == Len(m)
           N == Cardinality(Records)
<1>3. PICK g \in Seq(Records) :
             /\ Len(g) = n /\ DOMAIN g = 1 .. n /\ Rising(g, Order)
             /\ \A k \in 1 .. n : g[k] \in Records /\ t[k] = Entry(g[k])
             /\ \A r \in Records : r \in Members(g) <=> Entry(r) \in Members(t)
  BY <1>2, TheirRecords
<1>4. n \in Nat /\ N \in Nat /\ task.n \in Nat /\ DOMAIN m = 1 .. n /\ task.reverse \in BOOLEAN
  BY <1>1, OrderFacts, AskedFacts
<1> DEFINE B == Members(g)
<1>5. /\ Once(g) /\ IsFiniteSet(B) /\ Cardinality(B) = n
      /\ \A k \in 1 .. n : /\ IsFiniteSet(Below(B, Order, g[k])) /\ Cardinality(Below(B, Order, g[k])) = k - 1
  <2>1. Linear(Order, Records) BY OrderFacts
  <2>2. /\ Once(g) /\ IsFiniteSet(Members(g)) /\ Cardinality(Members(g)) = Len(g)
        /\ \A k \in 1 .. Len(g) : /\ IsFiniteSet(Below(Members(g), Order, g[k]))
                                  /\ Cardinality(Below(Members(g), Order, g[k])) = k - 1
    BY <1>3, <2>1, Standing
  <2> HIDE DEF n
  <2> QED BY <1>3, <2>2
<1> HIDE DEF n, N
<1>6. B \subseteq Records /\ \A k \in 1 .. n : g[k] \in B BY <1>3, InMembers
<1> HIDE DEF B
<1>7. n <= N
  <2>1. IsFiniteSet(Records) BY OrderFacts
  <2>2. Cardinality(B) <= Cardinality(Records) BY <1>6, <2>1, FS_Subset
  <2> QED BY <1>5, <2>2 DEF N
<1>8. n < task.n => B = Records
  <2> SUFFICES ASSUME n < task.n PROVE Records \subseteq B BY <1>6
  <2>1. Members(t) = Entries BY <1>1, <1>2 DEF n
  <2>2. \A r \in Records : Entry(r) \in Members(t) BY <2>1, EntryFacts
  <2> QED BY <1>3, <2>2 DEF B
<1>9. n = Lesser(task.n, N)
  <2>1. n < task.n => n = N BY <1>5, <1>8 DEF N
  <2>2. n <= task.n BY <1>1 DEF n
  <2> QED BY ONLY <1>4, <1>7, <2>1, <2>2 DEF Lesser
<1>10. DOMAIN z = 1 .. n /\ \A k \in 1 .. n : z[k] = t[k].load BY <1>4
<1>11. \A k \in 1 .. n : z[k] = g[k].no
  <2> TAKE k \in 1 .. n
  <2>1. t[k] = Entry(g[k]) /\ g[k] \in Records BY <1>3
  <2> QED BY <1>10, <2>1, EntryFacts
<1>12. Len(z) = n
  <2>1. z = [k \in 1 .. n |-> t[k].load] BY <1>4
  <2> DEFINE T == {z[k] : k \in 1 .. n}
  <2>2. z \in [1 .. n -> T] BY <2>1
  <2> HIDE DEF T
  <2>3. z \in Seq(T) BY <1>4, <2>2, SeqDef
  <2> QED BY <1>4, <1>10, <2>3
<1>13. IsInjective(z)
  <2> SUFFICES ASSUME NEW j \in 1 .. n, NEW k \in 1 .. n, z[j] = z[k] PROVE j = k
    BY <1>10 DEF IsInjective
  <2>1. g[j].no = g[k].no /\ g[j] \in Records /\ g[k] \in Records BY <1>3, <1>11
  <2>2. g[j] = g[k] BY <2>1, RecordFacts
  <2> QED BY <1>3, <1>5, <2>2 DEF Once
<1> DEFINE key(r) == SortKey(r.line)
<1>14. \A r \in Records : key(r) \in Texts /\ Entry(r) \in Entries /\ Entry(r).key = key(r) /\ Entry(r).load = r.no
  BY EntryFacts
<1>15. \A r \in B, y \in Records \ B : IF task.reverse THEN ~Before(key(r), key(y)) ELSE <<r, y>> \in Order
  <2> TAKE r \in B, y \in Records \ B
  <2>1. Entry(r) \in Members(m) /\ Entry(y) \in Entries \ Members(m)
    BY <1>2, <1>3, <1>6, <1>14 DEF B
  <2>2. r \in Records /\ y \in Records BY <1>6
  <2>3. CASE task.reverse
    <3>1. ~Before(Entry(r).key, Entry(y).key) BY <1>1, <2>1, <2>3
    <3> QED BY <1>14, <2>2, <2>3, <3>1
  <2>4. CASE ~task.reverse
    <3>1. <<Entry(r), Entry(y)>> \in ByKey(FALSE) BY <1>1, <2>1, <2>4
    <3>2. task.reverse = FALSE BY <1>4, <2>4
    <3>3. <<r, y>> \in Order BY <2>2, <3>1, <3>2, OrderFacts
    <3> QED BY <2>4, <3>3
  <2> QED BY <1>4, <2>3, <2>4
<1>16. \A r, s \in Records : <<r, s>> \in Order <=>
          \/ (IF task.reverse THEN Before(key(s), key(r)) ELSE Before(key(r), key(s)))
          \/ key(r) = key(s) /\ r.no < s.no
  BY OrderFacts, PrecedesIs
<1> HIDE DEF key
<1>17. ASSUME NEW k \in 1 .. n
       PROVE  \E r \in Records : \E s \in Records :
                /\ r.no = z[k] /\ Place(Records, s) = k
                /\ IF task.reverse THEN key(r) = key(s) ELSE r = s
  <2> DEFINE a == g[k]
             L == Below(B, Order, a)
  <2>1. a \in Records /\ a \in B /\ a.no = z[k] /\ IsFiniteSet(L) /\ Cardinality(L) = k - 1
    BY <1>3, <1>5, <1>6, <1>11
  <2> HIDE DEF a
  <2>2. \A x : x \in L <=> x \in B /\ <<x, a>> \in Order BY DEF Below
  <2>3. k \in 1 .. N BY <1>4, <1>7
  <2>4. PICK w \in Records : Place(Records, w) = k BY <2>3, OrderFacts DEF N
  <2> DEFINE M == Below(Records, Order, w)
  <2>5. IsFiniteSet(M) /\ Cardinality(M) = k - 1
    <3>1. k = 1 + Cardinality(M) /\ Cardinality(M) \in Nat /\ IsFiniteSet(M) BY <2>4, OrderFacts
    <3> HIDE DEF M
    <3> QED BY <3>1
  <2>6. \A x : x \in M <=> x \in Records /\ <<x, w>> \in Order BY DEF Below
  <2> HIDE DEF L, M
  <2>7. CASE ~task.reverse
    <3>1. ASSUME NEW x \in Records PROVE <<x, a>> \in Order <=> x \in L
      <4>1. x \notin B => <<a, x>> \in Order BY <1>15, <2>1, <2>7, <3>1
      <4>2. ~(<<a, x>> \in Order /\ <<x, a>> \in Order) BY <2>1, <3>1, OrderFacts DEF Linear
      <4> QED BY <2>2, <4>1, <4>2
    <3>2. Below(Records, Order, a) = L
      <4>1. L \subseteq Records BY <1>6, <2>2
      <4> QED BY <3>1, <4>1 DEF Below
    <3>3. Place(Records, a) = 1 + (k - 1) BY <2>1, <3>2, OrderFacts
    <3>4. Place(Records, a) = k BY <3>3
    <3> QED BY <2>1, <2>7, <3>4
  <2>8. CASE task.reverse
    <3>1. key(a) \in Texts /\ key(w) \in Texts BY <1>14, <2>1
    <3>2. ~Before(key(w), key(a))
      <4> SUFFICES ASSUME Before(key(w), key(a)) PROVE FALSE OBVIOUS
      <4>1. L \cup {a} \subseteq M
        <5> SUFFICES ASSUME NEW x \in L \cup {a} PROVE x \in M OBVIOUS
        <5>1. x \in Records /\ (x = a \/ <<x, a>> \in Order) BY <1>6, <2>1, <2>2
        <5>2. <<a, w>> \in Order BY <1>16, <2>1, <2>8
        <5>3. <<x, w>> \in Order BY <2>1, <5>1, <5>2, OrderFacts DEF Linear
        <5> QED BY <2>6, <5>1, <5>3
      <4>2. a \notin L BY <2>1, <2>2, OrderFacts DEF Linear
      <4>3. Cardinality(L \cup {a}) = (k - 1) + 1 BY <2>1, <4>2, FS_AddElement
      <4>4. Cardinality(L \cup {a}) <= Cardinality(M) BY <2>5, <4>1, FS_Subset
      <4> QED BY ONLY <2>5, <4>3, <4>4, k \in 1 .. n, <1>4
    <3>3. ~Before(key(a), key(w))
      <4> SUFFICES ASSUME Before(key(a), key(w)) PROVE FALSE OBVIOUS
      <4>1. M \cup {w} \subseteq L
        <5> SUFFICES ASSUME NEW x \in M \cup {w} PROVE x \in L OBVIOUS
        <5>1. x \in Records /\ (x = w \/ <<x, w>> \in Order) BY <2>6
        <5>2. x = w \/ Before(key(w), key(x)) \/ key(x) = key(w) BY <1>16, <2>8, <5>1
        <5>3. key(x) \in Texts BY <1>14, <5>1
        <5>4. Before(key(a), key(x)) BY <3>1, <5>2, <5>3, BeforeOrders
        <5>5. x \in B BY <1>15, <2>1, <2>8, <5>1, <5>4
        <5>6. <<x, a>> \in Order BY <1>16, <2>1, <2>8, <5>1, <5>4
        <5> QED BY <2>2, <5>5, <5>6
      <4>2. w \notin M BY <2>6, OrderFacts DEF Linear
      <4>3. Cardinality(M \cup {w}) = (k - 1) + 1 BY <2>5, <4>2, FS_AddElement
      <4>4. Cardinality(M \cup {w}) <= Cardinality(L) BY <2>1, <4>1, FS_Subset
      <4> QED BY ONLY <2>1, <4>3, <4>4, k \in 1 .. n, <1>4
    <3>4. key(a) = key(w) BY <3>1, <3>2, <3>3, BeforeOrders
    <3> QED BY <2>1, <2>4, <2>8, <3>4
  <2> QED BY <2>7, <2>8
<1>18. \A k \in DOMAIN z : \E r \in Records : \E s \in Records :
                /\ r.no = z[k] /\ Place(Records, s) = k
                /\ IF task.reverse THEN SortKey(r.line) = SortKey(s.line) ELSE r = s
  BY <1>10, <1>17 DEF key
<1> QED BY <1>9, <1>12, <1>13, <1>18 DEF N, TopRows

LEMMA TopIs == Asked /\ task.op = "top" /\ TopRows(rows) => TopExact(Records)
<1> SUFFICES ASSUME Asked, task.op = "top", TopRows(rows) PROVE TopExact(Records) OBVIOUS
<1>1. \A x : SortKey(x) = KeyOf(x, task.cols[1]) BY AskedFacts DEF SortKey
<1> DEFINE chosen(k) == CHOOSE r \in Records : r.no = rows[k]
           wanted(k) == CHOOSE r \in Records : Place(Records, r) = k
<1>2. ASSUME NEW k \in DOMAIN rows
      PROVE  IF task.reverse
             THEN KeyOf(chosen(k).line, task.cols[1]) = KeyOf(wanted(k).line, task.cols[1])
             ELSE rows[k] = wanted(k).no
  <2>1. PICK r \in Records, s \in Records :
         /\ r.no = rows[k] /\ Place(Records, s) = k
         /\ IF task.reverse THEN SortKey(r.line) = SortKey(s.line) ELSE r = s
    BY DEF TopRows
  <2>2. \A x \in Records : x.no = rows[k] => x = r
    <3>1. \A x \in Records : x.no = r.no => x = r BY <2>1, SameNumber
    <3>2. r.no = rows[k] BY <2>1
    <3> QED BY ONLY <3>1, <3>2
  <2>3. \A x \in Records : Place(Records, x) = k => x = s BY <2>1, OrderFacts
  <2>4. chosen(k) = r BY <2>1, <2>2
  <2>5. wanted(k) = s BY <2>1, <2>3
  <2> HIDE DEF chosen, wanted
  <2> QED BY <1>1, <2>1, <2>4, <2>5
<1> QED BY <1>2 DEF TopExact, TopRows

LEMMA TopStays ==
    ASSUME UNCHANGED <<task, input>>
    PROVE  /\ \A z : TopRows(z)' <=> TopRows(z)
           /\ \A m, c : Chosen(m, EntriesOf(c), task.n)' <=> Chosen(m, EntriesOf(c), task.n)
<1>1. /\ Entries' = Entries /\ Records' = Records /\ \A c : EntriesOf(c)' = EntriesOf(c)
  BY SortStays
<1>2. \A recs, r : Place(recs, r)' = Place(recs, r) BY DEF Place, Precedes, KeyOf
<1>3. \A x : SortKey(x)' = SortKey(x) BY DEF SortKey, KeyOf
<1>4. \A z : TopRows(z)' <=> TopRows(z)
  <2> TAKE z
  <2>1. PICK recs : recs = Records OBVIOUS
  <2>2. Records' = recs BY <1>1, <2>1
  <2>3. TopRows(z) <=>
          /\ Len(z) = Lesser(task.n, Cardinality(recs)) /\ IsInjective(z)
          /\ \A k \in DOMAIN z : \E r \in recs : \E s \in recs :
               /\ r.no = z[k] /\ Place(recs, s) = k
               /\ IF task.reverse THEN SortKey(r.line) = SortKey(s.line) ELSE r = s
    BY <2>1 DEF TopRows
  <2>4. TopRows(z)' <=>
          /\ Len(z) = Lesser(task.n, Cardinality(recs)) /\ IsInjective(z)
          /\ \A k \in DOMAIN z : \E r \in recs : \E s \in recs :
               /\ r.no = z[k] /\ Place(recs, s)' = k
               /\ IF task.reverse THEN SortKey(r.line)' = SortKey(s.line)' ELSE r = s
    BY <2>2 DEF TopRows, Place
  <2> QED BY <1>2, <1>3, <2>3, <2>4
<1>5. (ByKey(FALSE))' = ByKey(FALSE) BY <1>1 DEF ByKey
<1>6. \A m, c : Chosen(m, EntriesOf(c), task.n)' <=> Chosen(m, EntriesOf(c), task.n)
  BY <1>1, <1>5 DEF Chosen
<1> QED BY <1>4, <1>6

TopInv ==
    task.op = "top" =>
        /\ phase = "read" => task.n # 0 /\ Chosen(work.memory, EntriesOf(work.count), task.n)
        /\ phase = "done" => TopRows(rows)

LEMMA TopInit == BatInit => TopInv
<1> SUFFICES ASSUME BatInit, task.op = "top" PROVE TopInv BY DEF TopInv
<1>1. work = NoWork /\ Asked /\ rows = <<>> /\ phase = IF task.n = 0 THEN "done" ELSE "read"
  BY DEF BatInit, Asked
<1>2. work.memory = <<>> /\ work.count = 0 BY <1>1 DEF NoWork
<1>3. EntriesOf(0) = {}
  <2>1. \A r \in Records : ~(r.no < 0) BY <1>1, RecordFacts
  <2>2. Taken(0) = {} BY <2>1 DEF Taken
  <2> QED BY <2>2 DEF EntriesOf
<1>4. Members(<<>>) = {} /\ <<>> \in Seq(Entries) /\ Once(<<>>) /\ Len(<<>>) = 0 BY DEF Members, Once
<1>5. task.n \in Nat BY <1>1, AskedFacts
<1>6. Chosen(<<>>, {}, task.n) BY <1>4, <1>5 DEF Chosen
<1>7. ASSUME task.n = 0 PROVE TopRows(rows)
  <2>1. Cardinality(Records) \in Nat BY <1>1, OrderFacts
  <2>2. Lesser(0, Cardinality(Records)) = 0 BY <2>1 DEF Lesser
  <2>3. rows = <<>> /\ Len(<<>>) = 0 /\ DOMAIN <<>> = {} BY <1>1
  <2>4. IsInjective(<<>>) BY <2>3 DEF IsInjective
  <2> QED BY <1>7, <2>2, <2>3, <2>4 DEF TopRows
<1> QED BY <1>1, <1>2, <1>3, <1>6, <1>7 DEF TopInv

LEMMA TopSteps == Course /\ Course' /\ TopInv /\ [BatNext]_batVars => TopInv'
<1> SUFFICES ASSUME Course, Course', TopInv, [BatNext]_batVars, task'.op = "top" PROVE TopInv'
  BY DEF TopInv
<1>1. UNCHANGED <<task, input>>
  BY DEF BatNext, Read, EndOfInput, BeginMerge, Pump, Fold, EndChunk, EndMerge, Fail, batVars
<1>2. task.op = "top" /\ Asked /\ phase # "merge" BY <1>1 DEF Course
<1>3. /\ \A z : TopRows(z)' <=> TopRows(z)
      /\ \A m, c : Chosen(m, EntriesOf(c), task.n)' <=> Chosen(m, EntriesOf(c), task.n)
  BY <1>1, TopStays
<1>4. ASSUME NEW z, rows' = z, TopRows(z), phase' = "done" PROVE TopInv'
  <2>1. TopRows(rows)' BY <1>3, <1>4 DEF TopRows
  <2> QED BY <1>4, <2>1 DEF TopInv
<1>5. ASSUME NEW m, NEW c, work'.memory = m, work'.count = c, Chosen(m, EntriesOf(c), task.n), phase' = "read",
             task.n # 0
      PROVE  TopInv'
  <2>1. Chosen(m, EntriesOf(c), task.n)' BY <1>3, <1>5
  <2>2. EntriesOf(work.count)' = EntriesOf(c)' BY <1>5 DEF EntriesOf, Taken
  <2>3. Chosen(work.memory, EntriesOf(work.count), task.n)' BY <1>5, <2>1, <2>2 DEF Chosen
  <2>4. (task.n # 0)' BY <1>1, <1>5
  <2> QED BY <1>5, <2>3, <2>4 DEF TopInv
<1>6. CASE Read
  <2>1. phase = "read" /\ phase' = phase BY <1>6 DEF Read
  <2>2. ReadOK /\ Fresh(work) /\ Chosen(work.memory, EntriesOf(work.count), task.n) /\ task.n # 0
    BY <1>2, <2>1 DEF Course, TopInv
  <2>3. PICK v : work' = v OBVIOUS
  <2>4. Chosen(v.memory, EntriesOf(v.count), task.n)
    <3>1. CASE work' = work BY <2>2, <2>3, <3>1
    <3>2. CASE ReadsOne
      <4>1. PICK record, r : Carries(work, record, r) /\ work' = Taking(work, record)
        BY <3>2 DEF ReadsOne
      <4>2. v = Taking(work, record) /\ Shaped(work) BY <2>2, <2>3, <4>1 DEF Fresh
      <4>3. v.count = work.count + 1 BY <4>2, TakingCounts
      <4>4. PICK H : H = EntriesOf(work.count) OBVIOUS
      <4>5. Chosen(work.memory, H, task.n) BY <2>2, <4>4
      <4>6. Chosen(v.memory, EntriesOf(work.count + 1), task.n)
        BY <1>2, <2>2, <4>1, <4>2, <4>4, <4>5, Chooses
      <4> QED BY <4>3, <4>6
    <3> QED BY <1>2, <1>6, <2>2, <3>1, <3>2, ReadCarries
  <2> QED BY <1>5, <2>1, <2>2, <2>3, <2>4
<1>7. CASE EndOfInput
  <2>1. phase = "read" /\ at = Len(input) BY <1>7 DEF EndOfInput
  <2>2. ReadOK /\ Fresh(work) /\ Chosen(work.memory, EntriesOf(work.count), task.n) /\ task.n # 0
    BY <1>2, <2>1 DEF Course, TopInv
  <2>3. PICK w : w = IF open = <<>> THEN work ELSE Taking(work, open) OBVIOUS
  <2>4. phase' = "done" /\ rows' = [k \in DOMAIN w.memory |-> Displayed(w.memory)[k].load]
    BY <1>2, <1>7, <2>3 DEF EndOfInput
  <2>5. Chosen(w.memory, Entries, task.n)
    <3>1. \A c : Taken(c) = Records => EntriesOf(c) = Entries BY DEF EntriesOf, Entries
    <3>2. CASE open = <<>>
      <4>1. w = work BY <2>3, <3>2
      <4>2. Taken(work.count) = Records BY <1>2, <2>1, <2>2, <3>2, EndTakes
      <4> QED BY <2>2, <3>1, <4>1, <4>2
    <3>3. CASE open # <<>>
      <4>1. w = Taking(work, open) BY <2>3, <3>3
      <4>2. PICK r : Carries(work, open, r) /\ Taken(work.count + 1) = Records
        BY <1>2, <2>1, <2>2, <3>3, EndCarries
      <4>3. Shaped(work) BY <2>2 DEF Fresh
      <4>4. PICK H : H = EntriesOf(work.count) OBVIOUS
      <4>5. Chosen(work.memory, H, task.n) BY <2>2, <4>4
      <4>6. Chosen(w.memory, EntriesOf(work.count + 1), task.n)
        BY <1>2, <2>2, <4>1, <4>2, <4>3, <4>4, <4>5, Chooses
      <4> QED BY <3>1, <4>2, <4>6
    <3> QED BY <3>2, <3>3
  <2>6. PICK m : m = w.memory OBVIOUS
  <2>7. PICK t : t = Displayed(m) OBVIOUS
  <2>8. PICK z : z = [k \in DOMAIN m |-> t[k].load] OBVIOUS
  <2>9. rows' = z BY <2>4, <2>6, <2>7, <2>8
  <2>10. TopRows(z) BY <1>2, <2>5, <2>6, <2>7, <2>8, TopExactly
  <2> QED BY <1>4, <2>4, <2>9, <2>10
<1>8. CASE BeginMerge \/ Pump \/ Fold \/ EndChunk \/ EndMerge
  BY <1>2, <1>8 DEF BeginMerge, Pump, Fold, EndChunk, EndMerge
<1>9. CASE Fail
  <2>1. phase' = "failed" BY <1>9 DEF Fail
  <2> QED BY <2>1 DEF TopInv
<1>10. CASE UNCHANGED batVars
  <2>1. phase' = phase /\ work' = work /\ rows' = rows BY <1>10 DEF batVars
  <2>2. CASE phase = "read"
    <3>1. Chosen(work.memory, EntriesOf(work.count), task.n) /\ task.n # 0 BY <1>2, <2>2 DEF TopInv
    <3> QED BY <1>5, <2>1, <2>2, <3>1
  <2>3. CASE phase = "done"
    <3>1. TopRows(rows) BY <1>2, <2>3 DEF TopInv
    <3>2. PICK z : z = rows OBVIOUS
    <3> QED BY <1>4, <2>1, <2>3, <3>1, <3>2
  <2>4. CASE phase = "failed" BY <2>1, <2>4 DEF TopInv
  <2> QED BY <1>2, <2>2, <2>3, <2>4 DEF Course
<1> QED BY <1>6, <1>7, <1>8, <1>9, <1>10 DEF BatNext

-----------------------------------------------------------------------------
(* Sums of numbers.                                                        *)

\* A number added to each before it.
Adds(f, n, a) == f[0] = 0 /\ \A i \in 1 .. n : f[i] = f[i - 1] + a[i]

LEMMA SumsExist ==
    ASSUME NEW n \in Nat, NEW a, \A i \in 1 .. n : a[i] \in Int
    PROVE  \E f : Adds(f, n, a) /\ \A i \in 0 .. n : f[i] \in Int
<1> DEFINE Sums(f, k) == Adds(f, k, a) /\ \A i \in 0 .. k : f[i] \in Int
           Q == {k \in 0 .. n : \E f : Sums(f, k)}
<1>1. \E f : Sums(f, 0)
  <2> DEFINE f == [i \in 0 .. 0 |-> 0]
  <2>1. \A i \in 0 .. 0 : f[i] = 0 OBVIOUS
  <2> HIDE DEF f
  <2>2. Sums(f, 0) BY <2>1 DEF Adds
  <2> QED BY <2>2
<1>2. ASSUME NEW k \in 1 .. n, \E f : Sums(f, k - 1) PROVE \E f : Sums(f, k)
  <2>1. PICK f : Sums(f, k - 1) BY <1>2
  <2> DEFINE g == [i \in 0 .. k |-> IF i = k THEN f[k - 1] + a[k] ELSE f[i]]
  <2>2. \A i \in 0 .. k - 1 : g[i] = f[i] OBVIOUS
  <2>3. g[k] = f[k - 1] + a[k] OBVIOUS
  <2> HIDE DEF g
  <2>4. f[k - 1] \in Int BY <2>1
  <2>5. \A i \in 0 .. k : g[i] \in Int
    <3> TAKE i \in 0 .. k
    <3>1. i = k \/ i \in 0 .. k - 1 OBVIOUS
    <3> QED BY <2>1, <2>2, <2>3, <2>4, <3>1
  <2>6. \A i \in 1 .. k : g[i] = g[i - 1] + a[i]
    <3> TAKE i \in 1 .. k
    <3>1. i = k \/ i \in 1 .. k - 1 OBVIOUS
    <3>2. i - 1 \in 0 .. k - 1 OBVIOUS
    <3>3. CASE i = k BY <2>2, <2>3, <3>2, <3>3
    <3>4. CASE i \in 1 .. k - 1
      <4>1. f[i] = f[i - 1] + a[i] BY <2>1, <3>4 DEF Adds
      <4>2. i \in 0 .. k - 1 BY <3>4
      <4> QED BY <2>2, <3>2, <4>1, <4>2
    <3> QED BY <3>1, <3>3, <3>4
  <2>7. g[0] = 0
    <3>1. 0 \in 0 .. k - 1 OBVIOUS
    <3> QED BY <2>1, <2>2, <3>1 DEF Adds
  <2>8. Sums(g, k) BY <2>5, <2>6, <2>7 DEF Adds
  <2> QED BY <2>8
<1> HIDE DEF Sums
<1>3. 0 \in Q BY <1>1
<1>4. \A k \in 1 .. n : k - 1 \in Q => k \in Q BY <1>2
<1>5. \A k \in 0 .. n : k \in Q
  <2> HIDE DEF Q
  <2> QED BY <1>3, <1>4, Climb
<1>6. n \in Q BY <1>5
<1> QED BY <1>6 DEF Sums

Num(r) == r.line[1].num

\* What the record of number i - 1 adds to what is asked of s.
RecordOf(i) == CHOOSE r \in Records : r.no = i - 1
Adding(s) == [i \in 1 .. Cardinality(FirstLines) |-> IF RecordOf(i) \in s THEN Num(RecordOf(i)) ELSE 0]
Summed(s) == CHOOSE f : Adds(f, Cardinality(FirstLines), Adding(s))
                        /\ \A i \in 0 .. Cardinality(FirstLines) : f[i] \in Int
Weight(s) == Summed(s)[Cardinality(FirstLines)]

LEMMA NumFacts ==
    ASSUME Asked, NEW r \in Records
    PROVE  Num(r) \in Int /\ NoNumber <= Num(r) /\ Num(r) <= Inf /\ Num(r) = r.line[1].num
<1>1. Keyed(r.line) BY RecordFacts
<1> DEFINE x == r.line[1].num
<1>2. x \in NoNumber .. Inf BY <1>1 DEF Keyed
<1>3. Num(r) = x BY DEF Num
<1> HIDE DEF x
<1>4. x \in Int /\ NoNumber <= x /\ x <= Inf BY <1>2 DEF NoNumber, Inf
<1>5. x = r.line[1].num BY DEF x
<1> QED BY <1>3, <1>4, <1>5

LEMMA WeightFacts ==
    ASSUME Asked
    PROVE  /\ Cardinality(FirstLines) \in Nat
           /\ \A r \in Records : r.no + 1 \in 1 .. Cardinality(FirstLines) /\ RecordOf(r.no + 1) = r
           /\ \A i \in 1 .. Cardinality(FirstLines) : RecordOf(i) \in Records /\ RecordOf(i).no = i - 1
           /\ \A s : /\ Adds(Summed(s), Cardinality(FirstLines), Adding(s))
                     /\ \A i \in 0 .. Cardinality(FirstLines) : Summed(s)[i] \in Int
                     /\ Weight(s) \in Int
<1> DEFINE n == Cardinality(FirstLines)
<1>1. /\ n \in Nat
      /\ \A r \in Records : r.no \in 0 .. n - 1
      /\ \A r, s \in Records : r.no = s.no => r = s
      /\ \A i \in 0 .. n - 1 : \E r \in Records : r.no = i
  BY RecordFacts
<1>2. \A s, i : i \in 1 .. n => Adding(s)[i] = IF RecordOf(i) \in s THEN Num(RecordOf(i)) ELSE 0 BY DEF Adding
<1> HIDE DEF n
<1>3. \A i \in 1 .. n : RecordOf(i) \in Records /\ RecordOf(i).no = i - 1
  <2> TAKE i \in 1 .. n
  <2>1. i - 1 \in 0 .. n - 1 BY <1>1
  <2>2. \E r \in Records : r.no = i - 1 BY <1>1, <2>1
  <2> QED BY <2>2 DEF RecordOf
<1>4. \A r \in Records : r.no + 1 \in 1 .. n /\ RecordOf(r.no + 1) = r
  <2> TAKE r \in Records
  <2>1. r.no \in 0 .. n - 1 BY <1>1
  <2>2. r.no + 1 \in 1 .. n BY <1>1, <2>1
  <2>3. RecordOf(r.no + 1) \in Records /\ RecordOf(r.no + 1).no = r.no BY <1>3, <2>1, <2>2
  <2> QED BY <1>1, <2>2, <2>3
<1>5. ASSUME NEW s
      PROVE  /\ Adds(Summed(s), n, Adding(s)) /\ \A i \in 0 .. n : Summed(s)[i] \in Int
             /\ Weight(s) \in Int
  <2>1. \A i \in 1 .. n : Adding(s)[i] \in Int
    <3> TAKE i \in 1 .. n
    <3>1. RecordOf(i) \in Records BY <1>3
    <3>2. Num(RecordOf(i)) \in Int BY <3>1, NumFacts
    <3> QED BY <1>2, <3>2
  <2> DEFINE a == Adding(s)
  <2> HIDE DEF a
  <2>2. \E f : Adds(f, n, a) /\ \A i \in 0 .. n : f[i] \in Int
    <3>1. \A i \in 1 .. n : a[i] \in Int BY <2>1 DEF a
    <3> QED BY <1>1, <3>1, SumsExist
  <2>3. Adds(Summed(s), n, a) /\ \A i \in 0 .. n : Summed(s)[i] \in Int
    BY <2>2 DEF Summed, n, a
  <2>4. n \in 0 .. n BY <1>1
  <2>5. Weight(s) \in Int BY <2>3, <2>4 DEF Weight, n
  <2> QED BY <2>3, <2>5 DEF a
<1> QED BY <1>1, <1>3, <1>4, <1>5 DEF n

\* The sum of two sets that are apart, of none and of one.
LEMMA WeightAdds ==
    ASSUME Asked
    PROVE  /\ Weight({}) = 0
           /\ \A r \in Records : Weight({r}) = Num(r)
           /\ \A s, t : s \cap t = {} => Weight(s \cup t) = Weight(s) + Weight(t)
<1> DEFINE n == Cardinality(FirstLines)
<1>1. /\ n \in Nat
      /\ \A r \in Records : r.no + 1 \in 1 .. n /\ RecordOf(r.no + 1) = r
      /\ \A i \in 1 .. n : RecordOf(i) \in Records /\ RecordOf(i).no = i - 1
      /\ \A s : /\ Adds(Summed(s), n, Adding(s)) /\ \A i \in 0 .. n : Summed(s)[i] \in Int
                /\ Weight(s) \in Int /\ Weight(s) = Summed(s)[n]
  BY WeightFacts DEF Weight
<1>2. \A s, i : i \in 1 .. n => Adding(s)[i] = IF RecordOf(i) \in s THEN Num(RecordOf(i)) ELSE 0 BY DEF Adding
<1> HIDE DEF n
<1>3. \A i \in 1 .. n : Num(RecordOf(i)) \in Int BY <1>1, NumFacts
<1>4. n \in 0 .. n /\ 0 \in 0 .. n BY <1>1
<1>5. ASSUME NEW s PROVE /\ Summed(s)[0] = 0
                         /\ \A i \in 1 .. n : Summed(s)[i] = Summed(s)[i - 1]
                                               + (IF RecordOf(i) \in s THEN Num(RecordOf(i)) ELSE 0)
  BY <1>1, <1>2 DEF Adds
<1>6. Weight({}) = 0
  <2> DEFINE Q == {i \in 0 .. n : Summed({})[i] = 0}
  <2>1. 0 \in Q BY <1>4, <1>5
  <2>2. \A i \in 1 .. n : i - 1 \in Q => i \in Q
    <3> TAKE i \in 1 .. n
    <3> HAVE i - 1 \in Q
    <3>1. Summed({})[i] = Summed({})[i - 1] + 0 BY <1>5
    <3> QED BY <3>1
  <2> HIDE DEF Q
  <2>3. \A i \in 0 .. n : i \in Q BY <1>1, <2>1, <2>2, Climb
  <2>4. n \in Q BY <1>4, <2>3
  <2> QED BY <1>1, <2>4 DEF Q
<1>7. ASSUME NEW r \in Records PROVE Weight({r}) = Num(r)
  <2> DEFINE Q == {i \in 0 .. n : Summed({r})[i] = IF r.no < i THEN Num(r) ELSE 0}
             p == r.no
  <2>0. p + 1 \in 1 .. n /\ RecordOf(p + 1) = r /\ Num(r) \in Int /\ p \in Int
    <3>1. p \in Int BY <1>7, RecordFacts
    <3> QED BY <1>1, <1>7, <3>1, NumFacts
  <2>1. 0 \in Q
    <3>1. ~(p < 0) BY <2>0
    <3> QED BY <1>4, <1>5, <3>1
  <2>2. \A i \in 1 .. n : i - 1 \in Q => i \in Q
    <3> TAKE i \in 1 .. n
    <3> HAVE i - 1 \in Q
    <3>1. Summed({r})[i] = Summed({r})[i - 1] + (IF RecordOf(i) \in {r} THEN Num(RecordOf(i)) ELSE 0) BY <1>5
    <3>2. RecordOf(i) \in {r} <=> i = p + 1 BY <1>1, <2>0
    <3>3. Summed({r})[i - 1] = IF p < i - 1 THEN Num(r) ELSE 0 OBVIOUS
    <3> DEFINE x == Summed({r})[i]
               y == Summed({r})[i - 1]
               z == Num(r)
    <3>4. x = y + (IF i = p + 1 THEN z ELSE 0)
      <4>1. CASE i = p + 1 BY <2>0, <3>1, <3>2, <4>1
      <4>2. CASE i # p + 1 BY <3>1, <3>2, <4>2
      <4> QED BY <4>1, <4>2
    <3>5. z \in Int /\ y = IF p < i - 1 THEN z ELSE 0 BY <2>0, <3>3
    <3>6. x = IF p < i THEN z ELSE 0
      <4> HIDE DEF x, y, z, p
      <4> QED BY <2>0, <3>4, <3>5
    <3>7. i \in 0 .. n OBVIOUS
    <3> QED BY <3>6, <3>7
  <2> HIDE DEF Q
  <2>3. \A i \in 0 .. n : i \in Q BY <1>1, <2>1, <2>2, Climb
  <2>4. n \in Q BY <1>4, <2>3
  <2>5. p < n BY <1>1, <2>0
  <2> QED BY <1>1, <2>4, <2>5 DEF Q
<1>8. ASSUME NEW s, NEW t, s \cap t = {} PROVE Weight(s \cup t) = Weight(s) + Weight(t)
  <2> DEFINE u == s \cup t
             f == Summed(s)
             g == Summed(t)
             h == Summed(u)
             Q == {i \in 0 .. n : h[i] = f[i] + g[i]}
  <2>0. /\ f[0] = 0 /\ g[0] = 0 /\ h[0] = 0
        /\ \A i \in 0 .. n : f[i] \in Int /\ g[i] \in Int /\ h[i] \in Int
        /\ \A i \in 1 .. n : f[i] = f[i - 1] + (IF RecordOf(i) \in s THEN Num(RecordOf(i)) ELSE 0)
        /\ \A i \in 1 .. n : g[i] = g[i - 1] + (IF RecordOf(i) \in t THEN Num(RecordOf(i)) ELSE 0)
        /\ \A i \in 1 .. n : h[i] = h[i - 1] + (IF RecordOf(i) \in u THEN Num(RecordOf(i)) ELSE 0)
        /\ Weight(s) = f[n] /\ Weight(t) = g[n] /\ Weight(u) = h[n]
    <3> HIDE DEF u
    <3> QED BY <1>1, <1>5
  <2>1. \A x : x \in u <=> x \in s \/ x \in t OBVIOUS
  <2>2. \A x : ~(x \in s /\ x \in t) BY <1>8
  <2> HIDE DEF u, f, g, h
  <2>3. 0 \in Q BY <1>4, <2>0
  <2>4. \A i \in 1 .. n : i - 1 \in Q => i \in Q
    <3> TAKE i \in 1 .. n
    <3> HAVE i - 1 \in Q
    <3> DEFINE z == Num(RecordOf(i))
               r == RecordOf(i)
    <3>1. z \in Int /\ i - 1 \in 0 .. n /\ i \in 0 .. n BY <1>1, <1>3
    <3>2. /\ f[i] = f[i - 1] + (IF r \in s THEN z ELSE 0) /\ g[i] = g[i - 1] + (IF r \in t THEN z ELSE 0)
          /\ h[i] = h[i - 1] + (IF r \in u THEN z ELSE 0) /\ h[i - 1] = f[i - 1] + g[i - 1]
      BY <2>0
    <3>3. f[i - 1] \in Int /\ g[i - 1] \in Int BY <2>0, <3>1
    <3>4. r \in u <=> r \in s \/ r \in t BY <2>1
    <3>5. ~(r \in s /\ r \in t) BY <2>2
    <3> HIDE DEF z, r
    <3>6. h[i] = f[i] + g[i] BY <3>1, <3>2, <3>3, <3>4, <3>5
    <3> QED BY <3>1, <3>6
  <2> HIDE DEF Q
  <2>5. \A i \in 0 .. n : i \in Q BY <1>1, <2>3, <2>4, Climb
  <2>6. n \in Q BY <1>4, <2>5
  <2> QED BY <2>0, <2>6 DEF Q, u
<1> QED BY <1>6, <1>7, <1>8

\* The fold is that sum.
LEMMA TotalIs ==
    ASSUME Asked, NEW S \in SUBSET Records
    PROVE  NumberSum(S) = Weight(S)
<1> DEFINE R(g, s) == IF s = {} THEN 0
                      ELSE (CHOOSE x \in s : TRUE).line[1].num + g[s \ {CHOOSE x \in s : TRUE}]
           Folds(g) == g = [s \in SUBSET S |-> R(g, s)]
           t == [s \in SUBSET S |-> Weight(s)]
           f == CHOOSE g : Folds(g)
           n == Cardinality(S)
<1>1. NumberSum(S) = f[S] BY DEF NumberSum, FoldSet, MapThenFoldSet
<1>2. IsFiniteSet(S)
  <2>1. IsFiniteSet(Records) BY OrderFacts
  <2> QED BY <2>1, FS_Subset
<1>3. ASSUME NEW s \in SUBSET S, s # {} PROVE t[s] = R(t, s)
  <2> DEFINE c == CHOOSE x \in s : TRUE
             r == s \ {c}
  <2>1. c \in s BY <1>3
  <2>2. r \in SUBSET S /\ c \in Records BY <2>1
  <2>3. Weight({c}) = Num(c) /\ Num(c) = c.line[1].num
    <3> HIDE DEF c
    <3> QED BY <2>2, WeightAdds, NumFacts
  <2>4. t[s] = Weight(s) /\ t[r] = Weight(r) BY <2>2
  <2>5. R(t, s) = c.line[1].num + t[r]
    <3> HIDE DEF t
    <3> QED BY <1>3
  <2> HIDE DEF c, r, t, R
  <2>6. s = {c} \cup r /\ {c} \cap r = {} BY <2>1 DEF r
  <2>7. Weight({c} \cup r) = Weight({c}) + Weight(r) BY <2>6, WeightAdds
  <2> QED BY <2>3, <2>4, <2>5, <2>6, <2>7
<1>4. t[{}] = R(t, {})
  <2>1. Weight({}) = 0 BY WeightAdds
  <2> QED BY <2>1
<1>5. Folds(t)
  <2>1. \A s \in SUBSET S : t[s] = R(t, s)
    <3> HIDE DEF t, R
    <3> QED BY <1>3, <1>4
  <2>2. t = [s \in SUBSET S |-> t[s]] OBVIOUS
  <2> HIDE DEF t, R
  <2> QED BY <2>1, <2>2
<1>6. Folds(f)
  <2> HIDE DEF Folds, t
  <2> QED BY <1>5
<1> HIDE DEF f
<1>7. \A s \in SUBSET S : f[s] = R(f, s)
  <2> HIDE DEF R
  <2> QED BY <1>6
<1> DEFINE Q == {k \in 0 .. n : \A s \in SUBSET S : Cardinality(s) = k => f[s] = t[s]}
<1>8. n \in Nat BY <1>2, FS_CardinalityType
<1>9. \A s \in SUBSET S : IsFiniteSet(s) /\ Cardinality(s) \in Nat /\ Cardinality(s) <= n
  BY <1>2, FS_Subset, FS_CardinalityType
<1> HIDE DEF n, t
<1>10. 0 \in Q
  <2> SUFFICES ASSUME NEW s \in SUBSET S, Cardinality(s) = 0 PROVE f[s] = t[s] BY <1>8
  <2>1. s = {} BY <1>9, FS_EmptySet
  <2>2. R(f, {}) = 0 /\ R(t, {}) = 0 OBVIOUS
  <2> HIDE DEF R
  <2> QED BY <1>4, <1>7, <2>1, <2>2
<1>11. \A k \in 1 .. n : k - 1 \in Q => k \in Q
  <2> SUFFICES ASSUME NEW k \in 1 .. n, k - 1 \in Q, NEW s \in SUBSET S, Cardinality(s) = k
               PROVE  f[s] = t[s]
    BY <1>8
  <2> DEFINE c == CHOOSE x \in s : TRUE
             r == s \ {c}
  <2>1. s # {}
    <3>1. Cardinality({}) = 0 BY FS_EmptySet
    <3> QED BY <1>8, <3>1
  <2>2. c \in s BY <2>1
  <2>3. R(f, s) = c.line[1].num + f[r] /\ R(t, s) = c.line[1].num + t[r] BY <2>1
  <2> HIDE DEF c, R
  <2>4. Cardinality(r) = k - 1 /\ r \in SUBSET S BY <1>9, <2>2, FS_RemoveElement
  <2> HIDE DEF r
  <2>5. f[r] = t[r] BY <2>4
  <2> QED BY <1>3, <1>7, <2>1, <2>3, <2>5
<1>12. \A k \in 0 .. n : k \in Q
  <2> HIDE DEF Q
  <2> QED BY <1>8, <1>10, <1>11, Climb
<1>13. n \in Q
  <2>1. n \in 0 .. n BY <1>8
  <2> HIDE DEF Q
  <2> QED BY <1>12, <2>1
<1>14. f[S] = t[S] BY <1>13 DEF n
<1> QED BY <1>1, <1>14 DEF t

LEMMA TotalAdds ==
    ASSUME Asked
    PROVE  /\ NumberSum({}) = 0
           /\ \A r \in Records : NumberSum({r}) = Num(r)
           /\ \A s \in SUBSET Records : NumberSum(s) \in Int
           /\ \A s, t \in SUBSET Records : s \cap t = {} => NumberSum(s \cup t) = NumberSum(s) + NumberSum(t)
<1>1. \A s \in SUBSET Records : NumberSum(s) = Weight(s) /\ Weight(s) \in Int BY TotalIs, WeightFacts
<1>2. NumberSum({}) = 0
  <2>1. {} \in SUBSET Records OBVIOUS
  <2> QED BY <1>1, <2>1, WeightAdds
<1>3. ASSUME NEW r \in Records PROVE NumberSum({r}) = Num(r)
  <2>1. {r} \in SUBSET Records OBVIOUS
  <2> QED BY <1>1, <2>1, WeightAdds
<1>4. ASSUME NEW s \in SUBSET Records, NEW t \in SUBSET Records, s \cap t = {}
      PROVE  NumberSum(s \cup t) = NumberSum(s) + NumberSum(t)
  <2>1. s \cup t \in SUBSET Records OBVIOUS
  <2>2. Weight(s \cup t) = Weight(s) + Weight(t) BY <1>4, WeightAdds
  <2> QED BY <1>1, <2>1, <2>2
<1> QED BY <1>1, <1>2, <1>3, <1>4

-----------------------------------------------------------------------------
(* What an accumulator says of a set of records.                           *)

WithNumber(S) == {r \in S : Num(r) # NoNumber}
Accs == [count : Nat, ncount : Nat, sum : Int, min : Int, max : Int]

AccIs(acc, S) ==
    /\ acc \in Accs
    /\ acc.count = Cardinality(S) /\ acc.ncount = Cardinality(WithNumber(S))
    /\ acc.sum = NumberSum(WithNumber(S))
    /\ \A r \in WithNumber(S) : acc.min <= Num(r) /\ Num(r) <= acc.max
    /\ IF WithNumber(S) = {} THEN acc.min = Inf /\ acc.max = 0 - Inf
       ELSE (\E r \in WithNumber(S) : Num(r) = acc.min) /\ (\E r \in WithNumber(S) : Num(r) = acc.max)

LEMMA NumberedFacts ==
    ASSUME Asked
    PROVE  /\ \A S \in SUBSET Records :
                /\ IsFiniteSet(S) /\ Cardinality(S) \in Nat /\ WithNumber(S) \in SUBSET Records
                /\ IsFiniteSet(WithNumber(S)) /\ Cardinality(WithNumber(S)) \in Nat
                /\ NumberSum(WithNumber(S)) \in Int
           /\ \A S, T \in SUBSET Records : S \cap T = {} =>
                /\ WithNumber(S \cup T) = WithNumber(S) \cup WithNumber(T) /\ WithNumber(S) \cap WithNumber(T) = {}
                /\ Cardinality(S \cup T) = Cardinality(S) + Cardinality(T)
                /\ Cardinality(WithNumber(S \cup T)) = Cardinality(WithNumber(S)) + Cardinality(WithNumber(T))
                /\ NumberSum(WithNumber(S \cup T)) = NumberSum(WithNumber(S)) + NumberSum(WithNumber(T))
<1>1. ASSUME NEW S \in SUBSET Records
      PROVE  /\ IsFiniteSet(S) /\ Cardinality(S) \in Nat /\ WithNumber(S) \in SUBSET Records
             /\ IsFiniteSet(WithNumber(S)) /\ Cardinality(WithNumber(S)) \in Nat
             /\ NumberSum(WithNumber(S)) \in Int
  <2>1. IsFiniteSet(Records) BY OrderFacts
  <2> DEFINE N == WithNumber(S)
  <2>2. N \in SUBSET Records BY DEF WithNumber
  <2> HIDE DEF N
  <2>3. IsFiniteSet(S) /\ Cardinality(S) \in Nat BY <2>1, FS_Subset, FS_CardinalityType
  <2>4. IsFiniteSet(N) /\ Cardinality(N) \in Nat BY <2>1, <2>2, FS_Subset, FS_CardinalityType
  <2>5. NumberSum(N) \in Int BY <2>2, TotalAdds
  <2> QED BY <2>2, <2>3, <2>4, <2>5 DEF N
<1>2. ASSUME NEW S \in SUBSET Records, NEW T \in SUBSET Records, S \cap T = {}
      PROVE  /\ WithNumber(S \cup T) = WithNumber(S) \cup WithNumber(T) /\ WithNumber(S) \cap WithNumber(T) = {}
             /\ Cardinality(S \cup T) = Cardinality(S) + Cardinality(T)
             /\ Cardinality(WithNumber(S \cup T)) = Cardinality(WithNumber(S)) + Cardinality(WithNumber(T))
             /\ NumberSum(WithNumber(S \cup T)) = NumberSum(WithNumber(S)) + NumberSum(WithNumber(T))
  <2> DEFINE A == WithNumber(S)
             B == WithNumber(T)
             C == WithNumber(S \cup T)
  <2>1. C = A \cup B /\ A \cap B = {} BY <1>2 DEF WithNumber
  <2>2. /\ IsFiniteSet(S) /\ IsFiniteSet(T) /\ IsFiniteSet(A) /\ IsFiniteSet(B)
        /\ A \in SUBSET Records /\ B \in SUBSET Records
    BY <1>1
  <2> HIDE DEF A, B, C
  <2>3. \A U, V : IsFiniteSet(U) /\ IsFiniteSet(V) /\ U \cap V = {}
                  => Cardinality(U \cup V) = Cardinality(U) + Cardinality(V)
    <3> TAKE U, V
    <3> HAVE IsFiniteSet(U) /\ IsFiniteSet(V) /\ U \cap V = {}
    <3>1. Cardinality(U \cup V) = Cardinality(U) + Cardinality(V) - Cardinality(U \cap V) BY FS_Union
    <3>2. Cardinality(U \cap V) = 0 BY FS_EmptySet
    <3>3. Cardinality(U) \in Nat /\ Cardinality(V) \in Nat BY FS_CardinalityType
    <3> QED BY <3>1, <3>2, <3>3
  <2>4. Cardinality(S \cup T) = Cardinality(S) + Cardinality(T) BY <1>2, <2>2, <2>3
  <2>5. Cardinality(C) = Cardinality(A) + Cardinality(B) BY <2>1, <2>2, <2>3
  <2>6. NumberSum(C) = NumberSum(A) + NumberSum(B) BY <2>1, <2>2, TotalAdds
  <2> QED BY <2>1, <2>4, <2>5, <2>6 DEF A, B, C
<1> QED BY <1>1, <1>2

LEMMA AccNone == ASSUME Asked PROVE AccIs(NoAcc, {})
<1>1. WithNumber({}) = {} BY DEF WithNumber
<1>2. NumberSum({}) = 0 BY TotalAdds
<1>3. Cardinality({}) = 0 BY FS_EmptySet
<1> QED BY <1>1, <1>2, <1>3 DEF AccIs, NoAcc, Accs, Inf

\* Of two sets that are apart, joined.
LEMMA AccJoin ==
    ASSUME Asked, NEW S \in SUBSET Records, NEW T \in SUBSET Records, S \cap T = {},
           NEW a, AccIs(a, S), NEW b, AccIs(b, T)
    PROVE  AccIs(Combined(a, b), S \cup T)
<1> DEFINE A == WithNumber(S)
           B == WithNumber(T)
           C == WithNumber(S \cup T)
           U == S \cup T
           c == Combined(a, b)
<1>1. /\ C = A \cup B /\ Cardinality(U) = Cardinality(S) + Cardinality(T)
      /\ Cardinality(C) = Cardinality(A) + Cardinality(B) /\ NumberSum(C) = NumberSum(A) + NumberSum(B)
  BY NumberedFacts
<1>2. /\ a \in Accs /\ a.count = Cardinality(S) /\ a.ncount = Cardinality(A) /\ a.sum = NumberSum(A)
      /\ \A r \in A : a.min <= Num(r) /\ Num(r) <= a.max
      /\ A = {} => a.min = Inf /\ a.max = 0 - Inf
      /\ A # {} => (\E r \in A : Num(r) = a.min) /\ (\E r \in A : Num(r) = a.max)
  BY DEF AccIs
<1>3. /\ b \in Accs /\ b.count = Cardinality(T) /\ b.ncount = Cardinality(B) /\ b.sum = NumberSum(B)
      /\ \A r \in B : b.min <= Num(r) /\ Num(r) <= b.max
      /\ B = {} => b.min = Inf /\ b.max = 0 - Inf
      /\ B # {} => (\E r \in B : Num(r) = b.min) /\ (\E r \in B : Num(r) = b.max)
  BY DEF AccIs
<1>4. \A r \in A \cup B : Num(r) \in Int /\ 0 - Inf <= Num(r) /\ Num(r) <= Inf
  <2>1. \A r \in A \cup B : r \in Records BY DEF WithNumber
  <2>2. \A r \in A \cup B : Num(r) \in Int /\ NoNumber <= Num(r) /\ Num(r) <= Inf BY <2>1, NumFacts
  <2>3. NoNumber \in Int /\ Inf \in Int /\ 0 - Inf <= NoNumber BY DEF NoNumber, Inf
  <2> QED BY <2>2, <2>3
<1>5. /\ a.count \in Nat /\ a.ncount \in Nat /\ a.sum \in Int /\ a.min \in Int /\ a.max \in Int
      /\ b.count \in Nat /\ b.ncount \in Nat /\ b.sum \in Int /\ b.min \in Int /\ b.max \in Int
  BY <1>2, <1>3 DEF Accs
<1>6. /\ c.count = a.count + b.count /\ c.ncount = a.ncount + b.ncount /\ c.sum = a.sum + b.sum
      /\ c.min = Lesser(a.min, b.min) /\ c.max = Greater(a.max, b.max) /\ c \in Accs
  <2>1. Lesser(a.min, b.min) \in Int /\ Greater(a.max, b.max) \in Int BY <1>5 DEF Lesser, Greater
  <2>2. a.count + b.count \in Nat /\ a.ncount + b.ncount \in Nat /\ a.sum + b.sum \in Int BY <1>5
  <2> QED BY <2>1, <2>2 DEF Combined, Accs
<1> HIDE DEF A, B, C, U, c
<1>7. c.min \in Int /\ c.max \in Int /\ Inf \in Int BY <1>6 DEF Accs, Inf
<1>8. /\ c.min <= a.min /\ c.min <= b.min /\ (c.min = a.min \/ c.min = b.min)
      /\ a.max <= c.max /\ b.max <= c.max /\ (c.max = a.max \/ c.max = b.max)
  BY <1>5, <1>6 DEF Lesser, Greater
<1>9. \A r \in C : c.min <= Num(r) /\ Num(r) <= c.max
  BY <1>1, <1>2, <1>3, <1>4, <1>5, <1>7, <1>8
<1>10. C = {} => c.min = Inf /\ c.max = 0 - Inf
  <2> SUFFICES ASSUME C = {} PROVE c.min = Inf /\ c.max = 0 - Inf OBVIOUS
  <2>1. A = {} /\ B = {} BY <1>1
  <2> QED BY <1>2, <1>3, <1>8, <2>1
<1>11. C # {} => \E r \in C : Num(r) = c.min
  <2> SUFFICES ASSUME C # {} PROVE \E r \in C : Num(r) = c.min OBVIOUS
  <2>1. CASE A # {} /\ B # {} BY <1>1, <1>2, <1>3, <1>8, <2>1
  <2>2. CASE A = {}
    <3>1. B # {} /\ a.min = Inf BY <1>1, <1>2, <2>2
    <3>2. PICK r \in B : Num(r) = b.min BY <1>3, <3>1
    <3>3. b.min <= Inf BY <1>4, <3>2
    <3>4. c.min = b.min BY <1>5, <1>7, <1>8, <3>1, <3>3
    <3> QED BY <1>1, <3>2, <3>4
  <2>3. CASE B = {}
    <3>1. A # {} /\ b.min = Inf BY <1>1, <1>3, <2>3
    <3>2. PICK r \in A : Num(r) = a.min BY <1>2, <3>1
    <3>3. a.min <= Inf BY <1>4, <3>2
    <3>4. c.min = a.min BY <1>5, <1>7, <1>8, <3>1, <3>3
    <3> QED BY <1>1, <3>2, <3>4
  <2> QED BY <2>1, <2>2, <2>3
<1>12. C # {} => \E r \in C : Num(r) = c.max
  <2> SUFFICES ASSUME C # {} PROVE \E r \in C : Num(r) = c.max OBVIOUS
  <2>1. CASE A # {} /\ B # {} BY <1>1, <1>2, <1>3, <1>8, <2>1
  <2>2. CASE A = {}
    <3>1. B # {} /\ a.max = 0 - Inf BY <1>1, <1>2, <2>2
    <3>2. PICK r \in B : Num(r) = b.max BY <1>3, <3>1
    <3>3. 0 - Inf <= b.max BY <1>4, <3>2
    <3>4. c.max = b.max BY <1>5, <1>7, <1>8, <3>1, <3>3
    <3> QED BY <1>1, <3>2, <3>4
  <2>3. CASE B = {}
    <3>1. A # {} /\ b.max = 0 - Inf BY <1>1, <1>3, <2>3
    <3>2. PICK r \in A : Num(r) = a.max BY <1>2, <3>1
    <3>3. 0 - Inf <= a.max BY <1>4, <3>2
    <3>4. c.max = a.max BY <1>5, <1>7, <1>8, <3>1, <3>3
    <3> QED BY <1>1, <3>2, <3>4
  <2> QED BY <2>1, <2>2, <2>3
<1>13. /\ c \in Accs /\ c.count = Cardinality(U) /\ c.ncount = Cardinality(C) /\ c.sum = NumberSum(C)
  BY <1>1, <1>2, <1>3, <1>6
<1>14. C = WithNumber(U) BY DEF C, U
<1>15. AccIs(c, U) BY <1>9, <1>10, <1>11, <1>12, <1>13, <1>14 DEF AccIs
<1> QED BY <1>15 DEF c, U

\* One more record.
LEMMA AccMore ==
    ASSUME Asked, NEW S \in SUBSET Records, NEW r \in Records, r \notin S, NEW acc, AccIs(acc, S)
    PROVE  AccIs(Added1(acc, Num(r)), S \cup {r})
<1> DEFINE n == Num(r)
           one == [count |-> 1, ncount |-> 1, sum |-> n, min |-> n, max |-> n]
           T == {r}
<1>1. n \in Int BY NumFacts
<1>2. T \in SUBSET Records /\ S \cap T = {} OBVIOUS
<1>3. Cardinality(T) = 1 BY FS_Singleton
<1>4. CASE n # NoNumber
  <2>1. WithNumber(T) = T BY <1>4 DEF WithNumber
  <2>2. NumberSum(T) = n BY TotalAdds
  <2>3. /\ one \in Accs /\ one.count = 1 /\ one.ncount = 1 /\ one.sum = n /\ one.min = n /\ one.max = n
    BY <1>1 DEF Accs
  <2>4. \A x \in T : Num(x) = n OBVIOUS
  <2>5. Added1(acc, n) = Combined(acc, one) BY <1>4 DEF Added1
  <2> HIDE DEF one, n
  <2>6. r \in T OBVIOUS
  <2> HIDE DEF T
  <2>7. AccIs(one, T)
    <3>1. T # {} BY <2>6
    <3>2. \A x \in T : one.min <= Num(x) /\ Num(x) <= one.max BY <1>1, <2>3, <2>4
    <3>3. (\E x \in T : Num(x) = one.min) /\ (\E x \in T : Num(x) = one.max) BY <2>3, <2>4, <2>6
    <3> QED BY <1>3, <2>1, <2>2, <2>3, <3>1, <3>2, <3>3 DEF AccIs
  <2>8. AccIs(Combined(acc, one), S \cup T) BY <1>2, <2>7, AccJoin
  <2> QED BY <2>5, <2>8 DEF T, n
<1>5. CASE n = NoNumber
  <2> DEFINE U == S \cup T
             c == [acc EXCEPT !.count = @ + 1]
  <2>1. WithNumber(T) = {} BY <1>5 DEF WithNumber
  <2>2. WithNumber(U) = WithNumber(S) /\ Cardinality(U) = Cardinality(S) + 1
    <3>1. WithNumber(U) = WithNumber(S) \cup WithNumber(T) /\ Cardinality(U) = Cardinality(S) + Cardinality(T)
      BY <1>2, NumberedFacts
    <3> QED BY <1>3, <2>1, <3>1
  <2>3. Added1(acc, n) = c BY <1>5 DEF Added1
  <2>4. acc \in Accs /\ acc.count = Cardinality(S) /\ Cardinality(S) \in Nat BY NumberedFacts DEF AccIs
  <2>5. /\ c \in Accs /\ c.count = Cardinality(S) + 1 /\ c.ncount = acc.ncount /\ c.sum = acc.sum
        /\ c.min = acc.min /\ c.max = acc.max
    BY <2>4 DEF Accs
  <2> HIDE DEF c, U, T, n
  <2>6. AccIs(c, U) BY <2>2, <2>5 DEF AccIs
  <2> QED BY <2>3, <2>6 DEF U, T, n
<1> QED BY <1>4, <1>5

-----------------------------------------------------------------------------
(* group: rows, one for each key.                                          *)

GKey(r) == Field(r.line, task.cols[1])
Of(S, key) == {r \in S : GKey(r) = key}
Tallies == [key : Texts, load : Accs]

\* One row for each key of S, of the records that have it.
Stands(s, S) ==
    /\ s \in Seq(Tallies)
    /\ \A i, j \in DOMAIN s : s[i].key = s[j].key => i = j
    /\ \A i \in DOMAIN s : Of(S, s[i].key) # {} /\ AccIs(s[i].load, Of(S, s[i].key))
    /\ \A r \in S : \E i \in DOMAIN s : s[i].key = GKey(r)

Ascending(s) == \A i, j \in DOMAIN s : i < j => Before(s[i].key, s[j].key)

LEMMA GKeyFacts ==
    ASSUME Asked, NEW r \in Records
    PROVE  /\ GKey(r) \in Texts
           /\ \A record : r.line = <<record[1]>> => GKey(r) = Field(record, task.cols[1])
<1>1. Keyed(r.line) /\ task.cols[1] \in Nat \ {0}
  <2>1. Columned BY AskedFacts
  <2> QED BY <2>1, RecordFacts DEF Columned
<1>2. GKey(r) \in Octets BY <1>1, KeyOfOctets DEF GKey
<1>3. GKey(r) \in Texts BY <1>2, OctetsAreTexts
<1>4. ASSUME NEW record, r.line = <<record[1]>> PROVE GKey(r) = Field(record, task.cols[1])
  <2> DEFINE line == record[1]
  <2>1. record[1] = line /\ r.line = <<line>> BY <1>4
  <2> HIDE DEF line
  <2>2. Field(record, task.cols[1]) = Field(<<line>>, task.cols[1]) BY <2>1, KeySeesFirst
  <2> QED BY <2>1, <2>2 DEF GKey
<1> QED BY <1>3, <1>4

LEMMA OfFacts ==
    /\ \A S, key, x : x \in Of(S, key) <=> x \in S /\ GKey(x) = key
    /\ \A S, T, key : Of(S \cup T, key) = Of(S, key) \cup Of(T, key)
    /\ \A S, T, key : S \subseteq T => Of(S, key) \subseteq T
<1>1. \A S, key, x : x \in Of(S, key) <=> x \in S /\ GKey(x) = key BY DEF Of
<1>2. \A S, T, key : Of(S \cup T, key) = Of(S, key) \cup Of(T, key) BY <1>1
<1> QED BY <1>1, <1>2

LEMMA StandsNone == Stands(<<>>, {}) /\ Ascending(<<>>)
BY DEF Stands, Ascending

\* A row for a key that has none yet.
LEMMA StandsAppend ==
    ASSUME Asked, NEW S, NEW T, T # {}, NEW s, Stands(s, S), NEW e \in Tallies,
           \A r \in T : GKey(r) = e.key, \A r \in S : GKey(r) # e.key, AccIs(e.load, T)
    PROVE  Stands(Append(s, e), S \cup T)
<1> DEFINE v == Append(s, e)
           U == S \cup T
           n == Len(s)
<1>1. /\ s \in Seq(Tallies) /\ n \in Nat /\ DOMAIN s = 1 .. n
      /\ \A i, j \in DOMAIN s : s[i].key = s[j].key => i = j
      /\ \A i \in DOMAIN s : Of(S, s[i].key) # {} /\ AccIs(s[i].load, Of(S, s[i].key))
      /\ \A r \in S : \E i \in DOMAIN s : s[i].key = GKey(r)
  BY DEF Stands
<1>2. /\ v \in Seq(Tallies) /\ DOMAIN v = 1 .. n + 1 /\ v[n + 1] = e
      /\ \A i \in 1 .. n : v[i] = s[i]
  BY <1>1
<1>3. \A x : x \in U <=> x \in S \/ x \in T OBVIOUS
<1> HIDE DEF v, U, n
<1>4. \A i \in 1 .. n : s[i].key # e.key
  <2> TAKE i \in 1 .. n
  <2>1. Of(S, s[i].key) # {} BY <1>1
  <2>2. PICK r : r \in Of(S, s[i].key) BY <2>1
  <2> QED BY <2>2, OfFacts
<1>5. \A i \in 1 .. n + 1 : i \in 1 .. n \/ i = n + 1 BY <1>1
<1>6. \A i, j \in DOMAIN v : v[i].key = v[j].key => i = j
  <2> TAKE i, j \in DOMAIN v
  <2> HAVE v[i].key = v[j].key
  <2>1. CASE i \in 1 .. n /\ j \in 1 .. n BY <1>1, <1>2, <2>1
  <2>2. CASE i = n + 1 /\ j = n + 1 BY <2>2
  <2>3. CASE i \in 1 .. n /\ j = n + 1 BY <1>2, <1>4, <2>3
  <2>4. CASE i = n + 1 /\ j \in 1 .. n BY <1>2, <1>4, <2>4
  <2> QED BY <1>2, <1>5, <2>1, <2>2, <2>3, <2>4
<1>7. \A i \in 1 .. n : Of(U, s[i].key) = Of(S, s[i].key)
  <2> TAKE i \in 1 .. n
  <2>1. s[i].key # e.key BY <1>4
  <2>2. \A x : x \in Of(U, s[i].key) <=> x \in Of(S, s[i].key) BY <1>3, <2>1, OfFacts
  <2> QED BY <2>2
<1>8. Of(U, e.key) = T
  <2>1. \A x : x \in Of(U, e.key) <=> x \in T BY <1>3, OfFacts
  <2> QED BY <2>1
<1>9. \A i \in DOMAIN v : Of(U, v[i].key) # {} /\ AccIs(v[i].load, Of(U, v[i].key))
  <2> TAKE i \in DOMAIN v
  <2>1. CASE i \in 1 .. n BY <1>1, <1>2, <1>7, <2>1
  <2>2. CASE i = n + 1 BY <1>2, <1>8, <2>2
  <2> QED BY <1>2, <1>5, <2>1, <2>2
<1>10. \A r \in U : \E i \in DOMAIN v : v[i].key = GKey(r)
  <2> TAKE r \in U
  <2>1. CASE r \in S
    <3>1. PICK i \in DOMAIN s : s[i].key = GKey(r) BY <1>1, <2>1
    <3>2. i \in 1 .. n + 1 /\ v[i] = s[i] BY <1>1, <1>2, <3>1
    <3> QED BY <1>2, <3>1, <3>2
  <2>2. CASE r \in T
    <3>1. n + 1 \in DOMAIN v BY <1>1, <1>2
    <3> QED BY <1>2, <2>2, <3>1
  <2> QED BY <1>3, <2>1, <2>2
<1>11. Stands(v, U) BY <1>2, <1>6, <1>9, <1>10 DEF Stands
<1> QED BY <1>11 DEF v, U

\* One more record of a key that has a row.
LEMMA StandsUpdate ==
    ASSUME Asked, NEW S \in SUBSET Records, NEW s, Stands(s, S), NEW i \in DOMAIN s,
           NEW r \in Records, r \notin S, GKey(r) = s[i].key, NEW v,
           v = [s EXCEPT ![i].load = Added1(@, Num(r))]
    PROVE  Stands(v, S \cup {r})
<1> DEFINE U == S \cup {r}
           n == Len(s)
           a == Added1(s[i].load, Num(r))
<1>1. /\ s \in Seq(Tallies) /\ n \in Nat /\ DOMAIN s = 1 .. n
      /\ \A j, k \in DOMAIN s : s[j].key = s[k].key => j = k
      /\ \A j \in DOMAIN s : Of(S, s[j].key) # {} /\ AccIs(s[j].load, Of(S, s[j].key))
      /\ \A x \in S : \E j \in DOMAIN s : s[j].key = GKey(x)
  BY DEF Stands
<1>2. AccIs(a, Of(S, s[i].key) \cup {r})
  <2> DEFINE O == Of(S, s[i].key)
  <2>1. O \in SUBSET Records /\ r \notin O BY OfFacts
  <2>2. AccIs(s[i].load, O) BY <1>1
  <2> HIDE DEF O
  <2>3. AccIs(Added1(s[i].load, Num(r)), O \cup {r}) BY <2>1, <2>2, AccMore
  <2> QED BY <2>3 DEF O
<1>3. a \in Accs BY <1>2 DEF AccIs
<1> HIDE DEF a
<1>4. s[i] \in Tallies BY <1>1
<1>5. v = [s EXCEPT ![i] = [s[i] EXCEPT !.load = a]] BY DEF a
<1> DEFINE e == [s[i] EXCEPT !.load = a]
<1>6. e \in Tallies /\ e.key = s[i].key /\ e.load = a BY <1>3, <1>4 DEF Tallies
<1> HIDE DEF e
<1>7. v = [s EXCEPT ![i] = e] BY <1>5 DEF e
<1>8. v \in Seq(Tallies) /\ DOMAIN v = 1 .. n BY <1>1, <1>6, <1>7
<1>9. v[i] = e /\ \A j \in 1 .. n : j # i => v[j] = s[j] BY <1>1, <1>7
<1>10. \A x : x \in U <=> x \in S \/ x = r OBVIOUS
<1> HIDE DEF U, n
<1>11. \A j \in 1 .. n : v[j].key = s[j].key BY <1>6, <1>9
<1>12. \A j, k \in DOMAIN v : v[j].key = v[k].key => j = k BY <1>1, <1>8, <1>11
<1>13. \A j \in DOMAIN v : Of(U, v[j].key) # {} /\ AccIs(v[j].load, Of(U, v[j].key))
  <2> TAKE j \in DOMAIN v
  <2>1. CASE j = i
    <3>1. \A x : x \in Of(U, v[j].key) <=> x \in Of(S, s[i].key) \cup {r} BY <1>6, <1>9, <1>10, <2>1, OfFacts
    <3>2. Of(U, v[j].key) = Of(S, s[i].key) \cup {r} BY <3>1
    <3>3. v[j].load = a BY <1>6, <1>9, <2>1
    <3>4. Of(S, s[i].key) \cup {r} # {} OBVIOUS
    <3> QED BY <1>2, <3>2, <3>3, <3>4
  <2>2. CASE j # i
    <3>1. v[j] = s[j] /\ j \in DOMAIN s BY <1>1, <1>8, <1>9, <2>2
    <3>2. s[j].key # GKey(r) BY <1>1, <2>2, <3>1
    <3>3. \A x : x \in Of(U, v[j].key) <=> x \in Of(S, s[j].key) BY <1>10, <3>1, <3>2, OfFacts
    <3>4. Of(U, v[j].key) = Of(S, s[j].key) BY <3>3
    <3> QED BY <1>1, <3>1, <3>4
  <2> QED BY <2>1, <2>2
<1>14. \A x \in U : \E j \in DOMAIN v : v[j].key = GKey(x)
  <2> TAKE x \in U
  <2>1. CASE x = r
    <3>1. i \in DOMAIN v /\ v[i].key = GKey(r) BY <1>1, <1>6, <1>8, <1>9
    <3> QED BY <2>1, <3>1
  <2>2. CASE x \in S
    <3>1. PICK j \in DOMAIN s : s[j].key = GKey(x) BY <1>1, <2>2
    <3>2. j \in DOMAIN v /\ v[j].key = s[j].key BY <1>1, <1>8, <1>11, <3>1
    <3> QED BY <3>1, <3>2
  <2> QED BY <1>10, <2>1, <2>2
<1>15. Stands(v, U) BY <1>8, <1>12, <1>13, <1>14 DEF Stands
<1> QED BY <1>15 DEF U

\* The first row, and those after it.
LEMMA StandsTail ==
    ASSUME Asked, NEW S, NEW s, Stands(s, S), Ascending(s), s # <<>>, NEW T, T = S \ Of(S, Head(s).key)
    PROVE  /\ Stands(Tail(s), T) /\ Ascending(Tail(s)) /\ Head(s) \in Tallies
           /\ AccIs(Head(s).load, Of(S, Head(s).key)) /\ Of(S, Head(s).key) # {}
           /\ \A r \in T : Before(Head(s).key, GKey(r))
<1> DEFINE v == Tail(s)
           n == Len(s)
           key == Head(s).key
<1>1. /\ s \in Seq(Tallies) /\ n \in Nat /\ n >= 1 /\ DOMAIN s = 1 .. n
      /\ \A i, j \in DOMAIN s : s[i].key = s[j].key => i = j
      /\ \A i \in DOMAIN s : Of(S, s[i].key) # {} /\ AccIs(s[i].load, Of(S, s[i].key))
      /\ \A r \in S : \E i \in DOMAIN s : s[i].key = GKey(r)
      /\ \A i, j \in DOMAIN s : i < j => Before(s[i].key, s[j].key)
      /\ 1 \in DOMAIN s
  BY DEF Stands, Ascending
<1>2. v \in Seq(Tallies) /\ DOMAIN v = 1 .. n - 1 /\ \A i \in 1 .. n - 1 : v[i] = s[i + 1] BY <1>1
<1>3. Head(s) = s[1] /\ s[1] \in Tallies /\ key = s[1].key BY <1>1
<1> HIDE DEF v, n, key
<1>4. \A x : x \in T <=> x \in S /\ GKey(x) # key BY <1>3, OfFacts
<1>5. \A i \in 1 .. n - 1 : i + 1 \in DOMAIN s /\ i + 1 # 1 BY <1>1
<1>6. \A i, j \in DOMAIN v : v[i].key = v[j].key => i = j
  <2> TAKE i, j \in DOMAIN v
  <2> HAVE v[i].key = v[j].key
  <2> DEFINE p == i + 1
             q == j + 1
  <2>3. p \in DOMAIN s /\ q \in DOMAIN s /\ v[i] = s[p] /\ v[j] = s[q] BY <1>2, <1>5
  <2> HIDE DEF p, q
  <2>4. p = q BY <1>1, <2>3
  <2>1. i + 1 = j + 1 BY <2>4 DEF p, q
  <2>2. i \in Int /\ j \in Int BY <1>1, <1>2
  <2> QED BY <2>1, <2>2
<1>7. \A i \in DOMAIN v : Of(T, v[i].key) # {} /\ AccIs(v[i].load, Of(T, v[i].key))
  <2> TAKE i \in DOMAIN v
  <2>1. v[i] = s[i + 1] /\ i + 1 \in DOMAIN s /\ s[i + 1].key # key BY <1>1, <1>2, <1>3, <1>5
  <2>2. \A x : x \in Of(T, v[i].key) <=> x \in Of(S, s[i + 1].key) BY <1>4, <2>1, OfFacts
  <2>3. Of(T, v[i].key) = Of(S, s[i + 1].key) BY <2>2
  <2> QED BY <1>1, <2>1, <2>3
<1>8. \A r \in T : \E i \in DOMAIN v : v[i].key = GKey(r)
  <2> TAKE r \in T
  <2>1. r \in S /\ GKey(r) # key BY <1>4
  <2>2. PICK i \in DOMAIN s : s[i].key = GKey(r) BY <1>1, <2>1
  <2>3. i # 1 BY <1>3, <2>1, <2>2
  <2>4. i - 1 \in 1 .. n - 1 /\ (i - 1) + 1 = i BY <1>1, <2>2, <2>3
  <2>5. v[i - 1] = s[i] BY <1>2, <2>4
  <2> QED BY <1>2, <2>2, <2>4, <2>5
<1>9. Stands(v, T) BY <1>2, <1>6, <1>7, <1>8 DEF Stands
<1>10. Ascending(v)
  <2> SUFFICES ASSUME NEW i \in DOMAIN v, NEW j \in DOMAIN v, i < j PROVE Before(v[i].key, v[j].key)
    BY DEF Ascending
  <2> DEFINE p == i + 1
             q == j + 1
  <2>1. p < q BY <1>1, <1>2
  <2>2. p \in DOMAIN s /\ q \in DOMAIN s /\ v[i] = s[p] /\ v[j] = s[q] BY <1>2, <1>5
  <2> HIDE DEF p, q
  <2> QED BY <1>1, <2>1, <2>2
<1>11. \A r \in T : Before(key, GKey(r))
  <2> TAKE r \in T
  <2>1. r \in S /\ GKey(r) # key BY <1>4
  <2>2. PICK i \in DOMAIN s : s[i].key = GKey(r) BY <1>1, <2>1
  <2>3. i # 1 BY <1>3, <2>1, <2>2
  <2>4. 1 < i BY <1>1, <2>2, <2>3
  <2> QED BY <1>1, <1>3, <2>2, <2>4
<1> QED BY <1>1, <1>3, <1>9, <1>10, <1>11 DEF v, key

\* What a spill writes, and what is emitted without one.
LEMMA StandsInOrder ==
    ASSUME Asked, task.op = "group", NEW S, NEW s, Stands(s, S), NEW t, t = InOrder(s, RunBefore)
    PROVE  Stands(t, S) /\ Ascending(t)
<1> DEFINE D == Members(s)
           R == {p \in D \X D : RunBefore(p[1], p[2])}
<1>1. /\ s \in Seq(Tallies)
      /\ \A i, j \in DOMAIN s : s[i].key = s[j].key => i = j
      /\ \A i \in DOMAIN s : Of(S, s[i].key) # {} /\ AccIs(s[i].load, Of(S, s[i].key))
      /\ \A r \in S : \E i \in DOMAIN s : s[i].key = GKey(r)
  BY DEF Stands
<1>2. \A x : x \in D <=> \E i \in DOMAIN s : x = s[i] BY InMembers
<1>3. \A e, f : RunBefore(e, f) <=> Before(e.key, f.key) BY DEF RunBefore, KeyBefore, Turned
<1>4. \A e, f \in D : <<e, f>> \in R <=> RunBefore(e, f) OBVIOUS
<1>5. /\ \A e \in D : e \in Tallies /\ e.key \in Texts
      /\ \A e, f \in D : e.key = f.key => e = f
  <2>1. \A i \in DOMAIN s : s[i] \in Tallies BY <1>1
  <2>2. \A e \in Tallies : e.key \in Texts BY DEF Tallies
  <2>3. \A e \in D : e \in Tallies BY <1>2, <2>1
  <2>4. \A e, f \in D : e.key = f.key => e = f BY <1>1, <1>2
  <2> QED BY <2>2, <2>3, <2>4
<1> HIDE DEF D, R
<1>6. Linear(R, D)
  <2>1. \A e \in D : <<e, e>> \notin R BY <1>3, <1>4, <1>5, BeforeOrders
  <2>2. \A e, f \in D : e # f => <<e, f>> \in R \/ <<f, e>> \in R BY <1>3, <1>4, <1>5, BeforeOrders
  <2>3. ASSUME NEW e \in D, NEW f \in D, NEW g \in D, <<e, f>> \in R, <<f, g>> \in R PROVE <<e, g>> \in R
    <3>1. Before(e.key, f.key) /\ Before(f.key, g.key) BY <1>3, <1>4, <2>3
    <3>2. Before(e.key, g.key) BY <1>5, <3>1, BeforeOrders
    <3> QED BY <1>3, <1>4, <3>2
  <2> QED BY <2>1, <2>2, <2>3 DEF Linear
<1>7. s \in Seq(D)
  <2>1. DOMAIN s = 1 .. Len(s) /\ Len(s) \in Nat BY <1>1
  <2>2. \A i \in 1 .. Len(s) : s[i] \in D BY <1>2, <2>1
  <2>3. s = [i \in 1 .. Len(s) |-> s[i]] BY <1>1
  <2> DEFINE n == Len(s)
  <2> HIDE DEF n
  <2>4. s \in [1 .. n -> D] /\ n \in Nat BY <2>1, <2>2, <2>3 DEF n
  <2> QED BY <2>4, SeqDef
<1>8. Once(s) BY <1>1 DEF Once
<1>9. t \in Seq(D) /\ Len(t) = Len(s) /\ Rising(t, R) /\ Members(t) = Members(s)
  BY <1>4, <1>6, <1>7, <1>8, InOrderRises
<1>10. /\ \A i \in DOMAIN t : t[i] \in D /\ \E j \in DOMAIN s : t[i] = s[j]
       /\ \A j \in DOMAIN s : \E i \in DOMAIN t : t[i] = s[j]
  <2>1. \A x : x \in Members(t) <=> \E i \in DOMAIN t : x = t[i] BY InMembers
  <2>2. Members(t) = D BY <1>9 DEF D
  <2> QED BY <1>2, <2>1, <2>2
<1>11. t \in Seq(Tallies)
  <2>1. D \subseteq Tallies BY <1>5
  <2> QED BY <1>9, <2>1
<1>12. DOMAIN t = 1 .. Len(t) /\ Len(t) \in Nat BY <1>11
<1>13. Ascending(t)
  <2> SUFFICES ASSUME NEW i \in DOMAIN t, NEW j \in DOMAIN t, i < j PROVE Before(t[i].key, t[j].key)
    BY DEF Ascending
  <2>1. <<t[i], t[j]>> \in R BY <1>9 DEF Rising
  <2> QED BY <1>3, <1>4, <1>10, <2>1
<1>14. \A i, j \in DOMAIN t : t[i].key = t[j].key => i = j
  <2> TAKE i, j \in DOMAIN t
  <2> HAVE t[i].key = t[j].key
  <2>1. t[i].key \in Texts /\ t[j].key \in Texts BY <1>5, <1>10
  <2>2. ~Before(t[i].key, t[j].key) /\ ~Before(t[j].key, t[i].key) BY <2>1, BeforeOrders
  <2>3. ~(i < j) /\ ~(j < i) BY <1>13, <2>2 DEF Ascending
  <2> QED BY <1>12, <2>3
<1>15. \A i \in DOMAIN t : Of(S, t[i].key) # {} /\ AccIs(t[i].load, Of(S, t[i].key))
  <2> TAKE i \in DOMAIN t
  <2>1. PICK j \in DOMAIN s : t[i] = s[j] BY <1>10
  <2> QED BY <1>1, <2>1
<1>16. \A r \in S : \E i \in DOMAIN t : t[i].key = GKey(r)
  <2> TAKE r \in S
  <2>1. PICK j \in DOMAIN s : s[j].key = GKey(r) BY <1>1
  <2>2. PICK i \in DOMAIN t : t[i] = s[j] BY <1>10
  <2> QED BY <2>1, <2>2
<1>17. Stands(t, S) BY <1>11, <1>14, <1>15, <1>16 DEF Stands
<1> QED BY <1>13, <1>17

\* Rows of all records are the groups.
LEMMA GroupIs == Asked /\ task.op = "group" /\ Stands(rows, Records) /\ Ascending(rows) => GroupExact(Records)
<1> SUFFICES ASSUME Asked, task.op = "group", Stands(rows, Records), Ascending(rows) PROVE GroupExact(Records)
  OBVIOUS
<1>1. /\ rows \in Seq(Tallies)
      /\ \A i, j \in DOMAIN rows : rows[i].key = rows[j].key => i = j
      /\ \A i \in DOMAIN rows : Of(Records, rows[i].key) # {} /\ AccIs(rows[i].load, Of(Records, rows[i].key))
      /\ \A r \in Records : \E i \in DOMAIN rows : rows[i].key = GKey(r)
  BY DEF Stands
<1>2. {rows[k].key : k \in DOMAIN rows} = {GKey(r) : r \in Records}
  <2>1. \A k \in DOMAIN rows : \E r \in Records : rows[k].key = GKey(r)
    <3> TAKE k \in DOMAIN rows
    <3>1. PICK r : r \in Of(Records, rows[k].key) BY <1>1
    <3> QED BY <3>1, OfFacts
  <2> QED BY <1>1, <2>1
<1>3. \A k \in 2 .. Len(rows) : Before(rows[k - 1].key, rows[k].key)
  <2> TAKE k \in 2 .. Len(rows)
  <2>1. k - 1 \in DOMAIN rows /\ k \in DOMAIN rows /\ k - 1 < k BY <1>1
  <2> QED BY <2>1 DEF Ascending
<1>5. \A key : WithNumber(Of(Records, key)) = {r \in Of(Records, key) : r.line[1].num # NoNumber}
  BY DEF WithNumber, Num
<1>6. \A k \in DOMAIN rows :
        LET key == rows[k].key
            acc == rows[k].load
            N == {r \in Of(Records, key) : r.line[1].num # NoNumber}
        IN /\ acc.count = Cardinality(Of(Records, key)) /\ acc.ncount = Cardinality(N)
           /\ acc.sum = NumberSum(N)
           /\ \A r \in N : r.line[1].num \in acc.min .. acc.max
           /\ N # {} => {acc.min, acc.max} \subseteq {r.line[1].num : r \in N}
  <2> TAKE k \in DOMAIN rows
  <2>1. PICK key : key = rows[k].key OBVIOUS
  <2>2. PICK acc : acc = rows[k].load OBVIOUS
  <2>3. PICK N : N = WithNumber(Of(Records, key)) OBVIOUS
  <2>4. N = {r \in Of(Records, key) : r.line[1].num # NoNumber} BY <1>5, <2>3
  <2>5. /\ acc.count = Cardinality(Of(Records, key)) /\ acc.ncount = Cardinality(N)
        /\ acc.sum = NumberSum(N)
        /\ \A r \in N : r.line[1].num \in acc.min .. acc.max
        /\ N # {} => {acc.min, acc.max} \subseteq {r.line[1].num : r \in N}
    <3>1. AccIs(acc, Of(Records, key)) BY <1>1, <2>1, <2>2
    <3>2. /\ acc \in Accs /\ acc.count = Cardinality(Of(Records, key)) /\ acc.ncount = Cardinality(N)
          /\ acc.sum = NumberSum(N)
          /\ \A r \in N : acc.min <= Num(r) /\ Num(r) <= acc.max
          /\ N # {} => (\E r \in N : Num(r) = acc.min) /\ (\E r \in N : Num(r) = acc.max)
      BY <2>3, <3>1 DEF AccIs
    <3>3. \A r \in N : Num(r) = r.line[1].num /\ Num(r) \in Int
      <4>1. \A r \in N : r \in Records BY <2>3, OfFacts DEF WithNumber
      <4> QED BY <4>1, NumFacts
    <3>4. acc.min \in Int /\ acc.max \in Int BY <3>2 DEF Accs
    <3>5. \A r \in N : Num(r) \in acc.min .. acc.max BY <3>2, <3>3, <3>4
    <3>6. N # {} => {acc.min, acc.max} \subseteq {r.line[1].num : r \in N} BY <3>2, <3>3
    <3> QED BY <3>2, <3>3, <3>5, <3>6
  <2> QED BY <2>1, <2>2, <2>4, <2>5
<1> QED BY <1>2, <1>3, <1>6 DEF GroupExact, Of, GKey

-----------------------------------------------------------------------------
(* Rows of records that are spread over runs.                              *)

\* Each of the runs stands for its own part of S.
Spread(q, E, S) ==
    /\ \E n \in Nat : DOMAIN q = 1 .. n
    /\ S \in SUBSET Records
    /\ \A k \in DOMAIN q : Stands(q[k], E[k]) /\ Ascending(q[k]) /\ E[k] \subseteq S
    /\ \A j, k \in DOMAIN q : j # k => E[j] \cap E[k] = {}
    /\ \A r \in S : \E k \in DOMAIN q : r \in E[k]

LEMMA SpreadGrows ==
    ASSUME NEW q, NEW p, NEW n, NEW part, Grows(p, q, n, part), NEW E, NEW S, Spread(q, E, S),
           NEW M \in SUBSET Records, S \cap M = {}, Stands(part, M), Ascending(part)
    PROVE  \E F : Spread(p, F, S \cup M)
<1> DEFINE F == [k \in 1 .. n + 1 |-> IF k = n + 1 THEN M ELSE E[k]]
           U == S \cup M
<1>1. /\ n \in Nat /\ DOMAIN q = 1 .. n /\ DOMAIN p = 1 .. n + 1
      /\ p[n + 1] = part /\ \A k \in 1 .. n : p[k] = q[k]
  BY DEF Grows
<1>2. /\ S \in SUBSET Records
      /\ \A k \in 1 .. n : Stands(q[k], E[k]) /\ Ascending(q[k]) /\ E[k] \subseteq S
      /\ \A j, k \in 1 .. n : j # k => E[j] \cap E[k] = {}
      /\ \A r \in S : \E k \in 1 .. n : r \in E[k]
  BY <1>1 DEF Spread
<1>3. F[n + 1] = M /\ \A k \in 1 .. n : F[k] = E[k] BY <1>1
<1>4. \A k \in 1 .. n + 1 : k \in 1 .. n \/ k = n + 1 BY <1>1
<1>5. U \in SUBSET Records /\ S \subseteq U /\ M \subseteq U /\ \A r \in U : r \in S \/ r \in M BY <1>2
<1> HIDE DEF F, U
<1>6. \A k \in DOMAIN p : Stands(p[k], F[k]) /\ Ascending(p[k]) /\ F[k] \subseteq U
  <2> TAKE k \in DOMAIN p
  <2>1. CASE k \in 1 .. n
    <3>1. p[k] = q[k] /\ F[k] = E[k] /\ E[k] \subseteq S BY <1>1, <1>2, <1>3, <2>1
    <3>2. Stands(q[k], E[k]) /\ Ascending(q[k]) BY <1>2, <2>1
    <3> QED BY <1>5, <3>1, <3>2
  <2>2. CASE k = n + 1 BY <1>1, <1>3, <1>5, <2>2
  <2> QED BY <1>1, <1>4, <2>1, <2>2
<1>7. \A k \in 1 .. n : F[k] \cap M = {}
  <2> TAKE k \in 1 .. n
  <2>1. F[k] \subseteq S BY <1>2, <1>3
  <2> QED BY <2>1
<1>8. \A j, k \in DOMAIN p : j # k => F[j] \cap F[k] = {}
  <2> TAKE j, k \in DOMAIN p
  <2> HAVE j # k
  <2>1. CASE j \in 1 .. n /\ k \in 1 .. n BY <1>2, <1>3, <2>1
  <2>2. CASE j = n + 1 /\ k \in 1 .. n BY <1>3, <1>7, <2>2
  <2>3. CASE j \in 1 .. n /\ k = n + 1 BY <1>3, <1>7, <2>3
  <2> QED BY <1>1, <1>4, <2>1, <2>2, <2>3
<1>9. \A r \in U : \E k \in DOMAIN p : r \in F[k]
  <2> TAKE r \in U
  <2>1. CASE r \in S
    <3>1. PICK k \in 1 .. n : r \in E[k] BY <1>2, <2>1
    <3>2. k \in DOMAIN p /\ F[k] = E[k] BY <1>1, <1>3
    <3> QED BY <3>1, <3>2
  <2>2. CASE r \in M
    <3>1. n + 1 \in DOMAIN p BY <1>1
    <3> QED BY <1>3, <2>2, <3>1
  <2> QED BY <1>5, <2>1, <2>2
<1>10. \E m \in Nat : DOMAIN p = 1 .. m
  <2>1. n + 1 \in Nat BY <1>1
  <2> QED BY <1>1, <2>1
<1>11. Spread(p, F, U) BY <1>5, <1>6, <1>8, <1>9, <1>10 DEF Spread
<1> QED BY <1>11 DEF U

\* C is in the runs and in memory, each record in one of them.
Kept(w, C, E, S, M) ==
    /\ Spread(Recs(w.runs), E, S) /\ M \in SUBSET Records /\ Stands(w.memory, M)
    /\ S \cap M = {} /\ C = S \cup M
GroupHolds(w, C) == Row(w.runs) /\ \E E, S, M : Kept(w, C, E, S, M)

LEMMA GroupSpilled ==
    ASSUME Asked, task.op = "group", NEW w, Shaped(w), NEW C, GroupHolds(w, C)
    PROVE  /\ GroupHolds(Spilled(w), C) /\ Spilled(w).memory = <<>> /\ Shaped(Spilled(w))
           /\ Spilled(w).count = w.count
<1> DEFINE m == w.memory
           q == w.runs
           t == InOrder(m, RunBefore)
           x == [file |-> File("run", Len(q), 0), recs |-> t]
           v == Spilled(w)
           n == Len(q)
<1>1. v.memory = <<>> /\ v.runs = Append(q, x) /\ v.count = w.count /\ Shaped(v) BY SpilledFields
<1>2. Row(q) BY DEF GroupHolds
<1>3. PICK E, S, M : Kept(w, C, E, S, M) BY DEF GroupHolds
<1>4. /\ Spread(Recs(q), E, S) /\ M \in SUBSET Records /\ Stands(m, M) /\ S \cap M = {} /\ C = S \cup M
      /\ S \in SUBSET Records
  BY <1>3 DEF Kept, Spread
<1>5. x.recs = t OBVIOUS
<1>6. Stands(t, M) /\ Ascending(t)
  <2> HIDE DEF m
  <2>1. t = InOrder(m, RunBefore) OBVIOUS
  <2> HIDE DEF t
  <2> QED BY <1>4, <2>1, StandsInOrder
<1> HIDE DEF m, q, x, v, t, n
<1>7. Row(v.runs) /\ Grows(Recs(v.runs), Recs(q), n, t)
  <2>1. /\ Row(Append(q, x)) /\ Len(q) \in Nat
        /\ DOMAIN Recs(q) = 1 .. Len(q) /\ DOMAIN Recs(Append(q, x)) = 1 .. Len(q) + 1
        /\ \A k \in 1 .. Len(q) : Recs(Append(q, x))[k] = Recs(q)[k]
        /\ Recs(Append(q, x))[Len(q) + 1] = x.recs
    BY <1>2, AppendedRun
  <2> QED BY <1>1, <1>5, <2>1 DEF n, Grows
<1> DEFINE a == Recs(q)
           b == Recs(v.runs)
<1>8. Grows(b, a, n, t) /\ Spread(a, E, S) BY <1>4, <1>7
<1> HIDE DEF a
<1>9. PICK F : Spread(b, F, S \cup M)
  <2> HIDE DEF b
  <2> QED BY <1>4, <1>6, <1>8, SpreadGrows
<1>10. Kept(v, C, F, C, {})
  <2>1. Spread(b, F, C) BY <1>4, <1>9
  <2>2. Stands(v.memory, {}) BY <1>1, StandsNone
  <2>3. C \cap {} = {} /\ C = C \cup {} /\ {} \in SUBSET Records OBVIOUS
  <2> QED BY <2>1, <2>2, <2>3 DEF Kept
<1>11. GroupHolds(v, C) BY <1>7, <1>10 DEF GroupHolds
<1> QED BY <1>1, <1>11 DEF v

LEMMA GroupFull ==
    ASSUME Asked, task.op = "group", NEW w, Shaped(w), NEW C, GroupHolds(w, C)
    PROVE  /\ GroupHolds(SpilledIfFull(w), C) /\ Shaped(SpilledIfFull(w))
           /\ SpilledIfFull(w).count = w.count
<1>1. CASE Len(w.memory) >= Budget
  <2>1. SpilledIfFull(w) = Spilled(w) BY <1>1 DEF SpilledIfFull
  <2> QED BY <2>1, GroupSpilled
<1>2. CASE ~(Len(w.memory) >= Budget)
  <2>1. SpilledIfFull(w) = w BY <1>2 DEF SpilledIfFull
  <2> QED BY <2>1
<1> QED BY <1>1, <1>2

\* One more record.
LEMMA GroupGroups ==
    ASSUME Asked, task.op = "group", NEW w, Shaped(w), NEW C, GroupHolds(w, C),
           NEW record, NEW r \in Records, r.line = <<record[1]>>, r \notin C
    PROVE  /\ GroupHolds(Grouping(w, record), C \cup {r})
           /\ Shaped(Grouping(w, record)) /\ Grouping(w, record).count = w.count
<1> DEFINE key == Field(record, task.cols[1])
           m == w.memory
           here == {k \in DOMAIN m : m[k].key = key}
           n == record[1].num
           U == C \cup {r}
<1>1. GKey(r) = key /\ key \in Texts BY GKeyFacts
<1>2. n = Num(r)
  <2> DEFINE line == record[1]
  <2>1. r.line = <<line>> OBVIOUS
  <2> HIDE DEF line
  <2>2. r.line[1] = line BY <2>1
  <2> QED BY <2>2 DEF Num, line
<1>3. Row(w.runs) BY DEF GroupHolds
<1>4. PICK E, S, M : Kept(w, C, E, S, M) BY DEF GroupHolds
<1>5. /\ Spread(Recs(w.runs), E, S) /\ M \in SUBSET Records /\ Stands(m, M) /\ S \cap M = {} /\ C = S \cup M
  BY <1>4 DEF Kept
<1> DEFINE N == M \cup {r}
<1>6. N \in SUBSET Records /\ S \cap N = {} /\ U = S \cup N /\ r \notin M BY <1>5
<1>7. Grouping(w, record) =
        IF here # {}
        THEN [w EXCEPT !.memory[CHOOSE k \in here : TRUE].load = Added1(@, n)]
        ELSE SpilledIfFull([w EXCEPT !.memory = Append(@, [key |-> key, load |-> Added1(NoAcc, n)])])
  BY DEF Grouping
<1>8. \A k : k \in here <=> k \in DOMAIN m /\ m[k].key = key OBVIOUS
<1>9. ASSUME NEW z, NEW v, Stands(z, N), v = [w EXCEPT !.memory = z]
      PROVE  GroupHolds(v, U) /\ Shaped(v) /\ v.count = w.count
  <2>1. v.memory = z /\ v.runs = w.runs /\ v.count = w.count /\ Shaped(v) BY <1>9 DEF Shaped, Fields
  <2> HIDE DEF U, N
  <2>2. Kept(v, U, E, S, N) BY <1>5, <1>6, <1>9, <2>1 DEF Kept
  <2> QED BY <1>3, <2>1, <2>2 DEF GroupHolds
<1> HIDE DEF key, here, n, U, N
<1>10. CASE here # {}
  <2>1. PICK i : i = CHOOSE k \in here : TRUE OBVIOUS
  <2>2. i \in here BY <1>10, <2>1
  <2>3. i \in DOMAIN m /\ m[i].key = key BY <1>8, <2>2
  <2> DEFINE z == [m EXCEPT ![i].load = Added1(@, n)]
             v == [w EXCEPT !.memory = z]
  <2>4. Grouping(w, record) = [w EXCEPT !.memory[i].load = Added1(@, n)] BY <1>7, <1>10, <2>1
  <2>5. Grouping(w, record) = v BY <2>4
  <2>6. Stands(z, N)
    <3>1. z = [m EXCEPT ![i].load = Added1(@, Num(r))] BY <1>2
    <3> HIDE DEF z, m
    <3>2. Stands(z, M \cup {r}) BY <1>1, <1>5, <1>6, <2>3, <3>1, StandsUpdate
    <3> QED BY <3>2 DEF N
  <2> HIDE DEF z
  <2>7. GroupHolds(v, U) /\ Shaped(v) /\ v.count = w.count
    <3>1. v = [w EXCEPT !.memory = z] OBVIOUS
    <3> HIDE DEF v
    <3> QED BY <1>9, <2>6, <3>1
  <2> QED BY <2>5, <2>7 DEF U
<1>11. CASE here = {}
  <2> DEFINE a == Added1(NoAcc, n)
             e == [key |-> key, load |-> a]
             z == Append(m, e)
             v == [w EXCEPT !.memory = z]
  <2>1. Grouping(w, record) = SpilledIfFull(v) BY <1>7, <1>11
  <2>2. AccIs(a, {r})
    <3>1. AccIs(NoAcc, {}) BY AccNone
    <3>2. {} \in SUBSET Records /\ r \notin {} /\ {} \cup {r} = {r} OBVIOUS
    <3>3. AccIs(Added1(NoAcc, Num(r)), {} \cup {r}) BY <3>1, <3>2, AccMore
    <3> QED BY <1>2, <3>2, <3>3
  <2> HIDE DEF a
  <2>3. e \in Tallies /\ e.key = key /\ e.load = a BY <1>1, <2>2 DEF AccIs, Tallies
  <2> HIDE DEF e
  <2>4. \A x \in M : GKey(x) # e.key
    <3> TAKE x \in M
    <3>1. PICK i \in DOMAIN m : m[i].key = GKey(x) BY <1>5 DEF Stands
    <3>2. i \notin here BY <1>11
    <3> QED BY <1>8, <2>3, <3>1, <3>2
  <2>5. Stands(z, N)
    <3>1. \A x \in {r} : GKey(x) = e.key BY <1>1, <2>3
    <3>2. {r} # {} /\ AccIs(e.load, {r}) BY <2>2, <2>3
    <3> HIDE DEF m
    <3>3. Stands(Append(m, e), M \cup {r}) BY <1>5, <2>3, <2>4, <3>1, <3>2, StandsAppend
    <3> QED BY <3>3 DEF N
  <2> HIDE DEF z
  <2>6. GroupHolds(v, U) /\ Shaped(v) /\ v.count = w.count
    <3>1. v = [w EXCEPT !.memory = z] OBVIOUS
    <3> HIDE DEF v
    <3> QED BY <1>9, <2>5, <3>1
  <2> HIDE DEF v
  <2>7. GroupHolds(SpilledIfFull(v), U) /\ Shaped(SpilledIfFull(v)) /\ SpilledIfFull(v).count = v.count
    BY <2>6, GroupFull
  <2> QED BY <2>1, <2>6, <2>7 DEF U
<1> QED BY <1>10, <1>11

\* A record read is one more.
LEMMA GroupReads ==
    ASSUME Asked, task.op = "group", NEW w, Shaped(w), NEW C, C = Taken(w.count), GroupHolds(w, C),
           NEW record, NEW r, Carries(w, record, r), NEW v, v = Taking(w, record)
    PROVE  GroupHolds(v, Taken(w.count + 1)) /\ v.count = w.count + 1 /\ Shaped(v)
<1>1. r \in Records /\ r.line = <<record[1]>> /\ r \notin C /\ Taken(w.count + 1) = C \cup {r}
  BY DEF Carries
<1> DEFINE g == Grouping(w, record)
           U == C \cup {r}
<1>2. GroupHolds(g, U) /\ Shaped(g) /\ g.count = w.count BY <1>1, GroupGroups
<1>3. v = [g EXCEPT !.count = @ + 1] BY DEF Taking
<1> HIDE DEF g, U
<1>4. v.memory = g.memory /\ v.runs = g.runs /\ v.count = w.count + 1 /\ Shaped(v)
  BY <1>2, <1>3 DEF Shaped, Fields
<1>5. GroupHolds(v, U) BY <1>2, <1>4 DEF GroupHolds, Kept
<1> QED BY <1>1, <1>4, <1>5 DEF U

-----------------------------------------------------------------------------
(* The merge of groups.                                                    *)

\* A recursion on the runs.
LEMMA UpToSteps ==
    ASSUME NEW q, Len(q) \in Nat, NEW key
    PROVE  /\ UpTo(q, key)[0] = NoAcc
           /\ \A r \in 1 .. Len(q) :
                UpTo(q, key)[r] = IF r \in SameKey(q, key) THEN Combined(UpTo(q, key)[r - 1], Head(q[r]).load)
                                  ELSE UpTo(q, key)[r - 1]
<1> DEFINE L == Len(q)
           Next1(was, r) == IF r \in SameKey(q, key) THEN Combined(was, Head(q[r]).load) ELSE was
           Steps(g, k) == g = [i \in 0 .. k |-> IF i = 0 THEN NoAcc ELSE Next1(g[i - 1], i)]
           Q == {k \in 0 .. L : \E g : Steps(g, k)}
<1>1. L \in Nat OBVIOUS
<1>2. \E g : Steps(g, 0)
  <2> DEFINE g == [i \in 0 .. 0 |-> NoAcc]
  <2>1. \A i \in 0 .. 0 : i = 0 OBVIOUS
  <2>2. Steps(g, 0) BY <2>1
  <2> QED BY <2>2
<1> HIDE DEF Next1
<1>3. ASSUME NEW k \in 1 .. L, \E g : Steps(g, k - 1) PROVE \E g : Steps(g, k)
  <2>1. PICK g : Steps(g, k - 1) BY <1>3
  <2> DEFINE wider == [i \in 0 .. k |-> IF i = k THEN Next1(g[k - 1], k) ELSE g[i]]
  <2>2. \A i \in 0 .. k : i # 0 => wider[i - 1] = g[i - 1] OBVIOUS
  <2>3. \A i \in 0 .. k : wider[i] = IF i = 0 THEN NoAcc ELSE Next1(wider[i - 1], i)
    <3> TAKE i \in 0 .. k
    <3>1. CASE i = k
      <4>1. i # 0 /\ wider[i] = Next1(g[k - 1], k) BY <3>1
      <4>2. wider[i - 1] = g[k - 1] BY <2>2, <3>1, <4>1
      <4> HIDE DEF wider
      <4> QED BY <3>1, <4>1, <4>2
    <3>2. CASE i # k
      <4>1. wider[i] = g[i] /\ i \in 0 .. (k - 1) BY <3>2
      <4>2. g[i] = IF i = 0 THEN NoAcc ELSE Next1(g[i - 1], i) BY <2>1, <4>1
      <4>3. i # 0 => wider[i - 1] = g[i - 1] BY <2>2
      <4> HIDE DEF wider
      <4> QED BY <4>1, <4>2, <4>3
    <3> QED BY <3>1, <3>2
  <2>4. wider = [i \in 0 .. k |-> wider[i]] OBVIOUS
  <2> HIDE DEF wider
  <2>5. Steps(wider, k) BY <2>3, <2>4
  <2> QED BY <2>5
<1>4. \E g : Steps(g, L)
  <2> HIDE DEF Steps
  <2>1. 0 \in Q BY <1>1, <1>2
  <2>2. \A k \in 1 .. L : k - 1 \in Q => k \in Q BY <1>1, <1>3
  <2>3. \A k \in 0 .. L : k \in Q
    <3> HIDE DEF Q, L
    <3> QED BY <1>1, <2>1, <2>2, Climb
  <2>4. L \in Q BY <1>1, <2>3
  <2> QED BY <2>4
<1> DEFINE f == CHOOSE g : Steps(g, L)
<1>5. Steps(f, L) BY <1>4
<1>6. UpTo(q, key) = f BY DEF UpTo, Next1
<1> HIDE DEF f
<1>7. \A i \in 0 .. L : f[i] = IF i = 0 THEN NoAcc ELSE Next1(f[i - 1], i) BY <1>5
<1>8. 0 \in 0 .. L /\ \A i \in 1 .. L : i \in 0 .. L /\ i # 0 BY <1>1
<1>9. f[0] = NoAcc BY <1>7, <1>8
<1>10. \A i \in 1 .. L : f[i] = Next1(f[i - 1], i)
  <2> HIDE DEF L
  <2> QED BY <1>7, <1>8
<1> QED BY <1>6, <1>9, <1>10 DEF Next1

\* The run whose key is the least of all.
LEMMA GroupNext ==
    ASSUME Asked, task.op = "group", NEW q, NEW E, NEW S, Spread(q, E, S),
           \E r \in DOMAIN q : q[r] # <<>>, NEW key, key = Head(q[NextReader(q)]).key
    PROVE  /\ key \in Texts /\ \E x \in S : GKey(x) = key
           /\ \A x \in S : GKey(x) = key \/ Before(key, GKey(x))
<1> DEFINE ready == {r \in DOMAIN q : q[r] # <<>>}
           h == [r \in ready |-> Head(q[r]).key]
           low == [r \in ready |-> {s \in ready : PopBefore(Head(q[s]), s, Head(q[r]), r)}]
           next == NextReader(q)
<1>1. PICK n \in Nat : DOMAIN q = 1 .. n BY DEF Spread
<1>2. \A k \in DOMAIN q : Stands(q[k], E[k]) /\ Ascending(q[k]) /\ E[k] \subseteq S BY DEF Spread
<1>3. \A e, r, f, s : PopBefore(e, r, f, s) <=> Before(e.key, f.key) \/ (e.key = f.key /\ r < s)
  BY DEF PopBefore, KeyBefore, Turned
<1>4. \A r \in ready : r \in DOMAIN q /\ q[r] # <<>> /\ h[r] = Head(q[r]).key /\ r \in Int
  <2>1. \A r \in DOMAIN q : r \in Int BY <1>1
  <2> QED BY <2>1
<1>5. \A r, s : r \in ready /\ s \in ready =>
        (s \in low[r] <=> Before(h[s], h[r]) \/ (h[s] = h[r] /\ s < r))
  BY <1>3
<1>6. \A r \in ready : low[r] \subseteq ready OBVIOUS
<1>7. ready # {} /\ ready \subseteq 1 .. n BY <1>1
<1>8. next = CHOOSE r \in ready : \A s \in ready \ {r} : PopBefore(Head(q[r]), r, Head(q[s]), s)
  BY DEF NextReader
<1>9. \A r, s \in ready : PopBefore(Head(q[r]), r, Head(q[s]), s) <=> r \in low[s] OBVIOUS
<1> HIDE DEF ready, h, low, next
<1>10. \A r \in ready : h[r] \in Texts
  <2> TAKE r \in ready
  <2>1. Stands(q[r], E[r]) /\ Ascending(q[r]) /\ q[r] # <<>> BY <1>2, <1>4
  <2> DEFINE s == q[r]
             T == E[r]
  <2>2. Stands(s, T) /\ Ascending(s) /\ s # <<>> BY <2>1
  <2> HIDE DEF s, T
  <2>3. Head(s) \in Tallies BY <2>2, StandsTail
  <2>4. Head(s).key \in Texts BY <2>3 DEF Tallies
  <2> QED BY <1>4, <2>4 DEF s
<1>11. IsFiniteSet(ready)
  <2>1. IsFiniteSet(1 .. n) BY <1>1, FS_Interval
  <2> QED BY <1>7, <2>1, FS_Subset
<1>12. Ranked(ready, low)
  <2>1. \A r \in ready : r \notin low[r] BY <1>4, <1>5, <1>10, BeforeOrders
  <2>2. \A r \in ready : \A s \in low[r] : low[s] \subseteq low[r]
    <3> SUFFICES ASSUME NEW r \in ready, NEW s \in low[r], NEW t \in low[s] PROVE t \in low[r] OBVIOUS
    <3>1. s \in ready BY <1>6
    <3>2. t \in ready BY <1>6, <3>1
    <3>3. Before(h[s], h[r]) \/ (h[s] = h[r] /\ s < r) BY <1>5, <3>1
    <3>4. Before(h[t], h[s]) \/ (h[t] = h[s] /\ t < s) BY <1>5, <3>1, <3>2
    <3>5. h[r] \in Texts /\ h[s] \in Texts /\ h[t] \in Texts BY <1>10, <3>1, <3>2
    <3>6. Before(h[t], h[r]) \/ (h[t] = h[r] /\ t < r)
      <4>1. r \in Int /\ s \in Int /\ t \in Int BY <1>4, <3>1, <3>2
      <4>2. CASE Before(h[s], h[r]) /\ Before(h[t], h[s]) BY <3>5, <4>2, BeforeOrders
      <4>3. CASE h[s] = h[r] /\ s < r /\ h[t] = h[s] /\ t < s BY <4>1, <4>3
      <4>4. CASE Before(h[s], h[r]) /\ h[t] = h[s] BY <4>4
      <4>5. CASE h[s] = h[r] /\ Before(h[t], h[s]) BY <4>5
      <4> QED BY <3>3, <3>4, <4>2, <4>3, <4>4, <4>5
    <3> QED BY <1>5, <3>2, <3>6
  <2>3. \A r, s \in ready : r # s => r \in low[s] \/ s \in low[r]
    <3> TAKE r, s \in ready
    <3> HAVE r # s
    <3>1. h[r] \in Texts /\ h[s] \in Texts BY <1>10
    <3>2. CASE h[r] # h[s] BY <1>5, <3>1, <3>2, BeforeOrders
    <3>3. CASE h[r] = h[s]
      <4>1. r < s \/ s < r BY <1>4
      <4> QED BY <1>5, <3>3, <4>1
    <3> QED BY <3>2, <3>3
  <2> QED BY <1>6, <1>11, <2>1, <2>2, <2>3 DEF Ranked
<1>13. \E r \in ready : \A s \in ready \ {r} : r \in low[s] BY <1>7, <1>12, LeastRanked
<1>14. next \in ready /\ \A s \in ready \ {next} : PopBefore(Head(q[next]), next, Head(q[s]), s)
  <2>1. \E r \in ready : \A s \in ready \ {r} : PopBefore(Head(q[r]), r, Head(q[s]), s)
    BY <1>9, <1>13
  <2> QED BY <1>8, <2>1
<1>15. key = h[next] BY <1>4, <1>14 DEF next
<1>16. \A s \in ready : h[s] = key \/ Before(key, h[s])
  <2> TAKE s \in ready
  <2>1. CASE s = next BY <1>15, <2>1
  <2>2. CASE s # next
    <3>1. next \in low[s] BY <1>9, <1>14, <2>2
    <3>2. Before(h[next], h[s]) \/ h[next] = h[s] BY <1>5, <1>14, <3>1
    <3> QED BY <1>15, <3>2
  <2> QED BY <2>1, <2>2
<1>17. \A x \in S : GKey(x) = key \/ Before(key, GKey(x))
  <2> TAKE x \in S
  <2>1. PICK k \in DOMAIN q : x \in E[k] BY DEF Spread
  <2> DEFINE s == q[k]
             T == E[k]
  <2>2. Stands(s, T) /\ Ascending(s) /\ x \in T BY <1>2, <2>1
  <2>3. s # <<>> => k \in ready /\ h[k] = Head(s).key
    <3>1. s # <<>> => k \in ready BY DEF ready
    <3> QED BY <1>4, <3>1
  <2> HIDE DEF s, T
  <2>4. s # <<>> BY <2>2 DEF Stands
  <2>5. GKey(x) = h[k] \/ Before(h[k], GKey(x))
    <3>1. \A y \in T \ Of(T, Head(s).key) : Before(Head(s).key, GKey(y)) BY <2>2, <2>4, StandsTail
    <3>2. x \in Of(T, Head(s).key) <=> GKey(x) = Head(s).key BY <2>2, OfFacts
    <3> QED BY <2>2, <2>3, <2>4, <3>1, <3>2
  <2>6. x \in Records BY DEF Spread
  <2>7. GKey(x) \in Texts /\ h[k] \in Texts /\ key \in Texts
    <3>1. next \in ready BY <1>14
    <3> QED BY <1>10, <1>15, <2>3, <2>4, <2>6, <3>1, GKeyFacts
  <2>8. h[k] = key \/ Before(key, h[k]) BY <1>16, <2>3, <2>4
  <2> QED BY <2>5, <2>7, <2>8, BeforeOrders
<1>18. \E x \in S : GKey(x) = key
  <2> DEFINE s == q[next]
             T == E[next]
  <2>1. Stands(s, T) /\ Ascending(s) /\ s # <<>> /\ T \subseteq S BY <1>2, <1>4, <1>14
  <2>2. Head(s).key = key BY <1>4, <1>14, <1>15
  <2> HIDE DEF s, T
  <2>3. Of(T, key) # {} BY <2>1, <2>2, StandsTail
  <2>4. PICK x : x \in Of(T, key) BY <2>3
  <2> QED BY <2>1, <2>4, OfFacts
<1> QED BY <1>10, <1>14, <1>15, <1>17, <1>18

\* Of the first i runs, those of a key.
FirstOf(E, key, i) == {x \in Records : GKey(x) = key /\ \E k \in 1 .. i : x \in E[k]}

\* What they come to together.
LEMMA UpToIs ==
    ASSUME Asked, NEW q, NEW E, NEW S, Spread(q, E, S), NEW n \in Nat, Len(q) = n, DOMAIN q = 1 .. n,
           NEW key \in Texts, \A x \in S : GKey(x) = key \/ Before(key, GKey(x))
    PROVE  AccIs(UpTo(q, key)[n], Of(S, key))
<1> DEFINE u == UpTo(q, key)
           F(i) == FirstOf(E, key, i)
           Q == {i \in 0 .. n : AccIs(u[i], F(i))}
<1>1. /\ u[0] = NoAcc
      /\ \A r \in 1 .. n : u[r] = IF r \in SameKey(q, key) THEN Combined(u[r - 1], Head(q[r]).load) ELSE u[r - 1]
  BY UpToSteps
<1> HIDE DEF u
<1>2. /\ S \in SUBSET Records
      /\ \A k \in 1 .. n : Stands(q[k], E[k]) /\ Ascending(q[k]) /\ E[k] \subseteq S
      /\ \A j, k \in 1 .. n : j # k => E[j] \cap E[k] = {}
      /\ \A r \in S : \E k \in 1 .. n : r \in E[k]
  BY DEF Spread
<1>3. 0 \in Q
  <2>1. F(0) = {} BY DEF FirstOf
  <2>2. AccIs(u[0], F(0)) BY <1>1, <2>1, AccNone
  <2> QED BY <2>2
<1>4. ASSUME NEW r \in 1 .. n
      PROVE  /\ r \in SameKey(q, key) => AccIs(Head(q[r]).load, Of(E[r], key))
             /\ r \notin SameKey(q, key) => Of(E[r], key) = {}
  <2> DEFINE s == q[r]
             T == E[r]
  <2>1. Stands(s, T) /\ Ascending(s) /\ T \subseteq S BY <1>2
  <2>2. r \in SameKey(q, key) <=> s # <<>> /\ Head(s).key = key BY DEF SameKey
  <2> HIDE DEF s, T
  <2>3. r \in SameKey(q, key) => AccIs(Head(s).load, Of(T, key)) BY <2>1, <2>2, StandsTail
  <2>4. ASSUME r \notin SameKey(q, key) PROVE Of(T, key) = {}
    <3>1. CASE s = <<>>
      <4>1. T = {} BY <2>1, <3>1 DEF Stands
      <4>2. \A x : x \notin Of(T, key) BY <4>1, OfFacts
      <4> QED BY <4>2
    <3>2. CASE s # <<>>
      <4>1. Head(s).key # key BY <2>2, <2>4, <3>2
      <4>2. Of(T, Head(s).key) # {} /\ \A y \in T \ Of(T, Head(s).key) : Before(Head(s).key, GKey(y))
        BY <2>1, <3>2, StandsTail
      <4>3. PICK x : x \in Of(T, Head(s).key) BY <4>2
      <4>4. x \in S /\ GKey(x) = Head(s).key BY <2>1, <4>3, OfFacts
      <4>5. Before(key, Head(s).key) /\ Head(s).key \in Texts
        <5>1. x \in Records BY <1>2, <4>4
        <5> QED BY <4>1, <4>4, <5>1, GKeyFacts
      <4>6. ASSUME NEW y \in Of(T, key) PROVE FALSE
        <5>1. y \in T /\ GKey(y) = key BY <4>6, OfFacts
        <5>2. y \notin Of(T, Head(s).key) BY <4>1, <5>1, OfFacts
        <5>3. Before(Head(s).key, key) BY <4>2, <5>1, <5>2
        <5>4. Before(key, key) BY <4>5, <5>3, BeforeOrders
        <5> QED BY <5>4, BeforeOrders
      <4> QED BY <4>6
    <3> QED BY <3>1, <3>2
  <2> QED BY <2>3, <2>4 DEF s, T
<1>5. \A r \in 1 .. n : r - 1 \in Q => r \in Q
  <2> TAKE r \in 1 .. n
  <2> HAVE r - 1 \in Q
  <2> DEFINE A == F(r - 1)
             B == Of(E[r], key)
             C == F(r)
  <2>0. AccIs(u[r - 1], A) OBVIOUS
  <2>1. A \in SUBSET Records BY DEF FirstOf
  <2>2. B \in SUBSET Records BY <1>2, OfFacts
  <2>3. A \cap B = {}
    <3> SUFFICES ASSUME NEW x \in A, x \in B PROVE FALSE OBVIOUS
    <3>1. PICK k \in 1 .. r - 1 : x \in E[k] BY DEF FirstOf
    <3>2. x \in E[r] BY OfFacts
    <3>3. k \in 1 .. n /\ k # r BY <3>1
    <3> QED BY <1>2, <3>1, <3>2, <3>3
  <2>4. C = A \cup B
    <3>1. ASSUME NEW x \in C PROVE x \in A \/ x \in B
      <4>1. PICK k \in 1 .. r : x \in E[k] /\ GKey(x) = key /\ x \in Records BY <3>1 DEF FirstOf
      <4>2. CASE k = r BY <4>1, <4>2, OfFacts
      <4>3. CASE k # r
        <5>1. k \in 1 .. r - 1 BY <4>1, <4>3
        <5>2. x \in A BY <4>1, <5>1 DEF FirstOf
        <5> QED BY <5>2
      <4> QED BY <4>2, <4>3
    <3>2. ASSUME NEW x \in A PROVE x \in C
      <4>1. PICK k \in 1 .. r - 1 : x \in E[k] /\ GKey(x) = key /\ x \in Records BY <3>2 DEF FirstOf
      <4>2. k \in 1 .. r OBVIOUS
      <4> QED BY <4>1, <4>2 DEF FirstOf
    <3>3. ASSUME NEW x \in B PROVE x \in C
      <4>1. x \in E[r] /\ GKey(x) = key /\ x \in Records BY <2>2, <3>3, OfFacts
      <4>2. r \in 1 .. r OBVIOUS
      <4> QED BY <4>1, <4>2 DEF FirstOf
    <3> HIDE DEF A, B, C
    <3> QED BY <3>1, <3>2, <3>3
  <2> HIDE DEF A, B, C, F
  <2>5. AccIs(u[r], C)
    <3>1. CASE r \in SameKey(q, key)
      <4>1. u[r] = Combined(u[r - 1], Head(q[r]).load) BY <1>1, <3>1
      <4>2. AccIs(Head(q[r]).load, B) BY <1>4, <3>1 DEF B
      <4>3. AccIs(Combined(u[r - 1], Head(q[r]).load), A \cup B)
        BY <2>0, <2>1, <2>2, <2>3, <4>2, AccJoin
      <4> QED BY <2>4, <4>1, <4>3
    <3>2. CASE r \notin SameKey(q, key)
      <4>1. u[r] = u[r - 1] BY <1>1, <3>2
      <4>2. B = {} BY <1>4, <3>2 DEF B
      <4>3. C = A BY <2>4, <4>2
      <4> QED BY <2>0, <4>1, <4>3
    <3> QED BY <3>1, <3>2
  <2>6. AccIs(u[r], F(r)) BY <2>5 DEF C
  <2> QED BY <2>6
<1>6. \A i \in 0 .. n : i \in Q
  <2> HIDE DEF Q
  <2> QED BY <1>3, <1>5, Climb
<1>7. AccIs(u[n], F(n))
  <2>1. n \in Q BY <1>6
  <2> QED BY <2>1
<1>8. F(n) = Of(S, key)
  <2>1. \A x : x \in F(n) <=> x \in Of(S, key)
    <3> TAKE x
    <3>1. x \in Of(S, key) <=> x \in S /\ GKey(x) = key BY OfFacts
    <3>2. x \in S <=> x \in Records /\ \E k \in 1 .. n : x \in E[k] BY <1>2
    <3> QED BY <3>1, <3>2 DEF FirstOf
  <2> HIDE DEF F
  <2> QED BY <2>1
<1> HIDE DEF F
<1> QED BY <1>7, <1>8 DEF u

\* The runs after the rows of a key, the least of all, have been taken.
LEMMA SpreadRest ==
    ASSUME Asked, NEW q, NEW E, NEW S, Spread(q, E, S), NEW n \in Nat, DOMAIN q = 1 .. n,
           NEW key \in Texts, \A x \in S : GKey(x) = key \/ Before(key, GKey(x)),
           NEW p, p = [r \in DOMAIN q |-> IF r \in SameKey(q, key) THEN Tail(q[r]) ELSE q[r]],
           NEW T, T = S \ Of(S, key)
    PROVE  \E F : Spread(p, F, T)
<1> DEFINE F == [k \in 1 .. n |-> E[k] \ Of(E[k], key)]
<1>1. /\ S \in SUBSET Records
      /\ \A k \in 1 .. n : Stands(q[k], E[k]) /\ Ascending(q[k]) /\ E[k] \subseteq S
      /\ \A j, k \in 1 .. n : j # k => E[j] \cap E[k] = {}
      /\ \A r \in S : \E k \in 1 .. n : r \in E[k]
  BY DEF Spread
<1>2. \A k \in 1 .. n : F[k] = E[k] \ Of(E[k], key) OBVIOUS
<1>3. DOMAIN p = 1 .. n /\ \A k \in 1 .. n : p[k] = IF k \in SameKey(q, key) THEN Tail(q[k]) ELSE q[k]
  OBVIOUS
<1> HIDE DEF F
<1>4. \A x : x \in T <=> x \in S /\ GKey(x) # key BY OfFacts
<1>5. \A k \in 1 .. n : \A x : x \in F[k] <=> x \in E[k] /\ GKey(x) # key BY <1>2, OfFacts
<1>6. \A k \in DOMAIN p : Stands(p[k], F[k]) /\ Ascending(p[k]) /\ F[k] \subseteq T
  <2> TAKE k \in DOMAIN p
  <2>0. k \in 1 .. n BY <1>3
  <2> DEFINE s == q[k]
             G == E[k]
             H == F[k]
  <2>1. Stands(s, G) /\ Ascending(s) /\ G \subseteq S /\ H = G \ Of(G, key) BY <1>1, <1>2, <2>0
  <2>2. k \in SameKey(q, key) <=> s # <<>> /\ Head(s).key = key BY <1>3 DEF SameKey
  <2>3. F[k] \subseteq T BY <1>1, <1>4, <1>5, <2>0
  <2>4. p[k] = IF k \in SameKey(q, key) THEN Tail(s) ELSE s BY <1>3
  <2> HIDE DEF s, G, H
  <2>5. CASE k \in SameKey(q, key)
    <3>1. p[k] = Tail(s) /\ s # <<>> /\ Head(s).key = key BY <2>2, <2>4, <2>5
    <3>2. Stands(Tail(s), H) /\ Ascending(Tail(s)) BY <2>1, <3>1, StandsTail
    <3> QED BY <2>3, <3>1, <3>2 DEF H
  <2>6. CASE k \notin SameKey(q, key)
    <3>1. p[k] = s BY <2>4, <2>6
    <3>2. H = G
      <4>1. CASE s = <<>>
        <5>1. G = {} BY <2>1, <4>1 DEF Stands
        <5> QED BY <2>1, <5>1
      <4>2. CASE s # <<>>
        <5>1. Head(s).key # key BY <2>2, <2>6, <4>2
        <5>2. Of(G, Head(s).key) # {} /\ \A y \in G \ Of(G, Head(s).key) : Before(Head(s).key, GKey(y))
          BY <2>1, <4>2, StandsTail
        <5>3. PICK x : x \in Of(G, Head(s).key) BY <5>2
        <5>4. x \in S /\ GKey(x) = Head(s).key BY <2>1, <5>3, OfFacts
        <5>5. Before(key, Head(s).key) /\ Head(s).key \in Texts
          <6>1. x \in Records BY <1>1, <5>4
          <6> QED BY <5>1, <5>4, <6>1, GKeyFacts
        <5>6. ASSUME NEW y \in Of(G, key) PROVE FALSE
          <6>1. y \in G /\ GKey(y) = key BY <5>6, OfFacts
          <6>2. y \notin Of(G, Head(s).key) BY <5>1, <6>1, OfFacts
          <6>3. Before(Head(s).key, key) BY <5>2, <6>1, <6>2
          <6>4. Before(key, key) BY <5>5, <6>3, BeforeOrders
          <6> QED BY <6>4, BeforeOrders
        <5> QED BY <2>1, <5>6
      <4> QED BY <4>1, <4>2
    <3> QED BY <2>1, <2>3, <3>1, <3>2 DEF H
  <2> QED BY <2>5, <2>6
<1>7. \A j, k \in DOMAIN p : j # k => F[j] \cap F[k] = {} BY <1>1, <1>3, <1>5
<1>8. \A r \in T : \E k \in DOMAIN p : r \in F[k] BY <1>1, <1>3, <1>4, <1>5
<1>9. T \in SUBSET Records BY <1>1, <1>4
<1>10. Spread(p, F, T) BY <1>3, <1>6, <1>7, <1>8, <1>9 DEF Spread
<1> QED BY <1>10

\* What was merged stands for some records, the least ones, and what is left
\* to merge for the others.
HalfMerged(q, o, E, S, O) ==
    /\ Spread(q, E, S) /\ Stands(o, O) /\ Ascending(o)
    /\ O \in SUBSET Records /\ S \cup O = Records
    /\ \A x \in O, y \in S : Before(GKey(x), GKey(y))
GroupMerges(w) ==
    /\ Shaped(w) /\ Row(w.runs) /\ Row(w.readers)
    /\ w.readers = <<>> => w.out = <<>> /\ \E E : Spread(Recs(w.runs), E, Records)
    /\ w.readers # <<>> => \E E, S, O : HalfMerged(w.readers, w.out, E, S, O)

\* Fold.
LEMMA FoldHolds ==
    ASSUME Asked, task.op = "group", NEW w, GroupMerges(w), \E r \in DOMAIN w.readers : w.readers[r] # <<>>,
           NEW key, key = Head(w.readers[NextReader(w.readers)]).key, NEW v, v = Folded(w, key)
    PROVE  GroupMerges(v)
<1> DEFINE q == w.readers
           o == w.out
           n == Len(q)
           load == UpTo(q, key)[n]
           e == [key |-> key, load |-> load]
           p == [r \in DOMAIN q |-> IF r \in SameKey(q, key) THEN Tail(q[r]) ELSE q[r]]
<1>1. Row(q) /\ n \in Nat /\ DOMAIN q = 1 .. n BY RowFacts DEF GroupMerges
<1>2. q # <<>> OBVIOUS
<1>3. PICK E, S, O : HalfMerged(q, o, E, S, O) BY <1>2 DEF GroupMerges
<1>4. /\ Spread(q, E, S) /\ Stands(o, O) /\ Ascending(o) /\ S \in SUBSET Records
      /\ O \in SUBSET Records /\ S \cup O = Records
      /\ \A x \in O, y \in S : Before(GKey(x), GKey(y))
  BY <1>3 DEF HalfMerged, Spread
<1>5. v = [w EXCEPT !.readers = p, !.out = Append(o, e)] BY DEF Folded
<1>6. p # <<>> /\ Row(p)
  <2>1. n # 0 BY <1>1
  <2>2. DOMAIN p = 1 .. n OBVIOUS
  <2>3. p \in [1 .. n -> {p[k] : k \in 1 .. n}] BY <1>1
  <2> HIDE DEF p, n
  <2>4. p \in Seq({p[k] : k \in 1 .. n}) BY <1>1, <2>3, SeqDef
  <2>5. p # <<>> BY <1>1, <2>1, <2>2
  <2> QED BY <2>4, <2>5 DEF Row
<1>7. Shaped(w) /\ Row(w.runs) BY DEF GroupMerges
<1> HIDE DEF p, e
<1>8. v.readers = p /\ v.out = Append(o, e) /\ v.runs = w.runs /\ Shaped(v) BY <1>5, <1>7 DEF Shaped, Fields
<1>9. e.key = key /\ e.load = load BY DEF e
<1>10. key = Head(q[NextReader(q)]).key /\ \E r \in DOMAIN q : q[r] # <<>> OBVIOUS
<1>11. p = [r \in DOMAIN q |-> IF r \in SameKey(q, key) THEN Tail(q[r]) ELSE q[r]] BY DEF p
<1>12. load = UpTo(q, key)[n] /\ Len(q) = n OBVIOUS
<1> HIDE DEF q, o, n, load
<1>13. /\ key \in Texts /\ \E x \in S : GKey(x) = key
       /\ \A x \in S : GKey(x) = key \/ Before(key, GKey(x))
  BY <1>4, <1>10, GroupNext
<1>14. AccIs(load, Of(S, key)) BY <1>1, <1>4, <1>12, <1>13, UpToIs
<1>15. PICK T : T = S \ Of(S, key) OBVIOUS
<1>16. PICK F : Spread(p, F, T) BY <1>1, <1>4, <1>11, <1>13, <1>15, SpreadRest
<1>17. PICK G : G = Of(S, key) OBVIOUS
<1>18. /\ \A x : x \in T <=> x \in S /\ GKey(x) # key
       /\ \A x : x \in G <=> x \in S /\ GKey(x) = key
  BY <1>15, <1>17, OfFacts
<1>19. e \in Tallies
  <2>1. load \in Accs BY <1>14 DEF AccIs
  <2> QED BY <1>13, <2>1 DEF e, Tallies
<1>20. \A x \in O : Before(GKey(x), key) /\ GKey(x) # key
  <2> TAKE x \in O
  <2>1. Before(GKey(x), key) BY <1>4, <1>13
  <2> QED BY <1>13, <2>1, BeforeOrders
<1>21. Stands(Append(o, e), O \cup G)
  <2>1. G # {} BY <1>13, <1>18
  <2>2. \A r \in G : GKey(r) = e.key BY <1>9, <1>18
  <2>3. \A r \in O : GKey(r) # e.key BY <1>9, <1>20
  <2>4. AccIs(e.load, G) BY <1>9, <1>14, <1>17
  <2> QED BY <1>4, <1>19, <2>1, <2>2, <2>3, <2>4, StandsAppend
<1>22. Ascending(Append(o, e))
  <2> DEFINE z == Append(o, e)
             m == Len(o)
  <2>1. o \in Seq(Tallies) BY <1>4 DEF Stands
  <2>2. /\ m \in Nat /\ DOMAIN o = 1 .. m /\ DOMAIN z = 1 .. m + 1 /\ z[m + 1] = e
        /\ \A i \in 1 .. m : z[i] = o[i]
    BY <2>1
  <2> HIDE DEF z, m
  <2>3. \A i \in 1 .. m : Before(o[i].key, key)
    <3> TAKE i \in 1 .. m
    <3>1. Of(O, o[i].key) # {} BY <1>4, <2>2 DEF Stands
    <3>2. PICK x : x \in Of(O, o[i].key) BY <3>1
    <3>3. x \in O /\ GKey(x) = o[i].key BY <3>2, OfFacts
    <3> QED BY <1>20, <3>3
  <2>4. \A i, j \in 1 .. m + 1 : i < j => Before(z[i].key, z[j].key)
    <3> TAKE i, j \in 1 .. m + 1
    <3> HAVE i < j
    <3>1. i \in 1 .. m BY <2>2
    <3>2. CASE j = m + 1 BY <1>9, <2>2, <2>3, <3>1, <3>2
    <3>3. CASE j # m + 1
      <4>1. j \in 1 .. m BY <2>2, <3>3
      <4>2. Before(o[i].key, o[j].key) BY <1>4, <2>2, <3>1, <4>1 DEF Ascending
      <4> QED BY <2>2, <3>1, <4>1, <4>2
    <3> QED BY <3>2, <3>3
  <2>5. Ascending(z) BY <2>2, <2>4 DEF Ascending
  <2> QED BY <2>5 DEF z
<1>23. \A x \in O \cup G, y \in T : Before(GKey(x), GKey(y))
  <2> TAKE x \in O \cup G, y \in T
  <2>1. y \in S /\ Before(key, GKey(y)) BY <1>13, <1>18
  <2>2. CASE x \in O BY <1>4, <2>1, <2>2
  <2>3. CASE x \in G BY <1>18, <2>1, <2>3
  <2> QED BY <2>2, <2>3
<1>24. O \cup G \in SUBSET Records /\ T \cup (O \cup G) = Records BY <1>4, <1>18
<1>25. PICK U : U = O \cup G OBVIOUS
<1>26. HalfMerged(v.readers, v.out, F, T, U) BY <1>8, <1>16, <1>21, <1>22, <1>23, <1>24, <1>25 DEF HalfMerged
<1> QED BY <1>6, <1>7, <1>8, <1>26 DEF GroupMerges

\* What a merge begins with: all of it in runs.
LEMMA GroupBegins ==
    ASSUME Asked, NEW w, Fresh(w), GroupHolds(w, Records), w.memory = <<>>
    PROVE  GroupMerges(w)
<1>1. Shaped(w) /\ w.readers = <<>> /\ w.out = <<>> BY DEF Fresh
<1>2. Row(w.runs) BY DEF GroupHolds
<1>3. PICK E, S, M : Kept(w, Records, E, S, M) BY DEF GroupHolds
<1>4. Spread(Recs(w.runs), E, S) /\ Stands(<<>>, M) /\ Records = S \cup M BY <1>3 DEF Kept
<1>5. M = {}
  <2>1. \A r \in M : \E i \in DOMAIN <<>> : <<>>[i].key = GKey(r) BY <1>4 DEF Stands
  <2> QED BY <2>1
<1>6. S = Records BY <1>4, <1>5
<1>7. Spread(Recs(w.runs), E, Records) BY <1>4, <1>6
<1>8. Row(<<>>) BY DEF Row
<1> QED BY <1>1, <1>2, <1>7, <1>8 DEF GroupMerges

\* Where nothing was ever spilled, all of it is in memory.
LEMMA GroupWithoutRuns ==
    ASSUME Asked, task.op = "group", NEW w, GroupHolds(w, Records), w.runs = <<>>,
           NEW t, t = InOrder(w.memory, RunBefore)
    PROVE  Stands(t, Records) /\ Ascending(t)
<1>1. PICK E, S, M : Kept(w, Records, E, S, M) BY DEF GroupHolds
<1>2. Spread(Recs(w.runs), E, S) /\ Stands(w.memory, M) /\ Records = S \cup M BY <1>1 DEF Kept
<1>3. DOMAIN Recs(w.runs) = {} BY DEF Recs
<1>4. S = {} BY <1>2, <1>3 DEF Spread
<1>5. Stands(w.memory, Records) BY <1>2, <1>4
<1> DEFINE m == w.memory
<1>6. Stands(m, Records) /\ t = InOrder(m, RunBefore) BY <1>5
<1> HIDE DEF m
<1> QED BY <1>6, StandsInOrder

\* BeginMerge.
LEMMA GroupOpens ==
    ASSUME Asked, NEW w, GroupMerges(w), w.readers = <<>>, NEW c, c = w.runs, c # <<>>,
           NEW v, v = Opening(w, c)
    PROVE  GroupMerges(v)
<1> DEFINE p == [k \in DOMAIN c |-> c[k].recs]
           n == Len(c)
<1>1. Shaped(w) /\ Row(c) /\ \E E : Spread(Recs(c), E, Records) BY DEF GroupMerges
<1>2. v = [w EXCEPT !.readers = p, !.out = <<>>] BY DEF Opening
<1>3. p = Recs(c) BY DEF Recs
<1>4. n \in Nat /\ DOMAIN c = 1 .. n /\ n # 0 BY <1>1, RowFacts
<1>5. Row(p) /\ p # <<>>
  <2> DEFINE T == {p[k] : k \in 1 .. n}
  <2>1. p \in [1 .. n -> T] BY <1>4
  <2>2. DOMAIN p = 1 .. n BY <1>4
  <2> HIDE DEF p, T, n
  <2>3. p \in Seq(T) BY <1>4, <2>1, SeqDef
  <2>4. p # <<>> BY <1>4, <2>2
  <2> QED BY <2>3, <2>4 DEF Row
<1> HIDE DEF p, n
<1>6. v.readers = p /\ v.out = <<>> /\ v.runs = c /\ Shaped(v) BY <1>1, <1>2 DEF Shaped, Fields
<1>7. PICK E : Spread(p, E, Records) BY <1>1, <1>3
<1>8. Stands(<<>>, {}) /\ Ascending(<<>>) BY StandsNone
<1>9. {} \in SUBSET Records /\ Records \cup {} = Records OBVIOUS
<1>10. HalfMerged(p, <<>>, E, Records, {}) BY <1>7, <1>8, <1>9 DEF HalfMerged
<1>11. \E D, S, O : HalfMerged(v.readers, v.out, D, S, O) BY <1>6, <1>10
<1> QED BY <1>1, <1>5, <1>6, <1>11 DEF GroupMerges

\* EndMerge.
LEMMA GroupEnds ==
    ASSUME Asked, NEW w, GroupMerges(w), \A r \in DOMAIN w.readers : w.readers[r] = <<>>,
           w.runs # <<>> => w.readers # <<>>, NEW o, o = w.out
    PROVE  Stands(o, Records) /\ Ascending(o)
<1>1. CASE w.readers = <<>>
  <2>1. w.runs = <<>> /\ o = <<>> BY <1>1 DEF GroupMerges
  <2>2. PICK E : Spread(Recs(w.runs), E, Records) BY <1>1 DEF GroupMerges
  <2>3. DOMAIN Recs(w.runs) = {} BY <2>1 DEF Recs
  <2>4. Records = {} BY <2>2, <2>3 DEF Spread
  <2> QED BY <2>1, <2>4, StandsNone
<1>2. CASE w.readers # <<>>
  <2>1. PICK E, S, O : HalfMerged(w.readers, w.out, E, S, O) BY <1>2 DEF GroupMerges
  <2>2. Spread(w.readers, E, S) /\ Stands(o, O) /\ Ascending(o) /\ S \cup O = Records
    BY <2>1 DEF HalfMerged
  <2>3. S = {}
    <3> SUFFICES ASSUME NEW x \in S PROVE FALSE OBVIOUS
    <3>1. PICK k \in DOMAIN w.readers : x \in E[k] BY <2>2 DEF Spread
    <3>2. Stands(<<>>, E[k]) BY <2>2 DEF Spread
    <3>3. \E i \in DOMAIN <<>> : <<>>[i].key = GKey(x) BY <3>1, <3>2 DEF Stands
    <3> QED BY <3>3
  <2>4. O = Records BY <2>2, <2>3
  <2> QED BY <2>2, <2>4
<1> QED BY <1>1, <1>2

LEMMA GroupStays ==
    ASSUME UNCHANGED <<task, input>>
    PROVE  /\ \A s, S : Stands(s, S)' <=> Stands(s, S)
           /\ \A w, C : GroupHolds(w, C)' <=> GroupHolds(w, C)
           /\ \A w : GroupMerges(w)' <=> GroupMerges(w)
<1>1. Records' = Records BY DocStays
<1>2. \A S, key : Of(S, key)' = Of(S, key) BY DEF Of, GKey, Field
<1>3. \A r : GKey(r)' = GKey(r) BY DEF GKey, Field
<1>4. ASSUME NEW s, NEW S PROVE Stands(s, S)' <=> Stands(s, S) BY <1>2, <1>3 DEF Stands
<1>5. ASSUME NEW q, NEW E, NEW S PROVE Spread(q, E, S)' <=> Spread(q, E, S) BY <1>1, <1>4 DEF Spread
<1>6. ASSUME NEW w, NEW C PROVE GroupHolds(w, C)' <=> GroupHolds(w, C)
  BY <1>1, <1>4, <1>5 DEF GroupHolds, Kept
<1>7. ASSUME NEW q, NEW o, NEW E, NEW S, NEW O PROVE HalfMerged(q, o, E, S, O)' <=> HalfMerged(q, o, E, S, O)
  BY <1>1, <1>3, <1>4, <1>5 DEF HalfMerged
<1>8. ASSUME NEW w PROVE GroupMerges(w)' <=> GroupMerges(w) BY <1>1, <1>5, <1>7 DEF GroupMerges
<1> QED BY <1>4, <1>6, <1>8

GroupInv ==
    task.op = "group" =>
        /\ phase = "read" => GroupHolds(work, Taken(work.count))
        /\ phase = "merge" => GroupMerges(work)
        /\ phase = "done" => Stands(rows, Records) /\ Ascending(rows)

LEMMA GroupInit == BatInit => GroupInv
<1> SUFFICES ASSUME BatInit, task.op = "group" PROVE GroupInv BY DEF GroupInv
<1>1. phase = "read" /\ work = NoWork /\ Asked BY DEF BatInit, Asked
<1>2. work.memory = <<>> /\ work.count = 0 /\ work.runs = <<>> BY <1>1 DEF NoWork
<1>3. Taken(0) = {}
  <2>1. \A r \in Records : ~(r.no < 0) BY <1>1, RecordFacts
  <2> QED BY <2>1 DEF Taken
<1>4. Row(<<>>) /\ DOMAIN Recs(<<>>) = {} BY DEF Row, Recs
<1>5. Spread(Recs(<<>>), <<>>, {})
  <2>1. {} = 1 .. 0 /\ 0 \in Nat OBVIOUS
  <2> QED BY <1>4, <2>1 DEF Spread
<1>6. Kept(work, {}, <<>>, {}, {}) BY <1>2, <1>5, StandsNone DEF Kept
<1>7. GroupHolds(work, {}) BY <1>2, <1>4, <1>6 DEF GroupHolds
<1> QED BY <1>1, <1>2, <1>3, <1>7 DEF GroupInv

LEMMA GroupSteps == Course /\ Course' /\ GroupInv /\ [BatNext]_batVars => GroupInv'
<1> SUFFICES ASSUME Course, Course', GroupInv, [BatNext]_batVars, task'.op = "group" PROVE GroupInv'
  BY DEF GroupInv
<1>1. UNCHANGED <<task, input>>
  BY DEF BatNext, Read, EndOfInput, BeginMerge, Pump, Fold, EndChunk, EndMerge, Fail, batVars
<1>2. task.op = "group" /\ Asked BY <1>1 DEF Course
<1>3. /\ Records' = Records /\ \A c : Taken(c)' = Taken(c)
      /\ \A s, S : Stands(s, S)' <=> Stands(s, S)
      /\ \A w, C : GroupHolds(w, C)' <=> GroupHolds(w, C)
      /\ \A w : GroupMerges(w)' <=> GroupMerges(w)
  BY <1>1, SortStays, GroupStays
<1>4. ASSUME NEW v, work' = v, GroupMerges(v), phase' = "merge" PROVE GroupInv'
  <2>1. GroupMerges(v)' BY <1>3, <1>4
  <2>2. GroupMerges(work)' BY <1>4, <2>1 DEF GroupMerges
  <2> QED BY <1>4, <2>2 DEF GroupInv
<1>5. ASSUME NEW v, work' = v, NEW c, c = v.count, GroupHolds(v, Taken(c)), phase' = "read" PROVE GroupInv'
  <2>1. PICK C : C = Taken(c) OBVIOUS
  <2>2. Taken(c)' = C BY <1>3, <2>1
  <2>3. GroupHolds(v, C)' BY <1>3, <1>5, <2>1
  <2>4. work'.count = c BY <1>5
  <2>5. Taken(work.count)' = C BY <2>2, <2>4 DEF Taken
  <2>6. GroupHolds(work, Taken(work.count))' BY <1>5, <2>3, <2>5 DEF GroupHolds, Kept
  <2> QED BY <1>5, <2>6 DEF GroupInv
<1>6. ASSUME NEW z, rows' = z, Stands(z, Records), Ascending(z), phase' = "done" PROVE GroupInv'
  <2>1. PICK C : C = Records OBVIOUS
  <2>2. Stands(z, C)' BY <1>3, <1>6, <2>1
  <2>3. Stands(rows, Records)' BY <1>3, <1>6, <2>1, <2>2 DEF Stands
  <2>4. Ascending(rows)' BY <1>6 DEF Ascending
  <2> QED BY <1>6, <2>3, <2>4 DEF GroupInv
<1>7. CASE Read
  <2>1. phase = "read" /\ phase' = phase BY <1>7 DEF Read
  <2>2. ReadOK /\ Fresh(work) /\ GroupHolds(work, Taken(work.count)) BY <1>2, <2>1 DEF Course, GroupInv
  <2>3. PICK v : work' = v OBVIOUS
  <2>4. PICK c : c = v.count OBVIOUS
  <2>5. GroupHolds(v, Taken(c))
    <3>1. CASE work' = work BY <2>2, <2>3, <2>4, <3>1
    <3>2. CASE ReadsOne
      <4>1. PICK record, r : Carries(work, record, r) /\ work' = Taking(work, record)
        BY <3>2 DEF ReadsOne
      <4>2. v = Taking(work, record) /\ Shaped(work) BY <2>2, <2>3, <4>1 DEF Fresh
      <4>3. PICK C : C = Taken(work.count) OBVIOUS
      <4>4. GroupHolds(work, C) BY <2>2, <4>3
      <4>5. GroupHolds(v, Taken(work.count + 1)) /\ v.count = work.count + 1
        BY <1>2, <4>1, <4>2, <4>3, <4>4, GroupReads
      <4> QED BY <2>4, <4>5
    <3> QED BY <1>2, <1>7, <2>2, <3>1, <3>2, ReadCarries
  <2> QED BY <1>5, <2>1, <2>3, <2>4, <2>5
<1>8. CASE EndOfInput
  <2>1. phase = "read" /\ at = Len(input) BY <1>8 DEF EndOfInput
  <2>2. ReadOK /\ Fresh(work) /\ GroupHolds(work, Taken(work.count)) BY <1>2, <2>1 DEF Course, GroupInv
  <2>3. PICK w : w = IF open = <<>> THEN work ELSE Taking(work, open) OBVIOUS
  <2>4. /\ w.runs = <<>> => phase' = "done" /\ rows' = InOrder(w.memory, RunBefore)
        /\ w.runs # <<>> => /\ phase' = "merge"
                            /\ work' = IF w.memory # <<>> THEN Spilled(w) ELSE w
    BY <1>2, <1>8, <2>3 DEF EndOfInput
  <2>5. GroupHolds(w, Records) /\ Fresh(w)
    <3>1. CASE open = <<>>
      <4>1. w = work BY <2>3, <3>1
      <4>2. Taken(work.count) = Records BY <1>2, <2>1, <2>2, <3>1, EndTakes
      <4> QED BY <2>2, <4>1, <4>2
    <3>2. CASE open # <<>>
      <4>1. w = Taking(work, open) BY <2>3, <3>2
      <4>2. PICK r : Carries(work, open, r) /\ Taken(work.count + 1) = Records
        BY <1>2, <2>1, <2>2, <3>2, EndCarries
      <4>3. Shaped(work) BY <2>2 DEF Fresh
      <4>4. PICK C : C = Taken(work.count) OBVIOUS
      <4>5. GroupHolds(work, C) BY <2>2, <4>4
      <4>6. GroupHolds(w, Taken(work.count + 1)) BY <1>2, <4>1, <4>2, <4>3, <4>4, <4>5, GroupReads
      <4>7. Fresh(w) BY <2>2, <4>1, TakingFresh
      <4> QED BY <4>2, <4>6, <4>7
    <3> QED BY <3>1, <3>2
  <2>6. CASE w.runs = <<>>
    <3>1. PICK t : t = InOrder(w.memory, RunBefore) OBVIOUS
    <3>2. Stands(t, Records) /\ Ascending(t) BY <1>2, <2>5, <2>6, <3>1, GroupWithoutRuns
    <3> QED BY <1>6, <2>4, <2>6, <3>1, <3>2
  <2>7. CASE w.runs # <<>> /\ w.memory = <<>>
    <3>1. GroupMerges(w) BY <1>2, <2>5, <2>7, GroupBegins
    <3> QED BY <1>4, <2>4, <2>7, <3>1
  <2>8. CASE w.runs # <<>> /\ w.memory # <<>>
    <3>1. Shaped(w) BY <2>5 DEF Fresh
    <3>2. PICK C : C = Records OBVIOUS
    <3>3. GroupHolds(w, C) BY <2>5, <3>2
    <3>4. GroupHolds(Spilled(w), C) /\ Spilled(w).memory = <<>> /\ Shaped(Spilled(w))
      BY <1>2, <3>1, <3>3, GroupSpilled
    <3>5. Spills(w, Spilled(w)) BY <1>2, <3>1, SpilledSpills DEF Shaped
    <3>6. Fresh(Spilled(w)) BY <2>5, <3>4, <3>5 DEF Spills, Fresh
    <3>7. GroupMerges(Spilled(w)) BY <1>2, <3>2, <3>4, <3>6, GroupBegins
    <3> QED BY <1>4, <2>4, <2>8, <3>7
  <2> QED BY <2>6, <2>7, <2>8
<1>9. CASE BeginMerge
  <2>1. phase = "merge" /\ phase' = phase /\ work.readers = <<>> /\ ChunkOf(work) # <<>>
        /\ work' = [work EXCEPT !.readers = [k \in DOMAIN ChunkOf(work) |-> ChunkOf(work)[k].recs],
                                !.out = <<>>]
    BY <1>9 DEF BeginMerge
  <2>2. GroupMerges(work) BY <1>2, <2>1 DEF GroupInv
  <2>3. PICK c : c = ChunkOf(work) OBVIOUS
  <2>4. c = work.runs BY <1>2, <2>3 DEF ChunkOf, LastPass
  <2>5. PICK v : v = Opening(work, c) OBVIOUS
  <2>6. work' = v /\ c # <<>> BY <2>1, <2>3, <2>5 DEF Opening
  <2>7. GroupMerges(v) BY <1>2, <2>1, <2>2, <2>4, <2>5, <2>6, GroupOpens
  <2> QED BY <1>4, <2>1, <2>6, <2>7
<1>10. CASE Pump BY <1>2, <1>10 DEF Pump
<1>11. CASE Fold
  <2>1. /\ phase = "merge" /\ phase' = phase /\ Ready BY <1>11 DEF Fold
  <2>2. GroupMerges(work) /\ \E r \in DOMAIN work.readers : work.readers[r] # <<>>
    BY <1>2, <2>1 DEF GroupInv, Ready
  <2>3. PICK key : key = Head(work.readers[NextReader(work.readers)]).key OBVIOUS
  <2>4. PICK v : v = Folded(work, key) OBVIOUS
  <2>5. work' = v BY <1>11, <2>3, <2>4 DEF Fold
  <2>6. GroupMerges(v) BY <1>2, <2>2, <2>3, <2>4, FoldHolds
  <2> QED BY <1>4, <2>1, <2>5, <2>6
<1>12. CASE EndChunk BY <1>2, <1>12 DEF EndChunk, LastPass
<1>13. CASE EndMerge
  <2>1. /\ phase = "merge" /\ phase' = "done" /\ ~Ready /\ rows' = work.out
        /\ work.runs # <<>> => work.readers # <<>>
    BY <1>2, <1>13 DEF EndMerge
  <2>2. GroupMerges(work) BY <1>2, <2>1 DEF GroupInv
  <2>3. \A r \in DOMAIN work.readers : work.readers[r] = <<>> BY <2>1 DEF Ready
  <2>4. PICK o : o = work.out OBVIOUS
  <2>5. Stands(o, Records) /\ Ascending(o) BY <1>2, <2>1, <2>2, <2>3, <2>4, GroupEnds
  <2> QED BY <1>6, <2>1, <2>4, <2>5
<1>14. CASE Fail
  <2>1. phase' = "failed" BY <1>14 DEF Fail
  <2> QED BY <2>1 DEF GroupInv
<1>15. CASE UNCHANGED batVars
  <2>1. phase' = phase /\ work' = work /\ rows' = rows BY <1>15 DEF batVars
  <2>2. CASE phase = "read"
    <3>1. GroupHolds(work, Taken(work.count)) BY <1>2, <2>2 DEF GroupInv
    <3> QED BY <1>5, <2>1, <2>2, <3>1
  <2>3. CASE phase = "merge"
    <3>1. GroupMerges(work) BY <1>2, <2>3 DEF GroupInv
    <3> QED BY <1>4, <2>1, <2>3, <3>1
  <2>4. CASE phase = "done"
    <3>1. Stands(rows, Records) /\ Ascending(rows) BY <1>2, <2>4 DEF GroupInv
    <3>2. PICK z : z = rows OBVIOUS
    <3> QED BY <1>6, <2>1, <2>4, <3>1, <3>2
  <2>5. CASE phase = "failed" BY <2>1, <2>5 DEF GroupInv
  <2> QED BY <2>2, <2>3, <2>4, <2>5 DEF Course
<1> QED BY <1>7, <1>8, <1>9, <1>10, <1>11, <1>12, <1>13, <1>14, <1>15 DEF BatNext

-----------------------------------------------------------------------------
(* The result.                                                             *)

ResultInv == Course /\ SortInv /\ TopInv /\ GroupInv

LEMMA ResultSteps ==
    /\ BatInit => ResultInv
    /\ ResultInv /\ [BatNext]_batVars => ResultInv'
    /\ ResultInv => ResultExact
<1>1. BatInit => ResultInv BY CourseBegins, SortInit, TopInit, GroupInit DEF ResultInv
<1>2. ResultInv /\ [BatNext]_batVars => ResultInv'
  BY CourseSteps, SortSteps, TopSteps, GroupSteps DEF ResultInv
<1>3. ASSUME ResultInv, phase = "done"
      PROVE  \E records \in {Records} :
                CASE task.op = "sort" -> SortExact(records)
                  [] task.op = "group" -> GroupExact(records)
                  [] OTHER -> TopExact(records)
  <2>1. Asked /\ task.op \in {"sort", "group", "top"} BY <1>3, AskedFacts DEF ResultInv, Course
  <2>2. CASE task.op = "sort"
    <3>1. SortExact(Records) BY <1>3, <2>2 DEF ResultInv, SortInv
    <3> QED BY <2>2, <3>1
  <2>3. CASE task.op = "group"
    <3>1. GroupExact(Records) BY <1>3, <2>1, <2>3, GroupIs DEF ResultInv, GroupInv
    <3> QED BY <2>3, <3>1
  <2>4. CASE task.op = "top"
    <3>1. TopExact(Records) BY <1>3, <2>1, <2>4, TopIs DEF ResultInv, TopInv
    <3> QED BY <2>4, <3>1
  <2> QED BY <2>1, <2>2, <2>3, <2>4
<1>4. ResultInv => ResultExact BY <1>3 DEF ResultExact
<1> QED BY <1>1, <1>2, <1>4

\* A sort, a group or a top that ends has the exact result: the records of the
\* document in the stable order of all their key columns, one row for each key
\* with what its records come to, the first n of the order. It does not matter
\* how many runs the budget spilled nor how many passes the fan-in made of the
\* merge, for any lines (quoted ones over several lines too), columns and
\* budget (sort_inner, group, top_n).
THEOREM ExactResult == BatSpec => []ResultExact
<1>1. BatInit => ResultInv BY ResultSteps
<1>2. ResultInv /\ [BatNext]_batVars => ResultInv' BY ResultSteps
<1>3. ResultInv => ResultExact BY ResultSteps
<1> QED BY <1>1, <1>2, <1>3, PTL DEF BatSpec

-----------------------------------------------------------------------------
(* Updater.                                                                *)


\* A release is uploaded file after file; a checksum is always there.
OrderInv ==
    /\ release.sum = 2 => release.asset = 2
    /\ release.sig = 2 => release.sum = 2

\* What was fetched is of an upload there has been.
Fetched(p) ==
    /\ got[p].sum <= release.sum
    /\ Is(p, "verify") => got[p].sum >= 1

\* A process that installs has a trusted build.
Verified(p) ==
    \/ run[p].pc \in {"copy", "swap", "in", "over"}
    \/ run[p].errand # "remove" /\ Defers(p)
    => Trusted(got[p].asset)

SoundBuild(b) == Trusted(b) \/ (InPlace /\ b \in {Absent, Torn})

\* The sibling names: a trusted build about to move in, a sound one to move
\* back, and nothing before that.
Siblings(p) ==
    /\ run[p].pc \in {"swap", "in"} => Trusted(side[p].new)
    /\ Is(p, "in") => SoundBuild(side[p].old)
    /\ run[p].pc \in {"start", "asset", "sum", "verify", "copy", "swap"}
          => side[p].old = Absent

\* What copies over the installed path works in place.
Placed(p) ==
    /\ Defers(p) \/ Is(p, "over") => host.platform = "windows"
    /\ Is(p, "helper") => Defers(p)
    /\ Defers(p) => run[p].pc \in {"end", "helper"}
    /\ Is(p, "unlink") => run[p].errand = "remove"
    /\ run[p].pc \in {"asset", "sum", "verify", "copy", "swap", "in", "over"}
          => run[p].errand # "remove"

Good(p) == Fetched(p) /\ Verified(p) /\ Siblings(p) /\ Placed(p)

UpdIInv == UpdTypeOK /\ OrderInv /\ InstalledWhole /\ \A p \in Updaters : Good(p)

-----------------------------------------------------------------------------
(* How a process moves on.                                                 *)

Runs == [errand : Errands, pc : Positions, res : Results, deferred : BOOLEAN]

\* Only p moves, its errand stays, and so do the machine and the release.
Goes(p, pc, deferred) ==
    /\ run' \in [Updaters -> Runs]
    /\ run'[p].errand = run[p].errand /\ run'[p].pc = pc /\ run'[p].deferred = deferred
    /\ \A q \in Updaters \ {p} : run'[q] = run[q]

LEMMA Moved ==
    ASSUME UpdTypeOK, NEW p \in Updaters, NEW pc \in Positions, NEW res \in Results,
           NEW deferred \in BOOLEAN,
           run' = [run EXCEPT ![p].pc = pc, ![p].res = res, ![p].deferred = deferred]
    PROVE  Goes(p, pc, deferred)
<1> DEFINE r == [run[p] EXCEPT !.pc = pc, !.res = res, !.deferred = deferred]
<1>1. run \in [Updaters -> Runs] /\ run[p] \in Runs
  BY DEF UpdTypeOK, Runs
<1>2. r \in Runs /\ r.errand = run[p].errand /\ r.pc = pc /\ r.deferred = deferred
  BY <1>1 DEF Runs
<1>3. run' = [run EXCEPT ![p] = r]
  BY <1>1 DEF Runs
<1> HIDE DEF r
<1>4. run'[p] = r
  BY <1>1, <1>3
<1>5. \A q \in Updaters \ {p} : run'[q] = run[q]
  BY <1>1, <1>3
<1>6. run' \in [Updaters -> Runs]
  BY <1>1, <1>2, <1>3
<1> QED
  BY <1>2, <1>4, <1>5, <1>6 DEF Goes

LEMMA Advances ==
    ASSUME UpdTypeOK, NEW p \in Updaters, NEW pc \in Positions, Advance(p, pc)
    PROVE  Goes(p, pc, Defers(p))
<1>1. run[p].res \in Results /\ run[p].deferred \in BOOLEAN
  BY DEF UpdTypeOK
<1>2. run' = [run EXCEPT ![p].pc = pc, ![p].res = run[p].res, ![p].deferred = run[p].deferred]
  BY DEF UpdTypeOK, Advance
<1> QED
  BY <1>1, <1>2, Moved DEF Defers

LEMMA Leaving ==
    ASSUME UpdTypeOK, NEW p \in Updaters, NEW answer \in Results, Leaves(p, answer)
    PROVE  Goes(p, "end", Defers(p)) /\ stage' \subseteq Updaters
<1>1. run[p].deferred \in BOOLEAN /\ "end" \in Positions
  BY DEF UpdTypeOK, Positions
<1>2. run' = [run EXCEPT ![p].pc = "end", ![p].res = answer, ![p].deferred = run[p].deferred]
  BY DEF UpdTypeOK, Leaves
<1>3. Goes(p, "end", Defers(p))
  BY <1>1, <1>2, Moved DEF Defers
<1> QED
  BY <1>3 DEF UpdTypeOK, Leaves

LEMMA MovedOn ==
    ASSUME UpdTypeOK, NEW p \in Updaters, NEW pc \in Positions, NEW deferred \in BOOLEAN,
           run' = [run EXCEPT ![p].pc = pc, ![p].deferred = deferred]
    PROVE  Goes(p, pc, deferred)
<1>1. run[p].res \in Results
  BY DEF UpdTypeOK
<1>2. run' = [run EXCEPT ![p].pc = pc, ![p].res = run[p].res, ![p].deferred = deferred]
  BY DEF UpdTypeOK
<1> QED
  BY <1>1, <1>2, Moved

LEMMA ReleaseBuilds == UpdTypeOK => release.asset \in Builds /\ release.sum \in Builds
BY DEF UpdTypeOK, Builds

LEMMA GotContents == UpdTypeOK => \A p \in Updaters : got[p].asset \in Contents
BY DEF UpdTypeOK, Contents

\* What is signed and hashed is of an upload there has been.
LEMMA SignedHashed ==
    ASSUME UpdTypeOK, NEW p \in Updaters, Fetched(p), Is(p, "verify"), Signed(p), Hashed(p)
    PROVE  Trusted(got[p].asset)
<1>1. got[p].sum \in {0, 1, 2} /\ release.sum \in {1, 2} /\ release.sig \in {0, 1, 2}
  BY DEF UpdTypeOK, Builds, Old
<1> QED
  BY <1>1 DEF Fetched, Signed, Hashed, Trusted

\* What p holds after a download, and what its sibling names hold.
UpdHolds(p, asset, sum) ==
    /\ got' \in [Updaters -> [asset : Builds \cup {Garbled}, sum : Builds]]
    /\ got'[p].asset = asset /\ got'[p].sum = sum
    /\ \A q \in Updaters \ {p} : got'[q] = got[q]

Beside(p, new, old) ==
    /\ side' \in [Updaters -> [new : Contents, old : Contents]]
    /\ side'[p].new = new /\ side'[p].old = old
    /\ \A q \in Updaters \ {p} : side'[q] = side[q]

LEMMA HoldsAsset ==
    ASSUME UpdTypeOK, NEW p \in Updaters, NEW b \in Builds \cup {Garbled},
           got' = [got EXCEPT ![p].asset = b]
    PROVE  UpdHolds(p, b, got[p].sum)
BY DEF UpdTypeOK, UpdHolds

LEMMA HoldsSum ==
    ASSUME UpdTypeOK, NEW p \in Updaters, NEW b \in Builds, got' = [got EXCEPT ![p].sum = b]
    PROVE  UpdHolds(p, got[p].asset, b)
BY DEF UpdTypeOK, UpdHolds

LEMMA BesideNew ==
    ASSUME UpdTypeOK, NEW p \in Updaters, NEW b \in Contents, side' = [side EXCEPT ![p].new = b]
    PROVE  Beside(p, b, side[p].old)
BY DEF UpdTypeOK, Beside

LEMMA BesideOld ==
    ASSUME UpdTypeOK, NEW p \in Updaters, NEW b \in Contents, side' = [side EXCEPT ![p].old = b]
    PROVE  Beside(p, side[p].new, b)
BY DEF UpdTypeOK, Beside

LEMMA BesideBoth ==
    ASSUME UpdTypeOK, NEW p \in Updaters, NEW b \in Contents, NEW c \in Contents,
           side' = [side EXCEPT ![p] = [new |-> b, old |-> c]]
    PROVE  Beside(p, b, c)
BY DEF UpdTypeOK, Beside

\* No file, a torn one and a garbled download are not trusted.
LEMMA OnlyBuildsTrusted ==
    ASSUME UpdTypeOK, NEW b, Trusted(b)
    PROVE  b \in Builds /\ b # Absent /\ b # Torn
BY DEF UpdTypeOK, Trusted, Builds, Old, Absent, Torn

\* The processes that do not move stay as they are, and so does the trust.
LEMMA OthersStay ==
    ASSUME UpdIInv, NEW p \in Updaters, NEW pc, NEW deferred, Goes(p, pc, deferred),
           UNCHANGED <<host, release>>, UpdTypeOK', InstalledWhole', Good(p)',
           \A q \in Updaters \ {p} : got'[q] = got[q] /\ side'[q] = side[q]
    PROVE  UpdIInv'
<1>1. InPlace' = InPlace
  BY DEF Goes, InPlace
<1>2. ASSUME NEW q \in Updaters \ {p} PROVE Good(q)'
  <2>1. Good(q) /\ run'[q] = run[q] /\ got'[q] = got[q] /\ side'[q] = side[q]
    BY <1>2 DEF UpdIInv, Goes
  <2> QED
    BY <1>1, <2>1 DEF Good, Fetched, Verified, Siblings, Placed, SoundBuild, Trusted, Is, Defers
<1>3. OrderInv'
  BY DEF UpdIInv, OrderInv
<1> QED
  BY <1>2, <1>3 DEF UpdIInv

-----------------------------------------------------------------------------
(* Every step keeps the invariant.                                         *)

\* prepare_update: nothing is fetched yet.
LEMMA PrepareKeeps == ASSUME UpdIInv, NEW p \in Updaters, Prepare(p) PROVE UpdIInv'
<1>1. /\ \/ Goes(p, "asset", Defers(p)) /\ stage' = stage
         \/ Goes(p, "end", Defers(p)) /\ stage' \subseteq Updaters
      /\ Is(p, "start") /\ run[p].errand # "remove"
      /\ UNCHANGED <<host, release, got, dest, side>>
  BY Advances, Leaving DEF UpdIInv, Prepare, Positions, Results
<1>2. UpdTypeOK'
  BY <1>1 DEF UpdIInv, UpdTypeOK, Goes, Runs
<1>3. Good(p)'
  BY <1>1 DEF UpdIInv, Good, Fetched, Verified, Siblings, Placed, Trusted, SoundBuild, Goes, Is, Defers
<1>4. InstalledWhole'
  BY <1>1 DEF UpdIInv, InstalledWhole, Trusted, InPlace, Goes
<1> QED
  BY <1>1, <1>2, <1>3, <1>4, OthersStay

\* StageDir::create and download_to.
LEMMA FetchAssetKeeps == ASSUME UpdIInv, NEW p \in Updaters, FetchAsset(p) PROVE UpdIInv'
<1>1. /\ \/ /\ Goes(p, "sum", Defers(p)) /\ stage' \subseteq Updaters
            /\ \E b \in Builds \cup {Garbled} : UpdHolds(p, b, got[p].sum)
         \/ Goes(p, "end", Defers(p)) /\ stage' \subseteq Updaters /\ UNCHANGED got
      /\ Is(p, "asset") /\ UNCHANGED <<host, release, dest, side>>
  BY Advances, Leaving, HoldsAsset, ReleaseBuilds DEF UpdIInv, UpdTypeOK, FetchAsset, Positions, Results
<1>2. UpdTypeOK'
  BY <1>1 DEF UpdIInv, UpdTypeOK, Goes, Runs, UpdHolds
<1>3. Good(p)'
  BY <1>1 DEF UpdIInv, Good, Fetched, Verified, Siblings, Placed, Trusted, SoundBuild, Goes, Is, Defers, UpdHolds
<1>4. InstalledWhole'
  BY <1>1 DEF UpdIInv, InstalledWhole, Trusted, InPlace, Goes
<1> QED
  BY <1>1, <1>2, <1>3, <1>4, OthersStay DEF UpdHolds

\* The checksum file is of an upload there has been.
LEMMA FetchSumKeeps == ASSUME UpdIInv, NEW p \in Updaters, FetchSum(p) PROVE UpdIInv'
<1>1. /\ \/ /\ Goes(p, "verify", Defers(p)) /\ UNCHANGED stage
            /\ UpdHolds(p, got[p].asset, release.sum)
         \/ Goes(p, "end", Defers(p)) /\ stage' \subseteq Updaters /\ UNCHANGED got
      /\ Is(p, "sum") /\ UNCHANGED <<host, release, dest, side>>
  BY Advances, Leaving, HoldsSum, ReleaseBuilds DEF UpdIInv, FetchSum, Positions, Results
<1>2. UpdTypeOK'
  BY <1>1 DEF UpdIInv, UpdTypeOK, Goes, Runs, UpdHolds
<1>3. Good(p)'
  BY <1>1 DEF UpdIInv, Good, Fetched, Verified, Siblings, Placed, Trusted, SoundBuild, Goes, Is, Defers, UpdHolds, UpdTypeOK
<1>4. InstalledWhole'
  BY <1>1 DEF UpdIInv, InstalledWhole, Trusted, InPlace, Goes
<1> QED
  BY <1>1, <1>2, <1>3, <1>4, OthersStay DEF UpdHolds

\* Signature and hash: the build is trusted from here on.
LEMMA VerifyKeeps == ASSUME UpdIInv, NEW p \in Updaters, Verify(p) PROVE UpdIInv'
<1>1. /\ \/ /\ Goes(p, "copy", Defers(p)) /\ UNCHANGED stage
            /\ Trusted(got[p].asset)
         \/ Goes(p, "end", Defers(p)) /\ stage' \subseteq Updaters
      /\ Is(p, "verify") /\ UNCHANGED <<host, release, got, dest, side>>
  BY Advances, Leaving, SignedHashed DEF UpdIInv, Good, Verify, Positions, Results
<1>2. UpdTypeOK'
  BY <1>1 DEF UpdIInv, UpdTypeOK, Goes, Runs
<1>3. Good(p)'
  BY <1>1 DEF UpdIInv, Good, Fetched, Verified, Siblings, Placed, Trusted, SoundBuild, Goes, Is, Defers
<1>4. InstalledWhole'
  BY <1>1 DEF UpdIInv, InstalledWhole, Trusted, InPlace, Goes
<1> QED
  BY <1>1, <1>2, <1>3, <1>4, OthersStay

\* The sibling name is the process's own.
LEMMA CopyAsideKeeps == ASSUME UpdIInv, NEW p \in Updaters, CopyAside(p) PROVE UpdIInv'
<1>1. /\ \/ Goes(p, "swap", Defers(p)) /\ UNCHANGED stage /\ Beside(p, got[p].asset, Absent)
         \/ Goes(p, "end", Defers(p)) /\ stage' \subseteq Updaters /\ Beside(p, Torn, Absent)
      /\ Is(p, "copy") /\ host.platform # "windows" /\ UNCHANGED <<host, release, got, dest>>
  BY Advances, Leaving, BesideBoth, GotContents DEF UpdIInv, CopyAside, Positions, Results, Contents
<1>2. UpdTypeOK'
  BY <1>1 DEF UpdIInv, UpdTypeOK, Goes, Runs, Beside
<1>3. Good(p)'
  BY <1>1 DEF UpdIInv, Good, Fetched, Verified, Siblings, Placed, Trusted, SoundBuild, Goes, Is, Defers, Beside
<1>4. InstalledWhole'
  BY <1>1 DEF UpdIInv, InstalledWhole, Trusted, InPlace, Goes, Beside, Good, Siblings, Is
<1> QED
  BY <1>1, <1>2, <1>3, <1>4, OthersStay DEF Beside

\* One rename: the old build or the new one.
LEMMA RenameBinaryKeeps == ASSUME UpdIInv, NEW p \in Updaters, RenameBinary(p) PROVE UpdIInv'
<1>1. /\ Goes(p, "end", Defers(p)) /\ stage' \subseteq Updaters
      /\ dest' \in {dest, side[p].new} /\ Beside(p, Absent, side[p].old)
      /\ Is(p, "swap") /\ host.platform = "unix" /\ UNCHANGED <<host, release, got>>
  BY Advances, Leaving, BesideNew DEF UpdIInv, RenameBinary, Positions, Results, Contents
<1>2. UpdTypeOK'
  BY <1>1 DEF UpdIInv, UpdTypeOK, Goes, Runs, Beside
<1>3. Good(p)'
  BY <1>1 DEF UpdIInv, Good, Fetched, Verified, Siblings, Placed, Trusted, SoundBuild, Goes, Is, Defers, Beside
<1>4. InstalledWhole'
  BY <1>1 DEF UpdIInv, InstalledWhole, Trusted, InPlace, Goes, Beside, Good, Siblings, Is
<1> QED
  BY <1>1, <1>2, <1>3, <1>4, OthersStay DEF Beside

\* A sound bundle is set aside; without one the new one moves straight in.
LEMMA MoveAsideKeeps == ASSUME UpdIInv, NEW p \in Updaters, MoveAside(p) PROVE UpdIInv'
<1>1. /\ \/ /\ Goes(p, "in", Defers(p)) /\ UNCHANGED stage
            /\ dest # Absent /\ dest' = Absent /\ Beside(p, side[p].new, dest)
         \/ /\ Goes(p, "end", Defers(p)) /\ stage' \subseteq Updaters
            /\ dest' = side[p].new /\ Beside(p, Absent, side[p].old)
         \/ Goes(p, "end", Defers(p)) /\ stage' \subseteq Updaters /\ UNCHANGED <<dest, side>>
      /\ Is(p, "swap") /\ host.platform = "mac" /\ UNCHANGED <<host, release, got>>
  BY Advances, Leaving, BesideNew, BesideOld DEF UpdIInv, UpdTypeOK, MoveAside, Positions, Results, Contents
<1>2. UpdTypeOK'
  BY <1>1 DEF UpdIInv, UpdTypeOK, Goes, Runs, Beside, Contents
<1>3. Good(p)'
  <2>1. dest # Absent => SoundBuild(dest)
    BY DEF UpdIInv, InstalledWhole, SoundBuild, InPlace
  <2>2. Good(p) /\ InPlace' = InPlace
    BY <1>1 DEF UpdIInv, InPlace, Goes
  <2> QED
    BY <1>1, <2>1, <2>2 DEF Good, Fetched, Verified, Siblings, Placed, Trusted, SoundBuild, Goes, Is,
       Defers, Beside
<1>4. InstalledWhole'
  <2>1. Good(p) /\ InPlace' = InPlace
    BY <1>1 DEF UpdIInv, InPlace, Goes
  <2>2. CASE dest' = Absent /\ Beside(p, side[p].new, dest) /\ dest # Absent
    <3>1. Trusted(dest) \/ InPlace
      BY <2>2 DEF UpdIInv, InstalledWhole, InPlace
    <3> QED
      BY <1>1, <2>1, <2>2, <3>1 DEF InstalledWhole, Trusted, Beside, InPlace
  <2>3. CASE dest' = side[p].new
    BY <1>1, <2>1, <2>3 DEF InstalledWhole, Trusted, Good, Siblings, Is
  <2>4. CASE UNCHANGED <<dest, side>>
    BY <1>1, <2>1, <2>4 DEF UpdIInv, InstalledWhole, Trusted, InPlace
  <2> QED
    BY <1>1, <2>2, <2>3, <2>4
<1> QED
  BY <1>1, <1>2, <1>3, <1>4, OthersStay DEF Beside

\* The new bundle or the backup moves in, or the backup stays beside its place.
LEMMA MoveInKeeps == ASSUME UpdIInv, NEW p \in Updaters, MoveIn(p) PROVE UpdIInv'
<1>1. /\ Goes(p, "end", Defers(p)) /\ stage' \subseteq Updaters
      /\ \/ dest = Absent /\ dest' = side[p].new /\ Beside(p, Absent, Absent)
         \/ dest = Absent /\ dest' = side[p].old /\ Beside(p, side[p].new, Absent)
         \/ UNCHANGED <<dest, side>>
      /\ Is(p, "in") /\ UNCHANGED <<host, release, got>>
  BY Leaving, BesideBoth, BesideOld DEF UpdIInv, MoveIn, Positions, Results, Contents
<1>2. UpdTypeOK'
  BY <1>1 DEF UpdIInv, UpdTypeOK, Goes, Runs, Beside
<1>3. Good(p)'
  BY <1>1 DEF UpdIInv, Good, Fetched, Verified, Siblings, Placed, Trusted, SoundBuild, Goes, Is, Defers, Beside
<1>4. InstalledWhole'
  BY <1>1 DEF UpdIInv, InstalledWhole, Trusted, InPlace, Goes, Beside, Good, Siblings, Is, SoundBuild
<1> QED
  BY <1>1, <1>2, <1>3, <1>4, OthersStay DEF Beside

\* Windows: handed to the helper, or copied over in place.
LEMMA CopyOverKeeps == ASSUME UpdIInv, NEW p \in Updaters, CopyOver(p) PROVE UpdIInv'
<1>1. /\ \/ Goes(p, "end", TRUE) /\ UNCHANGED <<dest, stage>>
         \/ Goes(p, "over", Defers(p)) /\ dest' = Torn /\ UNCHANGED stage
      /\ Is(p, "copy") /\ host.platform = "windows" /\ UNCHANGED <<host, release, got, side>>
  BY Advances, Moved DEF UpdIInv, CopyOver, Positions, Results
<1>2. UpdTypeOK'
  BY <1>1 DEF UpdIInv, UpdTypeOK, Goes, Runs, Contents
<1>3. Good(p)'
  BY <1>1 DEF UpdIInv, Good, Fetched, Verified, Siblings, Placed, Trusted, SoundBuild, Goes, Is, Defers
<1>4. InstalledWhole'
  BY <1>1 DEF UpdIInv, InstalledWhole, Trusted, InPlace, Goes
<1> QED
  BY <1>1, <1>2, <1>3, <1>4, OthersStay

\* The copy ends, or stops half way.
LEMMA CopiedOverKeeps == ASSUME UpdIInv, NEW p \in Updaters, CopiedOver(p) PROVE UpdIInv'
<1>1. /\ Goes(p, "end", Defers(p)) /\ stage' \subseteq Updaters
      /\ dest' \in {dest, got[p].asset}
      /\ Is(p, "over") /\ UNCHANGED <<host, release, got, side>>
  BY Leaving DEF UpdIInv, CopiedOver, Results
<1>2. UpdTypeOK'
  BY <1>1 DEF UpdIInv, UpdTypeOK, Goes, Runs, Contents
<1>3. Good(p)'
  BY <1>1 DEF UpdIInv, Good, Fetched, Verified, Siblings, Placed, Trusted, SoundBuild, Goes, Is, Defers
<1>4. InstalledWhole'
  BY <1>1 DEF UpdIInv, InstalledWhole, Trusted, InPlace, Goes, Good, Verified, Placed, Is
<1> QED
  BY <1>1, <1>2, <1>3, <1>4, OthersStay

\* The helper of a Windows update or removal.
LEMMA HelperStartsKeeps == ASSUME UpdIInv, NEW p \in Updaters, HelperStarts(p) PROVE UpdIInv'
<1>1. /\ Goes(p, "helper", Defers(p)) /\ UNCHANGED stage
      /\ dest' \in {Absent, Torn}
      /\ Is(p, "end") /\ Defers(p) /\ UNCHANGED <<host, release, got, side>>
  BY Advances DEF UpdIInv, HelperStarts, Advance, Positions
<1>2. UpdTypeOK'
  BY <1>1 DEF UpdIInv, UpdTypeOK, Goes, Runs, Contents
<1>3. Good(p)'
  BY <1>1 DEF UpdIInv, Good, Fetched, Verified, Siblings, Placed, Trusted, SoundBuild, Goes, Is, Defers
<1>4. InstalledWhole'
  BY <1>1 DEF UpdIInv, InstalledWhole, Trusted, InPlace, Goes, Good, Placed
<1> QED
  BY <1>1, <1>2, <1>3, <1>4, OthersStay

\* The helper is done, or gives up.
LEMMA HelperEndsKeeps == ASSUME UpdIInv, NEW p \in Updaters, HelperEnds(p) PROVE UpdIInv'
<1>1. /\ Goes(p, "end", FALSE) /\ stage' \subseteq Updaters
      /\ dest' = dest \/ (dest' = got[p].asset /\ run[p].errand # "remove")
      /\ Is(p, "helper") /\ UNCHANGED <<host, release, got, side>>
  BY MovedOn DEF UpdIInv, UpdTypeOK, HelperEnds, Positions
<1>2. UpdTypeOK'
  BY <1>1 DEF UpdIInv, UpdTypeOK, Goes, Runs, Contents
<1>3. Good(p)'
  BY <1>1 DEF UpdIInv, Good, Fetched, Verified, Siblings, Placed, Trusted, SoundBuild, Goes, Is, Defers
<1>4. InstalledWhole'
  BY <1>1 DEF UpdIInv, InstalledWhole, Trusted, InPlace, Goes, Good, Verified, Placed, Is
<1> QED
  BY <1>1, <1>2, <1>3, <1>4, OthersStay

\* A removal works in place.
LEMMA CmdRemoveKeeps == ASSUME UpdIInv, NEW p \in Updaters, CmdRemove(p) PROVE UpdIInv'
<1>1. /\ \/ Goes(p, "end", Defers(p)) \/ Goes(p, "unlink", Defers(p))
         \/ Goes(p, "end", TRUE) /\ host.platform = "windows"
      /\ stage' \subseteq Updaters /\ dest' \in {dest, Absent, Torn}
      /\ Is(p, "start") /\ run[p].errand = "remove" /\ UNCHANGED <<host, release, got, side>>
  BY Advances, Leaving, Moved DEF UpdIInv, UpdTypeOK, CmdRemove, Positions, Results
<1>2. UpdTypeOK'
  BY <1>1 DEF UpdIInv, UpdTypeOK, Goes, Runs, Contents
<1>3. Good(p)'
  BY <1>1 DEF UpdIInv, Good, Fetched, Verified, Siblings, Placed, Trusted, SoundBuild, Goes, Is, Defers
<1>4. InstalledWhole'
  BY <1>1 DEF UpdIInv, InstalledWhole, Trusted, InPlace, Goes
<1> QED
  BY <1>1, <1>2, <1>3, <1>4, OthersStay

\* The bundle is deleted, or half of it.
LEMMA UnlinkedKeeps == ASSUME UpdIInv, NEW p \in Updaters, Unlinked(p) PROVE UpdIInv'
<1>1. /\ Goes(p, "end", Defers(p)) /\ stage' \subseteq Updaters
      /\ dest' \in {dest, Absent}
      /\ Is(p, "unlink") /\ UNCHANGED <<host, release, got, side>>
  BY Leaving DEF UpdIInv, Unlinked, Results
<1>2. UpdTypeOK'
  BY <1>1 DEF UpdIInv, UpdTypeOK, Goes, Runs, Contents
<1>3. Good(p)'
  BY <1>1 DEF UpdIInv, Good, Fetched, Verified, Siblings, Placed, Trusted, SoundBuild, Goes, Is, Defers
<1>4. InstalledWhole'
  BY <1>1 DEF UpdIInv, InstalledWhole, Trusted, InPlace, Goes, Good, Placed, Is
<1> QED
  BY <1>1, <1>2, <1>3, <1>4, OthersStay

\* A kill leaves everything where it is.
LEMMA DiesKeeps == ASSUME UpdIInv, NEW p \in Updaters, Dies(p) PROVE UpdIInv'
<1>1. /\ Goes(p, "end", FALSE) /\ ~Is(p, "end")
      /\ UNCHANGED <<host, release, got, dest, side, stage>>
  BY Moved DEF UpdIInv, Dies, Positions, Results
<1>2. UpdTypeOK'
  BY <1>1 DEF UpdIInv, UpdTypeOK, Goes, Runs
<1>3. Good(p)'
  BY <1>1 DEF UpdIInv, Good, Fetched, Verified, Siblings, Placed, Trusted, SoundBuild, Goes, Is, Defers
<1>4. InstalledWhole'
  BY <1>1 DEF UpdIInv, InstalledWhole, Trusted, InPlace, Goes
<1> QED
  BY <1>1, <1>2, <1>3, <1>4, OthersStay

\* The next upload: what was trusted stays trusted.
LEMMA UploadKeeps == ASSUME UpdIInv, Upload PROVE UpdIInv'
<1>1. /\ release' \in [asset : {1, 2}, sum : {1, 2}, sig : {0, 1, 2}]
      /\ release.sum <= release'.sum /\ release.sig <= release'.sig
      /\ OrderInv' /\ UNCHANGED <<host, run, got, dest, side, stage>>
  BY DEF UpdIInv, UpdTypeOK, OrderInv, Upload
<1>2. UpdTypeOK'
  BY <1>1 DEF UpdIInv, UpdTypeOK
<1>3. release.sum \in {1, 2} /\ release.sig \in {0, 1, 2}
  BY DEF UpdIInv, UpdTypeOK
<1>4. ASSUME NEW b, Trusted(b) PROVE Trusted(b)'
  BY <1>1, <1>3, <1>4 DEF Trusted
<1>5. InPlace' = InPlace
  BY <1>1 DEF InPlace
<1>6. InstalledWhole'
  BY <1>1, <1>4, <1>5 DEF UpdIInv, InstalledWhole
<1>7. ASSUME NEW p \in Updaters PROVE Good(p)'
  <2>1. Good(p)
    BY DEF UpdIInv
  <2>2. Fetched(p)'
    <3>1. got[p].sum \in {0, 1, 2}
      BY DEF UpdIInv, UpdTypeOK, Builds, Old
    <3> QED
      BY <1>1, <1>3, <2>1, <3>1 DEF Good, Fetched, Is
  <2>3. Verified(p)'
    BY <1>1, <1>4, <2>1 DEF Good, Verified, Is, Defers
  <2>4. Siblings(p)'
    BY <1>1, <1>4, <1>5, <2>1 DEF Good, Siblings, SoundBuild, Is
  <2>5. Placed(p)'
    BY <1>1, <2>1 DEF Good, Placed, Is, Defers
  <2> QED
    BY <2>2, <2>3, <2>4, <2>5 DEF Good
<1> QED
  BY <1>1, <1>2, <1>6, <1>7 DEF UpdIInv

LEMMA InitIInv == UpdInit => UpdIInv
<1> SUFFICES ASSUME UpdInit PROVE UpdIInv
  OBVIOUS
<1>1. \A p \in Updaters :
         /\ run[p] \in Runs /\ run[p].pc = "start" /\ ~run[p].deferred
         /\ got[p] = [asset |-> 0, sum |-> 0] /\ side[p] = [new |-> Absent, old |-> Absent]
  <2> SUFFICES ASSUME NEW p \in Updaters
               PROVE  /\ run[p] \in Runs /\ run[p].pc = "start" /\ ~run[p].deferred
                      /\ got[p] = [asset |-> 0, sum |-> 0]
                      /\ side[p] = [new |-> Absent, old |-> Absent]
    OBVIOUS
  <2>1. run[p] \in {[errand |-> e, pc |-> "start", res |-> "none", deferred |-> FALSE]
                    : e \in Errands}
    BY DEF UpdInit
  <2>2. PICK e \in Errands :
               run[p] = [errand |-> e, pc |-> "start", res |-> "none", deferred |-> FALSE]
    BY <2>1
  <2>3. run[p] \in Runs
    BY <2>2 DEF Runs, Positions, Results
  <2> QED
    BY <2>2, <2>3 DEF UpdInit
<1>2. /\ run \in [Updaters -> Runs]
      /\ got \in [Updaters -> [asset : Builds \cup {Garbled}, sum : Builds]]
      /\ side \in [Updaters -> [new : Contents, old : Contents]]
  <2>1. [asset |-> 0, sum |-> 0] \in [asset : Builds \cup {Garbled}, sum : Builds]
    BY DEF Builds, Old
  <2>2. [new |-> Absent, old |-> Absent] \in [new : Contents, old : Contents]
    BY DEF Contents
  <2> QED
    BY <1>1, <2>1, <2>2 DEF UpdInit
<1>4. UpdTypeOK
  BY <1>2 DEF UpdInit, UpdTypeOK, Runs, Builds, Contents, Old
<1>5. release.sum = 1
  BY DEF UpdInit
<1>6. \A p \in Updaters : Good(p)
  <2> SUFFICES ASSUME NEW p \in Updaters PROVE Good(p)
    OBVIOUS
  <2>1. run[p].pc = "start" /\ ~run[p].deferred /\ got[p].sum = 0 /\ side[p].old = Absent
    BY <1>1
  <2> QED
    BY <2>1, <1>5 DEF Good, Fetched, Verified, Siblings, Placed, Is, Defers
<1>3. OrderInv /\ InstalledWhole
  BY DEF UpdInit, OrderInv, InstalledWhole, Trusted
<1> QED
  BY <1>3, <1>4, <1>6 DEF UpdIInv

LEMMA NextIInv == UpdIInv /\ [UpdNext]_updVars => UpdIInv'
<1> SUFFICES ASSUME UpdIInv, [UpdNext]_updVars PROVE UpdIInv'
  OBVIOUS
<1>1. CASE UNCHANGED updVars
  BY <1>1 DEF updVars, UpdIInv, UpdTypeOK, OrderInv, InstalledWhole, InPlace, Good, Fetched,
              Verified, Siblings, Placed, SoundBuild, Trusted, Is, Defers
<1>2. ASSUME NEW p \in Updaters,
             \/ Prepare(p) \/ FetchAsset(p) \/ FetchSum(p) \/ Verify(p)
             \/ CopyAside(p) \/ RenameBinary(p) \/ MoveAside(p) \/ MoveIn(p)
             \/ CopyOver(p) \/ CopiedOver(p) \/ HelperStarts(p) \/ HelperEnds(p)
             \/ CmdRemove(p) \/ Unlinked(p) \/ Dies(p)
      PROVE  UpdIInv'
  BY <1>2, PrepareKeeps, FetchAssetKeeps, FetchSumKeeps, VerifyKeeps, CopyAsideKeeps,
     RenameBinaryKeeps, MoveAsideKeeps, MoveInKeeps, CopyOverKeeps, CopiedOverKeeps,
     HelperStartsKeeps, HelperEndsKeeps, CmdRemoveKeeps, UnlinkedKeeps, DiesKeeps
<1> QED
  BY <1>1, <1>2, UploadKeeps DEF UpdNext

-----------------------------------------------------------------------------
(* The theorems.                                                           *)

\* Every variable of the updaters keeps its type.
THEOREM UpdTypeCorrect == UpdSpec => []UpdTypeOK
<1>1. UpdIInv => UpdTypeOK
  BY DEF UpdIInv
<1> QED
  BY <1>1, InitIInv, NextIInv, PTL DEF UpdSpec

\* However many updates and removals run at once, whenever they are killed and
\* whatever is uploaded meanwhile, the installed path holds a whole build this
\* machine trusts, with the exceptions InstalledWhole names.
THEOREM InstalledStaysWhole == UpdSpec => []InstalledWhole
<1>1. UpdIInv => InstalledWhole
  BY DEF UpdIInv
<1> QED
  BY <1>1, InitIInv, NextIInv, PTL DEF UpdSpec
=============================================================================
